------------------------- MODULE ErpPosting_proofs -------------------------
(***************************************************************************)
(* Proofs about ErpPosting, for any number of people, drains and decision  *)
(* keys, any adapter, and any bounds.                                      *)
(***************************************************************************)
EXTENDS ErpPosting, FiniteSetTheorems, TLAPS

-----------------------------------------------------------------------------
(* The inductive invariant.                                                *)

\* Where approve_invoice can be and resume_workflow cannot.
ApprovePCs == {"lock", "append", "walk", "reread", "route", "snapshot",
               "approved", "failed"}

\* What a worker runs fits the place it is at, and a drain starts each
\* attempt without a result.
PlacesFit ==
  /\ \A w \in Workers : pc[w] \in ApprovePCs => call[w] = "approve"
  /\ \A d \in Drains : /\ call[d] = "resume"
                       /\ pc[d] = "resume" => result[d] = "none"

\* A worker that walks does so from a state it read, and one in the middle
\* of a write of the item is at a place that asks for a state.
UpdatesFit ==
  \A w \in Workers :
    /\ pc[w] \in {"walk", "reread"} => seen[w] \in DOMAIN WalkTo
    /\ update[w] # "none" => pc[w] \in Asking
    /\ update[w] = "columns" => NamesBill(w)

\* The holder of the lock is inside _post_to_erp.
LockFits == \A w \in Workers : lock = w => pc[w] \in Locked

\* The workers that are there without the lock: each has paid with a slip.
Unguarded == {w \in Workers : pc[w] \in Locked /\ lock # w}

UnguardedFits == IsFiniteSet(Unguarded) /\ Cardinality(Unguarded) <= slips

\* The workers that have found no bill and are about to make one.
Creating == {w \in Workers : pc[w] = "create"}

\* The slips pay for every bill beyond the first, those that are about to be
\* made included.
LookupFits == LooksUp => Len(bills) + Cardinality(Creating) <= 1 + slips

\* References name bills that exist.
BillsFit ==
  /\ item.ref \in 0..Len(bills)
  /\ \A w \in Workers :
       /\ got[w] \in 0..Len(bills)
       /\ (pc[w] = "reply" \/ result[w] = "success") => got[w] # 0

Done(s) == s \in {"posted_to_erp", "closed"}

\* The item names its bill, and is posted or was written over.
Posted == item.ref # 0 /\ (Done(item.state) \/ overtaken)

\* A success is on record.
Claimed == job.status = "completed" \/ \E k \in Keys : decision[k] = "approved"

\* Whoever is past a successful post left the item posted, and whoever writes
\* only the bill of a post saw it posted.
PostedFits ==
  /\ Done(item.state) => item.ref # 0
  /\ \A w \in Workers :
       /\ \/ pc[w] \in {"approved", "close"}
          \/ pc[w] = "job" /\ result[w] = "success"
          => Posted
       /\ update[w] = "columns" => Done(item.state) \/ overtaken
  /\ Claimed => Posted

IInv == /\ TypeOK /\ PlacesFit /\ UpdatesFit /\ LockFits
        /\ UnguardedFits /\ LookupFits /\ BillsFit /\ PostedFits

-----------------------------------------------------------------------------
(* Lemmas about the operators.                                             *)

\* Every request a worker sends carries a known key.
LEMMA KeyType ==
  ASSUME TypeOK, PlacesFit, NEW w \in Workers
  PROVE  Key(w) \in PostKeys
BY KeysAssumption DEF TypeOK, PlacesFit, Key, PostKeys, Workers

\* A create request leaves the bills alone or adds one at the end; the ERP
\* leaves them alone only when it replays the answer to a known key.
LEMMA WithBillType ==
  ASSUME bills \in Seq(PostKeys), NEW k \in PostKeys
  PROVE  /\ WithBill(k) \in Seq(PostKeys)
         /\ \/ WithBill(k) = bills /\ \E i \in 1..Len(bills) : bills[i] = k
            \/ WithBill(k) # bills /\ Len(WithBill(k)) = Len(bills) + 1
<1>1. Append(bills, k) \in Seq(PostKeys) /\ Len(Append(bills, k)) = Len(bills) + 1
  OBVIOUS
<1>2. Append(bills, k) # bills
  BY <1>1
<1> QED
  BY <1>1, <1>2 DEF WithBill

\* The graph leads from a posted item to no state the calls here write, but
\* for closed.
LEMMA PostedIsFinal ==
  ASSUME NEW s, Done(s),
         NEW t \in {"validated", "needs_approval", "approved", "ready_to_post",
                    "failed_post", "rejected"}
  PROVE  ~Legal(s, t) /\ s # t
BY DEF Legal, ValidTransitions, APState, Done

\* A step of a write of the item, by a call.
Asks(w) == Request(w) \/ Validate(w) \/ Write(w)

\* What a call asks for and where it goes on from there.
LEMMA AskingFits ==
  ASSUME PlacesFit, UpdatesFit, NEW w \in Workers, pc[w] \in Asking
  PROVE  /\ Target(w) \in {"validated", "needs_approval", "approved", "ready_to_post",
                           "failed_post", "posted_to_erp", "closed"}
         /\ NamesBill(w) <=> Target(w) = "posted_to_erp"
         /\ Target(w) = "closed" => pc[w] = "close"
         /\ After(w) \in {"reread", "snapshot", "post", "approved", "failed", "close",
                          "job", "done"}
         /\ After(w) \in ApprovePCs => call[w] = "approve"
         /\ After(w) = "reread" => pc[w] = "walk"
         /\ After(w) = "job" => w \in Drains
         /\ After(w) \in {"approved", "close"} => NamesBill(w)
         /\ After(w) = "job" /\ result[w] = "success" => pc[w] = "close"
<1>1. CASE pc[w] = "walk"
  <2>1. WalkTo[seen[w]] \in {"validated", "needs_approval", "approved"}
    BY <1>1 DEF UpdatesFit, WalkTo
  <2>2. Target(w) = WalkTo[seen[w]] /\ After(w) = "reread" /\ call[w] = "approve"
    BY <1>1 DEF Target, After, PlacesFit, ApprovePCs
  <2> QED
    BY <1>1, <2>1, <2>2 DEF NamesBill
<1>2. CASE pc[w] = "route"
  BY <1>2 DEF Target, After, NamesBill, PlacesFit, ApprovePCs
<1>3. CASE pc[w] = "reopen"
  BY <1>3 DEF Target, After, NamesBill, ApprovePCs
<1>4. CASE pc[w] = "settle"
  BY <1>4 DEF Target, After, NamesBill, Won, Over, ApprovePCs
<1>5. CASE pc[w] = "close"
  BY <1>5 DEF Target, After, NamesBill, Over, ApprovePCs
<1> QED
  BY <1>1, <1>2, <1>3, <1>4, <1>5 DEF Asking

\* A step of a write leaves the call where it is, takes it on, or raises.
LEMMA AskMoves ==
  ASSUME TypeOK, UpdatesFit, NEW w \in Workers, Asks(w)
  PROVE  /\ pc[w] \in Asking
         /\ \E p \in {pc[w], After(w), "raised"} : pc' = [pc EXCEPT ![w] = p]
         /\ \E u \in {"none", "check", "columns", "state"} :
               update' = [update EXCEPT ![w] = u]
         /\ UNCHANGED <<amend, bills, wire, slips, lock, keylock, decision, job, call,
                        seen, result, got, events>>
<1> USE DEF erp, decisions, TypeOK
<1>1. pc = [pc EXCEPT ![w] = pc[w]] /\ update = [update EXCEPT ![w] = update[w]]
  OBVIOUS
<1>2. CASE Request(w)
  BY <1>1, <1>2 DEF Request, Update, Goto
<1>3. CASE Validate(w)
  BY <1>1, <1>3 DEF Validate, Update, Goto, UpdatesFit
<1>4. CASE Write(w)
  BY <1>1, <1>4 DEF Write, Update, Goto, UpdatesFit
<1> QED
  BY <1>2, <1>3, <1>4 DEF Asks

\* Only the two UPDATEs change the item.
LEMMA OnlyUpdatesWrite ==
  ASSUME [Next]_vars
  PROVE  \/ UNCHANGED <<item, overtaken>>
         \/ \E w \in Workers : Write(w)
         \/ \E o \in Others : Amend(o)
<1> USE DEF row
<1>1. ASSUME NEW w \in Workers,
             Click(w) \/ LockKey(w) \/ AppendKey(w) \/ Reread(w) \/ Snapshot(w)
             \/ Claim(w) \/ ResumeByHand(w) \/ Resume(w) \/ Acquire(w) \/ AcquireFails(w)
             \/ CheckState(w) \/ Recheck(w) \/ Find(w) \/ FindFails(w) \/ Create(w)
      PROVE  UNCHANGED <<item, overtaken>>
  BY <1>1 DEF Click, LockKey, AppendKey, Reread, Snapshot, Claim, ResumeByHand, Resume,
              Acquire, AcquireFails, CheckState, Recheck, Find, FindFails, Create
<1>2. ASSUME NEW w \in Workers,
             Refuse(w) \/ GiveUp(w) \/ Reply(w) \/ LoseReply(w) \/ Unlock(w)
             \/ RecordApproved(w) \/ RecordFailed(w) \/ EndJob(w) \/ Land(w)
             \/ CancelResume(w) \/ Crash(w) \/ Request(w) \/ Validate(w)
      PROVE  UNCHANGED <<item, overtaken>>
  BY <1>2 DEF Refuse, GiveUp, Reply, LoseReply, Unlock, RecordApproved, RecordFailed,
              EndJob, Land, CancelResume, Crash, Request, Validate
<1>3. ASSUME NEW o \in Others, Revert(o) \/ Reject(o) PROVE UNCHANGED <<item, overtaken>>
  BY <1>3 DEF Revert, Reject
<1>4. CASE UNCHANGED vars
  BY <1>4 DEF vars
<1> QED
  BY <1>1, <1>2, <1>3, <1>4 DEF Next, Step

-----------------------------------------------------------------------------
(* IInv holds initially.                                                   *)

\* The initial states satisfy the invariant.
LEMMA InitIInv == Init => IInv
<1> SUFFICES ASSUME Init PROVE IInv
  OBVIOUS
<1> USE WorkersAssumption, PostingStatesAssumption DEF Init
<1>1. TypeOK
  <2>1. item \in [state : APState, ref : Nat] /\ bills \in Seq(PostKeys)
    <3>1. InitStates \subseteq APState
      BY DEF APState
    <3>2. PICK s \in InitStates : item = [state |-> s, ref |-> 0]
      BY Zenon
    <3>3. item \in [state : APState, ref : Nat]
      BY <3>1, <3>2
    <3>4. <<>> \in Seq(PostKeys)
      OBVIOUS
    <3> QED
      BY <3>3, <3>4
  <2>2. /\ wire \subseteq Workers /\ slips \in Nat /\ lock \in Workers \cup {NoWorker}
        /\ keylock \subseteq Keys /\ events \in Nat /\ got \in [Workers -> Nat]
    OBVIOUS
  <2>3. /\ decision \in [Keys -> {"none", "processing", "approved", "failed"}]
        /\ job \in [status : {"none", "pending", "running", "completed",
                               "dead_letter"}, claims : Nat]
        /\ call \in [Workers -> {"none", "approve", "resume"}]
    OBVIOUS
  <2>5. /\ update \in [Workers -> {"none", "check", "columns", "state"}]
        /\ amend \in [Others -> {"none", "needs_approval", "rejected"}]
        /\ overtaken \in BOOLEAN
    OBVIOUS
  <2>4. /\ pc \in [Workers -> PCs] /\ result \in [Workers -> Results]
        /\ seen \in [Workers -> APState \cup {"none"}]
    BY DEF PCs, Results
  <2> QED
    BY <2>1, <2>2, <2>3, <2>4, <2>5 DEF TypeOK
<1>2. PlacesFit /\ UpdatesFit /\ LockFits
  BY DEF PlacesFit, UpdatesFit, ApprovePCs, LockFits, Locked, Workers
<1>3. UnguardedFits /\ LookupFits
  <2>1. Unguarded = {} /\ Creating = {}
    BY DEF Unguarded, Creating, Locked
  <2> QED
    BY <2>1, FS_EmptySet DEF UnguardedFits, LookupFits
<1>5. BillsFit
  BY DEF BillsFit
<1>4. PostedFits
  <2>1. ~Claimed
    BY DEF Claimed
  <2>2. ~Done(item.state) /\ \A w \in Workers : update[w] = "none" /\ pc[w] = "idle"
    BY DEF Done
  <2> QED
    BY <2>1, <2>2 DEF PostedFits
<1> QED
  BY <1>1, <1>2, <1>3, <1>4, <1>5 DEF IInv

-----------------------------------------------------------------------------
(* TypeOK.                                                                 *)

\* Every step keeps the types.
LEMMA TypeStep == IInv /\ [Next]_vars => TypeOK'
<1> SUFFICES ASSUME IInv, [Next]_vars PROVE TypeOK'
  OBVIOUS
<1>a. TypeOK /\ PlacesFit /\ UpdatesFit
  BY DEF IInv
<1> USE DEF row, Forget, Happens, Slip, Results
<1>1. ASSUME NEW w \in Workers, Click(w) PROVE TypeOK'
  BY <1>a, <1>1 DEF Click, Goto, TypeOK, PCs, erp, decisions
<1>2. ASSUME NEW w \in Workers, LockKey(w) PROVE TypeOK'
  BY <1>a, <1>2 DEF LockKey, Goto, TypeOK, PCs, erp, decisions
<1>4. ASSUME NEW w \in Workers, Request(w) \/ Validate(w) PROVE TypeOK'
  <2>1. After(w) \in PCs /\ "raised" \in PCs /\ pc[w] \in PCs
    BY <1>a, <1>4, AskMoves, AskingFits DEF Asks, PCs, TypeOK
  <2>2. UNCHANGED <<item, overtaken>>
    BY <1>4 DEF Request, Validate
  <2>4. PICK p \in {pc[w], After(w), "raised"} : pc' = [pc EXCEPT ![w] = p]
    BY <1>a, <1>4, AskMoves DEF Asks
  <2>5. PICK u \in {"none", "check", "columns", "state"} :
          update' = [update EXCEPT ![w] = u]
    BY <1>a, <1>4, AskMoves DEF Asks
  <2>3. pc' \in [Workers -> PCs]
        /\ update' \in [Workers -> {"none", "check", "columns", "state"}]
    <3>1. p \in PCs
      BY <2>1, <2>4
    <3> QED
      BY <1>a, <2>4, <2>5, <3>1 DEF TypeOK
  <2> QED
    BY <1>a, <1>4, <2>2, <2>3, AskMoves DEF Asks, TypeOK
<1>6. ASSUME NEW w \in Workers, Write(w) PROVE TypeOK'
  <2>1. After(w) \in PCs /\ Target(w) \in APState
    BY <1>a, <1>6, AskMoves, AskingFits DEF Asks, PCs, APState
  <2>2. PICK t \in APState :
          /\ item' = [state |-> t, ref |-> IF NamesBill(w) THEN got[w] ELSE item.ref]
          /\ overtaken' = (overtaken \/ Overtakes(t))
    BY <1>a, <1>6, <2>1 DEF Write, TypeOK
  <2>3. item' \in [state : APState, ref : Nat] /\ overtaken' \in BOOLEAN
    BY <1>a, <2>2 DEF TypeOK, Overtakes
  <2>4. pc' \in [Workers -> PCs]
        /\ update' \in [Workers -> {"none", "check", "columns", "state"}]
    BY <1>a, <1>6, <2>1 DEF Write, Goto, Update, TypeOK
  <2> QED
    BY <1>a, <1>6, <2>3, <2>4, AskMoves DEF Asks, TypeOK
<1>3. ASSUME NEW w \in Workers, AppendKey(w) PROVE TypeOK'
  <2>1. KeyOf[w] \in Keys
    BY <1>a, <1>3, KeysAssumption DEF AppendKey, TypeOK, PlacesFit, ApprovePCs, Workers
  <2> QED
    BY <1>a, <1>3, <2>1 DEF AppendKey, Onwards, Goto, TypeOK, PCs, erp
<1>5. ASSUME NEW w \in Workers, Reread(w) PROVE TypeOK'
  BY <1>a, <1>5 DEF Reread, Onwards, Goto, TypeOK, PCs, erp, decisions
<1>7. ASSUME NEW w \in Workers, Snapshot(w) PROVE TypeOK'
  BY <1>a, <1>7 DEF Snapshot, Goto, TypeOK, PCs, erp
<1>8. ASSUME NEW w \in Workers, Claim(w) PROVE TypeOK'
  BY <1>a, <1>8 DEF Claim, Goto, TypeOK, PCs, Results, erp, decisions
<1>9. ASSUME NEW w \in Workers, ResumeByHand(w) PROVE TypeOK'
  BY <1>a, <1>9 DEF ResumeByHand, Goto, TypeOK, PCs, erp, decisions
<1>10. ASSUME NEW w \in Workers, Resume(w) PROVE TypeOK'
  <2>1. \E p \in {"reopen", "post", "job", "done"} : pc' = [pc EXCEPT ![w] = p]
    BY <1>10 DEF Resume, Over, Goto
  <2>2. pc' \in [Workers -> PCs]
    BY <1>a, <2>1 DEF TypeOK, PCs
  <2> QED
    BY <1>a, <1>10, <2>2 DEF Resume, TypeOK, erp, decisions
<1>11. ASSUME NEW w \in Workers, Acquire(w) PROVE TypeOK'
  <2>1. /\ \E p \in {"check", "settle"} : pc' = [pc EXCEPT ![w] = p]
        /\ result' = result \/ result' = [result EXCEPT ![w] = "failed"]
        /\ lock' \in {w, lock}
    BY <1>11 DEF Acquire, Answer, Goto
  <2>2. pc' \in [Workers -> PCs]
    BY <1>a, <2>1 DEF TypeOK, PCs
  <2>5. result' \in [Workers -> Results]
    BY <1>a, <2>1 DEF TypeOK
  <2>3. UNCHANGED <<row, erp, decisions, job, call, seen, got, events>>
    BY <1>11 DEF Acquire
  <2>4. lock' \in Workers \cup {NoWorker}
    BY <1>a, <2>1 DEF TypeOK
  <2> QED
    BY <1>a, <2>2, <2>3, <2>4, <2>5 DEF TypeOK, erp, decisions
<1>12. ASSUME NEW w \in Workers, CheckState(w) \/ Recheck(w) \/ Find(w)
       PROVE  TypeOK'
  <2>1. \E p \in PCs, r \in Results :
          pc' = [pc EXCEPT ![w] = p] /\ result' = [result EXCEPT ![w] = r]
    <3>1. result = [result EXCEPT ![w] = result[w]] /\ result[w] \in Results
      BY <1>a DEF TypeOK
    <3> QED
      BY <1>12, <3>1 DEF CheckState, Recheck, Find, Answer, Goto, PCs, Results
  <2>2. UNCHANGED <<row, erp, lock, decisions, job, call, seen, got, events>>
    BY <1>12 DEF CheckState, Recheck, Find
  <2>3. pc' \in [Workers -> PCs] /\ result' \in [Workers -> Results]
    BY <1>a, <2>1 DEF TypeOK
  <2> QED
    BY <1>a, <2>2, <2>3 DEF TypeOK, erp, decisions
<1>13. ASSUME NEW w \in Workers, FindFails(w) PROVE TypeOK'
  BY <1>a, <1>13 DEF FindFails, Goto, TypeOK, PCs, decisions
<1>28. ASSUME NEW w \in Workers, AcquireFails(w) PROVE TypeOK'
  BY <1>a, <1>28 DEF AcquireFails, Goto, TypeOK, PCs, decisions
<1>14. ASSUME NEW w \in Workers, Create(w) PROVE TypeOK'
  <2>1. bills' = WithBill(Key(w)) /\ bills' \in Seq(PostKeys) /\ Len(bills') \in Nat
    BY <1>a, <1>14, KeyType, WithBillType DEF Create, TypeOK
  <2>2. bills' = bills => \E i \in 1..Len(bills) : bills[i] = Key(w)
    BY <1>a, <2>1, KeyType, WithBillType DEF TypeOK
  <2>3. bills' = bills => (CHOOSE i \in 1..Len(bills) : bills[i] = Key(w)) \in Nat
    BY <2>2
  <2>4. got' \in [Workers -> Nat]
    BY <1>a, <1>14, <2>1, <2>3 DEF Create, TypeOK
  <2> QED
    BY <1>a, <1>14, <2>1, <2>4 DEF Create, Goto, TypeOK, PCs, decisions
<1>15. ASSUME NEW w \in Workers, Reply(w) \/ LoseReply(w) \/ Refuse(w) PROVE TypeOK'
  <2>1. /\ pc' \in [Workers -> PCs] /\ result' \in [Workers -> Results]
        /\ got' \in [Workers -> Nat]
    <3>1. \E r \in {"success", "failed", "unavailable"} :
            result' = [result EXCEPT ![w] = r]
      BY <1>15 DEF Reply, LoseReply, Refuse, Answer
    <3>2. result' \in [Workers -> Results]
      BY <1>a, <3>1 DEF TypeOK, Results
    <3>3. pc' \in [Workers -> PCs]
      <4>1. pc' = [pc EXCEPT ![w] = "unlock"]
        BY <1>15 DEF Reply, LoseReply, Refuse, Answer, Goto
      <4> QED
        BY <1>a, <4>1 DEF TypeOK, PCs
    <3>4. got' = got \/ got' = [got EXCEPT ![w] = 0]
      BY <1>15 DEF Reply, LoseReply, Refuse
    <3>5. got' \in [Workers -> Nat]
      BY <1>a, <3>4 DEF TypeOK
    <3> QED
      BY <3>2, <3>3, <3>5
  <2>2. UNCHANGED <<row, erp, lock, decisions, job, call, seen, events>>
    BY <1>15 DEF Reply, LoseReply, Refuse
  <2> QED
    BY <1>a, <2>1, <2>2 DEF TypeOK, erp, decisions
<1>16. ASSUME NEW w \in Workers, GiveUp(w) PROVE TypeOK'
  BY <1>a, <1>16 DEF GiveUp, Answer, Goto, TypeOK, PCs, Results, decisions
<1>17. ASSUME NEW w \in Workers, Land(w) PROVE TypeOK'
  <2>1. bills' \in Seq(PostKeys)
    BY <1>a, <1>17, KeyType, WithBillType DEF Land, TypeOK
  <2> QED
    BY <1>a, <1>17, <2>1 DEF Land, TypeOK, decisions
<1>18. ASSUME NEW w \in Workers, Unlock(w) PROVE TypeOK'
  BY <1>a, <1>18 DEF Unlock, Goto, TypeOK, PCs, erp, decisions
<1>20. ASSUME NEW w \in Workers, RecordApproved(w) PROVE TypeOK'
  BY <1>a, <1>20 DEF RecordApproved, Goto, TypeOK, PCs, erp
<1>21. ASSUME NEW w \in Workers, RecordFailed(w) PROVE TypeOK'
  BY <1>a, <1>21 DEF RecordFailed, Goto, TypeOK, PCs, erp
<1>23. ASSUME NEW w \in Workers, EndJob(w) PROVE TypeOK'
  BY <1>a, <1>23 DEF EndJob, JobOutcome, Won, Goto, TypeOK, PCs, erp, decisions
<1>24. ASSUME NEW w \in Workers, CancelResume(w) PROVE TypeOK'
  BY <1>a, <1>24 DEF CancelResume, Abandon, Goto, TypeOK, PCs, decisions
<1>25. ASSUME NEW w \in Workers, Crash(w) PROVE TypeOK'
  BY <1>a, <1>25 DEF Crash, Update, Abandon, Rest, Goto, TypeOK, PCs, decisions
<1>26. ASSUME NEW o \in Others, Revert(o) \/ Reject(o) PROVE TypeOK'
  <2>1. /\ \E t \in {"needs_approval", "rejected"} : amend' = [amend EXCEPT ![o] = t]
        /\ events' = events + 1
    BY <1>26 DEF Revert, Reject
  <2>2. UNCHANGED <<item, update, overtaken, erp, lock, decisions, job, pc, call, seen,
                    result, got>>
    BY <1>26 DEF Revert, Reject
  <2>3. amend' \in [Others -> {"none", "needs_approval", "rejected"}]
    BY <1>a, <2>1 DEF TypeOK
  <2> QED
    BY <1>a, <2>1, <2>2, <2>3 DEF TypeOK, erp, decisions
<1>29. ASSUME NEW o \in Others, Amend(o) PROVE TypeOK'
  <2>1. item' \in [state : APState, ref : Nat]
    BY <1>a, <1>29 DEF Amend, TypeOK, APState
  <2> QED
    BY <1>a, <1>29, <2>1 DEF Amend, Overtakes, TypeOK, erp, decisions
<1>27. CASE UNCHANGED vars
  BY <1>a, <1>27 DEF vars, TypeOK
<1> QED
  BY <1>1, <1>2, <1>3, <1>4, <1>5, <1>6, <1>7, <1>8, <1>9, <1>10, <1>11, <1>12,
     <1>13, <1>14, <1>15, <1>16, <1>17, <1>18, <1>20, <1>21,
     <1>23, <1>24, <1>25, <1>26, <1>27, <1>28, <1>29 DEF Next, Step

-----------------------------------------------------------------------------
(* PlacesFit.                                                              *)

\* No step takes a worker where its call cannot be.
LEMMA PlacesStep == IInv /\ [Next]_vars => PlacesFit'
<1> SUFFICES ASSUME IInv, [Next]_vars PROVE PlacesFit'
  OBVIOUS
<1>a. TypeOK /\ PlacesFit /\ UpdatesFit
  BY DEF IInv
<1> USE DEF ApprovePCs
\* A worker moves inside approve_invoice, or out of it, or to a place that
\* both calls share.
<1>1. ASSUME NEW w \in Workers, NEW p, pc' = [pc EXCEPT ![w] = p],
             p \in ApprovePCs => call[w] = "approve", p # "resume",
             call' = call, \A d \in Workers \ {w} : result'[d] = result[d]
      PROVE  PlacesFit'
  BY <1>a, <1>1 DEF TypeOK, PlacesFit, Workers
<1>2. ASSUME NEW w \in Workers, Click(w) PROVE PlacesFit'
  BY <1>a, <1>2, WorkersAssumption DEF Click, Goto, TypeOK, PlacesFit, Workers
<1>3. ASSUME NEW w \in Workers,
             LockKey(w) \/ AppendKey(w) \/ Reread(w)
      PROVE  PlacesFit'
  <2>1. call[w] = "approve" /\ call' = call /\ result' = result
    BY <1>a, <1>3 DEF LockKey, AppendKey, Reread, PlacesFit
  <2>2. \E p : p # "resume" /\ pc' = [pc EXCEPT ![w] = p]
    BY <1>3 DEF LockKey, AppendKey, Reread, Onwards, Goto
  <2> QED
    BY <1>1, <2>1, <2>2
<1>4. ASSUME NEW w \in Workers,
             Snapshot(w) \/ Create(w) \/ FindFails(w) \/ AcquireFails(w) \/ Unlock(w)
      PROVE  PlacesFit'
  <2>1. call' = call /\ result' = result
    BY <1>4 DEF Snapshot, Create, FindFails, AcquireFails, Unlock
  <2>2. \E p : p \notin ApprovePCs \cup {"resume"} /\ pc' = [pc EXCEPT ![w] = p]
    BY <1>4 DEF Snapshot, Create, FindFails, AcquireFails, Unlock, Goto
  <2> QED
    BY <1>1, <2>1, <2>2
<1>13. ASSUME NEW w \in Workers,
              RecordApproved(w) \/ RecordFailed(w) \/ EndJob(w) \/ CancelResume(w)
              \/ Crash(w)
       PROVE  PlacesFit'
  <2>1. call' = call /\ result' = [result EXCEPT ![w] = "none"]
    BY <1>13 DEF RecordApproved, RecordFailed, EndJob, CancelResume, Crash, Forget
  <2>2. \E p : p \notin ApprovePCs \cup {"resume"} /\ pc' = [pc EXCEPT ![w] = p]
    BY <1>13 DEF RecordApproved, RecordFailed, EndJob, CancelResume, Crash, Goto, Rest
  <2>3. \A d \in Workers \ {w} : result'[d] = result[d]
    BY <1>a, <2>1 DEF TypeOK
  <2> QED
    BY <1>1, <2>1, <2>2, <2>3
<1>5. ASSUME NEW w \in Workers,
             Acquire(w) \/ CheckState(w) \/ Recheck(w) \/ Find(w)
             \/ Reply(w) \/ LoseReply(w) \/ Refuse(w) \/ GiveUp(w)
      PROVE  PlacesFit'
  <2>1. call' = call /\ (result' = result \/ \E r : result' = [result EXCEPT ![w] = r])
    BY <1>5 DEF Acquire, CheckState, Recheck, Find, Reply, LoseReply, Refuse, GiveUp, Answer
  <2>2. \E p : p \notin ApprovePCs \cup {"resume"} /\ pc' = [pc EXCEPT ![w] = p]
    BY <1>5 DEF Acquire, CheckState, Recheck, Find, Reply, LoseReply, Refuse, GiveUp,
                Answer, Goto
  <2>3. \A d \in Workers \ {w} : result'[d] = result[d]
    BY <1>a, <2>1 DEF TypeOK
  <2> QED
    BY <1>1, <2>1, <2>2, <2>3
<1>6. ASSUME NEW w \in Workers, Claim(w) PROVE PlacesFit'
  BY <1>a, <1>6, WorkersAssumption DEF Claim, Goto, TypeOK, PlacesFit, Workers
<1>7. ASSUME NEW w \in Workers, ResumeByHand(w) PROVE PlacesFit'
  BY <1>a, <1>7, WorkersAssumption DEF ResumeByHand, Goto, TypeOK, PlacesFit, Workers
<1>8. ASSUME NEW w \in Workers, Resume(w) PROVE PlacesFit'
  <2>1. call' = call /\ result' = result
        /\ (\/ pc' = [pc EXCEPT ![w] = "reopen"] \/ pc' = [pc EXCEPT ![w] = "post"]
            \/ pc' = [pc EXCEPT ![w] = "job"] \/ pc' = [pc EXCEPT ![w] = "done"])
    BY <1>8 DEF Resume, Over, Goto
  <2> QED
    BY <1>1, <2>1
<1>9. ASSUME NEW w \in Workers, Asks(w) PROVE PlacesFit'
  <2>1. /\ pc[w] \in Asking /\ call' = call /\ result' = result
        /\ \E p \in {pc[w], After(w), "raised"} : pc' = [pc EXCEPT ![w] = p]
    BY <1>a, <1>9, AskMoves
  <2>2. PICK p \in {pc[w], After(w), "raised"} : pc' = [pc EXCEPT ![w] = p]
    BY <2>1
  <2>3. p # "resume" /\ (p \in ApprovePCs => call[w] = "approve")
    BY <1>a, <2>1, <2>2, AskingFits DEF Asking, PlacesFit
  <2> QED
    BY <1>1, <2>1, <2>2, <2>3
<1>10. ASSUME NEW w \in Workers, Land(w) PROVE PlacesFit'
  BY <1>a, <1>10 DEF Land, PlacesFit
<1>12. ASSUME \/ \E o \in Others : Revert(o) \/ Reject(o) \/ Amend(o)
              \/ UNCHANGED vars
       PROVE  PlacesFit'
  BY <1>a, <1>12 DEF Revert, Reject, Amend, vars, PlacesFit
<1> QED
  BY <1>2, <1>3, <1>4, <1>5, <1>6, <1>7, <1>8, <1>9, <1>10, <1>12, <1>13
     DEF Next, Step, Asks

-----------------------------------------------------------------------------
(* UpdatesFit.                                                             *)

\* No step takes a worker out of a write but the write itself and a crash.
LEMMA UpdatesStep == IInv /\ [Next]_vars => UpdatesFit'
<1> SUFFICES ASSUME IInv, [Next]_vars PROVE UpdatesFit'
  OBVIOUS
<1>a. TypeOK /\ PlacesFit /\ UpdatesFit
  BY DEF IInv
<1> USE DEF row
\* A worker outside of a write goes on outside of one, or comes to one.
<1>1. ASSUME NEW w \in Workers, pc[w] \notin Asking, NEW p,
             pc' = [pc EXCEPT ![w] = p], UNCHANGED <<update, seen>>,
             p \notin {"walk", "reread"},
             \A v \in Workers \ {w} : result'[v] = result[v]
      PROVE  UpdatesFit'
  <2>1. update[w] = "none"
    BY <1>a, <1>1 DEF UpdatesFit, TypeOK
  <2> QED
    BY <1>a, <1>1, <2>1 DEF UpdatesFit, TypeOK, NamesBill, Won
<1>2. ASSUME NEW w \in Workers, Click(w) PROVE UpdatesFit'
  BY <1>a, <1>2 DEF Click, Goto, UpdatesFit, TypeOK, Asking, NamesBill, Won
<1>3. ASSUME NEW w \in Workers,
             LockKey(w) \/ Snapshot(w) \/ ResumeByHand(w) \/ Resume(w)
             \/ FindFails(w) \/ AcquireFails(w) \/ Create(w) \/ Unlock(w)
      PROVE  UpdatesFit'
  <2>1. UNCHANGED <<update, seen, result>> /\ pc[w] \notin Asking
    BY <1>3 DEF LockKey, Snapshot, ResumeByHand, Resume, FindFails, AcquireFails,
                Create, Unlock, Asking
  <2>2. \E p : p \notin {"walk", "reread"} /\ pc' = [pc EXCEPT ![w] = p]
    BY <1>3 DEF LockKey, Snapshot, ResumeByHand, Resume, FindFails, AcquireFails,
                Create, Unlock, Over, Goto
  <2> QED
    BY <1>1, <2>1, <2>2
<1>4. ASSUME NEW w \in Workers,
             Acquire(w) \/ CheckState(w) \/ Recheck(w) \/ Find(w) \/ Reply(w)
             \/ LoseReply(w) \/ Refuse(w) \/ GiveUp(w)
      PROVE  UpdatesFit'
  <2>1. /\ UNCHANGED <<update, seen>> /\ pc[w] \notin Asking
        /\ result' = result \/ \E r : result' = [result EXCEPT ![w] = r]
    BY <1>4 DEF Acquire, CheckState, Recheck, Find, Reply, LoseReply, Refuse, GiveUp,
                Answer, Asking
  <2>2. \E p : p \notin {"walk", "reread"} /\ pc' = [pc EXCEPT ![w] = p]
    BY <1>4 DEF Acquire, CheckState, Recheck, Find, Reply, LoseReply, Refuse, GiveUp,
                Answer, Goto
  <2>3. \A v \in Workers \ {w} : result'[v] = result[v]
    BY <1>a, <2>1 DEF TypeOK
  <2> QED
    BY <1>1, <2>1, <2>2, <2>3
<1>5. ASSUME NEW w \in Workers,
             Claim(w) \/ RecordApproved(w) \/ RecordFailed(w) \/ EndJob(w)
             \/ CancelResume(w)
      PROVE  UpdatesFit'
  <2>1. /\ UNCHANGED <<update, seen>> /\ pc[w] \notin Asking
        /\ result' = [result EXCEPT ![w] = "none"]
    BY <1>5 DEF Claim, RecordApproved, RecordFailed, EndJob, CancelResume, Forget, Asking
  <2>2. \E p : p \notin {"walk", "reread"} /\ pc' = [pc EXCEPT ![w] = p]
    BY <1>5 DEF Claim, RecordApproved, RecordFailed, EndJob, CancelResume, Goto
  <2>3. \A v \in Workers \ {w} : result'[v] = result[v]
    BY <1>a, <2>1 DEF TypeOK
  <2> QED
    BY <1>1, <2>1, <2>2, <2>3
<1>6. ASSUME NEW w \in Workers, AppendKey(w) PROVE UpdatesFit'
  <2>1. /\ UNCHANGED <<update, seen, result>> /\ pc[w] = "append"
        /\ pc' = [pc EXCEPT ![w] = Onwards(seen[w], DOMAIN WalkTo)]
    BY <1>6 DEF AppendKey, Goto
  <2>2. Onwards(seen[w], DOMAIN WalkTo) \in {"walk", "reread"}
          => seen[w] \in DOMAIN WalkTo
    BY DEF Onwards
  <2> QED
    BY <1>a, <2>1, <2>2 DEF UpdatesFit, TypeOK, NamesBill, Won, Asking
<1>7. ASSUME NEW w \in Workers, Reread(w) PROVE UpdatesFit'
  <2>1. /\ UNCHANGED <<update, result>> /\ pc[w] = "reread"
        /\ seen' = [seen EXCEPT ![w] = item.state]
        /\ pc' = [pc EXCEPT ![w] = Onwards(item.state, WalkOn[WalkTo[seen[w]]])]
    BY <1>7 DEF Reread, Goto
  <2>2. WalkTo[seen[w]] \in DOMAIN WalkOn
    BY <1>a, <2>1 DEF UpdatesFit, WalkTo, WalkOn
  <2>3. WalkOn[WalkTo[seen[w]]] \subseteq DOMAIN WalkTo
    BY <2>2 DEF WalkOn, WalkTo
  <2>4. Onwards(item.state, WalkOn[WalkTo[seen[w]]]) \in {"walk", "reread"}
          => item.state \in DOMAIN WalkTo
    BY <2>3 DEF Onwards
  <2> QED
    BY <1>a, <2>1, <2>4 DEF UpdatesFit, TypeOK, NamesBill, Won, Asking
<1>8. ASSUME NEW w \in Workers, Crash(w) PROVE UpdatesFit'
  <2>1. /\ update' = [update EXCEPT ![w] = "none"] /\ seen' = seen
        /\ result' = [result EXCEPT ![w] = "none"]
        /\ \E p \in {"idle", "done"} : pc' = [pc EXCEPT ![w] = p]
    BY <1>8 DEF Crash, Update, Forget, Goto, Rest
  <2> QED
    BY <1>a, <2>1 DEF UpdatesFit, TypeOK, NamesBill, Won
<1>9. ASSUME NEW w \in Workers, Asks(w) PROVE UpdatesFit'
  <2>1. /\ pc[w] \in Asking /\ UNCHANGED <<seen, result>>
        /\ After(w) = "reread" => pc[w] = "walk"
        /\ After(w) # "walk"
    BY <1>a, <1>9, AskMoves, AskingFits
  <2>2. \/ /\ pc' = pc
           /\ \E u \in {"check", "columns", "state"} :
                update' = [update EXCEPT ![w] = u] /\ (u = "columns" => NamesBill(w))
        \/ /\ \E p \in {After(w), "raised"} : pc' = [pc EXCEPT ![w] = p]
           /\ update' = [update EXCEPT ![w] = "none"]
    <3>1. CASE Request(w)
      <4>1. update = [update EXCEPT ![w] = "none"]
        BY <1>a, <3>1 DEF Request, TypeOK
      <4> QED
        BY <3>1, <4>1 DEF Request, Update, Goto
    <3>2. CASE Validate(w)
      BY <3>2 DEF Validate, Update, Goto
    <3>3. CASE Write(w)
      BY <3>3 DEF Write, Update, Goto
    <3> QED
      BY <1>9, <3>1, <3>2, <3>3 DEF Asks
  <2>3. CASE /\ pc' = pc
             /\ \E u \in {"check", "columns", "state"} :
                  update' = [update EXCEPT ![w] = u] /\ (u = "columns" => NamesBill(w))
    BY <1>a, <2>1, <2>3 DEF UpdatesFit, TypeOK, NamesBill, Won
  <2>4. CASE /\ \E p \in {After(w), "raised"} : pc' = [pc EXCEPT ![w] = p]
             /\ update' = [update EXCEPT ![w] = "none"]
    <3>1. PICK p \in {After(w), "raised"} : pc' = [pc EXCEPT ![w] = p]
      BY <2>4
    <3>2. p # "walk" /\ (p = "reread" => seen[w] \in DOMAIN WalkTo)
      BY <1>a, <2>1, <3>1 DEF UpdatesFit
    <3> QED
      BY <1>a, <2>1, <2>4, <3>1, <3>2 DEF UpdatesFit, TypeOK, NamesBill, Won
  <2> QED
    BY <2>2, <2>3, <2>4
<1>10. ASSUME \/ \E w \in Workers : Land(w)
              \/ \E o \in Others : Revert(o) \/ Reject(o) \/ Amend(o)
              \/ UNCHANGED vars
       PROVE  UpdatesFit'
  <2>1. UNCHANGED <<update, pc, seen, result>>
    BY <1>10 DEF Land, Revert, Reject, Amend, vars
  <2> QED
    BY <1>a, <2>1 DEF UpdatesFit, NamesBill, Won
<1> QED
  BY <1>2, <1>3, <1>4, <1>5, <1>6, <1>7, <1>8, <1>9, <1>10 DEF Next, Step, Asks

-----------------------------------------------------------------------------
(* LockFits and UnguardedFits.                                             *)

\* What a step does to the lock and to the place of its worker: the worker
\* stays inside _post_to_erp, or outside; or it enters with the lock, or
\* without it at the price of a slip; or it leaves and lets go of the lock,
\* if it has it.
Stays(w) == /\ lock' = lock /\ slips' \in {slips, slips + 1}
            /\ \E p : /\ p \in Locked <=> pc[w] \in Locked
                      /\ pc' = [pc EXCEPT ![w] = p]
Enters(w) == /\ lock = NoWorker /\ lock' = w /\ slips' = slips
             /\ \E p \in Locked : pc' = [pc EXCEPT ![w] = p]
EntersUnguarded(w) == /\ lock' = lock /\ slips' = slips + 1 /\ pc[w] \notin Locked
                      /\ \E p \in Locked : pc' = [pc EXCEPT ![w] = p]
Leaves(w) == /\ lock' = IF lock = w THEN NoWorker ELSE lock
             /\ slips' = slips
             /\ \E p : p \notin Locked /\ pc' = [pc EXCEPT ![w] = p]

\* Every step is one of these, or one of the ERP or of the item alone.
LEMMA StepMoves ==
  ASSUME TypeOK, PlacesFit, UpdatesFit, [Next]_vars
  PROVE  \/ \E w \in Workers : \/ Stays(w) \/ Enters(w)
                               \/ EntersUnguarded(w) \/ Leaves(w)
         \/ UNCHANGED <<lock, pc>> /\ slips' \in {slips, slips + 1}
<1> USE DEF Locked, Happens, Slip
<1>1. ASSUME NEW w \in Workers,
             Click(w) \/ LockKey(w) \/ AppendKey(w) \/ Reread(w) \/ Snapshot(w)
      PROVE  Stays(w)
  <2>1. UNCHANGED <<lock, slips>> /\ pc[w] \notin Locked
    BY <1>1 DEF Click, LockKey, AppendKey, Reread, Snapshot, erp
  <2>2. \E p : p \notin Locked /\ pc' = [pc EXCEPT ![w] = p]
    BY <1>1 DEF Click, LockKey, AppendKey, Reread, Snapshot, Onwards, Goto
  <2> QED
    BY <2>1, <2>2 DEF Stays
<1>2. ASSUME NEW w \in Workers,
             Claim(w) \/ ResumeByHand(w) \/ RecordApproved(w) \/ RecordFailed(w)
             \/ EndJob(w)
      PROVE  Stays(w)
  <2>1. UNCHANGED <<lock, slips>> /\ pc[w] \notin Locked
    BY <1>2 DEF Claim, ResumeByHand, RecordApproved, RecordFailed, EndJob, erp
  <2>2. \E p : p \notin Locked /\ pc' = [pc EXCEPT ![w] = p]
    BY <1>2 DEF Claim, ResumeByHand, RecordApproved, RecordFailed, EndJob, Goto
  <2> QED
    BY <2>1, <2>2 DEF Stays
<1>10. ASSUME NEW w \in Workers, Asks(w) PROVE Stays(w)
  <2>1. UNCHANGED <<lock, slips>> /\ pc[w] \notin Locked
    BY <1>10, AskMoves DEF Asking
  <2>2. PICK p \in {pc[w], After(w), "raised"} : pc' = [pc EXCEPT ![w] = p]
    BY <1>10, AskMoves
  <2>3. After(w) \notin Locked
    BY <1>10, AskMoves, AskingFits
  <2> QED
    BY <2>1, <2>2, <2>3 DEF Stays
<1>3. ASSUME NEW w \in Workers, Resume(w) PROVE Stays(w)
  <2>1. UNCHANGED <<lock, slips>> /\ pc[w] \notin Locked
        /\ (\/ pc' = [pc EXCEPT ![w] = "reopen"] \/ pc' = [pc EXCEPT ![w] = "post"]
            \/ pc' = [pc EXCEPT ![w] = "job"] \/ pc' = [pc EXCEPT ![w] = "done"])
    BY <1>3 DEF Resume, Over, Goto, erp
  <2> QED
    BY <2>1 DEF Stays
<1>4. ASSUME NEW w \in Workers, Acquire(w) PROVE Enters(w) \/ Stays(w)
  BY <1>4 DEF Acquire, Answer, Goto, Enters, Stays, erp
<1>5. ASSUME NEW w \in Workers, AcquireFails(w) PROVE EntersUnguarded(w)
  BY <1>5 DEF AcquireFails, Goto, EntersUnguarded
<1>6. ASSUME NEW w \in Workers,
             CheckState(w) \/ Recheck(w) \/ Find(w) \/ FindFails(w) \/ Create(w)
             \/ Refuse(w) \/ GiveUp(w) \/ Reply(w) \/ LoseReply(w)
      PROVE  Stays(w)
  <2>1. lock' = lock /\ slips' \in {slips, slips + 1} /\ pc[w] \in Locked
    BY <1>6 DEF CheckState, Recheck, Find, FindFails, Create, Refuse, GiveUp, Reply,
                LoseReply, erp
  <2>2. \E p : p \in Locked /\ pc' = [pc EXCEPT ![w] = p]
    BY <1>6 DEF CheckState, Recheck, Find, FindFails, Create, Refuse, GiveUp, Reply,
                LoseReply, Answer, Goto
  <2> QED
    BY <2>1, <2>2 DEF Stays
<1>7. ASSUME NEW w \in Workers, Unlock(w) \/ CancelResume(w) \/ Crash(w)
      PROVE  Leaves(w)
  <2>1. lock' = (IF lock = w THEN NoWorker ELSE lock) /\ slips' = slips
    BY <1>7 DEF Unlock, CancelResume, Crash, Abandon, erp
  <2>2. \E p : p \notin Locked /\ pc' = [pc EXCEPT ![w] = p]
    BY <1>7 DEF Unlock, CancelResume, Crash, Goto, Rest
  <2> QED
    BY <2>1, <2>2 DEF Leaves
<1>8. ASSUME NEW w \in Workers, Land(w)
      PROVE  UNCHANGED <<lock, pc>> /\ slips' = slips + 1
  BY <1>8 DEF Land
<1>9. ASSUME \/ \E o \in Others : Revert(o) \/ Reject(o) \/ Amend(o)
             \/ UNCHANGED vars
      PROVE  UNCHANGED <<lock, pc, slips>>
  BY <1>9 DEF Revert, Reject, Amend, vars, erp
<1> QED
  BY <1>1, <1>2, <1>3, <1>4, <1>5, <1>6, <1>7, <1>8, <1>9, <1>10 DEF Next, Step, Asks

\* The box lock is with a worker inside _post_to_erp, or with nobody.
LEMMA LockStep == IInv /\ [Next]_vars => LockFits'
<1> SUFFICES ASSUME IInv, [Next]_vars PROVE LockFits'
  OBVIOUS
<1>a. TypeOK /\ PlacesFit /\ UpdatesFit /\ LockFits
  BY DEF IInv
<1>1. ASSUME NEW w \in Workers, Stays(w) PROVE LockFits'
  BY <1>a, <1>1 DEF Stays, TypeOK, LockFits
<1>2. ASSUME NEW w \in Workers, Enters(w) PROVE LockFits'
  BY <1>a, <1>2 DEF Enters, TypeOK, LockFits
<1>3. ASSUME NEW w \in Workers, EntersUnguarded(w) PROVE LockFits'
  BY <1>a, <1>3 DEF EntersUnguarded, TypeOK, LockFits
<1>4. ASSUME NEW w \in Workers, Leaves(w) PROVE LockFits'
  BY <1>a, <1>4, WorkersAssumption DEF Leaves, TypeOK, LockFits
<1>5. CASE UNCHANGED <<lock, pc>>
  BY <1>a, <1>5 DEF LockFits
<1> QED
  BY <1>a, <1>1, <1>2, <1>3, <1>4, <1>5, StepMoves

\* Each post without the lock stays paid for.
LEMMA UnguardedStep == IInv /\ [Next]_vars => UnguardedFits'
<1> SUFFICES ASSUME IInv, [Next]_vars PROVE UnguardedFits'
  OBVIOUS
<1>a. TypeOK /\ PlacesFit /\ UpdatesFit /\ LockFits /\ UnguardedFits
  BY DEF IInv
<1>b. slips \in Nat /\ IsFiniteSet(Unguarded) /\ Cardinality(Unguarded) <= slips
      /\ Cardinality(Unguarded) \in Nat
  BY <1>a, FS_CardinalityType DEF TypeOK, UnguardedFits
\* Nobody joins the workers without the lock.
<1>1. ASSUME Unguarded' \subseteq Unguarded, slips' \in {slips, slips + 1}
      PROVE  UnguardedFits'
  <2>1. /\ IsFiniteSet(Unguarded') /\ Cardinality(Unguarded') \in Nat
        /\ Cardinality(Unguarded') <= Cardinality(Unguarded)
    BY <1>b, <1>1, FS_Subset, FS_CardinalityType
  <2>2. Cardinality(Unguarded') <= slips'
    BY <1>b, <1>1, <2>1
  <2> QED
    BY <2>1, <2>2 DEF UnguardedFits
<1>2. ASSUME NEW w \in Workers, Stays(w) PROVE UnguardedFits'
  <2>1. Unguarded' \subseteq Unguarded
    BY <1>a, <1>2 DEF Stays, TypeOK, Unguarded
  <2> QED
    BY <1>1, <1>2, <2>1 DEF Stays
<1>3. ASSUME NEW w \in Workers, Enters(w) PROVE UnguardedFits'
  <2>1. Unguarded' \subseteq Unguarded
    BY <1>a, <1>3, WorkersAssumption DEF Enters, TypeOK, Unguarded
  <2> QED
    BY <1>1, <1>3, <2>1 DEF Enters
\* One more goes in without the lock, at the price of one slip.
<1>4. ASSUME NEW w \in Workers, EntersUnguarded(w) PROVE UnguardedFits'
  <2>1. Unguarded' \subseteq Unguarded \cup {w} /\ slips' = slips + 1
    BY <1>a, <1>4 DEF EntersUnguarded, TypeOK, Unguarded
  <2>2. /\ IsFiniteSet(Unguarded \cup {w})
        /\ Cardinality(Unguarded \cup {w}) <= Cardinality(Unguarded) + 1
    BY <1>b, FS_AddElement
  <2>3. /\ IsFiniteSet(Unguarded') /\ Cardinality(Unguarded') \in Nat
        /\ Cardinality(Unguarded') <= Cardinality(Unguarded \cup {w})
    BY <2>1, <2>2, FS_Subset, FS_CardinalityType
  <2>4. Cardinality(Unguarded') <= slips'
    BY <1>b, <2>1, <2>2, <2>3, FS_CardinalityType
  <2> QED
    BY <2>3, <2>4 DEF UnguardedFits
<1>5. ASSUME NEW w \in Workers, Leaves(w) PROVE UnguardedFits'
  <2>1. Unguarded' \subseteq Unguarded
    BY <1>a, <1>5 DEF Leaves, TypeOK, LockFits, Unguarded
  <2> QED
    BY <1>1, <1>5, <2>1 DEF Leaves
<1>6. CASE UNCHANGED <<lock, pc>> /\ slips' \in {slips, slips + 1}
  <2>1. Unguarded' = Unguarded
    BY <1>6 DEF Unguarded
  <2> QED
    BY <1>1, <1>6, <2>1
<1> QED
  BY <1>a, <1>2, <1>3, <1>4, <1>5, <1>6, StepMoves

-----------------------------------------------------------------------------
(* LookupFits.                                                             *)

\* At most one creator has the lock, so the creators number no more than the
\* slips and one, and a worker on its way to them is no exception.
LEMMA CreatorsArePaidFor ==
  ASSUME TypeOK, LockFits, UnguardedFits
  PROVE  /\ IsFiniteSet(Creating) /\ Cardinality(Creating) \in Nat
         /\ \A w \in Workers : pc[w] \in Locked =>
              Cardinality(Creating \cup {w}) \in Nat
              /\ Cardinality(Creating \cup {w}) <= 1 + slips
<1> DEFINE Posters == Unguarded \cup {lock}
<1>1. /\ IsFiniteSet(Posters) /\ Cardinality(Posters) \in Nat
      /\ Cardinality(Posters) <= 1 + slips
  <2>1. IsFiniteSet(Unguarded) /\ Cardinality(Unguarded) \in Nat
        /\ Cardinality(Unguarded) <= slips /\ slips \in Nat
    BY FS_CardinalityType DEF UnguardedFits, TypeOK
  <2>2. /\ IsFiniteSet(Posters)
        /\ Cardinality(Posters) \in {Cardinality(Unguarded), Cardinality(Unguarded) + 1}
    BY <2>1, FS_AddElement
  <2> HIDE DEF Posters
  <2> QED
    BY <2>1, <2>2
<1>2. \A w \in Workers : pc[w] \in Locked => w \in Posters
  BY DEF Unguarded
<1>3. Creating \subseteq Posters
  BY <1>2 DEF Creating, Locked
<1> HIDE DEF Posters
<1>4. ASSUME NEW S, S \subseteq Posters
      PROVE  IsFiniteSet(S) /\ Cardinality(S) \in Nat /\ Cardinality(S) <= 1 + slips
  <2>1. IsFiniteSet(S) /\ Cardinality(S) \in Nat
        /\ Cardinality(S) <= Cardinality(Posters)
    BY <1>1, <1>4, FS_Subset, FS_CardinalityType
  <2> QED
    BY <1>1, <2>1 DEF TypeOK
<1>5. IsFiniteSet(Creating) /\ Cardinality(Creating) \in Nat
  BY <1>3, <1>4
<1>6. ASSUME NEW w \in Workers, pc[w] \in Locked
      PROVE  Cardinality(Creating \cup {w}) \in Nat
             /\ Cardinality(Creating \cup {w}) <= 1 + slips
  <2>1. Creating \cup {w} \subseteq Posters
    BY <1>2, <1>3, <1>6
  <2> QED
    BY <1>4, <2>1
<1> QED
  BY <1>5, <1>6

\* The bills and the creators stay paid for.
LEMMA LookupStep == IInv /\ [Next]_vars => LookupFits'
<1> SUFFICES ASSUME IInv, [Next]_vars, LooksUp PROVE LookupFits'
  BY DEF LookupFits
<1>a. TypeOK /\ PlacesFit /\ UpdatesFit /\ LockFits /\ UnguardedFits
  BY DEF IInv
<1> USE DEF Happens, Slip
<1>b. /\ Len(bills) \in Nat /\ slips \in Nat
      /\ IsFiniteSet(Creating) /\ Cardinality(Creating) \in Nat
      /\ Len(bills) + Cardinality(Creating) <= 1 + slips
  BY <1>a, CreatorsArePaidFor DEF IInv, TypeOK, LookupFits
\* A step that makes no bill and sends nobody to make one.
<1>1. ASSUME Creating' \subseteq Creating, bills' = bills, slips' \in {slips, slips + 1}
      PROVE  LookupFits'
  <2>1. Cardinality(Creating') \in Nat /\ Cardinality(Creating') <= Cardinality(Creating)
    BY <1>b, <1>1, FS_Subset, FS_CardinalityType
  <2>2. Len(bills') + Cardinality(Creating') <= 1 + slips'
    BY <1>b, <1>1, <2>1
  <2> QED
    BY <2>2 DEF LookupFits
<1>2. ASSUME NEW w \in Workers, NEW p, pc' = [pc EXCEPT ![w] = p], p # "create",
             bills' = bills, slips' \in {slips, slips + 1}
      PROVE  LookupFits'
  <2>1. Creating' \subseteq Creating
    BY <1>a, <1>2 DEF TypeOK, Creating
  <2> QED
    BY <1>1, <1>2, <2>1
<1>3. ASSUME NEW w \in Workers,
             Click(w) \/ LockKey(w) \/ AppendKey(w) \/ Reread(w) \/ Snapshot(w)
             \/ Claim(w) \/ ResumeByHand(w)
      PROVE  LookupFits'
  <2>1. UNCHANGED <<bills, slips>>
    BY <1>3 DEF Click, LockKey, AppendKey, Reread, Snapshot, Claim, ResumeByHand, erp
  <2>2. \E p : p # "create" /\ pc' = [pc EXCEPT ![w] = p]
    BY <1>3 DEF Click, LockKey, AppendKey, Reread, Snapshot, Claim, ResumeByHand,
                Onwards, Goto
  <2> QED
    BY <1>2, <2>1, <2>2
<1>12. ASSUME NEW w \in Workers, Asks(w) PROVE LookupFits'
  <2>1. UNCHANGED <<bills, slips>> /\ pc[w] \in Asking
    BY <1>a, <1>12, AskMoves
  <2>2. PICK p \in {pc[w], After(w), "raised"} : pc' = [pc EXCEPT ![w] = p]
    BY <1>a, <1>12, AskMoves
  <2>3. p # "create"
    BY <1>a, <2>1, <2>2, AskingFits DEF Asking
  <2> QED
    BY <1>2, <2>1, <2>2, <2>3
<1>4. ASSUME NEW w \in Workers, Resume(w) PROVE LookupFits'
  <2>1. UNCHANGED <<bills, slips>>
        /\ (\/ pc' = [pc EXCEPT ![w] = "reopen"] \/ pc' = [pc EXCEPT ![w] = "post"]
            \/ pc' = [pc EXCEPT ![w] = "job"] \/ pc' = [pc EXCEPT ![w] = "done"])
    BY <1>4 DEF Resume, Over, Goto, erp
  <2> QED
    BY <1>2, <2>1
<1>5. ASSUME NEW w \in Workers,
             Acquire(w) \/ AcquireFails(w) \/ CheckState(w) \/ Recheck(w)
             \/ Reply(w) \/ LoseReply(w) \/ Refuse(w) \/ GiveUp(w) \/ Unlock(w)
      PROVE  LookupFits'
  <2>1. bills' = bills /\ slips' \in {slips, slips + 1}
    BY <1>5 DEF Acquire, AcquireFails, CheckState, Recheck, Reply, LoseReply, Refuse,
                GiveUp, Unlock, erp
  <2>2. \E p : p # "create" /\ pc' = [pc EXCEPT ![w] = p]
    BY <1>5 DEF Acquire, AcquireFails, CheckState, Recheck, Reply, LoseReply, Refuse,
                GiveUp, Unlock, Answer, Goto
  <2> QED
    BY <1>2, <2>1, <2>2
<1>6. ASSUME NEW w \in Workers,
             RecordApproved(w) \/ RecordFailed(w) \/ EndJob(w)
             \/ CancelResume(w) \/ Crash(w)
      PROVE  LookupFits'
  <2>1. UNCHANGED <<bills, slips>>
    BY <1>6 DEF RecordApproved, RecordFailed, EndJob, CancelResume, Crash, erp
  <2>2. \E p : p # "create" /\ pc' = [pc EXCEPT ![w] = p]
    BY <1>6 DEF RecordApproved, RecordFailed, EndJob, CancelResume, Crash, Goto, Rest
  <2> QED
    BY <1>2, <2>1, <2>2
\* The lookup answered: there is no bill, or the call goes to "unlock".
<1>7. ASSUME NEW w \in Workers, Find(w) PROVE LookupFits'
  <2>1. CASE bills = <<>>
    <3>1. /\ pc[w] \in Locked /\ pc' = [pc EXCEPT ![w] = "create"]
          /\ UNCHANGED <<bills, slips>>
      BY <1>7, <2>1 DEF Find, Goto, Locked, erp
    <3>2. Creating' = Creating \cup {w}
      BY <1>a, <3>1 DEF TypeOK, Creating
    <3>3. Cardinality(Creating') \in Nat /\ Cardinality(Creating') <= 1 + slips
      BY <1>a, <3>1, <3>2, CreatorsArePaidFor
    <3>4. Len(bills') = 0
      BY <2>1, <3>1
    <3>5. Len(bills') + Cardinality(Creating') <= 1 + slips'
      BY <1>b, <3>1, <3>3, <3>4
    <3> QED
      BY <3>5 DEF LookupFits
  <2>2. CASE bills # <<>>
    BY <1>2, <1>7, <2>2 DEF Find, Answer, Goto, erp
  <2> QED
    BY <2>1, <2>2
\* The lookup failed, at the price of one slip.
<1>8. ASSUME NEW w \in Workers, FindFails(w) PROVE LookupFits'
  <2>1. /\ bills' = bills /\ slips' = slips + 1
        /\ pc' = [pc EXCEPT ![w] = "create"]
    BY <1>8 DEF FindFails, Goto
  <2>2. Creating' = Creating \cup {w}
    BY <1>a, <2>1 DEF TypeOK, Creating
  <2>3. Cardinality(Creating') \in {Cardinality(Creating), Cardinality(Creating) + 1}
    BY <1>b, <2>2, FS_AddElement
  <2>4. Len(bills') + Cardinality(Creating') <= 1 + slips'
    BY <1>b, <2>1, <2>3
  <2> QED
    BY <2>4 DEF LookupFits
\* The bill is made: there is one bill more, at most, and one creator less.
<1>9. ASSUME NEW w \in Workers, Create(w) PROVE LookupFits'
  <2>1. /\ bills' = WithBill(Key(w)) /\ slips' = slips
        /\ pc[w] = "create" /\ pc' = [pc EXCEPT ![w] = "reply"]
    BY <1>9 DEF Create, Goto
  <2>2. Len(bills') \in {Len(bills), Len(bills) + 1}
    BY <1>a, <2>1, KeyType, WithBillType DEF TypeOK
  <2>3. w \in Creating /\ Creating' = Creating \ {w}
    BY <1>a, <2>1 DEF TypeOK, Creating
  <2>4. Cardinality(Creating') = Cardinality(Creating) - 1
    BY <1>b, <2>3, FS_RemoveElement
  <2>5. Len(bills') + Cardinality(Creating') <= 1 + slips'
    BY <1>b, <2>1, <2>2, <2>4
  <2> QED
    BY <2>5 DEF LookupFits
\* A request lands late, at the price of one slip.
<1>10. ASSUME NEW w \in Workers, Land(w) PROVE LookupFits'
  <2>1. bills' = WithBill(Key(w)) /\ slips' = slips + 1 /\ pc' = pc
    BY <1>10 DEF Land
  <2>2. Len(bills') \in {Len(bills), Len(bills) + 1}
    BY <1>a, <2>1, KeyType, WithBillType DEF TypeOK
  <2>3. Creating' = Creating
    BY <2>1 DEF Creating
  <2>4. Len(bills') + Cardinality(Creating') <= 1 + slips'
    BY <1>b, <2>1, <2>2, <2>3
  <2> QED
    BY <2>4 DEF LookupFits
<1>11. ASSUME \/ \E o \in Others : Revert(o) \/ Reject(o) \/ Amend(o)
              \/ UNCHANGED vars
       PROVE  LookupFits'
  <2>1. UNCHANGED <<bills, slips, pc>>
    BY <1>11 DEF Revert, Reject, Amend, vars, erp
  <2>2. Creating' = Creating
    BY <2>1 DEF Creating
  <2> QED
    BY <1>1, <2>1, <2>2
<1> QED
  BY <1>3, <1>4, <1>5, <1>6, <1>7, <1>8, <1>9, <1>10, <1>11, <1>12
     DEF Next, Step, Asks

\* Under the invariant, the slips pay for the bills, and leave room for one
\* more while a worker is about to make it.
LEMMA BillsArePaidFor ==
  ASSUME IInv, LooksUp
  PROVE  /\ Len(bills) \in Nat /\ slips \in Nat /\ Len(bills) <= 1 + slips
         /\ \A w \in Workers : pc[w] = "create" => Len(bills) <= slips
<1>1. /\ Len(bills) \in Nat /\ slips \in Nat
      /\ IsFiniteSet(Creating) /\ Cardinality(Creating) \in Nat
      /\ Len(bills) + Cardinality(Creating) <= 1 + slips
  BY CreatorsArePaidFor DEF IInv, TypeOK, LookupFits
<1>2. ASSUME NEW w \in Workers, pc[w] = "create" PROVE Cardinality(Creating) # 0
  BY <1>1, <1>2, FS_EmptySet DEF Creating
<1> QED
  BY <1>1, <1>2

-----------------------------------------------------------------------------
(* BillsFit.                                                               *)

\* A create request never loses a bill.
LEMMA BillsGrow ==
  ASSUME TypeOK, PlacesFit, NEW w \in Workers
  PROVE  /\ Len(WithBill(Key(w))) \in Nat
         /\ Len(bills) <= Len(WithBill(Key(w)))
<1>1. bills \in Seq(PostKeys) /\ Len(bills) \in Nat /\ Key(w) \in PostKeys
  BY KeyType DEF TypeOK
<1>2. \/ WithBill(Key(w)) = bills
      \/ Len(WithBill(Key(w))) = Len(bills) + 1
  BY <1>1, WithBillType
<1> QED
  BY <1>1, <1>2

\* References go on naming bills that exist.
LEMMA BillsStep == IInv /\ [Next]_vars => BillsFit'
<1> SUFFICES ASSUME IInv, [Next]_vars PROVE BillsFit'
  OBVIOUS
<1>a. TypeOK /\ PlacesFit /\ UpdatesFit /\ BillsFit
  BY DEF IInv
<1>b. Len(bills) \in Nat
  BY <1>a DEF TypeOK
<1> USE DEF row, Happens, Slip
\* A step that learns of no new bill.
<1>1. ASSUME NEW w \in Workers, NEW p, pc' = [pc EXCEPT ![w] = p], p # "reply",
             result' = result \/ \E r : r # "success" /\ result' = [result EXCEPT ![w] = r],
             item'.ref = item.ref, UNCHANGED <<bills, got>>
      PROVE  BillsFit'
  BY <1>a, <1>1 DEF TypeOK, BillsFit
<1>2. ASSUME NEW w \in Workers,
             Click(w) \/ LockKey(w) \/ AppendKey(w) \/ Reread(w) \/ Snapshot(w)
             \/ ResumeByHand(w) \/ Resume(w) \/ Unlock(w) \/ FindFails(w)
             \/ AcquireFails(w)
      PROVE  BillsFit'
  <2>1. UNCHANGED <<item, bills, got, result>>
    BY <1>2 DEF Click, LockKey, AppendKey, Reread, Snapshot, ResumeByHand, Resume,
                Unlock, FindFails, AcquireFails, erp
  <2>2. \E p : p # "reply" /\ pc' = [pc EXCEPT ![w] = p]
    <3>1. CASE Resume(w)
      <4>1. \E p \in {"reopen", "post", "job", "done"} : pc' = [pc EXCEPT ![w] = p]
        BY <3>1 DEF Resume, Over, Goto
      <4> QED
        BY <4>1
    <3>2. CASE ~Resume(w)
      BY <1>2, <3>2 DEF Click, LockKey, AppendKey, Reread, Snapshot, ResumeByHand,
                        Unlock, FindFails, AcquireFails, Onwards, Goto
    <3> QED
      BY <3>1, <3>2
  <2> QED
    BY <1>1, <2>1, <2>2
\* A call that forgets what it was told.
<1>3. ASSUME NEW w \in Workers,
             RecordApproved(w) \/ RecordFailed(w) \/ EndJob(w) \/ CancelResume(w)
             \/ Crash(w)
      PROVE  BillsFit'
  <2>1. /\ UNCHANGED <<item, bills>>
        /\ result' = [result EXCEPT ![w] = "none"] /\ got' = [got EXCEPT ![w] = 0]
    BY <1>3 DEF RecordApproved, RecordFailed, EndJob, CancelResume, Crash, Forget, erp
  <2>2. PICK p \in {"close", "done", "idle"} : pc' = [pc EXCEPT ![w] = p]
    BY <1>3 DEF RecordApproved, RecordFailed, EndJob, CancelResume, Crash, Goto, Rest
  <2> QED
    BY <1>a, <1>b, <2>1, <2>2 DEF TypeOK, BillsFit
<1>5. ASSUME NEW w \in Workers,
             Claim(w) \/ Acquire(w) \/ CheckState(w) \/ Recheck(w) \/ Find(w)
             \/ Refuse(w) \/ GiveUp(w)
      PROVE  BillsFit'
  <2>1. UNCHANGED <<item, bills, got>>
    BY <1>5 DEF Claim, Acquire, CheckState, Recheck, Find, Refuse, GiveUp, erp
  <2>2. \E p : p # "reply" /\ pc' = [pc EXCEPT ![w] = p]
    BY <1>5 DEF Claim, Acquire, CheckState, Recheck, Find, Refuse, GiveUp, Answer, Goto
  <2>3. result' = result \/ \E r : r # "success" /\ result' = [result EXCEPT ![w] = r]
    BY <1>5 DEF Claim, Acquire, CheckState, Recheck, Find, Refuse, GiveUp, Answer
  <2> QED
    BY <1>1, <2>1, <2>2, <2>3
<1>6. ASSUME NEW w \in Workers, Create(w) PROVE BillsFit'
  <2>1. /\ bills' = WithBill(Key(w)) /\ pc' = [pc EXCEPT ![w] = "reply"]
        /\ UNCHANGED <<item, result>>
    BY <1>6 DEF Create, Goto
  <2>2. Len(bills') \in Nat /\ Len(bills) <= Len(bills')
    BY <1>a, <1>b, <2>1, BillsGrow
  <2>3. PICK g \in 1..Len(bills') : got' = [got EXCEPT ![w] = g]
    <3>1. CASE bills' = bills
      <4>1. \E i \in 1..Len(bills) : bills[i] = Key(w)
        BY <1>a, <2>1, <3>1, KeyType, WithBillType DEF TypeOK
      <4> QED
        BY <1>6, <3>1, <4>1 DEF Create
    <3>2. CASE bills' # bills
      <4>1. Len(bills') = Len(bills) + 1
        BY <1>a, <2>1, <3>2, KeyType, WithBillType DEF TypeOK
      <4>2. Len(bills') \in 1..Len(bills')
        BY <1>b, <4>1
      <4>3. got' = [got EXCEPT ![w] = Len(bills')]
        BY <1>6, <3>2 DEF Create
      <4> QED
        BY <4>2, <4>3
    <3> QED
      BY <3>1, <3>2
  <2> QED
    BY <1>a, <1>b, <2>1, <2>2, <2>3 DEF TypeOK, BillsFit
<1>7. ASSUME NEW w \in Workers, Reply(w) PROVE BillsFit'
  BY <1>a, <1>7 DEF Reply, Answer, Goto, TypeOK, BillsFit, erp
<1>8. ASSUME NEW w \in Workers, LoseReply(w) PROVE BillsFit'
  <2>1. /\ UNCHANGED <<item, bills>> /\ got' = [got EXCEPT ![w] = 0]
        /\ pc' = [pc EXCEPT ![w] = "unlock"]
    BY <1>8 DEF LoseReply, Answer, Goto, erp
  <2>2. PICK r \in {"failed", "unavailable"} : result' = [result EXCEPT ![w] = r]
    BY <1>8 DEF LoseReply, Answer
  <2> QED
    BY <1>a, <1>b, <2>1, <2>2 DEF TypeOK, BillsFit
<1>9. ASSUME NEW w \in Workers, Asks(w) PROVE BillsFit'
  <2>1. UNCHANGED <<bills, got, result>>
    BY <1>a, <1>9, AskMoves
  <2>2. PICK p \in {pc[w], After(w), "raised"} : pc' = [pc EXCEPT ![w] = p]
    BY <1>a, <1>9, AskMoves
  <2>3. p # "reply"
    BY <1>a, <1>9, <2>2, AskMoves, AskingFits DEF Asking
  <2>4. item'.ref \in {item.ref, got[w]}
    BY <1>9 DEF Asks, Request, Validate, Write
  <2> QED
    BY <1>a, <2>1, <2>2, <2>3, <2>4 DEF TypeOK, BillsFit
<1>10. ASSUME NEW w \in Workers, Land(w) PROVE BillsFit'
  <2>1. bills' = WithBill(Key(w)) /\ UNCHANGED <<item, pc, result, got>>
    BY <1>10 DEF Land
  <2>2. Len(bills') \in Nat /\ Len(bills) <= Len(bills')
    BY <1>a, <1>b, <2>1, BillsGrow
  <2> QED
    BY <1>a, <1>b, <2>1, <2>2 DEF BillsFit
<1>11. ASSUME NEW o \in Others, Revert(o) \/ Reject(o) \/ Amend(o) PROVE BillsFit'
  <2>1. item'.ref = item.ref /\ UNCHANGED <<bills, pc, result, got>>
    BY <1>a, <1>11 DEF Revert, Reject, Amend, TypeOK, erp
  <2> QED
    BY <1>a, <2>1 DEF BillsFit
<1>12. CASE UNCHANGED vars
  BY <1>a, <1>12 DEF vars, BillsFit
<1> QED
  BY <1>2, <1>3, <1>5, <1>6, <1>7, <1>8, <1>9, <1>10, <1>11, <1>12
     DEF Next, Step, Asks

-----------------------------------------------------------------------------
(* PostedFits.                                                             *)

\* An UPDATE that takes a posted item to where the calls here or the others
\* take it, other than to closed, is on record as one that overtook it.
LEMMA OvertakenIsNoted ==
  ASSUME NEW t \in {"validated", "needs_approval", "approved", "ready_to_post",
                    "failed_post", "rejected"},
         Posted, item'.ref # 0, overtaken' = (overtaken \/ Overtakes(t))
  PROVE  overtaken' /\ Posted'
BY PostedIsFinal DEF Posted, Overtakes

\* A write of a call leaves a posted item posted or on record as overtaken.
LEMMA WriteKeepsPosted ==
  ASSUME TypeOK, PlacesFit, UpdatesFit, BillsFit, PostedFits,
         NEW w \in Workers, Write(w)
  PROVE  /\ Posted \/ NamesBill(w) => Posted'
         /\ Done(item'.state) => item'.ref # 0
<1>1. /\ update[w] \in {"columns", "state"} /\ pc[w] \in Asking
      /\ NamesBill(w) => got[w] # 0
      /\ update[w] = "columns" => NamesBill(w) /\ (Done(item.state) \/ overtaken)
      /\ overtaken \in BOOLEAN
  BY DEF Write, UpdatesFit, BillsFit, PostedFits, NamesBill, Won, TypeOK
<1>2. PICK t : /\ t = IF update[w] = "state" THEN Target(w) ELSE item.state
               /\ item' = [state |-> t,
                           ref |-> IF NamesBill(w) THEN got[w] ELSE item.ref]
               /\ overtaken' = (overtaken \/ Overtakes(t))
  BY DEF Write
<1>3. Posted \/ NamesBill(w) => item'.ref # 0
  BY <1>1, <1>2 DEF Posted
\* Only the columns are written.
<1>4. CASE update[w] = "columns"
  <2>1. t = item.state /\ NamesBill(w) /\ item'.ref # 0
    BY <1>1, <1>2, <1>3, <1>4
  <2> QED
    BY <1>1, <1>2, <1>4, <2>1 DEF Posted
\* The outcome of a post that succeeded.
<1>5. CASE update[w] = "state" /\ NamesBill(w)
  <2>1. t = "posted_to_erp"
    BY <1>1, <1>2, <1>5, AskingFits
  <2> QED
    BY <1>2, <1>3, <1>5, <2>1 DEF Posted, Done
<1>6. CASE update[w] = "state" /\ ~NamesBill(w)
  <2>1. /\ t \in {"validated", "needs_approval", "approved", "ready_to_post",
                  "failed_post", "closed"}
        /\ t = "closed" => pc[w] = "close"
    BY <1>1, <1>2, <1>6, AskingFits
  <2>2. CASE t = "closed"
    <3>1. Posted
      BY <2>1, <2>2 DEF PostedFits
    <3> QED
      BY <1>2, <1>3, <2>2, <3>1 DEF Posted, Done
  <2>3. CASE t # "closed"
    <3>1. ~Done(item'.state)
      BY <1>2, <2>1, <2>3 DEF Done
    <3>2. Posted => Posted'
      BY <1>2, <1>3, <2>1, <2>3, OvertakenIsNoted
    <3> QED
      BY <1>6, <3>1, <3>2
  <2> QED
    BY <2>2, <2>3
<1> QED
  BY <1>1, <1>4, <1>5, <1>6

\* So does every step.
LEMMA PostedStays ==
  ASSUME IInv, [Next]_vars
  PROVE  /\ Posted => Posted'
         /\ Done(item.state) \/ overtaken => Done(item'.state) \/ overtaken'
         /\ Done(item'.state) => item'.ref # 0
<1>a. TypeOK /\ PlacesFit /\ UpdatesFit /\ BillsFit /\ PostedFits
  BY DEF IInv
<1>b. Done(item.state) => Posted
  BY <1>a DEF PostedFits, Posted
<1>c. overtaken \in BOOLEAN
  BY <1>a DEF TypeOK
<1>1. CASE UNCHANGED <<item, overtaken>>
  BY <1>a, <1>1 DEF Posted, PostedFits
<1>2. ASSUME NEW w \in Workers, Write(w)
      PROVE  /\ Posted => Posted'
             /\ overtaken => overtaken'
             /\ Done(item'.state) => item'.ref # 0
  BY <1>a, <1>2, WriteKeepsPosted DEF Write
<1>3. ASSUME NEW o \in Others, Amend(o)
      PROVE  /\ Posted => Posted'
             /\ overtaken => overtaken'
             /\ Done(item'.state) => item'.ref # 0
  <2>1. PICK t \in {"needs_approval", "rejected"} :
          /\ item'.state = t /\ item'.ref = item.ref
          /\ overtaken' = (overtaken \/ Overtakes(t))
    BY <1>a, <1>3 DEF Amend, TypeOK
  <2>2. ~Done(item'.state)
    BY <2>1 DEF Done
  <2>3. Posted => Posted'
    <3>1. SUFFICES ASSUME Posted PROVE Posted'
      OBVIOUS
    <3>2. item'.ref # 0
      BY <2>1, <3>1 DEF Posted
    <3> QED
      BY <2>1, <3>1, <3>2, OvertakenIsNoted
  <2> QED
    BY <2>1, <2>2, <2>3
<1>4. CASE \/ \E w \in Workers : Write(w)
           \/ \E o \in Others : Amend(o)
  <2>1. Posted => Posted'
    BY <1>2, <1>3, <1>4
  <2>2. overtaken => overtaken'
    BY <1>2, <1>3, <1>4
  <2>3. Done(item'.state) => item'.ref # 0
    BY <1>2, <1>3, <1>4
  <2>4. Posted' => Done(item'.state) \/ overtaken'
    BY DEF Posted
  <2> QED
    BY <1>b, <2>1, <2>2, <2>3, <2>4
<1> QED
  BY <1>1, <1>4, OnlyUpdatesWrite

\* Only a posted item, or one that was written over, is claimed to be posted.
LEMMA PostedStep == IInv /\ [Next]_vars => PostedFits'
<1> SUFFICES ASSUME IInv, [Next]_vars PROVE PostedFits'
  OBVIOUS
<1>a. TypeOK /\ PlacesFit /\ UpdatesFit /\ BillsFit /\ PostedFits
  BY DEF IInv
<1>b. /\ Posted => Posted'
      /\ Done(item.state) \/ overtaken => Done(item'.state) \/ overtaken'
      /\ Done(item'.state) => item'.ref # 0
  BY PostedStays
<1> USE DEF Happens, Slip, row, decisions
\* A step that goes on from a success, or puts one on record, only when the
\* item is posted.
<1>1. ASSUME NEW w \in Workers, NEW p, pc' = [pc EXCEPT ![w] = p],
             \A v \in Workers \ {w} : result'[v] = result[v] /\ update'[v] = update[v],
             p \in {"approved", "close"} \/ (p = "job" /\ result'[w] = "success")
               => Posted',
             update'[w] = "columns"
               => update[w] = "columns" \/ Done(item.state) \/ overtaken,
             Claimed' => Claimed \/ Posted'
      PROVE  PostedFits'
  <2>1. Claimed' => Posted'
    BY <1>a, <1>b, <1>1 DEF PostedFits
  <2>3. ASSUME NEW v \in Workers
        PROVE  /\ pc'[v] \in {"approved", "close"}
                  \/ (pc'[v] = "job" /\ result'[v] = "success") => Posted'
               /\ update'[v] = "columns" => Done(item'.state) \/ overtaken'
    <3>1. CASE v = w
      <4>1. pc'[w] = p
        BY <1>a, <1>1 DEF TypeOK
      <4>2. update[w] = "columns" => Done(item.state) \/ overtaken
        BY <1>a DEF PostedFits
      <4> QED
        BY <1>b, <1>1, <3>1, <4>1, <4>2
    <3>2. CASE v # w
      <4>1. pc'[v] = pc[v] /\ result'[v] = result[v] /\ update'[v] = update[v]
        BY <1>a, <1>1, <3>2 DEF TypeOK
      <4>2. /\ pc[v] \in {"approved", "close"}
               \/ (pc[v] = "job" /\ result[v] = "success") => Posted
            /\ update[v] = "columns" => Done(item.state) \/ overtaken
        BY <1>a DEF PostedFits
      <4> QED
        BY <1>b, <4>1, <4>2
    <3> QED
      BY <3>1, <3>2
  <2> QED
    BY <1>b, <2>1, <2>3 DEF PostedFits
\* The same for a step that leaves the item, the job and the decisions alone.
<1>2. ASSUME NEW w \in Workers, NEW p, pc' = [pc EXCEPT ![w] = p],
             \A v \in Workers \ {w} : result'[v] = result[v],
             p \notin {"approved", "close", "job"},
             UNCHANGED <<update, job, decision>>
      PROVE  PostedFits'
  <2>1. Claimed' <=> Claimed
    BY <1>2 DEF Claimed
  <2> QED
    BY <1>1, <1>2, <2>1
<1>4. ASSUME NEW w \in Workers,
             Click(w) \/ LockKey(w) \/ AppendKey(w) \/ Reread(w)
             \/ ResumeByHand(w) \/ FindFails(w) \/ AcquireFails(w) \/ Create(w)
             \/ Unlock(w)
      PROVE  PostedFits'
  <2>1. UNCHANGED <<update, job, decision, result>>
    BY <1>4 DEF Click, LockKey, AppendKey, Reread, ResumeByHand, FindFails,
                AcquireFails, Create, Unlock
  <2>2. \E p : p \notin {"approved", "close", "job"} /\ pc' = [pc EXCEPT ![w] = p]
    BY <1>4 DEF Click, LockKey, AppendKey, Reread, ResumeByHand, FindFails,
                AcquireFails, Create, Unlock, Onwards, Goto
  <2> QED
    BY <1>2, <2>1, <2>2
<1>5. ASSUME NEW w \in Workers,
             Acquire(w) \/ CheckState(w) \/ Recheck(w) \/ Find(w) \/ Refuse(w)
             \/ GiveUp(w) \/ Reply(w) \/ LoseReply(w)
      PROVE  PostedFits'
  <2>1. UNCHANGED <<update, job, decision>>
    BY <1>5 DEF Acquire, CheckState, Recheck, Find, Refuse, GiveUp, Reply, LoseReply
  <2>2. \E p : p \notin {"approved", "close", "job"} /\ pc' = [pc EXCEPT ![w] = p]
    BY <1>5 DEF Acquire, CheckState, Recheck, Find, Refuse, GiveUp, Reply, LoseReply,
                Answer, Goto
  <2>3. result' = result \/ \E r : result' = [result EXCEPT ![w] = r]
    BY <1>5 DEF Acquire, CheckState, Recheck, Find, Refuse, GiveUp, Reply, LoseReply, Answer
  <2>4. \A v \in Workers \ {w} : result'[v] = result[v]
    BY <1>a, <2>3 DEF TypeOK
  <2> QED
    BY <1>2, <2>1, <2>2, <2>4
\* A call asks for a state: it goes on as after a success only when its own
\* UPDATE has named the bill, or the item is posted already.
<1>6. ASSUME NEW w \in Workers, Asks(w) PROVE PostedFits'
  <2>1. /\ pc[w] \in Asking /\ UNCHANGED <<job, decision, result>>
        /\ \A v \in Workers \ {w} : update'[v] = update[v]
    BY <1>a, <1>6, AskMoves DEF TypeOK
  <2>2. PICK p \in {pc[w], After(w), "raised"} : pc' = [pc EXCEPT ![w] = p]
    BY <1>a, <1>6, AskMoves
  <2>3. Claimed' <=> Claimed
    BY <2>1 DEF Claimed
  <2>4. /\ After(w) \in {"approved", "close"} => NamesBill(w)
        /\ After(w) = "job" /\ result[w] = "success" => pc[w] = "close"
    BY <1>a, <2>1, AskingFits
  <2>5. pc[w] \in {"approved", "close"} => Posted'
    BY <1>a, <1>b DEF PostedFits
  <2>6. CASE p # pc[w] /\ p = After(w)
    <3>1. /\ ~NamesBill(w) \/ Posted'
          /\ update'[w] = "columns" => update[w] = "columns"
      <4>1. CASE Request(w)
        <5>1. CASE item.state = Target(w) /\ ~NamesBill(w)
          BY <4>1, <5>1 DEF Request
        <5>2. CASE ~(item.state = Target(w) /\ ~NamesBill(w))
          BY <1>a, <2>2, <2>6, <4>1, <5>2 DEF Request, TypeOK
        <5> QED
          BY <5>1, <5>2
      <4>2. CASE Validate(w)
        <5>1. update'[w] \in {"state", "none"}
          BY <1>a, <4>2 DEF Validate, Update, TypeOK
        <5>2. NamesBill(w) => pc[w] = "settle"
          BY DEF NamesBill
        <5>3. pc[w] # "close" => pc' = pc \/ pc' = [pc EXCEPT ![w] = "raised"]
          BY <4>2 DEF Validate, Goto
        <5>4. After(w) # "raised"
          BY <1>a, <2>1, AskingFits
        <5>5. pc[w] = "close"
          <6>1. pc'[w] = p
            BY <1>a, <2>2 DEF TypeOK
          <6>2. pc' = [pc EXCEPT ![w] = "raised"] => pc'[w] = "raised"
            BY <1>a DEF TypeOK
          <6> QED
            BY <2>6, <5>3, <5>4, <6>1, <6>2
        <5> QED
          BY <5>1, <5>2, <5>5
      <4>3. CASE Write(w)
        <5>1. update'[w] = "none"
          BY <1>a, <4>3 DEF Write, Update, TypeOK
        <5> QED
          BY <1>a, <4>3, <5>1, WriteKeepsPosted
      <4> QED
        BY <1>6, <4>1, <4>2, <4>3 DEF Asks
    <3> QED
      BY <1>1, <2>1, <2>2, <2>3, <2>4, <2>5, <2>6, <3>1
  <2>7. CASE p = pc[w] \/ p = "raised"
    <3>1. update'[w] = "columns"
            => update[w] = "columns" \/ Done(item.state) \/ overtaken
      <4>1. CASE Request(w) /\ item.state = Target(w) /\ NamesBill(w)
        <5>1. Done(item.state)
          BY <1>a, <2>1, <4>1, AskingFits DEF Done
        <5> QED
          BY <5>1
      <4>2. CASE Request(w) /\ ~(item.state = Target(w) /\ NamesBill(w))
        BY <1>a, <4>2 DEF Request, Update, TypeOK
      <4>3. CASE Validate(w)
        BY <1>a, <4>3 DEF Validate, Update, TypeOK
      <4>4. CASE Write(w)
        BY <1>a, <4>4 DEF Write, Update, TypeOK
      <4> QED
        BY <1>6, <4>1, <4>2, <4>3, <4>4 DEF Asks
    <3>2. p \in Asking \cup {"raised"}
      BY <2>1, <2>7
    <3> QED
      BY <1>1, <2>1, <2>2, <2>3, <2>5, <2>7, <3>1, <3>2 DEF Asking
  <2> QED
    BY <2>2, <2>6, <2>7
<1>8. ASSUME NEW w \in Workers, Snapshot(w) PROVE PostedFits'
  <2>1. /\ UNCHANGED <<update, job, result>> /\ pc' = [pc EXCEPT ![w] = "post"]
        /\ decision' = [decision EXCEPT ![KeyOf[w]] = "processing"]
    BY <1>8 DEF Snapshot, Goto
  <2>2. Claimed' => Claimed
    BY <1>a, <2>1 DEF TypeOK, Claimed
  <2> QED
    BY <1>1, <2>1, <2>2
<1>9. ASSUME NEW w \in Workers, Claim(w) PROVE PostedFits'
  <2>1. /\ UNCHANGED <<update, decision>> /\ job'.status = "running"
        /\ result' = [result EXCEPT ![w] = "none"] /\ pc' = [pc EXCEPT ![w] = "resume"]
    BY <1>9 DEF Claim, Goto
  <2>2. Claimed' => Claimed
    BY <2>1 DEF Claimed
  <2>3. \A v \in Workers \ {w} : result'[v] = result[v]
    BY <1>a, <2>1 DEF TypeOK
  <2> QED
    BY <1>1, <2>1, <2>2, <2>3
\* A drain that could not resume the item has no success to report.
<1>10. ASSUME NEW w \in Workers, Resume(w) PROVE PostedFits'
  <2>1. UNCHANGED <<update, job, decision, result>> /\ pc[w] = "resume"
    BY <1>10 DEF Resume
  <2>2. PICK p \in {"reopen", "post", "job", "done"} : pc' = [pc EXCEPT ![w] = p]
    BY <1>10 DEF Resume, Over, Goto
  <2>3. p = "job" => w \in Drains
    <3>1. pc'[w] = p
      BY <1>a, <2>2 DEF TypeOK
    <3>2. w \notin Drains => pc'[w] \in {"reopen", "post", "done"}
      BY <1>a, <1>10 DEF Resume, Over, Goto, TypeOK
    <3> QED
      BY <3>1, <3>2
  <2>4. w \in Drains => result[w] = "none"
    BY <1>a, <2>1 DEF PlacesFit
  <2>5. Claimed' <=> Claimed
    BY <2>1 DEF Claimed
  <2> QED
    BY <1>1, <2>1, <2>2, <2>3, <2>4, <2>5
<1>12. ASSUME NEW w \in Workers, RecordApproved(w) PROVE PostedFits'
  <2>1. /\ Posted /\ UNCHANGED <<update, job>> /\ pc' = [pc EXCEPT ![w] = "close"]
        /\ result' = [result EXCEPT ![w] = "none"]
    BY <1>a, <1>12 DEF RecordApproved, Forget, Goto, PostedFits
  <2>2. \A v \in Workers \ {w} : result'[v] = result[v]
    BY <1>a, <2>1 DEF TypeOK
  <2> QED
    BY <1>1, <1>b, <2>1, <2>2
<1>13. ASSUME NEW w \in Workers, RecordFailed(w) PROVE PostedFits'
  <2>1. /\ UNCHANGED update /\ pc' = [pc EXCEPT ![w] = "done"]
        /\ result' = [result EXCEPT ![w] = "none"]
        /\ decision' = [decision EXCEPT ![KeyOf[w]] = "failed"]
        /\ job' = job \/ job'.status = "pending"
    BY <1>a, <1>13 DEF RecordFailed, Forget, Goto, TypeOK
  <2>2. Claimed' => Claimed
    BY <1>a, <2>1 DEF TypeOK, Claimed
  <2>3. \A v \in Workers \ {w} : result'[v] = result[v]
    BY <1>a, <2>1 DEF TypeOK
  <2> QED
    BY <1>1, <2>1, <2>2, <2>3
<1>15. ASSUME NEW w \in Workers, EndJob(w) PROVE PostedFits'
  <2>1. /\ UNCHANGED <<update, decision>> /\ pc' = [pc EXCEPT ![w] = "idle"]
        /\ pc[w] = "job" /\ (job'.status = "completed" => result[w] = "success")
        /\ result' = [result EXCEPT ![w] = "none"]
    BY <1>a, <1>15 DEF EndJob, JobOutcome, Won, Forget, Goto, TypeOK
  <2>2. Claimed' => Claimed \/ Posted'
    BY <1>a, <1>b, <2>1 DEF PostedFits, Claimed
  <2>3. \A v \in Workers \ {w} : result'[v] = result[v]
    BY <1>a, <2>1 DEF TypeOK
  <2> QED
    BY <1>1, <2>1, <2>2, <2>3
<1>16. ASSUME NEW w \in Workers, CancelResume(w) PROVE PostedFits'
  <2>1. /\ UNCHANGED <<update, decision>> /\ pc' = [pc EXCEPT ![w] = "idle"]
        /\ job'.status = "dead_letter" /\ result' = [result EXCEPT ![w] = "none"]
    BY <1>a, <1>16 DEF CancelResume, Forget, Goto, TypeOK
  <2>2. Claimed' => Claimed
    BY <2>1 DEF Claimed
  <2>3. \A v \in Workers \ {w} : result'[v] = result[v]
    BY <1>a, <2>1 DEF TypeOK
  <2> QED
    BY <1>1, <2>1, <2>2, <2>3
<1>17. ASSUME NEW w \in Workers, Crash(w) PROVE PostedFits'
  <2>1. /\ UNCHANGED <<job, decision>> /\ result' = [result EXCEPT ![w] = "none"]
        /\ update' = [update EXCEPT ![w] = "none"]
    BY <1>17 DEF Crash, Forget, Update
  <2>2. pc' = [pc EXCEPT ![w] = "idle"] \/ pc' = [pc EXCEPT ![w] = "done"]
    BY <1>17 DEF Crash, Goto, Rest
  <2>3. /\ \A v \in Workers \ {w} : result'[v] = result[v] /\ update'[v] = update[v]
        /\ update'[w] # "columns"
    BY <1>a, <2>1 DEF TypeOK
  <2>4. Claimed' <=> Claimed
    BY <2>1 DEF Claimed
  <2> QED
    BY <1>1, <2>2, <2>3, <2>4
<1>18. ASSUME \/ \E w \in Workers : Land(w)
              \/ \E o \in Others : Revert(o) \/ Reject(o) \/ Amend(o)
              \/ UNCHANGED vars
       PROVE  PostedFits'
  <2>1. UNCHANGED <<update, job, decision, pc, result>>
    BY <1>18 DEF Land, Revert, Reject, Amend, vars
  <2>2. Claimed' <=> Claimed
    BY <2>1 DEF Claimed
  <2> QED
    BY <1>a, <1>b, <2>1, <2>2 DEF PostedFits
<1> QED
  BY <1>4, <1>5, <1>6, <1>8, <1>9, <1>10, <1>12, <1>13, <1>15, <1>16, <1>17, <1>18
     DEF Next, Step, Asks

-----------------------------------------------------------------------------
(* The theorems.                                                           *)

\* The inductive invariant holds in every reachable state.
THEOREM Invariance == Spec => []IInv
<1>1. IInv /\ [Next]_vars => IInv'
  BY TypeStep, PlacesStep, UpdatesStep, LockStep, UnguardedStep, LookupStep,
     BillsStep, PostedStep DEF IInv
<1> QED
  BY <1>1, InitIInv, PTL DEF Spec

\* Type correctness of the posting protocol.
THEOREM TypeCorrect == Spec => []TypeOK
BY Invariance, PTL DEF IInv

\* With a lookup before every create request and the box lock around both,
\* the ERP never holds more than one bill beyond the lookups that failed, the
\* posts that went ahead because the lock could not be tried, and the requests
\* that landed late.
THEOREM ExtraBillsNeedSlips == Spec => []ExtraBillsNeedASlip
<1>1. IInv => ExtraBillsNeedASlip
  BY BillsArePaidFor DEF ExtraBillsNeedASlip
<1> QED
  BY <1>1, Invariance, PTL

\* An item in posted_to_erp or closed carries the reference of a bill that the
\* ERP holds.
THEOREM PostedItemsHaveBills == Spec => []PostedHasBill
<1>1. IInv => PostedHasBill
  BY DEF IInv, TypeOK, BillsFit, PostedFits, PostedHasBill, Done
<1> QED
  BY <1>1, Invariance, PTL

\* An approved snapshot or a completed retry job is on record only for an item
\* that names a bill the ERP holds, and that is posted unless a write has taken
\* it out of that state against the graph.
THEOREM ClaimsAreTrue == Spec => []SuccessClaimsAreTrue
<1>1. IInv => SuccessClaimsAreTrue
  <2> SUFFICES ASSUME IInv, Claimed
               PROVE  /\ item.ref \in 1..Len(bills)
                      /\ item.state \in {"posted_to_erp", "closed"} \/ overtaken
    BY DEF SuccessClaimsAreTrue, Claimed
  <2>1. Posted
    BY DEF IInv, PostedFits
  <2>2. item.ref # 0 /\ item.ref \in 0..Len(bills) /\ Len(bills) \in Nat
    BY <2>1 DEF IInv, TypeOK, BillsFit, Posted
  <2>3. item.state \in {"posted_to_erp", "closed"} \/ overtaken
    BY <2>1 DEF Posted, Done
  <2> QED
    BY <2>2, <2>3
<1> QED
  BY <1>1, Invariance, PTL

\* Only the UPDATE that names a bill changes the reference.
LEMMA OnlyNamingWritesRef ==
  ASSUME TypeOK, [Next]_vars, item'.ref # item.ref
  PROVE  \E w \in Workers : Write(w) /\ NamesBill(w) /\ item'.ref = got[w]
<1>1. ASSUME NEW o \in Others, Amend(o) PROVE item'.ref = item.ref
  BY <1>1 DEF Amend, TypeOK
<1>2. PICK w \in Workers : Write(w)
  BY <1>1, OnlyUpdatesWrite
<1>3. NamesBill(w) /\ item'.ref = got[w]
  BY <1>2 DEF Write
<1> QED
  BY <1>2, <1>3

\* Once an item carries a reference, another one replaces it only after a slip
\* has put a second bill into the ERP.
THEOREM ReferenceIsKept == Spec => ReferenceIsFinal
<1>1. IInv /\ [Next]_vars =>
        ((LooksUp /\ item.ref # 0 /\ item'.ref # item.ref) => slips > 0)
  <2> SUFFICES ASSUME IInv, [Next]_vars, LooksUp, item.ref # 0, item'.ref # item.ref
               PROVE  slips > 0
    OBVIOUS
  <2>1. TypeOK /\ BillsFit
    BY DEF IInv
  <2>2. PICK w \in Workers : result[w] = "success" /\ item'.ref = got[w]
    BY <2>1, OnlyNamingWritesRef DEF NamesBill, Won
  <2>3. /\ got[w] \in 1..Len(bills) /\ item.ref \in 1..Len(bills) /\ got[w] # item.ref
        /\ Len(bills) \in Nat /\ slips \in Nat
    BY <2>1, <2>2 DEF BillsFit, TypeOK
  <2>4. Len(bills) <= 1 + slips
    BY BillsArePaidFor
  <2> QED
    BY <2>3, <2>4
<1> QED
  BY <1>1, Invariance, PTL DEF Spec, ReferenceIsFinal

-----------------------------------------------------------------------------
(* The box lock is a mutex.                                                *)

\* Whoever the lock names is inside, and nobody enters with a lock that is
\* held: no two posts of one item have it at once, a lock that is held
\* belongs to a post that is under way, and only that post lets it go.
THEOREM PostingImplementsMutex == Spec => ImplementsMutex
<1> DEFINE inside == {w \in Workers : pc[w] \in Locked /\ lock = w}
<1>1. LockFits => inside = {w \in Workers : lock = w}
  BY DEF LockFits
<1>2. LockFits' => inside' = {w \in Workers : lock' = w}
  BY DEF LockFits
<1>3. Init => BoxLock!Init
  <2> SUFFICES ASSUME Init PROVE lock = NoWorker /\ inside = {}
    BY DEF BoxLock!Init
  <2>1. lock = NoWorker /\ LockFits
    BY InitIInv DEF Init, IInv
  <2> QED
    BY <1>1, <2>1, WorkersAssumption
<1>4. IInv /\ IInv' /\ [Next]_vars => [BoxLock!Next]_<<lock, inside>>
  <2> SUFFICES ASSUME IInv, IInv', [Next]_vars
               PROVE  BoxLock!Next \/ UNCHANGED <<lock, inside>>
    OBVIOUS
  <2>1. /\ inside = {w \in Workers : lock = w}
        /\ inside' = {w \in Workers : lock' = w}
    BY <1>1, <1>2 DEF IInv
  <2>2. \/ lock' = lock
        \/ \E w \in Workers : \/ lock = NoWorker /\ lock' = w
                              \/ lock = w /\ lock' = NoWorker
    BY StepMoves DEF IInv, Stays, Enters, EntersUnguarded, Leaves
  <2> HIDE DEF inside
  <2>3. CASE lock' = lock
    BY <2>1, <2>3
  <2>4. ASSUME NEW w \in Workers, lock = NoWorker, lock' = w PROVE BoxLock!Enter(w)
    <3>1. inside' = inside \cup {w}
      BY <2>1, <2>4, WorkersAssumption
    <3> QED
      BY <2>4, <3>1 DEF BoxLock!Enter, inside
  <2>5. ASSUME NEW w \in Workers, lock = w, lock' = NoWorker PROVE BoxLock!Exit(w)
    <3>1. inside' = inside \ {w}
      BY <2>1, <2>5, WorkersAssumption
    <3> QED
      BY <2>5, <3>1 DEF BoxLock!Exit, inside
  <2> QED
    BY <2>2, <2>3, <2>4, <2>5 DEF BoxLock!Next
<1> QED
  BY <1>3, <1>4, Invariance, PTL DEF Spec, ImplementsMutex, BoxLock!Spec

\* Posts of one item run at the same time only by as many as acquire_box_lock
\* let through without trying the lock.
THEOREM OverlapIsPaidFor ==
  Spec => [](Cardinality({w \in Workers : pc[w] \in Locked}) <= 1 + slips)
<1> DEFINE Posters == {w \in Workers : pc[w] \in Locked}
<1>1. IInv => Cardinality(Posters) <= 1 + slips
  <2> SUFFICES ASSUME IInv PROVE Cardinality(Posters) <= 1 + slips
    OBVIOUS
  <2>1. /\ slips \in Nat /\ Cardinality(Unguarded) \in Nat
        /\ IsFiniteSet(Unguarded) /\ Cardinality(Unguarded) <= slips
    BY FS_CardinalityType DEF IInv, TypeOK, UnguardedFits
  <2>2. /\ IsFiniteSet(Unguarded \cup {lock})
        /\ Cardinality(Unguarded \cup {lock}) \in
             {Cardinality(Unguarded), Cardinality(Unguarded) + 1}
    BY <2>1, FS_AddElement
  <2>3. Posters \subseteq Unguarded \cup {lock}
    BY DEF Unguarded
  <2> HIDE DEF Posters
  <2>4. /\ Cardinality(Posters) <= Cardinality(Unguarded \cup {lock})
        /\ Cardinality(Posters) \in Nat
    BY <2>2, <2>3, FS_Subset, FS_CardinalityType
  <2> QED
    BY <2>1, <2>2, <2>4
<1> QED
  BY <1>1, Invariance, PTL

-----------------------------------------------------------------------------
(* Posting is an external effect with a promise.                           *)

\* Only four steps change what the ERP holds or how much was lost.
LEMMA FewStepsAct ==
  ASSUME [Next]_vars
  PROVE  \/ UNCHANGED <<bills, slips>>
         \/ \E w \in Workers : Create(w) \/ Land(w) \/ FindFails(w) \/ AcquireFails(w)
<1> USE DEF erp
<1>1. ASSUME NEW w \in Workers,
             Click(w) \/ LockKey(w) \/ AppendKey(w) \/ Reread(w) \/ Snapshot(w)
             \/ Claim(w) \/ ResumeByHand(w) \/ Resume(w) \/ Request(w) \/ Validate(w)
             \/ Write(w) \/ Acquire(w) \/ CheckState(w) \/ Recheck(w) \/ Find(w)
      PROVE  UNCHANGED <<bills, slips>>
  BY <1>1 DEF Click, LockKey, AppendKey, Reread, Snapshot, Claim, ResumeByHand, Resume,
              Request, Validate, Write, Acquire, CheckState, Recheck, Find
<1>2. ASSUME NEW w \in Workers,
             Refuse(w) \/ GiveUp(w) \/ Reply(w) \/ LoseReply(w) \/ Unlock(w)
             \/ RecordApproved(w) \/ RecordFailed(w) \/ EndJob(w)
             \/ CancelResume(w) \/ Crash(w)
      PROVE  UNCHANGED <<bills, slips>>
  BY <1>2 DEF Refuse, GiveUp, Reply, LoseReply, Unlock, RecordApproved, RecordFailed,
              EndJob, CancelResume, Crash
<1>3. ASSUME \/ \E o \in Others : Revert(o) \/ Reject(o) \/ Amend(o)
             \/ UNCHANGED vars
      PROVE  UNCHANGED <<bills, slips>>
  BY <1>3 DEF Revert, Reject, Amend, vars
<1> QED
  BY <1>1, <1>2, <1>3 DEF Next, Step

\* Every step of the posting protocol is a step of the promise, or none.
LEMMA EffectStep ==
  ASSUME IInv, IInv', [Next]_vars
  PROVE  Bill!Next \/ UNCHANGED <<Len(bills), slips, item.ref, SuccessIsClaimed>>
<1>a. TypeOK /\ PlacesFit /\ BillsFit
  BY DEF IInv
<1>b. /\ Len(bills) \in Nat /\ slips \in Nat
      /\ SuccessIsClaimed \in BOOLEAN /\ SuccessIsClaimed' \in BOOLEAN
  BY <1>a DEF TypeOK, SuccessIsClaimed
\* What is claimed is claimed of a bill that is known.
<1>c. SuccessIsClaimed' => item'.ref # 0
  BY DEF IInv, PostedFits, Posted, Done, Claimed, SuccessIsClaimed
\* The bill is created, after a lookup that found none or that failed.
<1>1. ASSUME NEW w \in Workers, Create(w)
      PROVE  Bill!Make \/ UNCHANGED <<Len(bills), slips, item.ref, SuccessIsClaimed>>
  <2>1. /\ bills' = WithBill(Key(w)) /\ slips' = slips /\ pc[w] = "create"
        /\ UNCHANGED <<item, job, decision>>
    BY <1>1 DEF Create, row, decisions
  <2>2. UNCHANGED <<item.ref, SuccessIsClaimed>>
    BY <2>1 DEF SuccessIsClaimed
  <2>3. bills' = bills \/ Len(bills') = Len(bills) + 1
    BY <2>1, <1>a, KeyType, WithBillType DEF TypeOK
  <2>4. LooksUp => Len(bills) <= slips
    BY <2>1, BillsArePaidFor
  <2> QED
    BY <2>1, <2>2, <2>3, <2>4 DEF Bill!Make
\* A request lands late, a lookup fails, or a post goes on without the lock.
<1>2. ASSUME NEW w \in Workers, Land(w) \/ FindFails(w) \/ AcquireFails(w)
      PROVE  Bill!Lose
  <2>1. /\ slips' = slips + 1 /\ bills' \in {bills, WithBill(Key(w))}
        /\ UNCHANGED <<item, job, decision>>
    BY <1>2 DEF Land, FindFails, AcquireFails, Slip, row, decisions
  <2>2. UNCHANGED <<item.ref, SuccessIsClaimed>>
    BY <2>1 DEF SuccessIsClaimed
  <2>3. Len(bills') \in {Len(bills), Len(bills) + 1}
    BY <2>1, <1>a, KeyType, WithBillType DEF TypeOK
  <2> QED
    BY <2>1, <2>2, <2>3 DEF Bill!Lose
\* A reply is written to the item with the reference it named.
<1>3. ASSUME NEW w \in Workers, Write(w), NamesBill(w)
      PROVE  Bill!Know(item'.ref) /\ item'.ref \in 1..Len(bills)
  <2>1. /\ item'.ref = got[w] /\ UNCHANGED <<bills, slips, job, decision>>
        /\ item'.state \in {"posted_to_erp", item.state}
    BY <1>3 DEF Write, NamesBill, Target, erp, decisions
  <2>2. item'.ref \in 1..Len(bills)
    BY <1>3, <2>1, <1>a, <1>b DEF BillsFit, NamesBill, Won
  <2>3. LooksUp /\ item.ref \notin {0, item'.ref} => slips > 0
    <3>1. LooksUp => Len(bills) <= 1 + slips
      BY BillsArePaidFor
    <3>2. item.ref \in 0..Len(bills)
      BY <1>a DEF BillsFit
    <3> QED
      BY <2>2, <3>1, <3>2, <1>b
  <2>4. SuccessIsClaimed' \in {SuccessIsClaimed, TRUE}
    BY <2>1, <1>b DEF SuccessIsClaimed
  <2> QED
    BY <2>1, <2>2, <2>3, <2>4 DEF Bill!Know
\* Every other step claims, takes a claim back, or neither.
<1>4. CASE UNCHANGED <<bills, slips>> /\ item'.ref = item.ref
  <2>1. CASE SuccessIsClaimed' = SuccessIsClaimed
    BY <1>4, <2>1
  <2>2. CASE SuccessIsClaimed' # SuccessIsClaimed /\ SuccessIsClaimed' = TRUE
    BY <1>4, <1>c, <2>2 DEF Bill!Next, Bill!Claim
  <2>3. CASE SuccessIsClaimed' # SuccessIsClaimed /\ SuccessIsClaimed' = FALSE
    BY <1>4, <2>3 DEF Bill!Next, Bill!Retract
  <2> QED
    BY <1>b, <2>1, <2>2, <2>3
<1>5. CASE UNCHANGED <<bills, slips>> /\ item'.ref # item.ref
  <2>1. PICK w \in Workers : Write(w) /\ NamesBill(w)
    BY <1>a, <1>5, OnlyNamingWritesRef
  <2> QED
    BY <1>3, <2>1 DEF Bill!Next
<1> QED
  BY <1>1, <1>2, <1>4, <1>5, FewStepsAct DEF Bill!Next

\* Whatever interleaves, dies, is lost or is written over: a bill is made only
\* where none was found or one may be lost, the item names a bill that was
\* made and goes on naming one, another replaces it only after a loss, and
\* success is claimed, in the item, in the retry job or to a repeated click,
\* only of such a bill.
THEOREM PostingImplementsEffect == Spec => ImplementsExternalEffect
<1>1. Init => Bill!Init
  BY WorkersAssumption, PostingStatesAssumption DEF Init, Bill!Init, SuccessIsClaimed
<1>2. IInv /\ IInv' /\ [Next]_vars
        => [Bill!Next]_<<Len(bills), slips, item.ref, SuccessIsClaimed>>
  BY EffectStep
<1> QED
  BY <1>1, <1>2, Invariance, PTL DEF Spec, ImplementsExternalEffect, Bill!Spec

-----------------------------------------------------------------------------
(* One bill, when nothing slips.                                           *)

\* No request outlives its caller, no lookup fails, and no post goes ahead
\* without the lock.
NoSlips == wire = {} /\ slips = 0

\* Where there is no room for a slip, none happens.
LEMMA NoSlipsStep ==
  ASSUME MaxSlips = 0, NoSlips, [Next]_vars
  PROVE  NoSlips'
<1>a. Cardinality(wire) = 0
  BY FS_EmptySet DEF NoSlips
<1> USE DEF erp
<1>1. ASSUME NEW w \in Workers
      PROVE  ~LeavesRequest(w) /\ ~FindFails(w) /\ ~AcquireFails(w) /\ ~Land(w)
  BY <1>a DEF LeavesRequest, FindFails, AcquireFails, Slip, Land, NoSlips
<1>2. ASSUME NEW w \in Workers, GiveUp(w) \/ CancelResume(w) \/ Crash(w)
      PROVE  UNCHANGED <<wire, slips>>
  BY <1>1, <1>2 DEF GiveUp, CancelResume, Crash, Abandon
<1>3. ASSUME NEW w \in Workers,
             Click(w) \/ LockKey(w) \/ AppendKey(w) \/ Reread(w) \/ Snapshot(w)
             \/ Claim(w) \/ ResumeByHand(w) \/ Resume(w) \/ Request(w) \/ Validate(w)
             \/ Write(w) \/ Acquire(w) \/ CheckState(w) \/ Recheck(w) \/ Find(w)
      PROVE  UNCHANGED <<wire, slips>>
  BY <1>3 DEF Click, LockKey, AppendKey, Reread, Snapshot, Claim, ResumeByHand, Resume,
              Request, Validate, Write, Acquire, CheckState, Recheck, Find
<1>4. ASSUME NEW w \in Workers,
             Create(w) \/ Refuse(w) \/ Reply(w) \/ LoseReply(w) \/ Unlock(w)
             \/ RecordApproved(w) \/ RecordFailed(w) \/ EndJob(w)
      PROVE  UNCHANGED <<wire, slips>>
  BY <1>4 DEF Create, Refuse, Reply, LoseReply, Unlock, RecordApproved, RecordFailed,
              EndJob
<1>5. ASSUME \/ \E o \in Others : Revert(o) \/ Reject(o) \/ Amend(o)
             \/ UNCHANGED vars
      PROVE  UNCHANGED <<wire, slips>>
  BY <1>5 DEF Revert, Reject, Amend, vars
<1>6. UNCHANGED <<wire, slips>>
  BY <1>1, <1>2, <1>3, <1>4, <1>5 DEF Next, Step
<1> QED
  BY <1>6 DEF NoSlips

\* What resume_workflow's comment promises, and under what: with an adapter
\* that looks bills up, a lock that can be tried, and an ERP that answers
\* every lookup and takes no request whose caller has left, no number of
\* clicks, drains, crashes, lost replies and reverts ever makes a second bill.
THEOREM OneBillWithoutSlips ==
  ASSUME LooksUp, MaxSlips = 0
  PROVE  Spec => []AtMostOneBill
<1>1. Init => NoSlips
  BY DEF Init, NoSlips
<1>2. NoSlips /\ [Next]_vars => NoSlips'
  BY NoSlipsStep
<1>3. IInv /\ NoSlips => AtMostOneBill
  BY BillsArePaidFor DEF NoSlips, AtMostOneBill
<1> QED
  BY <1>1, <1>2, <1>3, Invariance, PTL DEF Spec

-----------------------------------------------------------------------------
(* The retry job.                                                          *)

\* A drain is inside an attempt at the job.
Draining(d) == d \in Drains /\ pc[d] \notin {"idle", "raised"}

\* No two drains attempt the job at the same time, and the one that does has
\* it on record as running.
OneDrainRuns ==
  \A d \in Drains : Draining(d) =>
    job.status = "running" /\ \A e \in Drains : Draining(e) => e = d

\* The job is claimed no more than max_retries times; one that never was is
\* claimed once whatever the limit.
RetryBudget == job.claims <= IF MaxRetries > 1 THEN MaxRetries ELSE 1

\* What the two need besides: only drains write an outcome back, and a job
\* that waits has an attempt left.
JobFits ==
  /\ OneDrainRuns /\ RetryBudget
  /\ \A w \in Workers : pc[w] = "job" => w \in Drains
  /\ job.status = "none" => job.claims = 0
  /\ job.status = "pending" => job.claims = 0 \/ job.claims < MaxRetries

\* The job keeps its promises, step by step.
LEMMA JobStep ==
  ASSUME TypeOK, PlacesFit, UpdatesFit, JobFits, [Next]_vars
  PROVE  JobFits'
<1>a. /\ pc \in [Workers -> PCs] /\ MaxRetries \in Nat /\ job.claims \in Nat
      /\ job = [status |-> job.status, claims |-> job.claims]
      /\ Drains \subseteq Workers /\ People \cap Drains = {}
  BY BoundsAssumption, WorkersAssumption DEF TypeOK, Workers
\* A worker that is inside a call goes on, or ends it.
<1>1. ASSUME NEW w \in Workers, w \in Drains => Draining(w), NEW p,
             pc' = [pc EXCEPT ![w] = p], job' = job, p = "job" => w \in Drains
      PROVE  JobFits'
  <2>1. \A d \in Drains : Draining(d)' => Draining(d)
    BY <1>a, <1>1 DEF Draining
  <2>2. OneDrainRuns'
    BY <1>1, <2>1 DEF JobFits, OneDrainRuns
  <2>3. \A v \in Workers : pc'[v] = "job" => v \in Drains
    BY <1>a, <1>1 DEF JobFits
  <2> QED
    BY <1>1, <2>2, <2>3 DEF JobFits, RetryBudget
\* A drain that ends its attempt leaves the job to nobody.
<1>2. ASSUME NEW d \in Drains, Draining(d), pc' = [pc EXCEPT ![d] = "idle"],
             job'.claims = job.claims, job'.status # "none",
             job'.status = "pending" => job.claims < MaxRetries
      PROVE  JobFits'
  <2>1. \A e \in Drains : ~Draining(e)'
    BY <1>a, <1>2 DEF Draining, JobFits, OneDrainRuns
  <2>2. \A v \in Workers : pc'[v] = "job" => v \in Drains
    BY <1>a, <1>2 DEF JobFits
  <2> QED
    BY <1>2, <2>1, <2>2 DEF JobFits, OneDrainRuns, RetryBudget
<1>3. ASSUME NEW w \in Workers,
             LockKey(w) \/ AppendKey(w) \/ Reread(w) \/ Snapshot(w) \/ Acquire(w)
             \/ AcquireFails(w) \/ CheckState(w) \/ Recheck(w) \/ Find(w)
             \/ FindFails(w) \/ Create(w)
      PROVE  JobFits'
  <2>1. job' = job /\ pc[w] \notin {"idle", "raised"}
    BY <1>3 DEF LockKey, AppendKey, Reread, Snapshot, Acquire, AcquireFails, CheckState,
                Recheck, Find, FindFails, Create
  <2>2. \E p : p # "job" /\ pc' = [pc EXCEPT ![w] = p]
    BY <1>3 DEF LockKey, AppendKey, Reread, Snapshot, Acquire, AcquireFails, CheckState,
                Recheck, Find, FindFails, Create, Answer, Onwards, Goto
  <2> QED
    BY <1>1, <2>1, <2>2 DEF Draining
<1>4. ASSUME NEW w \in Workers,
             Refuse(w) \/ GiveUp(w) \/ Reply(w) \/ LoseReply(w) \/ Unlock(w)
             \/ RecordApproved(w) \/ Crash(w)
      PROVE  JobFits'
  <2>1. job' = job /\ pc[w] \notin {"idle", "raised"}
    BY <1>4 DEF Refuse, GiveUp, Reply, LoseReply, Unlock, RecordApproved, Crash
  <2>2. \E p : p # "job" /\ pc' = [pc EXCEPT ![w] = p]
    BY <1>4 DEF Refuse, GiveUp, Reply, LoseReply, Unlock, RecordApproved, Crash,
                Answer, Goto, Rest
  <2> QED
    BY <1>1, <2>1, <2>2 DEF Draining
<1>5. ASSUME NEW w \in Workers, Asks(w) PROVE JobFits'
  <2>1. job' = job /\ pc[w] \in Asking
    BY <1>5, AskMoves
  <2>2. PICK p \in {pc[w], After(w), "raised"} : pc' = [pc EXCEPT ![w] = p]
    BY <1>5, AskMoves
  <2>3. p = "job" => w \in Drains
    BY <2>1, <2>2, AskingFits DEF Asking
  <2> QED
    BY <1>1, <2>1, <2>2, <2>3 DEF Draining, Asking
<1>6. ASSUME NEW w \in Workers, Resume(w) PROVE JobFits'
  <2>1. job' = job /\ pc[w] = "resume"
    BY <1>6 DEF Resume
  <2>2. PICK p \in {"reopen", "post", "job", "done"} : pc' = [pc EXCEPT ![w] = p]
    BY <1>6 DEF Resume, Over, Goto
  <2>3. p = "job" => w \in Drains
    <3>1. pc'[w] = p
      BY <1>a, <2>2
    <3>2. w \notin Drains => pc'[w] \in {"reopen", "post", "done"}
      BY <1>a, <1>6 DEF Resume, Over, Goto
    <3> QED
      BY <3>1, <3>2
  <2> QED
    BY <1>1, <2>1, <2>2, <2>3 DEF Draining
<1>7. ASSUME NEW w \in Workers, Click(w) \/ ResumeByHand(w) PROVE JobFits'
  <2>1. job' = job /\ w \notin Drains
    BY <1>a, <1>7 DEF Click, ResumeByHand
  <2>2. \E p : p # "job" /\ pc' = [pc EXCEPT ![w] = p]
    BY <1>7 DEF Click, ResumeByHand, Goto
  <2> QED
    BY <1>1, <2>1, <2>2
\* A pending job has no drain on it: it is claimed by one.
<1>8. ASSUME NEW d \in Workers, Claim(d) PROVE JobFits'
  <2>1. /\ d \in Drains /\ job.status = "pending"
        /\ job' = [status |-> "running", claims |-> job.claims + 1]
        /\ pc' = [pc EXCEPT ![d] = "resume"]
    BY <1>8 DEF Claim, Goto
  <2>2. \A e \in Drains : ~Draining(e)
    BY <2>1 DEF JobFits, OneDrainRuns
  <2>3. \A e \in Drains : Draining(e)' => e = d
    BY <1>a, <2>1, <2>2 DEF Draining
  <2>4. OneDrainRuns'
    BY <2>1, <2>3 DEF OneDrainRuns
  <2>5. RetryBudget'
    BY <1>a, <2>1 DEF JobFits, RetryBudget
  <2>6. \A v \in Workers : pc'[v] = "job" => v \in Drains
    BY <1>a, <2>1 DEF JobFits
  <2> QED
    BY <2>1, <2>4, <2>5, <2>6 DEF JobFits
\* The first failed click writes the job, which nobody can be running.
<1>9. ASSUME NEW c \in Workers, RecordFailed(c) PROVE JobFits'
  <2>1. c \notin Drains /\ pc[c] = "failed" /\ pc' = [pc EXCEPT ![c] = "done"]
    BY <1>9 DEF RecordFailed, Goto, PlacesFit, ApprovePCs
  <2>2. CASE job' = job
    BY <1>1, <2>1, <2>2
  <2>3. CASE job.status = "none" /\ job' = [status |-> "pending", claims |-> job.claims]
    <3>1. \A d \in Drains : ~Draining(d)'
      BY <1>a, <2>1, <2>3 DEF Draining, JobFits, OneDrainRuns
    <3>2. \A v \in Workers : pc'[v] = "job" => v \in Drains
      BY <1>a, <2>1 DEF JobFits
    <3> QED
      BY <2>3, <3>1, <3>2 DEF JobFits, OneDrainRuns, RetryBudget
  <2>4. \/ job' = job
        \/ job.status = "none" /\ job' = [job EXCEPT !.status = "pending"]
    BY <1>9 DEF RecordFailed
  <2> QED
    BY <1>a, <2>2, <2>3, <2>4
<1>10. ASSUME NEW d \in Workers, EndJob(d) PROVE JobFits'
  <2>1. /\ d \in Drains /\ Draining(d) /\ pc' = [pc EXCEPT ![d] = "idle"]
        /\ job' = [job EXCEPT !.status = JobOutcome(d)]
    BY <1>10 DEF EndJob, Goto, JobFits, Draining
  <2>2. job'.claims = job.claims /\ job'.status = JobOutcome(d)
    BY <1>a, <2>1
  <2>3. JobOutcome(d) # "none" /\ (JobOutcome(d) = "pending" => job.claims < MaxRetries)
    BY DEF JobOutcome
  <2> QED
    BY <1>2, <2>1, <2>2, <2>3
<1>11. ASSUME NEW d \in Workers, CancelResume(d) PROVE JobFits'
  <2>1. /\ d \in Drains /\ Draining(d) /\ pc' = [pc EXCEPT ![d] = "idle"]
        /\ job' = [job EXCEPT !.status = "dead_letter"]
    BY <1>11 DEF CancelResume, Goto, Draining
  <2>2. job'.claims = job.claims /\ job'.status = "dead_letter"
    BY <1>a, <2>1
  <2> QED
    BY <1>2, <2>1, <2>2
<1>12. ASSUME \/ \E w \in Workers : Land(w)
              \/ \E o \in Others : Revert(o) \/ Reject(o) \/ Amend(o)
              \/ UNCHANGED vars
       PROVE  JobFits'
  <2>1. UNCHANGED <<pc, job>>
    BY <1>12 DEF Revert, Reject, Amend, Land, vars
  <2> QED
    BY <2>1 DEF JobFits, OneDrainRuns, RetryBudget, Draining
<1> QED
  BY <1>3, <1>4, <1>5, <1>6, <1>7, <1>8, <1>9, <1>10, <1>11, <1>12
     DEF Next, Step, Asks

\* claim_agent_retry_job, the fixed key of the job and complete_agent_retry_job
\* together: whatever the drains, the clicks that find the job on record and
\* the crashes do, one drain at a time attempts the item, on a job that says
\* so, and no more than max_retries attempts are started.
THEOREM RetriesAreOneAtATimeAndBounded == Spec => [](OneDrainRuns /\ RetryBudget)
<1>1. Init => JobFits
  BY BoundsAssumption, WorkersAssumption
     DEF Init, JobFits, OneDrainRuns, RetryBudget, Draining, Workers
<1>2. IInv /\ JobFits /\ [Next]_vars => JobFits'
  BY JobStep DEF IInv
<1>3. JobFits => OneDrainRuns /\ RetryBudget
  BY DEF JobFits
<1> QED
  BY <1>1, <1>2, <1>3, Invariance, PTL DEF Spec
=============================================================================
