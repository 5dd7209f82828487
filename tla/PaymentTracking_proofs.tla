----------------------- MODULE PaymentTracking_proofs -----------------------
(***************************************************************************)
(* Proofs about PaymentTracking, for any payments, deliveries, closers and *)
(* number of crashes.                                                      *)
(***************************************************************************)
EXTENDS PaymentTracking, TLAPS

-----------------------------------------------------------------------------
(* The inductive invariant.                                                *)

\* A call past the ledger holds the row of its payment.
HoldsRow(d) ==
  call[d].at \in {"read", "walk"} => ledger[call[d].pay] = call[d].status

\* A walk ends at the target of the call's status.
RightWay(d) ==
  LET path == call[d].path
  IN  /\ path # <<>> => call[d].at = "walk"
      /\ call[d].checked => path # <<>>
      /\ path # <<>> /\ call[d].status = "confirmed" =>
           path \in {<<"payment_executed">>, <<"awaiting_payment", "payment_executed">>}
      /\ path # <<>> /\ call[d].status # "confirmed" =>
           /\ call[d].status = "failed"
           /\ path \in {<<"payment_failed">>, <<"awaiting_payment", "payment_failed">>}

\* A confirmed walk that is over has settled the item or is known as dropped,
\* or the item was overtaken.
Arrived(d) ==
  call[d].at = "walk" /\ call[d].status = "confirmed" /\ call[d].path = <<>>
    => state \in Settled \/ call[d].pay \in dropped \/ overtaken

\* A confirmed payment is settled, dropped, overtaken or still in the hands of a
\* call.
InHand(p) ==
  ledger[p] = "confirmed" =>
    \/ state \in Settled \/ p \in dropped \/ overtaken
    \/ \E d \in Deliveries : call[d].at \in {"read", "walk"} /\ call[d].pay = p

Walks == \A d \in Deliveries : HoldsRow(d) /\ RightWay(d) /\ Arrived(d)
Accounted == \A p \in Payments : InHand(p)

IInv == TypeOK /\ OneCallWalks /\ StatesAreBacked /\ Walks /\ Accounted

-----------------------------------------------------------------------------
(* Lemmas about walks and the graph.                                       *)

\* What a walk's next state and its rest can be.
LEMMA Steps ==
  /\ \A t : Head(<<t>>) = t /\ Tail(<<t>>) = <<>> /\ <<t>> # <<>>
  /\ \A s, t : Head(<<s, t>>) = s /\ Tail(<<s, t>>) = <<t>> /\ <<s, t>> # <<>>
<1>1. ASSUME NEW t
      PROVE  Head(<<t>>) = t /\ Tail(<<t>>) = <<>> /\ <<t>> # <<>>
  OBVIOUS
<1>2. ASSUME NEW s, NEW t
      PROVE  Head(<<s, t>>) = s /\ Tail(<<s, t>>) = <<t>> /\ <<s, t>> # <<>>
  OBVIOUS
<1> QED
  BY <1>1, <1>2

\* A settled item stays settled under an UPDATE, or it is overtaken; and what
\* was overtaken stays so.
LEMMA SettledStays ==
  ASSUME NEW t, Update(t),
         t \in {"awaiting_payment", "payment_executed", "payment_failed", "closed"}
  PROVE  /\ state \in Settled => state' \in Settled \/ overtaken'
         /\ overtaken => overtaken'
<1>1. state \in Settled => state' \in Settled \/ ~Legal(state, t)
  <2>1. CASE state = "payment_executed"
    BY <2>1 DEF Update, Settled, Legal, ValidTransitions, APState
  <2>2. CASE state = "closed"
    BY <2>2 DEF Update, Settled, Legal, ValidTransitions, APState
  <2> QED
    BY <2>1, <2>2 DEF Settled
<1> QED
  BY <1>1 DEF Update, Settled

-----------------------------------------------------------------------------
(* Initial states.                                                         *)

LEMMA Initially == Init => IInv
<1> SUFFICES ASSUME Init PROVE IInv
  OBVIOUS
<1>1. TypeOK
  <2>1. Idle \in [pay : Payments, status : Statuses, at : Places,
         path : Paths, checked : BOOLEAN]
    BY PaymentsAssumption DEF Idle, Statuses, Places, Paths
  <2>2. call \in [Deliveries -> [pay : Payments, status : Statuses, at : Places,
                                path : Paths, checked : BOOLEAN]]
    BY <2>1 DEF Init
  <2>3. /\ bank \in [Payments -> {"none", "confirmed", "failed"}]
        /\ ledger \in [Payments -> Statuses \cup {"none"}]
    BY DEF Init
  <2>4. /\ closing \in [Closers -> {"idle", "check", "close", "done"}]
        /\ crashes \in 0..MaxCrashes /\ blocked \in BOOLEAN
        /\ dropped = {} /\ overtaken = FALSE /\ state = "posted_to_erp"
    BY MaxCrashesAssumption DEF Init
  <2> QED
    BY <2>2, <2>3, <2>4 DEF TypeOK
<1>2. \A d \in Deliveries :
        call[d].at = "idle" /\ call[d].path = <<>> /\ ~call[d].checked
  BY DEF Init, Idle
<1>3. OneCallWalks /\ Walks
  BY <1>2 DEF OneCallWalks, Walks, HoldsRow, RightWay, Arrived
<1>4. StatesAreBacked /\ Accounted
  BY DEF Init, StatesAreBacked, Accounted, InHand
<1> QED
  BY <1>1, <1>3, <1>4 DEF IInv

-----------------------------------------------------------------------------
(* Steps.                                                                  *)

\* A step that leaves the item, the ledger, the dropped payments and the calls
\* past the ledger alone.
LEMMA Aside ==
  ASSUME IInv, TypeOK', UNCHANGED <<item, ledger, dropped>>,
         \A d \in Deliveries :
           \/ call'[d] = call[d]
           \/ /\ call'[d].at \notin {"read", "walk"} /\ call'[d].path = <<>>
              /\ ~call'[d].checked /\ call[d].at \notin {"read", "walk"}
  PROVE  IInv'
<1> USE DEF item
<1>1. OneCallWalks'
  BY DEF IInv, OneCallWalks
<1>2. Walks'
  <2> SUFFICES ASSUME NEW d \in Deliveries
               PROVE  HoldsRow(d)' /\ RightWay(d)' /\ Arrived(d)'
    BY DEF Walks
  <2>1. HoldsRow(d) /\ RightWay(d) /\ Arrived(d)
    BY DEF IInv, Walks
  <2>2. CASE call'[d] = call[d]
    BY <2>1, <2>2 DEF HoldsRow, RightWay, Arrived, Settled
  <2>3. CASE call'[d] # call[d]
    <3>1. /\ call'[d].at \notin {"read", "walk"} /\ call'[d].path = <<>>
          /\ ~call'[d].checked
      BY <2>3
    <3> QED
      BY <3>1 DEF HoldsRow, RightWay, Arrived
  <2> QED
    BY <2>2, <2>3
<1>3. StatesAreBacked'
  BY DEF IInv, StatesAreBacked, Recorded
<1>4. Accounted'
  <2> SUFFICES ASSUME NEW p \in Payments PROVE InHand(p)'
    BY DEF Accounted
  <2>1. InHand(p)
    BY DEF IInv, Accounted
  <2> QED
    BY <2>1 DEF InHand, Settled
<1> QED
  BY <1>1, <1>2, <1>3, <1>4 DEF IInv

LEMMA Preserved == IInv /\ [Next]_vars => IInv'
<1> SUFFICES ASSUME IInv, [Next]_vars PROVE IInv'
  OBVIOUS
<1> USE DEF At, Goto, item
<1>t. TypeOK
  BY DEF IInv
<1>r. ASSUME NEW d \in Deliveries
      PROVE  /\ call[d].pay \in Payments /\ call[d].status \in Statuses
             /\ call[d].at \in Places /\ call[d].path \in Paths
             /\ call[d].checked \in BOOLEAN
             /\ HoldsRow(d) /\ RightWay(d) /\ Arrived(d)
  BY <1>t DEF TypeOK, IInv, Walks
<1>1. CASE UNCHANGED vars
  <2>1. TypeOK'
    BY <1>1, <1>t DEF TypeOK, vars, env
  <2> QED
    BY <1>1, <2>1, Aside DEF vars, env
<1>2. ASSUME NEW p \in Payments, Pay(p) PROVE IInv'
  <2>1. TypeOK'
    BY <1>2, <1>t DEF TypeOK, Pay
  <2> QED
    BY <1>2, <2>1, Aside DEF Pay
<1>3. CASE Screen
  <2>1. TypeOK'
    BY <1>3, <1>t DEF TypeOK, Screen
  <2> QED
    BY <1>3, <2>1, Aside DEF Screen
<1>4. ASSUME NEW c \in Closers, FindPosted(c) PROVE IInv'
  <2>1. TypeOK'
    BY <1>4, <1>t DEF TypeOK, FindPosted
  <2> QED
    BY <1>4, <2>1, Aside DEF FindPosted
<1>12. ASSUME NEW c \in Closers, CheckClose(c) PROVE IInv'
  <2>1. TypeOK'
    BY <1>12, <1>t DEF TypeOK, CheckClose
  <2> QED
    BY <1>12, <2>1, Aside DEF CheckClose
<1>5. ASSUME NEW c \in Closers, Close(c) PROVE IInv'
  <2>1. /\ state' = "closed" /\ overtaken' \in BOOLEAN
        /\ overtaken => overtaken'
        /\ UNCHANGED <<ledger, call, dropped, bank, blocked, crashes>>
        /\ closing' = [closing EXCEPT ![c] = "done"]
    BY <1>5, <1>t DEF Close, Update, TypeOK
  <2>2. TypeOK'
    BY <2>1, <1>t DEF TypeOK
  <2>3. OneCallWalks' /\ StatesAreBacked'
    BY <2>1 DEF IInv, OneCallWalks, StatesAreBacked, Recorded
  <2>4. Walks'
    <3> SUFFICES ASSUME NEW d \in Deliveries
                 PROVE  HoldsRow(d)' /\ RightWay(d)' /\ Arrived(d)'
      BY DEF Walks
    <3> QED
      BY <2>1, <1>r DEF HoldsRow, RightWay, Arrived, Settled
  <2>5. Accounted'
    BY <2>1 DEF Accounted, InHand, Settled
  <2> QED
    BY <2>2, <2>3, <2>4, <2>5 DEF IInv
<1>l. ASSUME NEW d \in Deliveries, Leave(d)
      PROVE  /\ call' \in [Deliveries -> [pay : Payments, status : Statuses,
                at : Places, path : Paths, checked : BOOLEAN]]
             /\ call'[d].at = "done" /\ call'[d].path = <<>> /\ ~call'[d].checked
             /\ \A e \in Deliveries \ {d} : call'[e] = call[e]
  <2>1. [Idle EXCEPT !.at = "done"] \in [pay : Payments, status : Statuses,
           at : Places, path : Paths, checked : BOOLEAN]
    BY PaymentsAssumption DEF Idle, Statuses, Places, Paths
  <2>2. call' = [call EXCEPT ![d] = [Idle EXCEPT !.at = "done"]]
    BY <1>l DEF Leave
  <2>3. call'[d] = [Idle EXCEPT !.at = "done"]
    BY <2>2, <1>t DEF TypeOK
  <2>4. call'[d].at = "done" /\ call'[d].path = <<>> /\ ~call'[d].checked
    BY <2>3 DEF Idle
  <2> QED
    BY <2>1, <2>2, <2>4, <1>t DEF TypeOK
<1>6. ASSUME NEW d \in Deliveries, Deliver(d) PROVE IInv'
  <2>1. call[d].at = "idle" /\ UNCHANGED <<item, env, ledger, crashes, dropped>>
    BY <1>6 DEF Deliver
  <2>2. CASE Leave(d)
    <3>1. TypeOK'
      BY <2>1, <2>2, <1>l, <1>t DEF TypeOK, env
    <3> QED
      BY <2>1, <2>2, <3>1, <1>l, Aside
  <2>3. ASSUME NEW p \in Payments, NEW s \in Statuses,
               call' = [call EXCEPT ![d] = [@ EXCEPT !.pay = p, !.status = s,
                                                     !.at = "check"]]
        PROVE  IInv'
    <3> DEFINE rec == [call[d] EXCEPT !.pay = p, !.status = s, !.at = "check"]
    <3>1. rec \in [pay : Payments, status : Statuses, at : Places, path : Paths,
                   checked : BOOLEAN]
      BY <1>t DEF TypeOK, Places
    <3>2. call' = [call EXCEPT ![d] = rec]
      BY <2>3
    <3>3. rec.at = "check" /\ rec.path = <<>> /\ ~rec.checked
      <4>1. call[d].path = <<>> /\ ~call[d].checked
        BY <2>1, <1>r DEF RightWay
      <4>2. call[d] \in [pay : Payments, status : Statuses, at : Places,
                         path : Paths, checked : BOOLEAN]
        BY <1>t DEF TypeOK
      <4> QED
        BY <4>1, <4>2
    <3> HIDE DEF rec
    <3>4. /\ call' \in [Deliveries -> [pay : Payments, status : Statuses,
                 at : Places, path : Paths, checked : BOOLEAN]]
          /\ call'[d] = rec /\ \A e \in Deliveries \ {d} : call'[e] = call[e]
      BY <3>1, <3>2, <1>t DEF TypeOK
    <3>5. TypeOK'
      BY <2>1, <3>4, <1>t DEF TypeOK, env
    <3> QED
      BY <2>1, <3>3, <3>4, <3>5, Aside
  <2> QED
    BY <1>6, <2>2, <2>3 DEF Deliver
<1>7. ASSUME NEW d \in Deliveries, Check(d) PROVE IInv'
  <2>1. /\ call[d].at = "check" /\ call[d].path = <<>> /\ ~call[d].checked
        /\ UNCHANGED <<item, env, ledger, crashes, dropped>>
    BY <1>7, <1>r DEF Check, RightWay
  <2>2. CASE Leave(d)
    <3>1. TypeOK'
      BY <2>1, <2>2, <1>l, <1>t DEF TypeOK, env
    <3> QED
      BY <2>1, <2>2, <3>1, <1>l, Aside
  <2>3. CASE Goto(d, "insert")
    <3>1. TypeOK'
      BY <2>1, <2>3, <1>t DEF TypeOK, env, Places
    <3>2. /\ call'[d].at = "insert" /\ call'[d].path = <<>> /\ ~call'[d].checked
          /\ \A e \in Deliveries \ {d} : call'[e] = call[e]
      BY <2>1, <2>3, <1>t DEF TypeOK
    <3> QED
      BY <2>1, <3>1, <3>2, Aside
  <2> QED
    BY <1>7, <2>2, <2>3 DEF Check
<1>8. ASSUME NEW d \in Deliveries, Insert(d) PROVE IInv'
  <2>1. /\ call[d].at = "insert" /\ call[d].path = <<>> /\ ~call[d].checked
        /\ UNCHANGED <<item, env, crashes, dropped>>
    BY <1>8, <1>r DEF Insert, RightWay
  <2>2. CASE Conflict(d)
    <3>1. Leave(d) /\ UNCHANGED ledger
      BY <1>8, <2>2 DEF Insert
    <3>2. TypeOK'
      BY <2>1, <3>1, <1>l, <1>t DEF TypeOK, env
    <3> QED
      BY <2>1, <3>1, <3>2, <1>l, Aside
  <2>3. CASE ~Conflict(d)
    <3> DEFINE p == call[d].pay
    <3>1. /\ ledger[p] = "none"
          /\ ledger' = [ledger EXCEPT ![p] = call[d].status]
          /\ call' = [call EXCEPT ![d].at = "read"]
          /\ UNCHANGED <<item, dropped>>
      BY <1>8, <2>3 DEF Insert, Conflict
    <3>t. TypeOK'
      BY <2>1, <3>1, <1>t, <1>r DEF TypeOK, Places, env
    <3>2. ledger'[p] = call[d].status /\ \A q \in Payments \ {p} : ledger'[q] = ledger[q]
      BY <3>1, <1>t, <1>r DEF TypeOK
    <3>3. /\ call'[d].at = "read" /\ call'[d].pay = p
          /\ call'[d].status = call[d].status /\ call'[d].path = <<>>
          /\ ~call'[d].checked /\ \A e \in Deliveries \ {d} : call'[e] = call[e]
      BY <3>1, <2>1, <1>t DEF TypeOK
    <3>4. \A e \in Deliveries : call[e].at \in {"read", "walk"} => call[e].pay # p
      BY <3>1, <1>r DEF HoldsRow, Statuses
    <3>5. OneCallWalks'
      BY <3>3, <3>4 DEF IInv, OneCallWalks
    <3>6. StatesAreBacked'
      <4>1. \A s \in Statuses : Recorded(s) => Recorded(s)'
        BY <3>1, <3>2 DEF Recorded, Statuses
      <4> QED
        BY <3>1, <4>1 DEF IInv, StatesAreBacked, Statuses
    <3>7. Walks'
      <4> SUFFICES ASSUME NEW e \in Deliveries
                   PROVE  HoldsRow(e)' /\ RightWay(e)' /\ Arrived(e)'
        BY DEF Walks
      <4>1. CASE e = d
        BY <4>1, <3>2, <3>3 DEF HoldsRow, RightWay, Arrived
      <4>2. CASE e # d
        BY <4>2, <3>1, <3>2, <3>3, <3>4, <1>r DEF HoldsRow, RightWay, Arrived, Settled
      <4> QED
        BY <4>1, <4>2
    <3>8. Accounted'
      <4> SUFFICES ASSUME NEW q \in Payments PROVE InHand(q)'
        BY DEF Accounted
      <4>1. CASE q = p
        BY <4>1, <3>3 DEF InHand
      <4>2. CASE q # p
        <5>1. InHand(q)
          BY DEF IInv, Accounted
        <5> QED
          BY <5>1, <4>2, <3>1, <3>2, <3>3 DEF InHand, Settled
      <4> QED
        BY <4>1, <4>2
    <3> QED
      BY <3>t, <3>5, <3>6, <3>7, <3>8 DEF IInv
  <2> QED
    BY <2>2, <2>3
<1>9. ASSUME NEW d \in Deliveries, ReadItem(d) PROVE IInv'
  <2> DEFINE path == IF call[d].status = "disputed" \/ state \in Terminal THEN <<>>
                     ELSE Path(state, Target[call[d].status])
  <2>1. /\ call[d].at = "read" /\ UNCHANGED <<item, ledger, dropped, env, crashes>>
        /\ call' = [call EXCEPT ![d].at = "walk", ![d].path = path]
    BY <1>9 DEF ReadItem
  <2>5. /\ call[d].status = "confirmed" =>
             /\ path \in {<<>>, <<"payment_executed">>, <<"awaiting_payment", "payment_executed">>}
             /\ path = <<>> => state \in Settled
        /\ call[d].status = "failed" =>
             path \in {<<>>, <<"payment_failed">>, <<"awaiting_payment", "payment_failed">>}
        /\ call[d].status = "disputed" => path = <<>>
    <3>1. call[d].status = "confirmed" =>
             /\ path \in {<<>>, <<"payment_executed">>, <<"awaiting_payment", "payment_executed">>}
             /\ path = <<>> => state \in Settled
      <4> SUFFICES ASSUME call[d].status = "confirmed" PROVE
             /\ path \in {<<>>, <<"payment_executed">>, <<"awaiting_payment", "payment_executed">>}
             /\ path = <<>> => state \in Settled
        OBVIOUS
      <4>1. Target[call[d].status] = "payment_executed"
        BY DEF Target
      <4> QED
        BY <4>1, <1>t DEF Path, TypeOK, Settled, Terminal
    <3>2. call[d].status = "failed" =>
             path \in {<<>>, <<"payment_failed">>, <<"awaiting_payment", "payment_failed">>}
      <4> SUFFICES ASSUME call[d].status = "failed" PROVE
             path \in {<<>>, <<"payment_failed">>, <<"awaiting_payment", "payment_failed">>}
        OBVIOUS
      <4>1. Target[call[d].status] = "payment_failed"
        BY DEF Target
      <4> QED
        BY <4>1, <1>t DEF Path, TypeOK, Terminal
    <3> QED
      BY <3>1, <3>2
  <2> HIDE DEF path
  <2>6. path \in Paths
    BY <2>5, <1>r DEF Paths, Statuses
  <2>7. /\ call'[d].at = "walk" /\ call'[d].path = path
        /\ call'[d].pay = call[d].pay /\ call'[d].status = call[d].status
        /\ ~call'[d].checked /\ \A e \in Deliveries \ {d} : call'[e] = call[e]
    <3>1. ~call[d].checked
      BY <2>1, <1>r DEF RightWay
    <3> QED
      BY <2>1, <3>1, <1>t DEF TypeOK
  <2>t. TypeOK'
    BY <2>1, <2>6, <1>t DEF TypeOK, env, Places
  <2>u. call[d].at = "read" /\ UNCHANGED <<item, ledger, dropped>>
    BY <2>1
  <2>8. OneCallWalks' /\ StatesAreBacked'
    <3>1. OneCallWalks'
      BY <2>u, <2>7 DEF IInv, OneCallWalks
    <3>2. StatesAreBacked'
      BY <2>1 DEF IInv, StatesAreBacked, Recorded
    <3> QED
      BY <3>1, <3>2
  <2>9. Walks'
    <3> SUFFICES ASSUME NEW e \in Deliveries
                 PROVE  HoldsRow(e)' /\ RightWay(e)' /\ Arrived(e)'
      BY DEF Walks
    <3>1. CASE e = d
      <4>1. HoldsRow(e)'
        BY <3>1, <2>u, <2>7, <1>r DEF HoldsRow
      <4>2. RightWay(e)'
        BY <3>1, <2>5, <2>7, <1>r DEF RightWay, Statuses
      <4>3. Arrived(e)'
        BY <3>1, <2>u, <2>5, <2>7 DEF Arrived, Settled
      <4> QED
        BY <4>1, <4>2, <4>3
    <3>2. CASE e # d
      BY <3>2, <2>u, <2>7, <1>r DEF HoldsRow, RightWay, Arrived, Settled
    <3> QED
      BY <3>1, <3>2
  <2>10. Accounted'
    <3> SUFFICES ASSUME NEW q \in Payments PROVE InHand(q)'
      BY DEF Accounted
    <3>1. InHand(q)
      BY DEF IInv, Accounted
    <3> QED
      BY <3>1, <2>u, <2>7 DEF InHand, Settled
  <2> QED
    BY <2>t, <2>8, <2>9, <2>10 DEF IInv
<1>9a. ASSUME NEW d \in Deliveries, CheckHop(d) PROVE IInv'
  <2>1. /\ call[d].at = "walk" /\ call[d].path # <<>> /\ ~call[d].checked
        /\ UNCHANGED <<item, ledger, env, crashes>>
    BY <1>9a DEF CheckHop
  <2>2. CASE Legal(state, Head(call[d].path))
    <3>1. call' = [call EXCEPT ![d].checked = TRUE] /\ UNCHANGED dropped
      BY <1>9a, <2>2 DEF CheckHop
    <3>2. /\ call'[d].at = "walk" /\ call'[d].path = call[d].path
          /\ call'[d].pay = call[d].pay /\ call'[d].status = call[d].status
          /\ \A e \in Deliveries \ {d} : call'[e] = call[e]
      BY <3>1, <2>1, <1>t DEF TypeOK
    <3>3. TypeOK'
      BY <3>1, <2>1, <1>t DEF TypeOK, env
    <3>4. OneCallWalks' /\ StatesAreBacked'
      BY <3>1, <3>2, <2>1 DEF IInv, OneCallWalks, StatesAreBacked, Recorded
    <3>5. Walks'
      <4> SUFFICES ASSUME NEW e \in Deliveries
                   PROVE  HoldsRow(e)' /\ RightWay(e)' /\ Arrived(e)'
        BY DEF Walks
      <4>1. CASE e = d
        BY <4>1, <2>1, <3>1, <3>2, <1>r DEF HoldsRow, RightWay, Arrived
      <4>2. CASE e # d
        BY <4>2, <2>1, <3>1, <3>2, <1>r DEF HoldsRow, RightWay, Arrived, Settled
      <4> QED
        BY <4>1, <4>2
    <3>6. Accounted'
      <4> SUFFICES ASSUME NEW q \in Payments PROVE InHand(q)'
        BY DEF Accounted
      <4>1. InHand(q)
        BY DEF IInv, Accounted
      <4> QED
        BY <4>1, <2>1, <3>1, <3>2 DEF InHand, Settled
    <3> QED
      BY <3>3, <3>4, <3>5, <3>6 DEF IInv
  <2>3. CASE ~Legal(state, Head(call[d].path))
    <3>1. /\ call' = [call EXCEPT ![d].path = <<>>]
          /\ dropped' = dropped \cup {call[d].pay}
      BY <1>9a, <2>3 DEF CheckHop
    <3>2. /\ call'[d].at = "walk" /\ call'[d].path = <<>> /\ ~call'[d].checked
          /\ call'[d].pay = call[d].pay /\ call'[d].status = call[d].status
          /\ \A e \in Deliveries \ {d} : call'[e] = call[e]
      BY <3>1, <2>1, <1>t DEF TypeOK
    <3>3. TypeOK'
      BY <3>1, <2>1, <1>t, <1>r DEF TypeOK, env, Paths
    <3>4. OneCallWalks' /\ StatesAreBacked'
      BY <3>1, <3>2, <2>1 DEF IInv, OneCallWalks, StatesAreBacked, Recorded
    <3>5. Walks'
      <4> SUFFICES ASSUME NEW e \in Deliveries
                   PROVE  HoldsRow(e)' /\ RightWay(e)' /\ Arrived(e)'
        BY DEF Walks
      <4>1. CASE e = d
        BY <4>1, <2>1, <3>1, <3>2, <1>r DEF HoldsRow, RightWay, Arrived
      <4>2. CASE e # d
        BY <4>2, <2>1, <3>1, <3>2, <1>r DEF HoldsRow, RightWay, Arrived, Settled
      <4> QED
        BY <4>1, <4>2
    <3>6. Accounted'
      <4> SUFFICES ASSUME NEW q \in Payments PROVE InHand(q)'
        BY DEF Accounted
      <4>1. InHand(q)
        BY DEF IInv, Accounted
      <4> QED
        BY <4>1, <2>1, <3>1, <3>2 DEF InHand, Settled
    <3> QED
      BY <3>3, <3>4, <3>5, <3>6 DEF IInv
  <2> QED
    BY <2>2, <2>3
<1>10. ASSUME NEW d \in Deliveries, Hop(d) PROVE IInv'
  <2> DEFINE path == call[d].path
             next == Head(path)
  <2>1. /\ call[d].at = "walk" /\ path # <<>>
        /\ UNCHANGED <<ledger, env, crashes, dropped>> /\ Update(next)
        /\ call' = [call EXCEPT ![d].path = Tail(path), ![d].checked = FALSE]
    BY <1>10, <1>r DEF Hop, RightWay
  <2>2. /\ call[d].status = "confirmed" \/ call[d].status = "failed"
        /\ call[d].status = "confirmed" =>
             path \in {<<"payment_executed">>, <<"awaiting_payment", "payment_executed">>}
        /\ call[d].status = "failed" =>
             path \in {<<"payment_failed">>, <<"awaiting_payment", "payment_failed">>}
    BY <2>1, <1>r DEF RightWay
  <2>3. /\ next \in {"awaiting_payment", "payment_executed", "payment_failed"}
        /\ next = "payment_executed" => call[d].status = "confirmed"
        /\ next = "payment_failed" => call[d].status = "failed"
    BY <2>2, Steps
  <2>4. /\ call[d].status = "confirmed" =>
             \/ Tail(path) = <<>> /\ next = "payment_executed"
             \/ Tail(path) = <<"payment_executed">>
        /\ call[d].status = "failed" => Tail(path) \in {<<>>, <<"payment_failed">>}
    <3>1. CASE path = <<"payment_executed">>
      BY <3>1, <2>2, Steps
    <3>2. CASE path = <<"payment_failed">>
      BY <3>2, <2>2, Steps
    <3>3. CASE path = <<"awaiting_payment", "payment_executed">>
      BY <3>3, <2>2, Steps
    <3>4. CASE path = <<"awaiting_payment", "payment_failed">>
      BY <3>4, <2>2, Steps
    <3> QED
      BY <2>2, <3>1, <3>2, <3>3, <3>4
  <2>5. /\ state' = next /\ overtaken' \in BOOLEAN
        /\ overtaken => overtaken'
        /\ state \in Settled => state' \in Settled \/ overtaken'
    <3>1. next \in {"awaiting_payment", "payment_executed", "payment_failed", "closed"}
      BY <2>3
    <3>2. state' = next /\ overtaken' \in BOOLEAN
      BY <2>1, <1>t DEF Update, TypeOK
    <3> HIDE DEF next, path
    <3> QED
      BY <2>1, <3>1, <3>2, SettledStays
  <2>6. /\ call'[d].at = "walk" /\ call'[d].path = Tail(path) /\ ~call'[d].checked
        /\ call'[d].pay = call[d].pay /\ call'[d].status = call[d].status
        /\ \A e \in Deliveries \ {d} : call'[e] = call[e]
    BY <2>1, <1>t DEF TypeOK
  <2>7. TypeOK'
    <3>1. Tail(path) \in Paths
      BY <2>2, <2>4 DEF Paths
    <3>2. call' \in [Deliveries -> [pay : Payments, status : Statuses,
             at : Places, path : Paths, checked : BOOLEAN]]
      BY <3>1, <2>1, <1>t DEF TypeOK
    <3> HIDE DEF next, path
    <3>3. state' \in {"posted_to_erp", "awaiting_payment", "payment_executed",
                      "payment_failed", "closed"}
      BY <2>3, <2>5
    <3> QED
      BY <3>2, <3>3, <2>1, <2>5, <1>t DEF TypeOK, env
  <2>8. OneCallWalks'
    <3>1. \A e \in Deliveries : /\ call'[e].at = call[e].at
                                 /\ call'[e].pay = call[e].pay
      BY <2>1, <2>6
    <3> HIDE DEF next, path
    <3> QED
      BY <3>1 DEF IInv, OneCallWalks
  <2>9. StatesAreBacked'
    <3>1. ledger'[call[d].pay] = call[d].status /\ call[d].pay \in Payments
      BY <2>1, <1>r DEF HoldsRow
    <3> QED
      BY <3>1, <2>3, <2>5 DEF StatesAreBacked, Recorded
  <2>10. Walks'
    <3> SUFFICES ASSUME NEW e \in Deliveries
                 PROVE  HoldsRow(e)' /\ RightWay(e)' /\ Arrived(e)'
      BY DEF Walks
    <3>1. CASE e = d
      <4>1. HoldsRow(e)'
        BY <3>1, <2>1, <2>6, <1>r DEF HoldsRow
      <4>2. RightWay(e)'
        BY <3>1, <2>2, <2>4, <2>6, Steps DEF RightWay
      <4>3. Arrived(e)'
        BY <3>1, <2>4, <2>5, <2>6, Steps DEF Arrived, Settled
      <4> QED
        BY <4>1, <4>2, <4>3
    <3>2. CASE e # d
      <4>1. call'[e] = call[e] /\ HoldsRow(e) /\ RightWay(e) /\ Arrived(e)
        BY <3>2, <2>6, <1>r
      <4> QED
        BY <4>1, <2>1, <2>5 DEF HoldsRow, RightWay, Arrived
    <3> QED
      BY <3>1, <3>2
  <2>11. Accounted'
    <3> SUFFICES ASSUME NEW q \in Payments PROVE InHand(q)'
      BY DEF Accounted
    <3>1. InHand(q)
      BY DEF IInv, Accounted
    <3> QED
      BY <3>1, <2>1, <2>5, <2>6 DEF InHand
  <2> QED
    BY <2>7, <2>8, <2>9, <2>10, <2>11 DEF IInv
<1>11. ASSUME NEW d \in Deliveries, Answer(d) \/ Crash(d) PROVE IInv'
  <2>1. /\ call[d].at # "idle" /\ UNCHANGED <<item, ledger, env>> /\ Leave(d)
        /\ \/ /\ call[d].at = "walk" /\ call[d].path = <<>>
              /\ dropped' = dropped
           \/ /\ call[d].at \in {"read", "walk"}
              /\ dropped' = dropped \cup {call[d].pay}
           \/ /\ call[d].at \notin {"read", "walk"}
              /\ dropped' = dropped
    <3>1. CASE Answer(d)
      BY <3>1 DEF Answer
    <3>2. CASE Crash(d)
      BY <3>2 DEF Crash
    <3> QED
      BY <1>11, <3>1, <3>2
  <2>2. /\ call'[d].at = "done" /\ call'[d].path = <<>> /\ ~call'[d].checked
        /\ \A e \in Deliveries \ {d} : call'[e] = call[e]
    BY <2>1, <1>l
  <2>3. TypeOK'
    <3>1. call' \in [Deliveries -> [pay : Payments, status : Statuses,
             at : Places, path : Paths, checked : BOOLEAN]]
      BY <2>1, <1>l
    <3>2. crashes' \in 0..MaxCrashes /\ dropped' \subseteq Payments
      BY <1>11, <1>t, <1>r, MaxCrashesAssumption DEF Answer, Crash, TypeOK
    <3> QED
      BY <3>1, <3>2, <2>1, <1>t DEF TypeOK, env
  <2>4. OneCallWalks' /\ StatesAreBacked'
    BY <2>1, <2>2 DEF IInv, OneCallWalks, StatesAreBacked, Recorded
  <2>5. Walks'
    <3> SUFFICES ASSUME NEW e \in Deliveries
                 PROVE  HoldsRow(e)' /\ RightWay(e)' /\ Arrived(e)'
      BY DEF Walks
    <3>1. CASE e = d
      BY <3>1, <2>2 DEF HoldsRow, RightWay, Arrived
    <3>2. CASE e # d
      BY <3>2, <2>1, <2>2, <1>r DEF HoldsRow, RightWay, Arrived, Settled
    <3> QED
      BY <3>1, <3>2
  <2>6. Accounted'
    <3> SUFFICES ASSUME NEW q \in Payments PROVE InHand(q)'
      BY DEF Accounted
    <3>1. InHand(q)
      BY DEF IInv, Accounted
    <3>2. CASE call[d].pay # q \/ call[d].at \notin {"read", "walk"}
      BY <3>1, <3>2, <2>1, <2>2 DEF InHand, Settled
    <3>3. CASE call[d].pay = q /\ call[d].at \in {"read", "walk"}
      BY <3>1, <3>3, <2>1, <1>r DEF InHand, HoldsRow, Arrived, Settled
    <3> QED
      BY <3>2, <3>3
  <2> QED
    BY <2>3, <2>4, <2>5, <2>6 DEF IInv
<1> QED
  BY <1>1, <1>2, <1>3, <1>4, <1>5, <1>6, <1>7, <1>8, <1>9, <1>9a, <1>10, <1>11,
     <1>12 DEF Next

-----------------------------------------------------------------------------
(* The theorems.                                                           *)

LEMMA Invariance == Spec => []IInv
<1>1. Init => IInv
  BY Initially
<1>2. IInv /\ [Next]_vars => IInv'
  BY Preserved
<1> QED
  BY <1>1, <1>2, PTL DEF Spec

\* Type invariant: a posted bill only ever takes the states the walks and the
\* closers of payment_tracking give it, along one of four walks.
THEOREM TypeCorrect == Spec => []TypeOK
<1>1. IInv => TypeOK
  BY DEF IInv
<1> QED
  BY <1>1, Invariance, PTL

\* The ledger backs every payment state: record_payment_confirmation never
\* shows a payment as executed or failed without the row that says so.
THEOREM LedgerBacksStates == Spec => []StatesAreBacked
<1>1. IInv => StatesAreBacked
  BY DEF IInv
<1> QED
  BY <1>1, Invariance, PTL

\* However often a payment is delivered, and by however many calls at a time,
\* one at most gets past the ledger's unique index.
THEOREM RedeliveriesAreNoOps == Spec => []OneCallWalks
<1>1. IInv => OneCallWalks
  BY DEF IInv
<1> QED
  BY <1>1, Invariance, PTL

\* A payment recorded as confirmed moves its bill, unless the call that recorded
\* it died or found the bill moved, or an UPDATE that nothing gates was written
\* over a state it does not follow.
THEOREM ConfirmedMoves == Spec => []ConfirmedItemsMove
<1>1. IInv => ConfirmedItemsMove
  <2> SUFFICES ASSUME IInv, AtRest, NEW p \in Payments, ledger[p] = "confirmed"
               PROVE  state \in Settled \/ p \in dropped \/ overtaken
    BY DEF ConfirmedItemsMove
  <2>1. InHand(p)
    BY DEF IInv, Accounted
  <2> QED
    BY <2>1 DEF InHand, AtRest
<1> QED
  BY <1>1, Invariance, PTL

-----------------------------------------------------------------------------
(* The ledger is an at-most-once consumer.                                 *)

\* One payment moves on, or none does.
StatusStep ==
  \/ \A p \in Payments : Status(p)' = Status(p)
  \/ \E p \in Payments :
       /\ \/ Status(p) = "new" /\ Status(p)' = "taken"
          \/ Status(p) = "taken" /\ Status(p)' \in {"finished", "lost"}
       /\ \A q \in Payments \ {p} : Status(q)' = Status(q)

\* That is a step of the promise, or none.
LEMMA StatusSteps ==
  StatusStep => [Promise!Next]_([p \in Payments |-> Status(p)])
<1> DEFINE st == [p \in Payments |-> Status(p)]
<1>1. CASE \A p \in Payments : Status(p)' = Status(p)
  BY <1>1
<1>2. ASSUME NEW p \in Payments, NEW from, NEW to,
             Status(p) = from, Status(p)' = to,
             \A q \in Payments \ {p} : Status(q)' = Status(q)
      PROVE  Promise!Moves(p, from, to)
  <2>1. st[p] = from /\ st' = [st EXCEPT ![p] = to]
    BY <1>2
  <2> QED
    BY <2>1 DEF Promise!Moves
<1> QED
  BY <1>1, <1>2 DEF StatusStep, Promise!Next, Promise!Take, Promise!Finish, Promise!Lose

\* A step that writes no row, drops nothing and takes no call past the ledger,
\* or out of it, moves no payment on.
LEMMA SameStatus ==
  ASSUME UNCHANGED <<ledger, dropped>>,
         \A d \in Deliveries :
           \/ call'[d] = call[d]
           \/ /\ call'[d].at \in {"read", "walk"} <=> call[d].at \in {"read", "walk"}
              /\ call[d].at \in {"read", "walk"} => call'[d].pay = call[d].pay
  PROVE  StatusStep
<1>1. \A p \in Payments : Taken(p)' <=> Taken(p)
  BY DEF Taken
<1> QED
  BY <1>1 DEF StatusStep, Status

\* A call that has the row of its payment takes it one step, or keeps it.
LEMMA StatusOfCall ==
  ASSUME IInv, NEW d \in Deliveries,
         Deliver(d) \/ Check(d) \/ Insert(d) \/ ReadItem(d) \/ CheckHop(d)
         \/ Hop(d) \/ Answer(d) \/ Crash(d)
  PROVE  StatusStep
<1> USE DEF At, Goto, item
<1> DEFINE Past(e) == call[e].at \in {"read", "walk"}
<1>t. TypeOK /\ OneCallWalks /\ call[d].status \in Statuses
  BY DEF IInv, TypeOK
<1>p. PICK p \in Payments : call[d].pay = p
  BY <1>t DEF TypeOK
<1>o. \A e \in Deliveries \ {d} : call'[e] = call[e]
  BY <1>t DEF Deliver, Check, Insert, ReadItem, CheckHop, Hop, Answer, Crash, Leave,
              TypeOK
<1>l. Leave(d) => call'[d].at = "done"
  BY <1>t DEF Leave, Idle, TypeOK
<1>s. "none" \notin Statuses
  BY DEF Statuses
<1>1. CASE Deliver(d) \/ Check(d)
  <2>1. call[d].at \in {"idle", "check"} /\ UNCHANGED <<ledger, dropped>>
    BY <1>1 DEF Deliver, Check
  <2>2. call'[d].at \in {"done", "check", "insert"}
    <3>1. CASE Deliver(d)
      <4>1. CASE Leave(d)
        BY <4>1, <1>l
      <4>2. ASSUME NEW q \in Payments, NEW s \in Statuses,
                   call' = [call EXCEPT ![d] = [@ EXCEPT !.pay = q, !.status = s,
                                                         !.at = "check"]]
            PROVE  call'[d].at = "check"
        BY <4>2, <1>t DEF TypeOK
      <4> QED
        BY <3>1, <4>1, <4>2 DEF Deliver
    <3>2. CASE Check(d)
      BY <3>2, <1>t, <1>l DEF Check, TypeOK
    <3> QED
      BY <1>1, <3>1, <3>2
  <2> QED
    BY <2>1, <2>2, <1>p, <1>o, SameStatus
<1>2. CASE Insert(d) /\ Conflict(d)
  <2>1. ~Past(d) /\ ~Past(d)' /\ UNCHANGED <<ledger, dropped>>
    BY <1>2, <1>t, <1>l DEF Insert, TypeOK
  <2> QED
    BY <2>1, <1>p, <1>o, SameStatus
<1>3. CASE Insert(d) /\ ~Conflict(d)
  <2>1. /\ ledger[p] = "none" /\ ledger' = [ledger EXCEPT ![p] = call[d].status]
        /\ call' = [call EXCEPT ![d].at = "read"] /\ ~Past(d) /\ dropped' = dropped
    BY <1>3, <1>p DEF Insert, Conflict
  <2>2. call'[d].at = "read" /\ call'[d].pay = p
    BY <2>1, <1>p, <1>t DEF TypeOK
  <2>3. /\ ledger'[p] # "none" /\ \A q \in Payments \ {p} : ledger'[q] = ledger[q]
    BY <2>1, <1>t, <1>s DEF TypeOK
  <2>4. Taken(p)' /\ \A q \in Payments \ {p} : Taken(q)' <=> Taken(q)
    BY <2>1, <2>2, <1>p, <1>o DEF Taken
  <2>5. Status(p) = "new" /\ Status(p)' = "taken"
    BY <2>1, <2>3, <2>4 DEF Status
  <2>6. \A q \in Payments \ {p} : Status(q)' = Status(q)
    BY <2>1, <2>3, <2>4 DEF Status
  <2> QED
    BY <1>t, <2>5, <2>6 DEF StatusStep
<1>4. CASE ReadItem(d)
  <2>1. Past(d) /\ Past(d)' /\ call'[d].pay = p /\ UNCHANGED <<ledger, dropped>>
    BY <1>4, <1>p, <1>t DEF ReadItem, TypeOK
  <2> QED
    BY <2>1, <1>p, <1>o, SameStatus
<1>5. CASE CheckHop(d) \/ Hop(d)
  <2>1. /\ Past(d) /\ Past(d)' /\ call'[d].pay = p /\ ledger' = ledger
        /\ dropped' \in {dropped, dropped \cup {p}}
    <3>1. CASE CheckHop(d)
      BY <3>1, <1>p, <1>t DEF CheckHop, TypeOK
    <3>2. CASE Hop(d)
      <4>1. call[d].at = "walk"
        BY <3>2 DEF Hop, IInv, Walks, RightWay
      <4> QED
        BY <3>2, <4>1, <1>p, <1>t DEF Hop, TypeOK
    <3> QED
      BY <1>5, <3>1, <3>2
  <2>2. /\ Taken(p) /\ Taken(p)' /\ \A q \in Payments : Taken(q)' <=> Taken(q)
    BY <2>1, <1>p, <1>o DEF Taken
  <2>3. \A q \in Payments : Status(q)' = Status(q)
    BY <2>1, <2>2 DEF Status
  <2> QED
    BY <2>3 DEF StatusStep
<1>6. CASE (Answer(d) \/ Crash(d)) /\ Past(d)
  <2>1. /\ ~Past(d)' /\ ledger' = ledger /\ dropped' \in {dropped, dropped \cup {p}}
    BY <1>6, <1>p, <1>l DEF Answer, Crash
  <2>2. ledger[p] # "none"
    BY <1>6, <1>p, <1>t, <1>s DEF IInv, Walks, HoldsRow
  <2>3. Taken(p) /\ ~Taken(p)' /\ \A q \in Payments \ {p} : Taken(q)' <=> Taken(q)
    BY <1>6, <2>1, <1>p, <1>o, <1>t DEF Taken, OneCallWalks
  <2>4. Status(p) = "taken" /\ Status(p)' \in {"finished", "lost"}
    BY <2>1, <2>2, <2>3 DEF Status
  <2>5. \A q \in Payments \ {p} : Status(q)' = Status(q)
    BY <2>1, <2>3 DEF Status
  <2> QED
    BY <1>t, <2>4, <2>5 DEF StatusStep
<1>7. CASE (Answer(d) \/ Crash(d)) /\ ~Past(d)
  <2>1. ~Past(d)' /\ UNCHANGED <<ledger, dropped>>
    BY <1>7, <1>l DEF Answer, Crash
  <2> QED
    BY <2>1, <1>7, <1>p, <1>o, SameStatus
<1> QED
  BY <1>1, <1>2, <1>3, <1>4, <1>5, <1>6, <1>7

\* However payments are delivered, redelivered and raced for, and wherever the
\* calls die: a payment is acted on by the one call that wrote its row, once,
\* and what that call leaves undone stays undone.
THEOREM TrackingImplementsAtMostOnce == Spec => ImplementsAtMostOnce
<1>1. Init => Promise!Init
  BY DEF Init, Promise!Init, Status
<1>2. IInv /\ [Next]_vars => [Promise!Next]_([p \in Payments |-> Status(p)])
  <2> SUFFICES ASSUME IInv, [Next]_vars PROVE StatusStep
    BY StatusSteps
  <2>1. CASE \/ UNCHANGED vars \/ Screen \/ \E p \in Payments : Pay(p)
             \/ \E c \in Closers : FindPosted(c) \/ CheckClose(c) \/ Close(c)
    <3>1. UNCHANGED <<ledger, call, dropped>>
      BY <2>1 DEF vars, Screen, Pay, FindPosted, CheckClose, Close
    <3> QED
      BY <3>1, SameStatus
  <2> QED
    BY <2>1, StatusOfCall DEF Next
<1> QED
  BY <1>1, <1>2, Invariance, PTL DEF Spec, ImplementsAtMostOnce, Promise!Spec
=============================================================================
