----------------------- MODULE OverrideWindow_proofs -----------------------
(***************************************************************************)
(* Proofs about OverrideWindow, for any numbers of reversers, reapers,     *)
(* windows and crashes.                                                    *)
(***************************************************************************)
EXTENDS OverrideWindow, TLAPS

-----------------------------------------------------------------------------
(* The inductive invariant.                                                *)

Placed(c) ==
  \* a call that is under way has a window, and a reaper stays in its own part
  /\ pc[c] # "idle" => target[c] \in DOMAIN windows
  /\ c \in Reapers => pc[c] \in {"idle", "expire", "close", "closing"}
  \* a reaper closes the item of a window that has expired
  /\ (c \in Reapers /\ pc[c] \in {"close", "closing"}) => Window(c).state = "expired"
  \* what reverse_bill persists is an answer that stands for a reversal
  /\ pc[c] = "persist" => Reversed(c)

CallsPlaced == \A c \in Callers : Placed(c)

IInv == TypeOK /\ CallsPlaced /\ ReversalClaimsAreTrue

-----------------------------------------------------------------------------
(* Lemmas about the windows' rows.                                         *)

\* A conditional mark ends one pending window at most.
LEMMA MarkedRows ==
  ASSUME TypeOK, NEW n \in DOMAIN windows, NEW s \in WindowState
  PROVE  /\ Marked(n, s) \in Seq(WindowRow)
         /\ DOMAIN Marked(n, s) = DOMAIN windows
         /\ Len(Marked(n, s)) = Len(windows)
         /\ \A m \in DOMAIN windows :
              Marked(n, s)[m].state =
                IF m = n /\ windows[n].state = "pending" THEN s ELSE windows[m].state
<1> DEFINE r == [windows[n] EXCEPT !.state = IF windows[n].state = "pending" THEN s
                                             ELSE windows[n].state]
<1>1. windows \in Seq(WindowRow) /\ n \in 1..Len(windows)
  BY DEF TypeOK
<1>a. windows[n] \in WindowRow
  BY <1>1
<1>2. r \in WindowRow /\ r.state = IF windows[n].state = "pending" THEN s ELSE windows[n].state
  BY <1>a DEF WindowRow
<1>3. Marked(n, s) = [windows EXCEPT ![n] = r]
  BY <1>1, <1>a DEF Marked, WindowRow
<1> HIDE DEF r
<1>4. [windows EXCEPT ![n] = r] \in Seq(WindowRow)
  BY <1>1, <1>2
<1>5. /\ DOMAIN [windows EXCEPT ![n] = r] = DOMAIN windows
      /\ Len([windows EXCEPT ![n] = r]) = Len(windows)
      /\ \A m \in DOMAIN windows :
           [windows EXCEPT ![n] = r][m] = IF m = n THEN r ELSE windows[m]
  BY <1>1, <1>2, <1>4
<1> QED
  BY <1>2, <1>3, <1>4, <1>5

\* Rows are never dropped, and a window that has ended keeps its end.
LEMMA RowsStay ==
  ASSUME TypeOK, CallsPlaced, [Next]_vars
  PROVE  /\ DOMAIN windows \subseteq DOMAIN windows'
         /\ \A n \in DOMAIN windows :
              windows[n].state # "pending" => windows'[n].state = windows[n].state
<1>1. CASE UNCHANGED windows
  BY <1>1
<1>2. CASE Open
  BY <1>2 DEF Open, TypeOK
<1>3. ASSUME NEW n \in Windows, Elapse(n)
      PROVE  /\ DOMAIN windows' = DOMAIN windows
             /\ \A m \in DOMAIN windows : windows'[m].state = windows[m].state
  BY <1>3 DEF Elapse, TypeOK
<1>4. ASSUME NEW c \in Callers, Mark(c) \/ Expire(c)
      PROVE  /\ DOMAIN windows' = DOMAIN windows
             /\ \A m \in DOMAIN windows :
                  windows[m].state # "pending" => windows'[m].state = windows[m].state
  <2>1. target[c] \in DOMAIN windows
    BY <1>4 DEF Mark, Expire, CallsPlaced, Placed
  <2>2. PICK s \in WindowState : windows' = Marked(target[c], s)
    BY <1>4 DEF Mark, Expire, WindowState
  <2>3. /\ DOMAIN Marked(target[c], s) = DOMAIN windows
        /\ \A m \in DOMAIN windows :
             Marked(target[c], s)[m].state =
               IF m = target[c] /\ windows[target[c]].state = "pending"
               THEN s ELSE windows[m].state
    BY <2>1, MarkedRows
  <2> QED
    BY <2>2, <2>3
<1> QED
  BY <1>1, <1>2, <1>3, <1>4
     DEF Next, vars, Step, Undo, Begin, Intent, Load, Guards, Skip, Reverse,
         Reply, LoseReply, Refuse, Land, Audit, Persist, ReverseItem, Reap,
         Close, Closing, MoveOn, Overwrite, Crash

-----------------------------------------------------------------------------
(* IInv is inductive.                                                      *)

\* The initial states satisfy the invariant.
LEMMA InitIInv == Init => IInv
<1> SUFFICES ASSUME Init PROVE IInv
  OBVIOUS
<1>1. TypeOK
  <2>1. windows = <<>> /\ Len(windows) <= MaxWindows /\ 0 \in 0..MaxWindows
    BY WindowBounds DEF Init
  <2>2. audit \in [Windows -> AuditEvents]
    BY DEF Init, AuditEvents
  <2>3. target \in [Callers -> 0..MaxWindows] /\ pc \in [Callers -> PCs]
        /\ result \in [Callers -> Results]
    BY <2>1 DEF Init, PCs, Results
  <2>4. windows \in Seq(WindowRow) /\ wire \subseteq Callers /\ crashes \in Nat
    BY <2>1 DEF Init
  <2>5. state \in APState /\ marker \in BOOLEAN /\ bill \in {"posted", "reversed"}
    BY DEF Init, APState
  <2> QED
    BY <2>1, <2>2, <2>3, <2>4, <2>5 DEF TypeOK
<1>2. CallsPlaced
  BY DEF Init, CallsPlaced, Placed
<1>3. ReversalClaimsAreTrue
  BY DEF Init, ReversalClaimsAreTrue, Reversed
<1> QED
  BY <1>1, <1>2, <1>3 DEF IInv

\* Every step keeps the types.
LEMMA TypeStep ==
  ASSUME TypeOK, CallsPlaced, [Next]_vars
  PROVE  TypeOK'
<1> USE WindowBounds
<1>0. \A c \in Callers : pc[c] # "idle" => target[c] \in DOMAIN windows
  BY DEF CallsPlaced, Placed
<1>1. CASE UNCHANGED vars
  BY <1>1 DEF vars, TypeOK
<1>2. CASE Open
  <2>1. [state |-> "pending", due |-> FALSE] \in WindowRow
    BY DEF WindowRow, WindowState
  <2> QED
    BY <1>2, <2>1 DEF Open, TypeOK, itemRow, erp
<1>3. ASSUME NEW n \in Windows, Elapse(n) PROVE TypeOK'
  <2>1. /\ windows' \in Seq(WindowRow)
        /\ Len(windows') = Len(windows)
    <3> DEFINE r == [windows[n] EXCEPT !.due = TRUE]
    <3>1. windows \in Seq(WindowRow) /\ n \in 1..Len(windows)
      BY <1>3 DEF Elapse, TypeOK
    <3>2. windows[n] \in WindowRow
      BY <3>1
    <3>3. r \in WindowRow /\ windows' = [windows EXCEPT ![n] = r]
      BY <1>3, <3>2 DEF Elapse, WindowRow
    <3> HIDE DEF r
    <3> QED
      BY <3>1, <3>3
  <2> QED
    BY <1>3, <2>1 DEF Elapse, TypeOK, itemRow, erp
<1>4. ASSUME NEW c \in Callers, NEW n \in Windows, Undo(c, n) PROVE TypeOK'
  BY <1>4 DEF Undo, Begin, Answer, Goto, TypeOK, itemRow, erp, PCs, Results, Windows
<1>5. ASSUME NEW c \in Callers, NEW n \in Windows, Reap(c, n) PROVE TypeOK'
  BY <1>5 DEF Reap, Goto, TypeOK, itemRow, erp, PCs, Windows
<1>6. ASSUME NEW c \in Callers, Intent(c) PROVE TypeOK'
  BY <1>6 DEF Intent, Newest, Begin, Answer, Goto, TypeOK, itemRow, erp, PCs, Results
<1>7. ASSUME NEW c \in Callers, Step(c) PROVE TypeOK'
  <2>1. CASE Load(c) \/ Guards(c) \/ Skip(c) \/ Reply(c) \/ LoseReply(c)
             \/ ReverseItem(c) \/ Close(c)
    BY <2>1 DEF Load, Guards, Skip, Reply, LoseReply, ReverseItem, Close,
                Answer, Goto, TypeOK, itemRow, erp, PCs, Results
  <2>2. CASE Reverse(c)
    BY <2>2 DEF Reverse, Answer, Goto, TypeOK, itemRow, PCs, Results
  <2>3. CASE Refuse(c)
    BY <2>3 DEF Refuse, Answer, Goto, TypeOK, itemRow, PCs, Results
  <2>4. CASE Audit(c)
    <3>1. target[c] \in Windows
      BY <2>4, <1>0 DEF Audit, TypeOK, Windows
    <3> QED
      BY <2>4, <3>1 DEF Audit, Event, Goto, TypeOK, itemRow, erp, PCs, AuditEvents
  <2>5. CASE Persist(c)
    BY <2>5 DEF Persist, Goto, TypeOK, erp, PCs
  <2>6. CASE Mark(c)
    <3>1. /\ windows' \in Seq(WindowRow)
          /\ Len(windows') = Len(windows)
      BY <2>6, <1>0, MarkedRows DEF Mark, WindowState
    <3> QED
      BY <2>6, <3>1 DEF Mark, Goto, TypeOK, itemRow, erp, PCs
  <2>7. CASE Expire(c)
    <3>1. /\ windows' \in Seq(WindowRow)
          /\ Len(windows') = Len(windows)
      BY <2>7, <1>0, MarkedRows DEF Expire, WindowState
    <3> QED
      BY <2>7, <3>1 DEF Expire, Answer, Goto, TypeOK, itemRow, erp, PCs, Results
  <2>8. CASE Closing(c)
    BY <2>8 DEF Closing, Goto, TypeOK, erp, PCs, APState
  <2> QED
    BY <1>7, <2>1, <2>2, <2>3, <2>4, <2>5, <2>6, <2>7, <2>8 DEF Step
<1>8. ASSUME NEW c \in Callers, Land(c) PROVE TypeOK'
  BY <1>8 DEF Land, TypeOK, itemRow
<1>9. ASSUME NEW c \in Callers, Crash(c) PROVE TypeOK'
  BY <1>9 DEF Crash, Answer, Goto, TypeOK, itemRow, PCs, Results
<1>10. ASSUME NEW t \in APState, MoveOn(t) PROVE TypeOK'
  BY <1>10 DEF MoveOn, TypeOK, erp
<1>11. CASE Overwrite
  BY <1>11 DEF Overwrite, TypeOK, erp
<1> QED
  BY <1>1, <1>2, <1>3, <1>4, <1>5, <1>6, <1>7, <1>8, <1>9, <1>10, <1>11 DEF Next

\* A caller that takes no step stays well placed: rows stay, ends are kept.
LEMMA OthersPlaced ==
  ASSUME TypeOK, CallsPlaced, [Next]_vars, NEW c \in Callers,
         pc'[c] = pc[c], target'[c] = target[c],
         pc[c] = "persist" => result'[c] = result[c]
  PROVE  Placed(c)'
<1>1. Placed(c)
  BY DEF CallsPlaced
<1>2. /\ DOMAIN windows \subseteq DOMAIN windows'
      /\ \A n \in DOMAIN windows :
           windows[n].state # "pending" => windows'[n].state = windows[n].state
  BY RowsStay
<1>3. (c \in Reapers /\ pc[c] \in {"close", "closing"})
        => windows'[target[c]].state = "expired"
  BY <1>1, <1>2 DEF Placed, Window
<1> QED
  BY <1>1, <1>2, <1>3 DEF Placed, Window, Reversed

\* Every step keeps every call well placed.
LEMMA PlacedStep ==
  ASSUME TypeOK, TypeOK', CallsPlaced, [Next]_vars
  PROVE  CallsPlaced'
<1> SUFFICES ASSUME NEW d \in Callers PROVE Placed(d)'
  BY DEF CallsPlaced
<1>0. /\ Placed(d) /\ CallersAssumption
      /\ DOMAIN windows \subseteq DOMAIN windows'
      /\ \A n \in DOMAIN windows :
           windows[n].state # "pending" => windows'[n].state = windows[n].state
  BY RowsStay, CallersAssumption DEF CallsPlaced
<1>1. CASE pc'[d] = pc[d] /\ target'[d] = target[d] /\ result'[d] = result[d]
  BY <1>1, OthersPlaced
<1>2. ASSUME NEW n \in Windows, Undo(d, n) PROVE Placed(d)'
  BY <1>2, CallersAssumption DEF Undo, Begin, Answer, Goto, Placed, TypeOK
<1>3. ASSUME Intent(d) PROVE Placed(d)'
  BY <1>3, CallersAssumption DEF Intent, Newest, Begin, Answer, Goto, Placed, TypeOK
<1>4. ASSUME NEW n \in Windows, Reap(d, n) PROVE Placed(d)'
  BY <1>4 DEF Reap, Goto, Placed, TypeOK
<1>5. ASSUME Step(d) PROVE Placed(d)'
  <2>1. CASE Load(d) \/ Guards(d) \/ Skip(d) \/ Reverse(d) \/ Refuse(d)
             \/ Reply(d) \/ LoseReply(d) \/ Persist(d) \/ ReverseItem(d)
    BY <2>1, <1>0 DEF Load, Guards, Skip, Reverse, Refuse, Reply, LoseReply,
                      Persist, ReverseItem, Answer, Goto, Placed, TypeOK
  <2>2. CASE Audit(d)
    BY <2>2, <1>0 DEF Audit, Goto, Placed, Reversed, TypeOK
  <2>3. CASE Mark(d)
    BY <2>3, <1>0 DEF Mark, Goto, Placed, TypeOK
  <2>4. CASE Expire(d)
    <3>1. target[d] \in DOMAIN windows
      BY <2>4, <1>0 DEF Expire, Placed
    <3>2. CASE d \in Reversers
      BY <2>4, <1>0, <3>1, <3>2, CallersAssumption
         DEF Expire, Answer, Goto, Placed, TypeOK
    <3>3. CASE d \notin Reversers
      <4>a. "expired" \in WindowState
        BY DEF WindowState
      <4>b. Marked(target[d], "expired")[target[d]].state =
              IF windows[target[d]].state = "pending" THEN "expired"
              ELSE windows[target[d]].state
        BY <3>1, <4>a, MarkedRows
      <4>1. Window(d).state = "pending" => windows'[target[d]].state = "expired"
        BY <2>4, <4>b DEF Expire, Window
      <4> QED
        BY <2>4, <1>0, <3>1, <3>3, <4>1 DEF Expire, Goto, Placed, Window, TypeOK
    <3> QED
      BY <3>2, <3>3
  <2>5. CASE Close(d)
    BY <2>5, <1>0 DEF Close, Goto, Placed, Window, TypeOK
  <2>6. CASE Closing(d)
    BY <2>6, <1>0 DEF Closing, Goto, Placed, TypeOK
  <2> QED
    BY <1>5, <2>1, <2>2, <2>3, <2>4, <2>5, <2>6 DEF Step
<1>6. ASSUME Crash(d) PROVE Placed(d)'
  BY <1>6 DEF Crash, Answer, Goto, Placed, TypeOK
<1>7. ASSUME NEW c \in Callers \ {d}, NEW n \in Windows, Undo(c, n) \/ Reap(c, n)
      PROVE  pc'[d] = pc[d] /\ target'[d] = target[d] /\ result'[d] = result[d]
  BY <1>7 DEF Undo, Reap, Begin, Answer, Goto, TypeOK
<1>8. ASSUME NEW c \in Callers \ {d}, Intent(c) \/ Step(c) \/ Land(c) \/ Crash(c)
      PROVE  pc'[d] = pc[d] /\ target'[d] = target[d] /\ result'[d] = result[d]
  BY <1>8 DEF Intent, Begin, Step, Land, Crash, Load, Guards, Skip,
              Reverse, Refuse, Reply, LoseReply, Audit, Persist, Mark,
              ReverseItem, Expire, Close, Closing, Answer, Goto, TypeOK
<1>9. ASSUME \/ UNCHANGED vars \/ Open \/ \E n \in Windows : Elapse(n)
             \/ \E t \in APState : MoveOn(t)
             \/ Overwrite \/ Land(d)
      PROVE  pc'[d] = pc[d] /\ target'[d] = target[d] /\ result'[d] = result[d]
  BY <1>9 DEF vars, Open, Elapse, MoveOn, Overwrite, Land
<1>10. \/ UNCHANGED vars \/ Open \/ \E n \in Windows : Elapse(n)
       \/ (\E t \in APState : MoveOn(t)) \/ Overwrite
       \/ \E c \in Callers, n \in Windows : Undo(c, n) \/ Reap(c, n)
       \/ \E c \in Callers : Intent(c) \/ Step(c) \/ Land(c) \/ Crash(c)
  BY DEF Next
<1>11. CASE \E c \in Callers, n \in Windows : Undo(c, n) \/ Reap(c, n)
  <2>1. PICK c \in Callers, n \in Windows : Undo(c, n) \/ Reap(c, n)
    BY <1>11
  <2> QED
    BY <2>1, <1>1, <1>2, <1>4, <1>7
<1>12. CASE \E c \in Callers : Intent(c) \/ Step(c) \/ Land(c) \/ Crash(c)
  <2>1. PICK c \in Callers : Intent(c) \/ Step(c) \/ Land(c) \/ Crash(c)
    BY <1>12
  <2>2. CASE c # d
    <3>1. c \in Callers \ {d}
      BY <2>2
    <3> QED
      BY <2>1, <3>1, <1>1, <1>8
  <2>3. CASE c = d
    <3>1. CASE Land(d)
      BY <3>1, <1>1, <1>9
    <3> QED
      BY <2>1, <2>3, <3>1, <1>3, <1>5, <1>6
  <2> QED
    BY <2>2, <2>3
<1> QED
  BY <1>1, <1>9, <1>10, <1>11, <1>12

\* Every step keeps what is claimed true.
LEMMA ClaimsStep ==
  ASSUME TypeOK, TypeOK', CallsPlaced, ReversalClaimsAreTrue, [Next]_vars
  PROVE  ReversalClaimsAreTrue'
<1>0. bill = "reversed" => bill' = "reversed"
  BY DEF Next, vars, Open, Elapse, Undo, Begin, Intent, Load, Guards, Skip,
         Reverse, Reply, LoseReply, Refuse, Land, Audit, Persist, Mark,
         ReverseItem, Reap, Expire, Close, Closing, MoveOn, Overwrite, Crash, Step, erp
<1>1. CASE bill = "reversed"
  BY <1>0, <1>1 DEF ReversalClaimsAreTrue
<1> SUFFICES ASSUME bill # "reversed" PROVE ReversalClaimsAreTrue'
  BY <1>1
<1>2. /\ ~marker
      /\ \A n \in DOMAIN windows : windows[n].state # "reversed"
      /\ \A n \in Windows : audit[n] \notin {"succeeded", "already_reversed"}
      /\ \A c \in Callers : ~Reversed(c)
  BY DEF ReversalClaimsAreTrue
<1>3. \A c \in Callers : pc[c] # "persist"
  BY <1>2 DEF CallsPlaced, Placed
<1> DEFINE Silent == /\ ~marker'
                     /\ \A n \in DOMAIN windows' : windows'[n].state # "reversed"
                     /\ \A n \in Windows : audit'[n] \notin {"succeeded", "already_reversed"}
                     /\ \A c \in Callers : result'[c] \notin {"success", "already_reversed"}
<1>4. Silent => ReversalClaimsAreTrue'
  BY DEF ReversalClaimsAreTrue, Reversed
<1>5. CASE UNCHANGED <<marker, windows, audit, result>>
  BY <1>2, <1>4, <1>5 DEF Reversed
<1>6. CASE Open
  <2>1. windows' = Append(windows, [state |-> "pending", due |-> FALSE])
    BY <1>6 DEF Open
  <2>2. \A n \in DOMAIN windows' : windows'[n].state # "reversed"
    BY <1>2, <2>1 DEF TypeOK
  <2> QED
    BY <1>2, <1>4, <1>6, <2>2 DEF Open, itemRow, Reversed
<1>7. ASSUME NEW n \in Windows, Elapse(n) PROVE Silent
  BY <1>2, <1>7 DEF Elapse, itemRow, Reversed, TypeOK
<1>8. ASSUME NEW c \in Callers, NEW n, Begin(c, n) PROVE Silent
  BY <1>2, <1>8 DEF Begin, Answer, itemRow, Reversed, TypeOK
<1>9. ASSUME NEW c \in Callers, Load(c) \/ Guards(c) PROVE Silent
  <2>1. target[c] \in DOMAIN windows /\ target[c] \in Windows
    BY <1>9 DEF Load, Guards, CallsPlaced, Placed, TypeOK, Windows
  <2> QED
    BY <1>2, <1>9, <2>1 DEF Load, Guards, Window, Answer, itemRow, Reversed, TypeOK
<1>10. ASSUME NEW c \in Callers, Skip(c) \/ LoseReply(c) \/ Refuse(c) \/ Crash(c)
       PROVE  Silent
  BY <1>2, <1>10 DEF Skip, LoseReply, Refuse, Crash, Answer, itemRow, Reversed, TypeOK
<1>11. ASSUME NEW c \in Callers, Reverse(c) PROVE ReversalClaimsAreTrue'
  BY <1>11 DEF Reverse, ReversalClaimsAreTrue
<1>12. ASSUME NEW c \in Callers, Audit(c) PROVE Silent
  <2>1. ~Reversed(c)
    BY <1>2
  <2> QED
    BY <1>2, <1>12, <2>1 DEF Audit, Event, itemRow, Reversed, TypeOK
<1>13. ASSUME NEW c \in Callers, Mark(c) \/ Expire(c) PROVE Silent
  <2>1. target[c] \in DOMAIN windows
    BY <1>13 DEF Mark, Expire, CallsPlaced, Placed
  <2>2. PICK s \in {"failed", "expired"} : windows' = Marked(target[c], s)
    BY <1>2, <1>13 DEF Mark, Expire
  <2>a. /\ DOMAIN Marked(target[c], s) = DOMAIN windows
        /\ \A m \in DOMAIN windows :
             Marked(target[c], s)[m].state =
               IF m = target[c] /\ windows[target[c]].state = "pending"
               THEN s ELSE windows[m].state
    <3>1. s \in WindowState
      BY DEF WindowState
    <3> QED
      BY <2>1, <3>1, MarkedRows
  <2>3. \A n \in DOMAIN windows' : windows'[n].state # "reversed"
    BY <1>2, <2>2, <2>a
  <2>4. ~marker' /\ audit' = audit
    BY <1>2, <1>13 DEF Mark, Expire, itemRow
  <2>5. \A d \in Callers : result'[d] \in {result[d], "error"}
    BY <1>13 DEF Mark, Expire, Answer, TypeOK
  <2> QED
    BY <1>2, <2>3, <2>4, <2>5 DEF Reversed
<1>14. CASE Overwrite
  BY <1>2, <1>4, <1>14 DEF Overwrite, Reversed
<1> QED
  BY <1>3, <1>4, <1>5, <1>6, <1>7, <1>8, <1>9, <1>10, <1>11, <1>12, <1>13, <1>14
     DEF Next, vars, Step, Undo, Intent, Persist, Reply, Land, ReverseItem, Reap,
         Close, Closing, MoveOn, itemRow

-----------------------------------------------------------------------------
(* Theorems.                                                               *)

\* The invariant holds in every reachable state.
THEOREM Invariance == Spec => []IInv
<1>1. IInv /\ [Next]_vars => IInv'
  BY TypeStep, PlacedStep, ClaimsStep DEF IInv
<1> QED
  BY <1>1, InitIInv, PTL DEF Spec

\* Every variable keeps its type.
THEOREM TypeCorrect == Spec => []TypeOK
<1>1. IInv => TypeOK
  BY DEF IInv
<1> QED
  BY <1>1, Invariance, PTL

\* A reversal that is on record anywhere, or that a caller was told of, is
\* one the ERP has made.
THEOREM ClaimsAreTrue == Spec => []ReversalClaimsAreTrue
<1>1. IInv => ReversalClaimsAreTrue
  BY DEF IInv
<1> QED
  BY <1>1, Invariance, PTL

\* A window's end is decided once, by one caller.
THEOREM WindowsEndOnce == Spec => WindowEndsOnce
<1>1. IInv /\ [Next]_vars
        => [\A n \in DOMAIN windows :
              windows[n].state # "pending" => windows'[n].state = windows[n].state]_vars
  BY RowsStay DEF IInv
<1> QED
  BY <1>1, Invariance, PTL DEF Spec, WindowEndsOnce

\* A reaper that lost its window to an undo does not close the item.
THEOREM LosingReapersLeaveItem == Spec => LosingReaperLeavesItem
<1>1. IInv /\ [Next]_vars
        => [\A p \in Reapers :
              (pc[p] = "closing" /\ state' # state /\ pc'[p] # pc[p])
                => Window(p).state = "expired"]_vars
  BY DEF IInv, CallsPlaced, Placed, Callers
<1> QED
  BY <1>1, Invariance, PTL DEF Spec, LosingReaperLeavesItem
=============================================================================
