------------------------ MODULE DualApproval_proofs ------------------------
(***************************************************************************)
(* Proofs about DualApproval, for any people, calls, scribes and requests  *)
(* of the other surfaces.                                                  *)
(***************************************************************************)
EXTENDS DualApproval, TLAPS

-----------------------------------------------------------------------------
(* The inductive invariant.                                                *)

\* What the decision on a bill can make of its state.
Reached == {"needs_approval", "needs_second_approval", "approved",
            "ready_to_post", "rejected"}

\* A call about to write has passed its own checks: a second signer differs
\* from the first one it has read, and only a first approval asks the policy.
Checked(c) ==
  /\ call[c].at \in {"check", "write"} /\ call[c].op = "second" =>
       call[c].read.first = Nobody \/ call[c].read.first # call[c].who
  /\ call[c].at = "policy" => call[c].op = "first"

IInv ==
  /\ TypeOK /\ state \in Reached
  /\ PendingHasItsSigner /\ ApprovalsStand
  /\ \A c \in Calls : Checked(c)

-----------------------------------------------------------------------------
(* Lemmas.                                                                 *)

\* The records of a call before and after its work.
LEMMA Ends ==
  /\ Unsigned \in Signatures
  /\ Idle \in [op : Ops, who : People, read : Signatures, large : BOOLEAN,
               at : {"idle", "policy", "check", "write", "done"}]
  /\ Gone \in [op : Ops, who : People, read : Signatures, large : BOOLEAN,
               at : {"idle", "policy", "check", "write", "done"}]
  /\ Idle.at = "idle" /\ Gone.at = "done" /\ Gone.read = Unsigned
BY Signers DEF Unsigned, Signatures, Idle, Gone, Ops

LEMMA Initially == Init => IInv
<1> SUFFICES ASSUME Init PROVE IInv
  OBVIOUS
<1>1. TypeOK
  <2>1. /\ call \in [Calls -> [op : Ops, who : People, read : Signatures,
               large : BOOLEAN, at : {"idle", "policy", "check", "write", "done"}]]
        /\ copy \in [Scribes -> Signatures] /\ signed \in Signatures
    BY Ends DEF Init
  <2>2. other \in [Others -> [act : Acts, at : {"idle", "check", "write"}]]
    BY DEF Init, Away, Acts
  <2> QED
    BY <2>1, <2>2 DEF Init, TypeOK, APState
<1>2. \A c \in Calls : call[c].at = "idle"
  BY Ends DEF Init
<1> QED
  BY <1>1, <1>2 DEF Init, IInv, Reached, PendingHasItsSigner, ApprovalsStand,
     Approved, Checked

\* A step that leaves the item and the history of its signatures alone.
LEMMA Aside ==
  ASSUME IInv, TypeOK', UNCHANGED item,
         \A c \in Calls : Checked(c)'
  PROVE  IInv'
BY DEF IInv, item, history, PendingHasItsSigner, ApprovalsStand, Approved

LEMMA Preserved == IInv /\ [Next]_vars => IInv'
<1> SUFFICES ASSUME IInv, [Next]_vars PROVE IInv'
  OBVIOUS
<1>t. TypeOK /\ state \in Reached /\ \A c \in Calls : Checked(c)
  BY DEF IInv
<1>1. CASE UNCHANGED vars
  <2>1. TypeOK' /\ \A c \in Calls : Checked(c)'
    BY <1>1, <1>t DEF vars, item, history, TypeOK, Checked
  <2> QED
    BY <1>1, <2>1, Aside DEF vars
<1>2. ASSUME NEW c \in Calls, Read(c) PROVE IInv'
  <2>1. PICK op \in Ops, p \in People :
          /\ ~Refused(op, p)
          /\ call' = [call EXCEPT ![c] =
               [op |-> op, who |-> p, read |-> signed, large |-> FALSE,
                at |-> IF op = "first" THEN "policy" ELSE "check"]]
    BY <1>2 DEF Read
  <2>2. /\ call'[c].op = op /\ call'[c].who = p /\ call'[c].read = signed
        /\ call'[c].at = IF op = "first" THEN "policy" ELSE "check"
        /\ \A d \in Calls \ {c} : call'[d] = call[d]
    BY <2>1, <1>t DEF TypeOK
  <2>3. TypeOK'
    BY <1>2, <2>1, <1>t DEF Read, TypeOK, item, history
  <2>4. Checked(c)'
    BY <2>1, <2>2 DEF Checked, Refused, SignsTwice
  <2>5. \A d \in Calls : Checked(d)'
    BY <2>2, <2>4, <1>t DEF Checked
  <2> QED
    BY <1>2, <2>3, <2>5, Aside DEF Read
<1>3. ASSUME NEW c \in Calls, ReadThreshold(c) PROVE IInv'
  <2>1. TypeOK'
    BY <1>3, <1>t DEF ReadThreshold, TypeOK, item, history
  <2>2. call[c].op = "first"
    BY <1>3, <1>t DEF ReadThreshold, Checked
  <2>3. call'[c].op = "first" /\ call'[c].at = "check"
        /\ \A d \in Calls \ {c} : call'[d] = call[d]
    BY <1>3, <2>2, <1>t DEF ReadThreshold, TypeOK
  <2>4. \A d \in Calls : Checked(d)'
    BY <2>3, <1>t DEF Checked
  <2> QED
    BY <1>3, <2>1, <2>4, Aside DEF ReadThreshold
<1>4. ASSUME NEW c \in Calls, call' = [call EXCEPT ![c] = Gone]
      PROVE  /\ \A d \in Calls : Checked(d)'
             /\ call' \in [Calls -> [op : Ops, who : People, read : Signatures,
                  large : BOOLEAN, at : {"idle", "policy", "check", "write", "done"}]]
  <2>1. call'[c].at = "done" /\ \A d \in Calls \ {c} : call'[d] = call[d]
    BY <1>4, <1>t, Ends DEF TypeOK
  <2>2. call' \in [Calls -> [op : Ops, who : People, read : Signatures,
          large : BOOLEAN, at : {"idle", "policy", "check", "write", "done"}]]
    BY <1>4, <1>t, Ends DEF TypeOK
  <2> QED
    BY <2>1, <2>2, <1>t DEF Checked
<1>5. ASSUME NEW c \in Calls, Check(c) PROVE IInv'
  <2>1. CASE call' = [call EXCEPT ![c] = Gone]
    <3>1. TypeOK'
      BY <1>4, <1>5, <2>1, <1>t DEF Check, TypeOK, item, history
    <3> QED
      BY <1>4, <1>5, <2>1, <3>1, Aside DEF Check
  <2>2. CASE call' = [call EXCEPT ![c].at = "write"]
    <3>1. TypeOK'
      BY <1>5, <2>2, <1>t DEF Check, TypeOK, item, history
    <3>2. /\ call'[c].at = "write" /\ call'[c].op = call[c].op
          /\ call'[c].who = call[c].who /\ call'[c].read = call[c].read
          /\ call[c].at = "check" /\ \A d \in Calls \ {c} : call'[d] = call[d]
      BY <1>5, <2>2, <1>t DEF Check, TypeOK
    <3>3. \A d \in Calls : Checked(d)'
      BY <3>2, <1>t DEF Checked
    <3> QED
      BY <1>5, <3>1, <3>3, Aside DEF Check
  <2> QED
    BY <1>5, <2>1, <2>2 DEF Check
<1>w. ASSUME NEW c \in Calls, SignFirst(c) \/ ApproveSmall(c) \/ SignSecond(c) \/ Revoke(c)
      PROVE  /\ \A d \in Calls : Checked(d)'
             /\ call' \in [Calls -> [op : Ops, who : People, read : Signatures,
                  large : BOOLEAN, at : {"idle", "policy", "check", "write", "done"}]]
             /\ UNCHANGED <<large, other, copy>>
             /\ call[c].who \in People /\ call[c].read \in Signatures
             /\ call[c].at = "write"
  <2>1. /\ call' = [call EXCEPT ![c] = Gone] /\ UNCHANGED <<large, other, copy>>
        /\ call[c].at = "write"
    BY <1>w DEF SignFirst, ApproveSmall, SignSecond, Revoke, Writes
  <2> QED
    BY <2>1, <1>4, <1>t DEF TypeOK
<1>6. ASSUME NEW c \in Calls, SignFirst(c) PROVE IInv'
  <2>1. /\ state' = "needs_second_approval" /\ standing' = {call[c].who}
        /\ signed' = [call[c].read EXCEPT !.first = call[c].who]
        /\ misled' = FALSE /\ route' = route
    BY <1>6 DEF SignFirst, Writes, Target, FirstSigned
  <2>2. signed' \in Signatures /\ signed'.first = call[c].who
    BY <2>1, <1>6, <1>w DEF Signatures
  <2>3. TypeOK'
    BY <2>1, <2>2, <1>6, <1>w, <1>t DEF TypeOK, APState
  <2> QED
    BY <2>1, <2>2, <2>3, <1>6, <1>w DEF IInv, Reached, PendingHasItsSigner,
       ApprovalsStand, Approved
<1>7. ASSUME NEW c \in Calls, ApproveSmall(c) PROVE IInv'
  <2>1. /\ state' = "approved" /\ standing' = standing \cup {call[c].who}
        /\ signed' = [call[c].read EXCEPT !.first = call[c].who]
        /\ misled' = misled /\ route' = "single"
    BY <1>7 DEF ApproveSmall, Writes, Target, FirstSigned
  <2>2. signed' \in Signatures
    BY <2>1, <1>7, <1>w DEF Signatures
  <2>3. TypeOK'
    BY <2>1, <2>2, <1>7, <1>w, <1>t DEF TypeOK, APState
  <2> QED
    BY <2>1, <2>2, <2>3, <1>7, <1>w DEF IInv, Reached, PendingHasItsSigner,
       ApprovalsStand, Approved
<1>8. ASSUME NEW c \in Calls, SignSecond(c) PROVE IInv'
  <2>1. /\ state' = "approved" /\ standing' = standing \cup {call[c].who}
        /\ signed' = [call[c].read EXCEPT !.second = call[c].who]
        /\ misled' = (\/ misled \/ state # "needs_second_approval"
                      \/ signed # call[c].read)
        /\ route' = "dual" /\ call[c].op = "second"
    BY <1>8 DEF SignSecond, Writes, Target
  <2>2. signed' \in Signatures
    BY <2>1, <1>8, <1>w DEF Signatures
  <2>3. TypeOK'
    BY <2>1, <2>2, <1>8, <1>w, <1>t DEF TypeOK, APState
  <2>4. ASSUME ~misled' PROVE \E p, q \in standing' : p # q
    <3>1. ~misled /\ state = "needs_second_approval" /\ signed = call[c].read
      BY <2>1, <2>4
    <3>2. signed.first \in standing
      BY <3>1 DEF IInv, PendingHasItsSigner
    <3>3. signed.first # Nobody
      BY <3>2, <1>t, Signers DEF TypeOK
    <3>4. signed.first # call[c].who
      BY <3>1, <3>3, <2>1, <1>8, <1>w, <1>t DEF Checked
    <3> QED
      BY <2>1, <3>2, <3>4
  <2> QED
    BY <2>1, <2>3, <2>4, <1>8, <1>w DEF IInv, Reached, PendingHasItsSigner,
       ApprovalsStand, Approved
<1>9. ASSUME NEW c \in Calls, Revoke(c) PROVE IInv'
  <2>1. /\ state' = "needs_approval" /\ standing' = {}
        /\ signed' = [call[c].read EXCEPT !.first = Nobody]
        /\ misled' = misled /\ route' = route
    BY <1>9 DEF Revoke, Writes, Target, Withdrawn
  <2>2. signed' \in Signatures
    BY <2>1, <1>9, <1>w DEF Signatures
  <2>3. TypeOK'
    BY <2>1, <2>2, <1>9, <1>w, <1>t DEF TypeOK, APState
  <2> QED
    BY <2>1, <2>2, <2>3, <1>9, <1>w DEF IInv, Reached, PendingHasItsSigner,
       ApprovalsStand, Approved
<1>c. ASSUME call' = call PROVE \A d \in Calls : Checked(d)'
  BY <1>c, <1>t DEF Checked
<1>10. CASE SetThreshold
  <2>1. TypeOK'
    BY <1>10, <1>t DEF SetThreshold, TypeOK, item, history
  <2> QED
    BY <1>10, <1>c, <2>1, Aside DEF SetThreshold
<1>11. ASSUME NEW o \in Others, ReadElsewhere(o) \/ CheckElsewhere(o) PROVE IInv'
  <2>1. UNCHANGED <<item, large, call, copy>>
    BY <1>11 DEF ReadElsewhere, CheckElsewhere
  <2>2. other' \in [Others -> [act : Acts, at : {"idle", "check", "write"}]]
    <3>1. Away \in [act : Acts, at : {"idle", "check", "write"}]
      BY DEF Away, Acts
    <3>2. CASE ReadElsewhere(o)
      BY <3>2, <1>t DEF ReadElsewhere, TypeOK
    <3>3. CASE CheckElsewhere(o)
      <4>1. PICK act \in Acts : other' = [other EXCEPT ![o] =
              IF Legal(state, Goal[act]) THEN [act |-> act, at |-> "write"] ELSE Away]
        BY <3>3 DEF CheckElsewhere
      <4> QED
        BY <3>1, <4>1, <1>t DEF TypeOK
    <3> QED
      BY <1>11, <3>2, <3>3
  <2>3. TypeOK'
    BY <2>1, <2>2, <1>t DEF TypeOK, item, history
  <2> QED
    BY <2>1, <2>3, <1>c, Aside
<1>12. ASSUME NEW o \in Others, WriteElsewhere(o) PROVE IInv'
  <2> DEFINE act == other[o].act
  <2>1. /\ act \in Acts /\ state' = Goal[act] /\ UNCHANGED <<signed, large, call, copy>>
        /\ other' = [other EXCEPT ![o] = Away]
    BY <1>12, <1>t DEF WriteElsewhere, TypeOK
  <2>2. other' \in [Others -> [act : Acts, at : {"idle", "check", "write"}]]
    <3>1. Away \in [act : Acts, at : {"idle", "check", "write"}]
      BY DEF Away, Acts
    <3> QED
      BY <2>1, <3>1, <1>t DEF TypeOK
  <2>3. CASE act = "click"
    <3>1. /\ state' = "approved" /\ misled' = misled /\ route' = "click"
          /\ \E p \in People : standing' = {p}
      BY <1>12, <2>1, <2>3 DEF WriteElsewhere, Goal
    <3>2. TypeOK'
      BY <2>1, <2>2, <3>1, <1>t DEF TypeOK, APState
    <3> QED
      BY <2>1, <3>1, <3>2, <1>c DEF IInv, Reached, PendingHasItsSigner, ApprovalsStand
  <2>4. CASE act = "revert"
    <3>1. state' = "needs_approval" /\ standing' = {} /\ UNCHANGED <<route, misled>>
      BY <1>12, <2>1, <2>4 DEF WriteElsewhere, Goal
    <3>2. TypeOK'
      BY <2>1, <2>2, <3>1, <1>t DEF TypeOK, APState
    <3> QED
      BY <2>1, <3>1, <3>2, <1>c DEF IInv, Reached, PendingHasItsSigner, ApprovalsStand,
         Approved
  <2>5. CASE act = "reject"
    <3>1. state' = "rejected" /\ UNCHANGED <<standing, route, misled>>
      BY <1>12, <2>1, <2>5 DEF WriteElsewhere, Goal, history
    <3>2. TypeOK'
      BY <2>1, <2>2, <3>1, <1>t DEF TypeOK, APState
    <3> QED
      BY <2>1, <3>1, <3>2, <1>c DEF IInv, Reached, PendingHasItsSigner, ApprovalsStand,
         Approved
  <2>6. CASE act = "route"
    <3>1. /\ state' = "ready_to_post" /\ UNCHANGED <<standing, route>>
          /\ misled' = (misled \/ ~Approved)
      BY <1>12, <2>1, <2>6 DEF WriteElsewhere, Goal
    <3>2. TypeOK'
      BY <2>1, <2>2, <3>1, <1>t DEF TypeOK, APState
    <3>3. ApprovalsStand'
      BY <3>1 DEF IInv, ApprovalsStand
    <3> QED
      BY <2>1, <3>1, <3>2, <3>3, <1>c DEF IInv, Reached, PendingHasItsSigner
  <2> QED
    BY <2>1, <2>3, <2>4, <2>5, <2>6 DEF Acts
<1>14. ASSUME NEW s \in Scribes, ScribeReads(s) PROVE IInv'
  <2>1. TypeOK'
    BY <1>14, <1>t DEF ScribeReads, TypeOK, item, history
  <2> QED
    BY <1>14, <1>c, <2>1, Aside DEF ScribeReads
<1>15. ASSUME NEW s \in Scribes, ScribeWrites(s) PROVE IInv'
  <2>1. TypeOK'
    BY <1>15, <1>t DEF ScribeWrites, TypeOK
  <2> QED
    BY <1>15, <1>c, <2>1 DEF ScribeWrites, IInv,
       PendingHasItsSigner, ApprovalsStand, Approved
<1> QED
  BY <1>1, <1>2, <1>3, <1>5, <1>6, <1>7, <1>8, <1>9, <1>10, <1>11, <1>12,
     <1>14, <1>15 DEF Next

-----------------------------------------------------------------------------
(* The theorems.                                                           *)

LEMMA Invariance == Spec => []IInv
<1>1. Init => IInv
  BY Initially
<1>2. IInv /\ [Next]_vars => IInv'
  BY Preserved
<1> QED
  BY <1>1, <1>2, PTL DEF Spec

\* Type invariant of the item, its signatures and the calls on it.
THEOREM TypeCorrect == Spec => []TypeOK
<1>1. IInv => TypeOK
  BY DEF IInv
<1> QED
  BY <1>1, Invariance, PTL

\* What waits for a second signature carries a first one that stands, unless a
\* stale copy of the metadata was written back.
THEOREM PendingSigned == Spec => []PendingHasItsSigner
<1>1. IInv => PendingHasItsSigner
  BY DEF IInv
<1> QED
  BY <1>1, Invariance, PTL

\* What is approved or on its way to the post has somebody's standing approval,
\* and two people's if second_approve gave it, unless one of the three writes
\* that ApprovalsStand names went over a row its caller had not seen.
THEOREM ApprovalStands == Spec => []ApprovalsStand
<1>1. IInv => ApprovalsStand
  BY DEF IInv
<1> QED
  BY <1>1, Invariance, PTL

\* Signatures none of which is the requester's.
NotOwn(r) == Requester \notin {r.first, r.second}

\* No call that signs is the requester's, and no copy of the signatures, read by
\* a call or by a scribe, holds his: whichever of them is written back.
CopiesNotOwn ==
  /\ NotOwn(signed) /\ \A s \in Scribes : NotOwn(copy[s])
  /\ \A c \in Calls :
       /\ NotOwn(call[c].read)
       /\ call[c].at \in {"policy", "check", "write"} /\ call[c].op # "revoke"
            => call[c].who # Requester

LEMMA SignatureChanges ==
  ASSUME NEW r \in Signatures, NotOwn(r), NEW p \in People \cup {Nobody}, p # Requester
  PROVE  NotOwn([r EXCEPT !.first = p]) /\ NotOwn([r EXCEPT !.second = p])
BY DEF Signatures, NotOwn

LEMMA CopiesKept ==
  ASSUME IInv, CopiesNotOwn, [Next]_vars
  PROVE  CopiesNotOwn'
<1>t. TypeOK /\ \A c \in Calls : call[c].read \in Signatures /\ call[c].who \in People
  BY DEF IInv, TypeOK
<1>g. NotOwn(Gone.read) /\ Gone.at = "done"
  BY Ends, Signers DEF NotOwn, Unsigned
<1>c. ASSUME call' = call \/ \E c \in Calls : call' = [call EXCEPT ![c] = Gone]
      PROVE  \A c \in Calls :
               /\ NotOwn(call'[c].read)
               /\ call'[c].at \in {"policy", "check", "write"} /\ call'[c].op # "revoke"
                    => call'[c].who # Requester
  BY <1>c, <1>g, <1>t DEF CopiesNotOwn, TypeOK
<1>1. CASE UNCHANGED vars
  BY <1>1 DEF vars, item, CopiesNotOwn
<1>2. ASSUME NEW c \in Calls, Read(c) PROVE CopiesNotOwn'
  <2>1. PICK op \in Ops, p \in People :
          /\ ~Refused(op, p)
          /\ call' = [call EXCEPT ![c] =
               [op |-> op, who |-> p, read |-> signed, large |-> FALSE,
                at |-> IF op = "first" THEN "policy" ELSE "check"]]
    BY <1>2 DEF Read
  <2>2. /\ call'[c].op = op /\ call'[c].who = p /\ call'[c].read = signed
        /\ \A d \in Calls \ {c} : call'[d] = call[d]
    BY <2>1, <1>t DEF TypeOK
  <2>3. op # "revoke" => p # Requester
    BY <2>1 DEF Refused, OwnBill
  <2> QED
    BY <1>2, <2>2, <2>3 DEF Read, item, CopiesNotOwn
<1>3. ASSUME NEW c \in Calls, ReadThreshold(c) PROVE CopiesNotOwn'
  <2>1. /\ call'[c].op = call[c].op /\ call'[c].who = call[c].who
        /\ call'[c].read = call[c].read /\ call[c].at = "policy"
        /\ \A d \in Calls \ {c} : call'[d] = call[d]
    BY <1>3, <1>t DEF ReadThreshold, TypeOK
  <2> QED
    BY <1>3, <2>1 DEF ReadThreshold, item, CopiesNotOwn
<1>4. ASSUME NEW c \in Calls, Check(c) PROVE CopiesNotOwn'
  <2>1. CASE call' = [call EXCEPT ![c] = Gone]
    BY <1>4, <1>c, <2>1 DEF Check, item, CopiesNotOwn
  <2>2. CASE call' = [call EXCEPT ![c].at = "write"]
    <3>1. /\ call'[c].op = call[c].op /\ call'[c].who = call[c].who
          /\ call'[c].read = call[c].read /\ call[c].at = "check"
          /\ \A d \in Calls \ {c} : call'[d] = call[d]
      BY <1>4, <2>2, <1>t DEF Check, TypeOK
    <3> QED
      BY <1>4, <3>1 DEF Check, item, CopiesNotOwn
  <2> QED
    BY <1>4, <2>1, <2>2 DEF Check
<1>5. ASSUME NEW c \in Calls, SignFirst(c) \/ ApproveSmall(c) \/ SignSecond(c) \/ Revoke(c)
      PROVE  CopiesNotOwn'
  <2>1. /\ call' = [call EXCEPT ![c] = Gone] /\ copy' = copy
        /\ call[c].at = "write"
    BY <1>5 DEF SignFirst, ApproveSmall, SignSecond, Revoke, Writes
  <2>2. NotOwn(call[c].read) /\ (call[c].op # "revoke" => call[c].who # Requester)
    BY <2>1 DEF CopiesNotOwn
  <2>3. NotOwn(signed')
    <3>1. CASE SignFirst(c) \/ ApproveSmall(c)
      <4>1. /\ signed' = [call[c].read EXCEPT !.first = call[c].who]
            /\ call[c].op # "revoke"
        BY <3>1 DEF SignFirst, ApproveSmall, Writes, FirstSigned
      <4>2. /\ call[c].read \in Signatures /\ NotOwn(call[c].read)
            /\ call[c].who \in People \cup {Nobody} /\ call[c].who # Requester
        BY <4>1, <2>2, <1>t
      <4> QED
        BY <4>1, <4>2, SignatureChanges
    <3>2. CASE SignSecond(c)
      BY <3>2, <2>2, <1>t, SignatureChanges DEF SignSecond, Writes
    <3>3. CASE Revoke(c)
      BY <3>3, <2>2, <1>t, Signers, SignatureChanges DEF Revoke, Withdrawn
    <3> QED
      BY <1>5, <3>1, <3>2, <3>3
  <2> QED
    BY <1>c, <2>1, <2>3 DEF CopiesNotOwn
<1>6. CASE \/ SetThreshold
           \/ \E o \in Others : ReadElsewhere(o) \/ CheckElsewhere(o) \/ WriteElsewhere(o)
  BY <1>6 DEF SetThreshold, ReadElsewhere, CheckElsewhere, WriteElsewhere, item,
     CopiesNotOwn
<1>7. ASSUME NEW s \in Scribes, ScribeReads(s) \/ ScribeWrites(s) PROVE CopiesNotOwn'
  <2>1. call' = call /\ NotOwn(signed') /\ \A u \in Scribes : NotOwn(copy'[u])
    BY <1>7, <1>t DEF ScribeReads, ScribeWrites, item, CopiesNotOwn, TypeOK
  <2> QED
    BY <1>c, <2>1 DEF CopiesNotOwn
<1> QED
  BY <1>1, <1>2, <1>3, <1>4, <1>5, <1>6, <1>7 DEF Next

\* The requester's signature never gets onto his own bill through the signing
\* endpoints: both refuse him at their read, and no stale copy that a call or
\* _update_ap_item_metadata writes back can hold it.
THEOREM OwnBillUnsigned == Spec => []NobodySignsOwnBill
<1>1. Init => CopiesNotOwn
  BY Signers DEF Init, Idle, Unsigned, CopiesNotOwn, NotOwn
<1>2. IInv /\ CopiesNotOwn /\ [Next]_vars => CopiesNotOwn'
  BY CopiesKept
<1>3. CopiesNotOwn => NobodySignsOwnBill
  BY DEF CopiesNotOwn, NotOwn, NobodySignsOwnBill
<1> QED
  BY <1>1, <1>2, <1>3, Invariance, PTL DEF Spec
=============================================================================
