------------------------- MODULE APItemStore_proofs -------------------------
(***************************************************************************)
(* Proofs about APItemStore, for any number of callers, any choice of      *)
(* initial and target states, and any bounds.                              *)
(***************************************************************************)
EXTENDS APItemStore, TLAPS

-----------------------------------------------------------------------------
(* The inductive invariant.                                                *)

\* What a caller holds fits the place it is at.
CallFits(c) ==
  /\ call[c].pc = "update" => /\ call[c].kind \in {"cas", "plain"}
                              /\ call[c].target \in APState
  /\ (call[c].pc = "write" /\ call[c].kind \in {"cas", "plain"})
       => /\ call[c].prev \in APState
          /\ call[c].target \in APState
          /\ Legal(call[c].prev, call[c].target)
  /\ call[c].pc = "retry" => call[c].kind \in {"add", "resolve"}
  /\ call[c].pc = "mirror" => call[c].target \in OutcomeStates
  /\ call[c].kind \in {"cas", "add", "resolve"} => call[c].gate # NoGate

\* What the version gate stands for: it is never ahead of the row, and as
\* long as the row has not moved, what the caller read is what the row holds.
GateHolds(c) ==
  /\ call[c].gate <= row.version
  /\ (/\ call[c].pc = "write" /\ call[c].kind = "cas"
      /\ call[c].gate = row.version)
       => call[c].prev = row.state
  /\ (/\ call[c].pc = "write" /\ call[c].kind \in {"add", "resolve"}
      /\ call[c].gate = row.version)
       => call[c].seen = Edited(call[c].kind, call[c].flag, row.flags)

CallsFit == \A c \in Callers : CallFits(c)
GatesHold == \A c \in Callers : GateHolds(c)

IInv == TypeOK /\ CallsFit /\ GatesHold

-----------------------------------------------------------------------------
(* Lemmas about the operators.                                             *)

\* A caller between two calls is well typed.
LEMMA IdleType == \A c \in Callers : Idle(c) \in Call
BY DEF Idle, Call, NoGate, Flags, FlagStatus

\* An edit of a list of flags is a list of flags, and touches one flag only.
LEMMA EditedType ==
  ASSUME NEW kind, NEW f \in Callers, NEW flags \in Flags
  PROVE  /\ Edited(kind, f, flags) \in Flags
         /\ \A g \in Callers \ {f} : Edited(kind, f, flags)[g] = flags[g]
BY DEF Edited, Flags, FlagStatus

-----------------------------------------------------------------------------
(* IInv is inductive.                                                      *)

\* The initial states satisfy the invariant.
LEMMA InitIInv == Init => IInv
<1> SUFFICES ASSUME Init PROVE IInv
  OBVIOUS
<1> USE StatesAssumption, IdleType DEF Init
<1>1. TypeOK
  <2>1. [f \in Callers |-> "absent"] \in Flags
    BY DEF Flags, FlagStatus
  <2>2. row \in [state : APState, version : Nat \ {0}, flags : Flags]
    BY <2>1
  <2>3. trail \in Seq(AuditRow) /\ outcome \in OutcomeStates \cup {"none"}
    OBVIOUS
  <2> QED
    BY <2>1, <2>2, <2>3 DEF TypeOK
<1>2. CallsFit
  BY DEF CallsFit, CallFits, Idle
<1>3. GatesHold
  BY DEF GatesHold, GateHolds, Idle, NoGate
<1> QED
  BY <1>1, <1>2, <1>3 DEF IInv

\* A caller that takes no step itself keeps its gate: the row it read either
\* stays as it is or moves on past the gate.
LEMMA OthersKeepGates ==
  ASSUME TypeOK, GatesHold, NEW c \in Callers,
         \A d \in Callers \ {c} : call'[d] = call[d],
         \/ row' = row
         \/ row'.version = row.version + 1
  PROVE  \A d \in Callers \ {c} : GateHolds(d)'
<1> SUFFICES ASSUME NEW d \in Callers \ {c} PROVE GateHolds(d)'
  OBVIOUS
<1>1. call'[d] = call[d] /\ call[d] \in Call /\ GateHolds(d)
  BY DEF TypeOK, GatesHold
<1>2. row.version \in Nat /\ call[d].gate \in Nat
  BY <1>1 DEF TypeOK, Call
<1>3. CASE row' = row
  BY <1>1, <1>3 DEF GateHolds
<1>4. CASE row'.version = row.version + 1
  BY <1>1, <1>2, <1>4 DEF GateHolds
<1> QED
  BY <1>3, <1>4

\* CallFits speaks of one caller only.
LEMMA OthersStillFit ==
  ASSUME CallsFit, NEW c \in Callers,
         \A d \in Callers \ {c} : call'[d] = call[d]
  PROVE  \A d \in Callers \ {c} : CallFits(d)'
BY DEF CallsFit, CallFits

\* A step of one caller that replaces its own record by r, and that leaves
\* the row alone or stamps it with the next version, keeps IInv when r fits.
LEMMA StepKeepsIInv ==
  ASSUME IInv, TypeOK', NEW c \in Callers, NEW r,
         call' = [call EXCEPT ![c] = r],
         CallFits(c)', GateHolds(c)',
         row' = row \/ row'.version = row.version + 1
  PROVE  IInv'
<1>1. \A d \in Callers \ {c} : call'[d] = call[d]
  BY DEF IInv, TypeOK
<1>2. CallsFit'
  BY <1>1, OthersStillFit DEF IInv, CallsFit
<1>3. GatesHold'
  BY <1>1, OthersKeepGates DEF IInv, GatesHold
<1> QED
  BY <1>2, <1>3 DEF IInv

\* Falling idle is always fine.
LEMMA IdleFits ==
  ASSUME TypeOK, TypeOK', NEW c \in Callers, call'[c] = Idle(c)
  PROVE  CallFits(c)' /\ GateHolds(c)'
BY DEF CallFits, GateHolds, Idle, TypeOK, NoGate

\* Every step keeps the invariant.
LEMMA NextIInv == IInv /\ [Next]_vars => IInv'
<1> SUFFICES ASSUME IInv, [Next]_vars PROVE IInv'
  OBVIOUS
<1> USE StatesAssumption
<1>a. TypeOK /\ CallsFit /\ GatesHold
  BY DEF IInv
<1>1. ASSUME NEW c \in Callers, NEW t \in Targets, StartCas(c, t) PROVE IInv'
  <2> DEFINE r == [Idle(c) EXCEPT !.pc = "update", !.kind = "cas",
                                  !.target = t, !.gate = row.version]
  <2>1. call' = [call EXCEPT ![c] = r] /\ UNCHANGED <<row, trail, outcome, promised>>
    BY <1>1 DEF StartCas
  <2>2. r \in Call
    BY <1>a, IdleType DEF Call, TypeOK
  <2>3. TypeOK'
    BY <1>a, <2>1, <2>2 DEF TypeOK
  <2>4. call'[c] = r
    BY <1>a, <2>1 DEF TypeOK
  <2>5. CallFits(c)' /\ GateHolds(c)'
    BY <1>a, <2>1, <2>4 DEF CallFits, GateHolds, Idle, TypeOK, NoGate
  <2> QED
    BY <2>1, <2>3, <2>5, StepKeepsIInv
<1>2. ASSUME NEW c \in Callers, NEW t \in Targets, StartPlain(c, t) PROVE IInv'
  <2> DEFINE r == [Idle(c) EXCEPT !.pc = "update", !.kind = "plain", !.target = t]
  <2>1. call' = [call EXCEPT ![c] = r] /\ UNCHANGED <<row, trail, outcome, promised>>
    BY <1>2 DEF StartPlain
  <2>2. r \in Call
    <3>1. Idle(c) \in Call /\ t \in APState
      BY IdleType
    <3> QED
      BY <3>1 DEF Call
  <2>3. TypeOK'
    BY <1>a, <2>1, <2>2 DEF TypeOK
  <2>4. call'[c] = r
    BY <1>a, <2>1 DEF TypeOK
  <2>5. CallFits(c)' /\ GateHolds(c)'
    BY <1>a, <2>1, <2>4 DEF CallFits, GateHolds, Idle, TypeOK, NoGate
  <2> QED
    BY <2>1, <2>3, <2>5, StepKeepsIInv
<1>3. ASSUME NEW c \in Callers, NEW f \in Callers, NEW kind \in {"add", "resolve"},
             StartFlag(c, kind, f)
      PROVE  IInv'
  <2> DEFINE r == [Idle(c) EXCEPT !.pc = "write", !.kind = kind, !.flag = f,
                                  !.gate = row.version,
                                  !.seen = Edited(kind, f, row.flags), !.tries = 1]
  <2>1. call' = [call EXCEPT ![c] = r] /\ UNCHANGED <<row, trail, outcome, promised>>
    BY <1>3 DEF StartFlag
  <2>2. r \in Call
    <3>1. Edited(kind, f, row.flags) \in Flags /\ row.version \in Nat
      BY <1>a, EditedType DEF TypeOK
    <3>2. Idle(c) \in Call /\ 1 \in Nat
      BY IdleType
    <3> QED
      BY <3>1, <3>2 DEF Call
  <2>3. TypeOK'
    BY <1>a, <2>1, <2>2 DEF TypeOK
  <2>4. call'[c] = r
    BY <1>a, <2>1 DEF TypeOK
  <2>5. CallFits(c)' /\ GateHolds(c)'
    BY <1>a, <2>1, <2>4 DEF CallFits, GateHolds, Idle, TypeOK, NoGate
  <2> QED
    BY <2>1, <2>3, <2>5, StepKeepsIInv
<1>4. ASSUME NEW c \in Callers, TouchOtherColumns(c) PROVE IInv'
  <2>1. TypeOK'
    BY <1>a, <1>4 DEF TouchOtherColumns, TypeOK
  <2>2. CallsFit'
    BY <1>a, <1>4 DEF TouchOtherColumns, CallsFit, CallFits
  <2>3. ASSUME NEW d \in Callers PROVE GateHolds(d)'
    <3>1. row'.version = row.version + 1 /\ call'[d] = call[d] /\ GateHolds(d)
      BY <1>a, <1>4 DEF TouchOtherColumns, TypeOK, GatesHold
    <3>2. row.version \in Nat /\ call[d].gate \in Nat
      BY <1>a DEF TypeOK, Call
    <3> QED
      BY <3>1, <3>2 DEF GateHolds
  <2> QED
    BY <2>1, <2>2, <2>3 DEF IInv, GatesHold
<1>5. ASSUME NEW c \in Callers, Validate(c) PROVE IInv'
  <2> DEFINE r == [call[c] EXCEPT !.pc = "write", !.prev = row.state]
  <2>0. UNCHANGED <<row, trail, outcome, promised>> /\ call[c].pc = "update"
        /\ call[c] \in Call
    BY <1>a, <1>5 DEF Validate, TypeOK
  <2>1. CASE Legal(row.state, call[c].target)
    <3>1. call' = [call EXCEPT ![c] = r]
      BY <1>5, <2>1 DEF Validate
    <3>2. r \in Call
      BY <1>a, <2>0 DEF Call, TypeOK
    <3>3. TypeOK'
      BY <1>a, <2>0, <3>1, <3>2 DEF TypeOK
    <3>4. call'[c] = r
      BY <1>a, <3>1 DEF TypeOK
    <3>5. CallFits(c) /\ GateHolds(c)
      BY <1>a DEF CallsFit, GatesHold
    <3>6. CallFits(c)' /\ GateHolds(c)'
      BY <1>a, <2>0, <2>1, <3>4, <3>5 DEF CallFits, GateHolds, TypeOK, Call
    <3> QED
      BY <2>0, <3>1, <3>3, <3>6, StepKeepsIInv
  <2>2. CASE ~Legal(row.state, call[c].target)
    <3>1. call' = [call EXCEPT ![c] = Idle(c)]
      BY <1>5, <2>2 DEF Validate
    <3>2. TypeOK' /\ call'[c] = Idle(c)
      BY <1>a, <2>0, <3>1, IdleType DEF TypeOK
    <3> QED
      BY <1>a, <2>0, <3>1, <3>2, IdleFits, StepKeepsIInv
  <2> QED
    BY <2>1, <2>2
<1>6. ASSUME NEW c \in Callers, WriteState(c) PROVE IInv'
  <2>0. /\ call[c].pc = "write" /\ call[c].kind \in {"cas", "plain"}
        /\ call[c] \in Call /\ CallFits(c) /\ GateHolds(c)
    BY <1>a, <1>6 DEF WriteState, TypeOK, CallsFit, GatesHold
  <2>1. row' = row \/ (/\ row' = [row EXCEPT !.state = call[c].target,
                                            !.version = row.version + 1])
    BY <1>6 DEF WriteState
  <2>2. row' \in [state : APState, version : Nat \ {0}, flags : Flags]
    <3>1. row.version + 1 \in Nat \ {0} /\ call[c].target \in APState
      BY <1>a, <2>0 DEF TypeOK, CallFits
    <3> QED
      BY <1>a, <2>1, <3>1 DEF TypeOK
  <2>3. row' = row \/ row'.version = row.version + 1
    BY <1>a, <2>1 DEF TypeOK
  <2>4. trail' \in Seq(AuditRow)
    <3>1. [prev |-> call[c].prev, new |-> call[c].target, applied |-> Matches(c)]
            \in AuditRow
      BY <2>0 DEF CallFits, AuditRow, Matches
    <3> QED
      BY <1>a, <1>6, <3>1 DEF WriteState, AuditEntry, TypeOK
  <2>5. PICK r \in Call : /\ call' = [call EXCEPT ![c] = r]
                          /\ \/ r = Idle(c)
                             \/ /\ r = [call[c] EXCEPT !.pc = "mirror"]
                                /\ call[c].target \in OutcomeStates
    <3>1. [call[c] EXCEPT !.pc = "mirror"] \in Call
      BY <2>0 DEF Call
    <3> QED
      BY <1>6, <3>1, IdleType DEF WriteState, Mirrored
  <2>6. TypeOK'
    <3>1. call' \in [Callers -> Call]
      BY <1>a, <2>5 DEF TypeOK
    <3>2. UNCHANGED <<outcome, promised>>
      BY <1>6 DEF WriteState
    <3> QED
      BY <1>a, <2>2, <2>4, <3>1, <3>2 DEF TypeOK
  <2>7. call'[c] = r
    BY <1>a, <2>5 DEF TypeOK
  <2>8. CASE r = Idle(c)
    BY <1>a, <2>3, <2>5, <2>6, <2>7, <2>8, IdleFits, StepKeepsIInv
  <2>9. CASE r = [call[c] EXCEPT !.pc = "mirror"] /\ call[c].target \in OutcomeStates
    <3>1. CallFits(c)'
      BY <2>0, <2>7, <2>9 DEF CallFits, Call
    <3>2. GateHolds(c)'
      <4>1. row.version \in Nat /\ call[c].gate \in Nat
        BY <1>a, <2>0 DEF TypeOK, Call
      <4> QED
        BY <2>0, <2>3, <2>7, <2>9, <4>1 DEF GateHolds, Call
    <3> QED
      BY <2>3, <2>5, <2>6, <3>1, <3>2, StepKeepsIInv
  <2> QED
    BY <2>5, <2>8, <2>9
<1>7. ASSUME NEW c \in Callers, WriteFlags(c) PROVE IInv'
  <2>0. call[c] \in Call /\ CallFits(c) /\ GateHolds(c)
        /\ call[c].kind \in {"add", "resolve"}
    BY <1>a, <1>7 DEF WriteFlags, TypeOK, CallsFit, GatesHold
  <2>1. CASE Matches(c)
    <3>1. /\ row' = [row EXCEPT !.flags = call[c].seen, !.version = row.version + 1]
          /\ promised' = [promised EXCEPT
                            ![call[c].flag] = call[c].seen[call[c].flag]]
          /\ call' = [call EXCEPT ![c] = Idle(c)]
          /\ UNCHANGED <<trail, outcome>>
      BY <1>7, <2>1 DEF WriteFlags
    <3>2. call[c].seen \in Flags /\ call[c].flag \in Callers
      BY <2>0 DEF Call
    <3>3. promised' \in Flags
      BY <1>a, <3>1, <3>2 DEF TypeOK, Flags
    <3>4. row.version + 1 \in Nat \ {0}
      BY <1>a DEF TypeOK
    <3>5. /\ row' \in [state : APState, version : Nat \ {0}, flags : Flags]
          /\ row'.version = row.version + 1
      BY <1>a, <3>1, <3>2, <3>4 DEF TypeOK
    <3>6. call' \in [Callers -> Call] /\ call'[c] = Idle(c)
      BY <1>a, <3>1, IdleType DEF TypeOK
    <3>7. TypeOK' /\ call'[c] = Idle(c) /\ row'.version = row.version + 1
      BY <1>a, <3>1, <3>3, <3>5, <3>6 DEF TypeOK
    <3> QED
      BY <1>a, <3>1, <3>7, IdleFits, StepKeepsIInv
  <2>2. CASE ~Matches(c)
    <3>0. UNCHANGED <<row, trail, outcome, promised>>
      BY <1>7, <2>2 DEF WriteFlags
    <3>1. CASE call[c].tries < FlagAttempts
      <4> DEFINE r == [call[c] EXCEPT !.pc = "retry"]
      <4>1. call' = [call EXCEPT ![c] = r]
        BY <1>7, <2>2, <3>1 DEF WriteFlags
      <4>2. r \in Call
        BY <2>0 DEF Call
      <4>3. TypeOK' /\ call'[c] = r
        BY <1>a, <3>0, <4>1, <4>2 DEF TypeOK
      <4>4. CallFits(c)' /\ GateHolds(c)'
        BY <2>0, <3>0, <4>3 DEF CallFits, GateHolds, Call
      <4> QED
        BY <3>0, <4>1, <4>3, <4>4, StepKeepsIInv
    <3>2. CASE ~(call[c].tries < FlagAttempts)
      <4>1. call' = [call EXCEPT ![c] = Idle(c)]
        BY <1>7, <2>2, <3>2 DEF WriteFlags
      <4>2. TypeOK' /\ call'[c] = Idle(c)
        BY <1>a, <3>0, <4>1, IdleType DEF TypeOK
      <4> QED
        BY <1>a, <3>0, <4>1, <4>2, IdleFits, StepKeepsIInv
    <3> QED
      BY <3>1, <3>2
  <2> QED
    BY <2>1, <2>2
<1>8. ASSUME NEW c \in Callers, Retry(c) PROVE IInv'
  <2> DEFINE r == [call[c] EXCEPT !.pc = "write", !.gate = row.version,
                                  !.tries = call[c].tries + 1,
                                  !.seen = Edited(call[c].kind, call[c].flag, row.flags)]
  <2>0. call[c].pc = "retry" /\ call[c] \in Call /\ CallFits(c)
    BY <1>a, <1>8 DEF Retry, TypeOK, CallsFit
  <2>1. call' = [call EXCEPT ![c] = r] /\ UNCHANGED <<row, trail, outcome, promised>>
    BY <1>8 DEF Retry
  <2>2. Edited(call[c].kind, call[c].flag, row.flags) \in Flags
    BY <1>a, <2>0, EditedType DEF TypeOK, Call
  <2>3. r \in Call
    <3>1. row.version \in Nat /\ call[c].tries + 1 \in Nat
      BY <1>a, <2>0 DEF TypeOK, Call
    <3> QED
      BY <2>0, <2>2, <3>1 DEF Call
  <2>4. TypeOK' /\ call'[c] = r
    BY <1>a, <2>1, <2>3 DEF TypeOK
  <2>5. CallFits(c)' /\ GateHolds(c)'
    BY <1>a, <2>0, <2>1, <2>4 DEF CallFits, GateHolds, TypeOK, Call, NoGate
  <2> QED
    BY <2>1, <2>4, <2>5, StepKeepsIInv
<1>9. ASSUME NEW c \in Callers, Mirror(c) PROVE IInv'
  <2>1. call' = [call EXCEPT ![c] = Idle(c)] /\ UNCHANGED <<row, trail, promised>>
    BY <1>9 DEF Mirror
  <2>2. outcome' \in OutcomeStates \cup {"none"}
    BY <1>a, <1>9 DEF Mirror, TypeOK, CallsFit, CallFits
  <2>3. TypeOK' /\ call'[c] = Idle(c)
    BY <1>a, <2>1, <2>2, IdleType DEF TypeOK
  <2> QED
    BY <1>a, <2>1, <2>3, IdleFits, StepKeepsIInv
<1>10. ASSUME NEW c \in Callers, Crash(c) PROVE IInv'
  <2>1. call' = [call EXCEPT ![c] = Idle(c)]
        /\ UNCHANGED <<row, trail, outcome, promised>>
    BY <1>10 DEF Crash
  <2>2. TypeOK' /\ call'[c] = Idle(c)
    BY <1>a, <2>1, IdleType DEF TypeOK
  <2> QED
    BY <1>a, <2>1, <2>2, IdleFits, StepKeepsIInv
<1>11. CASE UNCHANGED vars
  BY <1>a, <1>11 DEF vars, IInv, TypeOK, CallsFit, CallFits, GatesHold, GateHolds
<1> QED
  BY <1>1, <1>2, <1>3, <1>4, <1>5, <1>6, <1>7, <1>8, <1>9, <1>10, <1>11 DEF Next

\* The inductive invariant holds in every reachable state.
THEOREM Invariance == Spec => []IInv
BY InitIInv, NextIInv, PTL DEF Spec

\* Type correctness of the store.
THEOREM TypeCorrect == Spec => []TypeOK
BY Invariance, PTL DEF IInv

-----------------------------------------------------------------------------
(* Fraud flags.                                                            *)

\* The only step that touches the flags of the row or a promise is a flag
\* call's write that matched.  It wrote an edit of the list the row held.
LEMMA OnlyMatchedFlagWrites ==
  ASSUME IInv, [Next]_vars
  PROVE  \/ row'.flags = row.flags /\ promised' = promised
         \/ \E c \in Callers, f \in Callers :
              /\ row'.flags \in Flags
              /\ \A g \in Callers \ {f} : row'.flags[g] = row.flags[g]
              /\ promised' = [promised EXCEPT ![f] = row'.flags[f]]
<1> USE DEF IInv
<1>1. ASSUME NEW c \in Callers, WriteFlags(c), Matches(c)
      PROVE  \E f \in Callers :
               /\ row'.flags \in Flags
               /\ \A g \in Callers \ {f} : row'.flags[g] = row.flags[g]
               /\ promised' = [promised EXCEPT ![f] = row'.flags[f]]
  <2>1. call[c] \in Call /\ CallFits(c) /\ GateHolds(c)
    BY DEF TypeOK, CallsFit, GatesHold
  <2>2. call[c].seen = Edited(call[c].kind, call[c].flag, row.flags)
    BY <1>1, <2>1 DEF WriteFlags, Matches, CallFits, GateHolds
  <2>3. row'.flags = call[c].seen
        /\ promised' = [promised EXCEPT ![call[c].flag] = call[c].seen[call[c].flag]]
    BY <1>1 DEF WriteFlags, TypeOK
  <2>4. call[c].flag \in Callers /\ row.flags \in Flags
    BY <2>1 DEF Call, TypeOK
  <2>5. row'.flags \in Flags
        /\ \A g \in Callers \ {call[c].flag} : row'.flags[g] = row.flags[g]
    BY <2>2, <2>3, <2>4, EditedType
  <2>6. promised' = [promised EXCEPT ![call[c].flag] = row'.flags[call[c].flag]]
    BY <2>3
  <2> QED
    BY <2>4, <2>5, <2>6
<1>2. ASSUME NEW c \in Callers, WriteFlags(c), ~Matches(c)
      PROVE  row'.flags = row.flags /\ promised' = promised
  BY <1>2 DEF WriteFlags
<1>3. ASSUME NEW c \in Callers, WriteState(c) \/ TouchOtherColumns(c)
      PROVE  row'.flags = row.flags /\ promised' = promised
  BY <1>3 DEF WriteState, TouchOtherColumns, TypeOK
<1>4. ASSUME NEW c \in Callers,
             \/ \E t \in Targets : StartCas(c, t) \/ StartPlain(c, t)
             \/ \E f \in Callers, kind \in {"add", "resolve"} : StartFlag(c, kind, f)
             \/ Validate(c) \/ Retry(c) \/ Mirror(c) \/ Crash(c)
      PROVE  row'.flags = row.flags /\ promised' = promised
  BY <1>4 DEF StartCas, StartPlain, StartFlag, Validate, Retry, Mirror, Crash
<1>5. CASE UNCHANGED vars
  BY <1>5 DEF vars
<1> QED
  BY <1>1, <1>2, <1>3, <1>4, <1>5 DEF Next

\* No concurrent edit of the fraud-flag list loses a flag or a resolution
\* whose call has returned, however many callers edit it at once and however
\* often they collide.
THEOREM FlagsAreKept == Spec => []NoLostFlag
<1>1. Init => NoLostFlag
  BY DEF Init, NoLostFlag
<1>2. IInv /\ NoLostFlag /\ [Next]_vars => NoLostFlag'
  <2> SUFFICES ASSUME IInv, NoLostFlag, [Next]_vars PROVE NoLostFlag'
    OBVIOUS
  <2>0. promised \in Flags /\ row.flags \in Flags
    BY DEF IInv, TypeOK
  <2>1. CASE row'.flags = row.flags /\ promised' = promised
    BY <2>1 DEF NoLostFlag
  <2>2. ASSUME NEW f \in Callers,
               \A g \in Callers \ {f} : row'.flags[g] = row.flags[g],
               promised' = [promised EXCEPT ![f] = row'.flags[f]]
        PROVE  NoLostFlag'
    <3>1. ASSUME NEW g \in Callers
          PROVE  /\ promised'[g] = "open" => row'.flags[g] # "absent"
                 /\ promised'[g] = "resolved" => row'.flags[g] = "resolved"
      BY <2>0, <2>2 DEF NoLostFlag, Flags
    <3> QED
      BY <3>1 DEF NoLostFlag
  <2> QED
    BY <2>1, <2>2, OnlyMatchedFlagWrites
<1> QED
  BY <1>1, <1>2, Invariance, PTL DEF Spec

-----------------------------------------------------------------------------
(* State changes.                                                          *)

\* A step that changes the state of the item, or the trail, is the
\* transaction of one caller.
LEMMA OnlyStateWrites ==
  ASSUME IInv, [Next]_vars
  PROVE  \/ row'.state = row.state /\ trail' = trail
         \/ \E c \in Callers : WriteState(c)
<1> USE DEF IInv
<1>1. ASSUME NEW c \in Callers, WriteFlags(c) \/ TouchOtherColumns(c)
      PROVE  row'.state = row.state /\ trail' = trail
  BY <1>1 DEF WriteFlags, TouchOtherColumns, TypeOK
<1>2. ASSUME NEW c \in Callers,
             \/ \E t \in Targets : StartCas(c, t) \/ StartPlain(c, t)
             \/ \E f \in Callers, kind \in {"add", "resolve"} : StartFlag(c, kind, f)
             \/ Validate(c) \/ Retry(c) \/ Mirror(c) \/ Crash(c)
      PROVE  row'.state = row.state /\ trail' = trail
  BY <1>2 DEF StartCas, StartPlain, StartFlag, Validate, Retry, Mirror, Crash
<1>3. CASE UNCHANGED vars
  BY <1>3 DEF vars
<1> QED
  BY <1>1, <1>2, <1>3 DEF Next

\* A caller that passes _expected_updated_at never moves the item along
\* anything but an edge of the state graph, and its audit row names the state
\* the item was really in.
THEOREM GatedTransitionsAreLegal == Spec => GatedWritesAreLegal
<1> DEFINE A == \A c \in Callers :
       (call[c].kind = "cas" /\ call'[c] # call[c] /\ row'.state # row.state)
         => /\ Legal(row.state, row'.state)
            /\ trail'[Len(trail')].prev = row.state
<1>1. IInv /\ [Next]_vars => A
  <2> SUFFICES ASSUME IInv, [Next]_vars, NEW c \in Callers,
                      call[c].kind = "cas", call'[c] # call[c],
                      row'.state # row.state
               PROVE  /\ Legal(row.state, row'.state)
                      /\ trail'[Len(trail')].prev = row.state
    OBVIOUS
  <2>1. PICK d \in Callers : WriteState(d)
    BY OnlyStateWrites
  <2>2. d = c
    BY <2>1 DEF WriteState, IInv, TypeOK
  <2>3. call[c] \in Call /\ CallFits(c) /\ GateHolds(c)
    BY DEF IInv, TypeOK, CallsFit, GatesHold
  <2>4. Matches(c) /\ row'.state = call[c].target
    BY <2>1, <2>2 DEF WriteState, IInv, TypeOK
  <2>5. call[c].prev = row.state /\ Legal(row.state, row'.state)
    BY <2>1, <2>2, <2>3, <2>4 DEF WriteState, Matches, CallFits, GateHolds
  <2>6. trail' = Append(trail, [prev |-> call[c].prev, new |-> call[c].target,
                                applied |-> Matches(c)])
    BY <2>1, <2>2 DEF WriteState, AuditEntry
  <2>7. trail'[Len(trail')].prev = call[c].prev
    BY <2>6 DEF IInv, TypeOK
  <2> QED
    BY <2>5, <2>7
<1> QED
  BY <1>1, Invariance, PTL DEF Spec, GatedWritesAreLegal

-----------------------------------------------------------------------------
(* The row looks atomic.                                                   *)

\* A flag that a matched write touches was absent and is open now, or was
\* open and is resolved now; or the write changes nothing.
LEMMA FlagWritesAreMarks ==
  ASSUME IInv, NEW c \in Callers, WriteFlags(c)
  PROVE  \/ UNCHANGED <<row.state, row.flags, trail>>
         \/ \E f \in Callers : \/ AnyRow!Mark(f, "absent", "open")
                               \/ AnyRow!Mark(f, "open", "resolved")
<1>a. /\ call[c] \in Call /\ CallFits(c) /\ GateHolds(c) /\ row.flags \in Flags
      /\ trail' = trail
  BY DEF WriteFlags, IInv, TypeOK, CallsFit, GatesHold
<1>1. CASE ~Matches(c)
  BY <1>a, <1>1 DEF WriteFlags
<1>2. CASE Matches(c)
  <2> DEFINE f == call[c].flag
             kind == call[c].kind
  <2>1. /\ f \in Callers /\ row'.state = row.state
        /\ row'.flags = Edited(kind, f, row.flags)
    BY <1>a, <1>2 DEF WriteFlags, Matches, CallFits, GateHolds, Call, IInv, TypeOK
  <2> HIDE DEF f, kind
  <2>2. CASE kind = "add" /\ row.flags[f] = "absent"
    <3>1. row'.flags = [row.flags EXCEPT ![f] = "open"]
      BY <2>1, <2>2 DEF Edited
    <3> QED
      BY <1>a, <2>1, <2>2, <3>1 DEF AnyRow!Mark
  <2>3. CASE kind = "resolve" /\ row.flags[f] = "open"
    <3>1. row'.flags = [row.flags EXCEPT ![f] = "resolved"]
      BY <2>1, <2>3 DEF Edited
    <3> QED
      BY <1>a, <2>1, <2>3, <3>1 DEF AnyRow!Mark
  <2>4. CASE /\ ~(kind = "add" /\ row.flags[f] = "absent")
             /\ ~(kind = "resolve" /\ row.flags[f] = "open")
    <3>1. row'.flags = [row.flags EXCEPT ![f] = row.flags[f]]
      BY <2>1, <2>4 DEF Edited
    <3>2. row'.flags = row.flags
      BY <1>a, <3>1 DEF Flags
    <3> QED
      BY <1>a, <2>1, <3>2
  <2> QED
    BY <2>2, <2>3, <2>4
<1> QED
  BY <1>1, <1>2

\* A transaction logs an edge of the graph.  It lost its gate, or moved the
\* row along that edge, or, without a gate, overwrote the state.
LEMMA StateWritesAreLogged ==
  ASSUME IInv, NEW c \in Callers, WriteState(c)
  PROVE  \E s, t \in DOMAIN ValidTransitions :
           \/ AnyRow!LogUnapplied(s, t)
           \/ AnyRow!Move(t)
           \/ call[c].kind = "plain" /\ AnyRow!Overwrite(s, t)
<1> DEFINE s == call[c].prev
           t == call[c].target
<1>a. /\ call[c] \in Call /\ CallFits(c) /\ GateHolds(c)
      /\ call[c].pc = "write" /\ call[c].kind \in {"cas", "plain"}
  BY DEF WriteState, IInv, TypeOK, CallsFit, GatesHold
<1>b. s \in APState /\ t \in APState /\ t \in ValidTransitions[s]
  BY <1>a DEF CallFits, Legal
<1>c. DOMAIN ValidTransitions = APState
  BY DEF ValidTransitions, APState
<1>d. trail' = Append(trail, [prev |-> s, new |-> t, applied |-> Matches(c)])
  BY DEF WriteState, AuditEntry
<1>1. CASE ~Matches(c)
  <2>1. row' = row /\ trail' = Append(trail, [prev |-> s, new |-> t, applied |-> FALSE])
    <3>1. Matches(c) = FALSE
      BY <1>1 DEF Matches
    <3> QED
      BY <1>1, <1>d, <3>1 DEF WriteState
  <2> QED
    BY <1>b, <1>c, <2>1 DEF AnyRow!LogUnapplied, AnyRow!Logs
<1>2. CASE Matches(c)
  <2>1. /\ row'.state = t /\ row'.flags = row.flags
        /\ trail' = Append(trail, [prev |-> s, new |-> t, applied |-> TRUE])
    <3>1. Matches(c) = TRUE
      BY <1>2 DEF Matches
    <3> QED
      BY <1>2, <1>d, <3>1 DEF WriteState, IInv, TypeOK
  <2>2. CASE call[c].kind = "plain"
    BY <1>b, <1>c, <2>1, <2>2 DEF AnyRow!Overwrite, AnyRow!Logs
  <2>3. CASE call[c].kind = "cas"
    <3>1. s = row.state
      BY <1>a, <1>2, <2>3 DEF Matches, CallFits, GateHolds
    <3> QED
      BY <1>b, <1>c, <2>1, <3>1 DEF AnyRow!Move, AnyRow!Logs
  <2> QED
    BY <1>a, <2>2, <2>3
<1> QED
  BY <1>1, <1>2

\* Nothing else changes what the row shows.
LEMMA OnlyWritesShow ==
  ASSUME IInv, [Next]_vars
  PROVE  \/ UNCHANGED <<row.state, row.flags, trail>>
         \/ \E c \in Callers : WriteState(c) \/ WriteFlags(c)
<1>1. ASSUME NEW c \in Callers, TouchOtherColumns(c)
      PROVE  UNCHANGED <<row.state, row.flags, trail>>
  BY <1>1 DEF TouchOtherColumns, IInv, TypeOK
<1>2. ASSUME NEW c \in Callers,
             \/ \E t \in Targets : StartCas(c, t) \/ StartPlain(c, t)
             \/ \E f \in Callers, kind \in {"add", "resolve"} : StartFlag(c, kind, f)
             \/ Validate(c) \/ Retry(c) \/ Mirror(c) \/ Crash(c)
      PROVE  UNCHANGED <<row.state, row.flags, trail>>
  BY <1>2 DEF StartCas, StartPlain, StartFlag, Validate, Retry, Mirror, Crash
<1>3. ASSUME UNCHANGED vars PROVE UNCHANGED <<row.state, row.flags, trail>>
  BY <1>3 DEF vars
<1> QED
  BY <1>1, <1>2, <1>3 DEF Next

\* A new row is one that the callers' row starts as.
LEMMA InitRow == Init => AnyRow!Init
<1>1. DOMAIN ValidTransitions = APState
  BY DEF ValidTransitions, APState
<1> QED
  BY <1>1, StatesAssumption DEF Init, AnyRow!Init

\* Whatever the callers of update_ap_item do between their reads and their
\* writes, and wherever they die: what is on the row is a list of flags that
\* only ever gains a flag or a resolution, one at a time, and a state that
\* the same step logs as the successor of some state.
THEOREM StoreImplementsRow == Spec => ImplementsRow
<1>1. IInv /\ [Next]_vars => [AnyRow!Next]_<<row.state, row.flags, trail>>
  BY FlagWritesAreMarks, StateWritesAreLogged, OnlyWritesShow DEF AnyRow!Next
<1> QED
  BY InitRow, <1>1, Invariance, PTL DEF Spec, ImplementsRow, AnyRow!Spec

\* As long as every state change is made through the compare-and-swap, the
\* row is atomic: each change of the state follows the state the row has at
\* that moment, and is logged as following it.
THEOREM GatedCallersSeeAnAtomicRow == Spec /\ []AllGated => GatedRow!Spec
<1>1. Init => GatedRow!Init
  BY InitRow DEF AnyRow!Init, GatedRow!Init
<1>2. IInv /\ AllGated /\ [Next]_vars
        => [GatedRow!Next]_<<row.state, row.flags, trail>>
  <2> SUFFICES ASSUME IInv, AllGated, [Next]_vars
               PROVE  GatedRow!Next \/ UNCHANGED <<row.state, row.flags, trail>>
    OBVIOUS
  <2>1. ASSUME NEW c \in Callers, WriteState(c) PROVE GatedRow!Next
    <3>1. call[c].kind # "plain"
      BY DEF AllGated
    <3>2. PICK s \in DOMAIN ValidTransitions, t \in DOMAIN ValidTransitions :
            AnyRow!LogUnapplied(s, t) \/ AnyRow!Move(t)
      BY <2>1, <3>1, StateWritesAreLogged
    <3>3. GatedRow!LogUnapplied(s, t) \/ GatedRow!Move(t)
      BY <3>2 DEF AnyRow!LogUnapplied, AnyRow!Move, AnyRow!Logs,
                  GatedRow!LogUnapplied, GatedRow!Move, GatedRow!Logs
    <3> QED
      BY <3>3 DEF GatedRow!Next
  <2>2. ASSUME NEW c \in Callers, WriteFlags(c)
        PROVE  GatedRow!Next \/ UNCHANGED <<row.state, row.flags, trail>>
    BY <2>2, FlagWritesAreMarks DEF AnyRow!Mark, GatedRow!Mark, GatedRow!Next
  <2> QED
    BY <2>1, <2>2, OnlyWritesShow
<1> QED
  BY <1>1, <1>2, Invariance, PTL DEF Spec, GatedRow!Spec
=============================================================================
