----------------------------- MODULE AtomicRow -----------------------------
(***************************************************************************)
(* The row that the callers of the AP store believe in: every change is    *)
(* one step on the row as it is.  A state follows the one the row has, and *)
(* the log says so; a flag is raised or resolved alone, whatever else is   *)
(* in the list.  Writers without a gate may also overwrite a state with    *)
(* one that followed some other.  A writer that lost its gate may leave a  *)
(* log entry, marked as not applied.  APItemStore implements this.         *)
(***************************************************************************)
EXTENDS Sequences

CONSTANTS
  Follows,   \* the state graph: which states follow a state
  Flags,     \* names of flags
  Gated      \* whether every writer passes a gate

VARIABLES state, flags, log

Init ==
  /\ state \in DOMAIN Follows
  /\ flags = [f \in Flags |-> "absent"]
  /\ log = <<>>

Logs(from, to, applied) ==
  log' = Append(log, [prev |-> from, new |-> to, applied |-> applied])

Move(to) ==
  /\ to \in Follows[state]
  /\ state' = to
  /\ Logs(state, to, TRUE)
  /\ UNCHANGED flags

Overwrite(from, to) ==
  /\ ~Gated
  /\ to \in Follows[from]
  /\ state' = to
  /\ Logs(from, to, TRUE)
  /\ UNCHANGED flags

LogUnapplied(from, to) ==
  /\ to \in Follows[from]
  /\ Logs(from, to, FALSE)
  /\ UNCHANGED <<state, flags>>

Mark(f, from, to) ==
  /\ flags[f] = from
  /\ flags' = [flags EXCEPT ![f] = to]
  /\ UNCHANGED <<state, log>>

Next ==
  \/ \E s, t \in DOMAIN Follows : Move(t) \/ Overwrite(s, t) \/ LogUnapplied(s, t)
  \/ \E f \in Flags : Mark(f, "absent", "open") \/ Mark(f, "open", "resolved")

Spec == Init /\ [][Next]_<<state, flags, log>>
=============================================================================
