\* Three calls by the requester or two approvers, two requests of the other
\* surfaces at a time and one scribe.
CONSTANTS
  Requester = requester
  People = {requester, anna, ben}
  Nobody = nobody
  Calls = {c1, c2, c3}
  Others = {o1, o2}
  Scribes = {s1}
SPECIFICATION Spec
INVARIANTS TypeOK PendingHasItsSigner ApprovalsStand NobodySignsOwnBill
SYMMETRY MCSymmetry
