\* No scribe and no other surface: only the three endpoints.
CONSTANTS
  Requester = requester
  People = {requester, anna, ben}
  Nobody = nobody
  Calls = {c1, c2, c3}
  Others = {}
  Scribes = {}
SPECIFICATION Spec
INVARIANT TwoPeopleApprove
