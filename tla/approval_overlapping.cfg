\* Two requests at a time, one failure, one style; queries are answered.
CONSTANTS
  s1 = s1
  s2 = s2
  c1 = c1
  c2 = c2
  Styles = {s1}
  Colors = {c1}
  StyleOf <- OneStyle
  Maintainers <- All
  ClientStatuses = {7, 10}
  Requests = {r1, r2}
  MaxFaults = 1
SPECIFICATION FairSpec
INVARIANTS RevertHolds ApprovalHolds
PROPERTY RevertTakesEffect
