\* One request at a time, one failure; maintainers that cover both styles or one.
CONSTANTS
  s1 = s1
  s2 = s2
  c1 = c1
  c2 = c2
  Styles = {s1, s2}
  Colors = {c1, c2}
  StyleOf <- OneColorEach
  Maintainers <- AllOrOne
  ClientStatuses = {7, 10}
  Requests = {r1}
  MaxFaults = 1
SPECIFICATION Spec
INVARIANTS QuoteHolds SelectionHolds ApprovedCosted
