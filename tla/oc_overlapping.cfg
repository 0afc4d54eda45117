\* Two releases and two synchronisations at a time, an OC, two connections of
\* the pool, two members, one failure; queries are answered.
CONSTANTS
  Ocs = {o1}
  Pis = {"pi"}
  PiOf <- OnePi
  Releasers = {r1, r2}
  Syncs = {y1, y2}
  Jobs = {j1, j2}
  MaxMembers = 2
  MaxFaults = 1
SPECIFICATION FairSpec
INVARIANTS MarkedBySender OneRowPerOc MarkedIsReleased
PROPERTY PiRegistered
