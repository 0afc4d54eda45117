\* Two creations of one style at a time, two connections, one failure.
CONSTANTS
  a = a
  b = b
  Keys = {a}
  CodeOf <- TwoStyles
  Atc = {a}
  Colors = {red}
  Creators = {r1, r2}
  Syncs = {y1}
  Cleaners = {n1}
  Jobs = {j1, j2}
  MaxMembers = 2
  MaxFaults = 1
SPECIFICATION Spec
INVARIANTS SyncedInJda OwnMember
SYMMETRY Symmetry
