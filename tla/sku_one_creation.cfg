\* One creation at a time of two styles, one connection, one synchronisation,
\* one failure; queries are answered and the synchronisation is repeated.
CONSTANTS
  a = a
  b = b
  Keys = {a, b}
  CodeOf <- TwoStyles
  Atc = {}
  Colors = {red}
  Creators = {r1}
  Syncs = {y1}
  Cleaners = {}
  Jobs = {j1}
  MaxMembers = 2
  MaxFaults = 1
SPECIFICATION FairSpec
INVARIANT EveryRowEntered
 
