\* Every size curve of up to four sizes of one to three units, so every UT up
\* to twelve, and every number of units up to five times the greatest.
CONSTANTS
  MaxRatio = 3
  MaxSizes = 4
  MaxUnits = 60
SPECIFICATION CurvesSpec
INVARIANTS RoundedToNearest PacksSaved UnitsListedOnce OrdersAgree
CHECK_DEADLOCK FALSE
