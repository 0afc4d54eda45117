\* Both endpoints, two requests at a time, one of them lost.
CONSTANTS
  Shippings = {E1}
  UT = 5
  SaveValues = {3, 13}
  Dates = {jan, feb}
  Endpoints = {"save-shippings-units", "save-shipping-units"}
  Requests = {r1, r2}
  MaxFaults = 1
SPECIFICATION Spec
INVARIANTS QuietUnitsKept QuietArrival
SYMMETRY Symmetry
