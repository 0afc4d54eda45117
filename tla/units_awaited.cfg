\* One request at a time, none lost, the endpoint that awaits the adjustment.
CONSTANTS
  Shippings = {E1, E2}
  UT = 5
  SaveValues = {0, 3, 13}
  Dates = {jan, feb}
  Endpoints = {"save-shippings-units"}
  Requests = {r1}
  MaxFaults = 0
SPECIFICATION Spec
INVARIANTS TypeOK PiNameWhenSettled
