\* Two requests of each part, which may overlap; a colour with two deliveries,
\* of a purchase of two brands, and every filter.
CONSTANTS
  Requests = {r1, r2}
  StoreIds = {"paris", "ecommerce"}
  Associations <- MCAssociations
  Asked = {{"paris"}, {"paris", "ecommerce"}, {"ecommerce"}}
  MaxServed = 2
  Savers = {v1, v2}
  Units = {0, 1}
  MaxSaves = 2
  MaxFailures = 1
  Users = {u1, u2}
  Providers = {"p1", "p2"}
  Details = {"paris", "ecommerce"}
  MaxRequests = 2
  MaxErrors = 1
  Deliveries = {"E1", "E2"}
  Brands = {"own", "other"}
  OwnBrand = "own"
  Clients = {k1, k2}
  Origins = {"CN"}
  Shippings = {"E1", "E2"}
  FirstDates = {"early"}
  MaxRows = 3
  MaxCalls = 3
  MaxLapses = 1
  Names = {"a", "b"}
  MaxEdits = 3
SPECIFICATION Spec
CHECK_DEADLOCK FALSE
INVARIANTS AsAsked UnitsSaved QuotationsKept VendorChosen WholeColor QueriesAgree
           DatesAsAsked ChildrenDated AskedKept
PROPERTIES DeletedWhole
