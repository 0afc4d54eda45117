------------------------------- MODULE Services -------------------------------
(***************************************************************************)
(* The services that keep rows of their own, side by side: the stores and  *)
(* styles of a purchase, the rows of a delivery, the quotations of a       *)
(* style, the selection of what is approved, the shipping dates and the    *)
(* catalogs.  They meet no state of each other here; a behaviour stays in  *)
(* one part, chosen at the start, while the others rest.                   *)
(***************************************************************************)
EXTENDS Naturals

CONSTANTS Requests, StoreIds, Associations, Asked, MaxServed,
          Savers, Units, MaxSaves, MaxFailures,
          Users, Providers, Details, MaxRequests, MaxErrors,
          Deliveries, Brands, OwnBrand,
          Clients, Origins, Shippings, FirstDates, MaxRows, MaxCalls, MaxLapses,
          Names, MaxEdits

VARIABLES
  purchases, stores, styles, deletion, req, served, last, overlapped,
  rows, next, save, saves, failures, had, ended, mixed, taken,
  negotiations, details, purchase, omitted, style, work, requests, errors, final, crossed,
  approval, color, ships, ocs, left,
  dates, children, ids, call, calls, lapses, answer, met, trimmed,
  shape, record, client, asked, edits, stale,
  part   \* the part the behaviour is in

wizardVars == <<purchases, stores, styles, deletion, req, served, last, overlapped>>
deliveryVars == <<rows, next, save, saves, failures, had, ended, mixed, taken>>
quotingVars ==
  <<negotiations, details, purchase, omitted, style, work, requests, errors, final, crossed>>
selectionVars == <<approval, color, ships, ocs, left>>
dateVars == <<dates, children, ids, call, calls, lapses, answer, met, trimmed>>
catalogVars == <<shape, record, client, asked, edits, stale>>

Wizard == INSTANCE PurchaseWizard
Delivering == INSTANCE DeliveryRows
Quoting == INSTANCE Negotiations
Selecting == INSTANCE StyleSelection WITH purchase <- approval
Dating == INSTANCE ShippingDates
Listing == INSTANCE Catalogs

ASSUME PartsAssumption ==
  /\ Wizard!WizardAssumption /\ Delivering!UnitsAssumption /\ Quoting!ProvidersAssumption
  /\ Selecting!BrandAssumption
  /\ Dating!DatesAssumption /\ Listing!EditsAssumption

Parts == {"wizard", "deliveries", "quoting", "selection", "dates", "catalogs"}

Init ==
  /\ part \in Parts
  /\ Wizard!Init /\ Delivering!RowsInit /\ Quoting!NegotiationsInit
  /\ Selecting!Init /\ Dating!DatesInit /\ Listing!CatalogInit
  \* The parts that rest do so in one state.
  /\ part # "wizard" => purchases = 0
  /\ part # "deliveries" => rows = <<>>
  /\ part # "quoting" => negotiations = <<>> /\ style = "Pending"
  /\ part # "selection" => \A d \in Deliveries : ships[d].units = 0
  /\ part # "dates" => dates = {}
  /\ part # "catalogs" => shape = Listing!Cso

WizardStep ==
  /\ part = "wizard" /\ Wizard!Next
  /\ UNCHANGED <<part, deliveryVars, quotingVars, selectionVars, dateVars, catalogVars>>

DeliveryStep ==
  /\ part = "deliveries" /\ Delivering!RowsNext
  /\ UNCHANGED <<part, wizardVars, quotingVars, selectionVars, dateVars, catalogVars>>

QuotingStep ==
  /\ part = "quoting" /\ Quoting!NegotiationsNext
  /\ UNCHANGED <<part, wizardVars, deliveryVars, selectionVars, dateVars, catalogVars>>

SelectionStep ==
  /\ part = "selection" /\ Selecting!Next
  /\ UNCHANGED <<part, wizardVars, deliveryVars, quotingVars, dateVars, catalogVars>>

DatesStep ==
  /\ part = "dates" /\ Dating!DatesNext
  /\ UNCHANGED <<part, wizardVars, deliveryVars, quotingVars, selectionVars, catalogVars>>

CatalogStep ==
  /\ part = "catalogs" /\ Listing!CatalogNext
  /\ UNCHANGED <<part, wizardVars, deliveryVars, quotingVars, selectionVars, dateVars>>

Next == WizardStep \/ DeliveryStep \/ QuotingStep \/ SelectionStep \/ DatesStep \/ CatalogStep

Spec ==
  /\ Init
  /\ [][Next]_<<part, wizardVars, deliveryVars, quotingVars, selectionVars, dateVars, catalogVars>>
  /\ Wizard!Fairness

-----------------------------------------------------------------------------
\* The properties of the parts, stated in their modules, each in its part; at
\* rest they say nothing.
AsAsked == part = "wizard" => Wizard!AsAsked
DeletedWhole == Wizard!DeletedWhole
UnitsSaved == part = "deliveries" => Delivering!UnitsSaved
QuotationsKept == part = "quoting" => Quoting!QuotationsKept
VendorChosen == part = "quoting" => Quoting!VendorChosen
WholeColor == part = "selection" => Selecting!WholeColor
QueriesAgree == part = "selection" => Selecting!QueriesAgree
DatesAsAsked == part = "dates" => Dating!DatesAsAsked
ChildrenDated == part = "dates" => Dating!ChildrenDated
AskedKept == part = "catalogs" => Listing!AskedKept
=============================================================================
