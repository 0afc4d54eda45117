---------------------------- MODULE StyleSelection ----------------------------
(***************************************************************************)
(* What the selections of styles find, followed through the life of one    *)
(* colour of an active style: the summary and the approval of the Pending, *)
(* the reports of the approved, the list to adjust.  The code writes the   *)
(* selection four times; here is what each copy does with the rows it      *)
(* joins, one for a delivery and an OC of it.                              *)
(***************************************************************************)
EXTENDS FiniteSets

CONSTANTS
  Deliveries,   \* the deliveries of the colour, E1 to E6
  Brands,       \* the brands of the purchase
  OwnBrand      \* the brand of the style

NoDelivery == "no_delivery"
BrandAssumption == OwnBrand \in Brands /\ NoDelivery \notin Deliveries

VARIABLES
  purchase,   \* the status of the purchase
  color,      \* the status of the colour, and whether it is approved
  ships,      \* units and piName of each delivery, and whether it has the colour
  ocs,        \* the OCs of the piName of each: (I)mport or (D)omestic
  left        \* the deliveries an approval was not asked for, or that had
              \* domestic OCs alone when it was

vars == <<purchase, color, ships, ocs, left>>

ColorStatuses == {"Pending", "Confirmed", "Canceled"}

TypeOK ==
  /\ purchase \in {"CompletePurchase", "Approvement"}
  /\ color \in [status: ColorStatuses, approved: BOOLEAN]
  /\ ships \in [Deliveries -> [units: {0, 1}, named: BOOLEAN, kept: BOOLEAN]]
  /\ ocs \in [Deliveries -> SUBSET {"I", "D"}]
  /\ left \subseteq Deliveries
  \* A purchase with an approved colour is approved.
  /\ color.approved => purchase = "Approvement"

Init ==
  /\ purchase = "CompletePurchase"
  /\ color = [status |-> "Pending", approved |-> FALSE]
  /\ ships \in [Deliveries -> [units: {0, 1}, named: {FALSE}, kept: {TRUE}]]
  /\ ocs = [d \in Deliveries |-> {}]
  /\ left = {}

Filters == [shippings: SUBSET Deliveries, brands: SUBSET Brands, users: {{}, {"own"}, {"other"}}]

-----------------------------------------------------------------------------
OcsOf(d) == IF ships[d].named THEN ocs[d] ELSE {}
Kept == {d \in Deliveries : ships[d].kept}
DomesticOnly(d) == OcsOf(d) = {"D"}

\* The rows of the left joins of the colour.
Rows ==
  IF Kept = {} THEN {[at |-> NoDelivery, oc |-> "null"]}
  ELSE UNION {{[at |-> d, oc |-> o] : o \in IF OcsOf(d) = {} THEN {"null"} ELSE OcsOf(d)} :
                d \in Kept}

\* A comparison with null is not true.
HasUnits(row) == row.at # NoDelivery /\ ships[row.at].units # 0

\* What the filter asks of a row, of the purchase and of the styles' data.
Asks(f, row) ==
  /\ f.shippings = {} \/ row.at \in f.shippings
  /\ f.users \in {{}, {"own"}}
  /\ f.brands = {} \/ f.brands \cap Brands # {}
OfBrand(f) == f.brands = {} \/ OwnBrand \in f.brands

\* What a call asks of the colour: a status, and to be approved, of an
\* approved purchase.
Calls(want) ==
  /\ color.status \in want.status
  /\ IF want.approved THEN color.approved /\ purchase = "Approvement"
     ELSE purchase \in {"Approvement", "CompletePurchase"}

\* The deliveries getPurchaseStylesByFilter gives of the colour; nothing is
\* given when the colour is not found.
ByFilter(f, want) ==
  {row.at : row \in {r \in Rows :
     /\ r.oc \in {"I", "null"}
     /\ Calls(want) /\ Asks(f, r) /\ OfBrand(f)
     /\ want.units0 \/ HasUnits(r)}}

\* Mutant: the deliveries found are given and no other.
ByFilterV1Found(f, want) ==
  {row.at : row \in {r \in Rows :
     /\ Calls(want) /\ Asks(f, r) /\ OfBrand(f)
     /\ want.units0 \/ HasUnits(r)}}

\* getPurchaseStylesByFilterV1: the colour is found whatever its OCs, and its
\* deliveries are then loaded, all of them.
ByFilterV1(f, want) ==
  IF \E r \in Rows : /\ Calls(want) /\ Asks(f, r) /\ OfBrand(f)
                     /\ want.units0 \/ HasUnits(r)
  THEN {r.at : r \in Rows}
  ELSE {}

\* getPurchaseStyleEnhancementByFilter: it knows no filter of deliveries, and
\* its query of users does not parse.
Enhancement(f, want) ==
  IF f.users # {} THEN {}
  ELSE ByFilter([f EXCEPT !.shippings = {}], want)

\* getAllStylesActiveToAdjustByFilter
ToAdjust ==
  IF color.approved /\ purchase = "Approvement" /\ color.status \in {"Confirmed", "Canceled"}
  THEN {r.at : r \in Rows} ELSE {}

\* What each caller wants.
Summary == [status |-> {"Pending"}, approved |-> FALSE, units0 |-> FALSE]

Approval == [status |-> {"Pending"}, approved |-> FALSE, units0 |-> TRUE]
SkuReport == [status |-> {"Confirmed", "Canceled"}, approved |-> TRUE, units0 |-> FALSE]
OrderReports == [status |-> {"Confirmed"}, approved |-> TRUE, units0 |-> FALSE]

-----------------------------------------------------------------------------
\* Mutant: only deliveries with units are named.
ApproveNamingUnits(f) ==
  LET given == ByFilter(f, Approval) IN
  /\ given \cap Deliveries # {}
  /\ purchase' = "Approvement"
  /\ color' = [status |-> "Confirmed", approved |-> TRUE]
  /\ ships' = [d \in Deliveries |->
       IF d \in given THEN [ships[d] EXCEPT !.named = ships[d].units # 0]
       ELSE [ships[d] EXCEPT !.kept = FALSE]]
  /\ left' = left \cup
       {d \in Deliveries : (f.shippings # {} /\ d \notin f.shippings) \/ DomesticOnly(d)}
  /\ UNCHANGED ocs

\* An approval saves the colour with the deliveries it was given.  TypeORM
\* takes the deliveries of the colour that are not among them from it.
Approve(f) ==
  LET given == ByFilter(f, Approval) IN
  /\ given \cap Deliveries # {}
  /\ purchase' = "Approvement"
  /\ color' = [status |-> "Confirmed", approved |-> TRUE]
  /\ ships' = [d \in Deliveries |->
       IF d \in given THEN [ships[d] EXCEPT !.named = TRUE]
       ELSE [ships[d] EXCEPT !.kept = FALSE]]
  /\ left' = left \cup
       {d \in Deliveries : (f.shippings # {} /\ d \notin f.shippings) \/ DomesticOnly(d)}
  /\ UNCHANGED ocs

\* The synchronisation of OCs stores one of a delivery.
OcStored(d, type) ==
  /\ ships[d].named
  /\ ocs' = [ocs EXCEPT ![d] = @ \cup {type}]
  /\ UNCHANGED <<purchase, color, ships, left>>

\* saveStatusColor, of the list to adjust.
SaveStatusColor(status) ==
  /\ ToAdjust # {}
  /\ color' = [color EXCEPT !.status = status]
  /\ UNCHANGED <<purchase, ships, ocs, left>>

\* Units of a delivery are stored.
SaveUnits(d) ==
  /\ ships[d].kept
  /\ \E units \in {0, 1} : ships' = [ships EXCEPT ![d].units = units]
  /\ UNCHANGED <<purchase, color, ocs, left>>

\* revertStatus
RevertStatus ==
  /\ purchase = "Approvement"
  /\ purchase' = "CompletePurchase"
  /\ color' = [status |-> "Pending", approved |-> FALSE]
  /\ ships' = [d \in Deliveries |-> [ships[d] EXCEPT !.named = @ /\ ~ships[d].kept]]
  /\ UNCHANGED <<ocs, left>>

Next ==
  \/ \E f \in Filters : Approve(f)
  \/ \E d \in Deliveries, type \in {"I", "D"} : OcStored(d, type)
  \/ \E status \in ColorStatuses : SaveStatusColor(status)
  \/ \E d \in Deliveries : SaveUnits(d)
  \/ RevertStatus

Spec == Init /\ [][Next]_vars

-----------------------------------------------------------------------------
\* A delivery loses its colour only by an approval that was not asked for it
\* or found domestic OCs alone, and every other delivery of an approved colour
\* has its piName, those of zero units too (purchase-style.service 206,
\* 246-252, 332).
WholeColor ==
  /\ TypeOK
  /\ \A d \in Deliveries :
       IF ships[d].kept THEN color.approved => ships[d].named ELSE d \in left

\* What is approved with a filter was summarised with it, but for deliveries
\* of zero units, and nothing else was (purchase.service 465,
\* purchase-style.service 206).
SummaryOfApproval ==
  \A f \in Filters :
    ByFilter(f, Summary) = {d \in ByFilter(f, Approval) \cap Deliveries : ships[d].units # 0}

\* The report of approvals lists the colours the other reports list, besides
\* those whose deliveries asked for have domestic OCs alone; and of each all
\* its deliveries, asked for or not (report.service 116, 242).
ReportsAgree ==
  \A f \in Filters :
    LET asked == {r.at : r \in {r \in Rows : Asks(f, r) /\ HasUnits(r)}}
        sheet == ByFilterV1(f, SkuReport)
        report == ByFilter(f, SkuReport)
    IN /\ report \subseteq sheet
       /\ sheet # {} /\ report = {} => \A d \in asked : DomesticOnly(d)
       /\ sheet # {} => sheet = Kept

\* What any report lists can be found in the list to adjust, and what the
\* enhancement lists the orders list, whichever deliveries were asked for
\* (purchase-style.service 785-897, 899-1047).
ReportedAdjustable ==
  \A f \in Filters :
    /\ ByFilter(f, SkuReport) \cup ByFilterV1(f, SkuReport) \subseteq ToAdjust
    /\ Enhancement(f, OrderReports) # {} =>
         ByFilter(f, OrderReports) =
           {d \in Enhancement(f, OrderReports) : f.shippings = {} \/ d \in f.shippings}

\* What the queries of approvals, reports and adjustments promise each other.
QueriesAgree == SummaryOfApproval /\ ReportsAgree /\ ReportedAdjustable
=============================================================================
