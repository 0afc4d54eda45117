---------------------------- MODULE ServicesProofs ----------------------------
(***************************************************************************)
(* Proofs about the services that keep rows of their own.                  *)
(***************************************************************************)
EXTENDS Services, Sequences, FiniteSetTheorems, SequenceTheorems, TLAPS

allVars == <<part, wizardVars, deliveryVars, quotingVars, selectionVars, dateVars, catalogVars>>

-----------------------------------------------------------------------------
\* A step of the whole is a step of one part, and the rest stays.

LEMMA PartsBegin ==
  ASSUME Init
  PROVE  /\ Wizard!Init /\ Delivering!RowsInit /\ Quoting!NegotiationsInit
         /\ Selecting!Init /\ Dating!DatesInit /\ Listing!CatalogInit
  BY DEF Init

LEMMA SelectionSteps ==
  ASSUME [Next]_allVars
  PROVE  Selecting!Next \/ UNCHANGED selectionVars
  BY DEF Next, allVars, WizardStep, DeliveryStep, QuotingStep, SelectionStep, DatesStep, CatalogStep

LEMMA CatalogSteps ==
  ASSUME [Next]_allVars
  PROVE  Listing!CatalogNext \/ UNCHANGED catalogVars
  BY DEF Next, allVars, WizardStep, DeliveryStep, QuotingStep, SelectionStep, DatesStep, CatalogStep

LEMMA DateSteps ==
  ASSUME [Next]_allVars
  PROVE  Dating!DatesNext \/ UNCHANGED dateVars
  BY DEF Next, allVars, WizardStep, DeliveryStep, QuotingStep, SelectionStep, DatesStep, CatalogStep

LEMMA DeliverySteps ==
  ASSUME [Next]_allVars
  PROVE  Delivering!RowsNext \/ UNCHANGED deliveryVars
  BY DEF Next, allVars, WizardStep, DeliveryStep, QuotingStep, SelectionStep, DatesStep, CatalogStep

LEMMA QuotingSteps ==
  ASSUME [Next]_allVars
  PROVE  Quoting!NegotiationsNext \/ UNCHANGED quotingVars
  BY DEF Next, allVars, WizardStep, DeliveryStep, QuotingStep, SelectionStep, DatesStep, CatalogStep

-----------------------------------------------------------------------------
\* StyleSelection.

\* A delivery the colour was not saved with was not asked for, or had domestic
\* OCs alone; and the deliveries of an approved colour are named.
WholeInv ==
  /\ Selecting!TypeOK
  /\ \A d \in Deliveries : IF ships[d].kept THEN color.approved => ships[d].named ELSE d \in left

\* The rows of the joins: one with no OC, or one of each OC of the delivery.
LEMMA RowsOf ==
  ASSUME NEW row
  PROVE  row \in Selecting!Rows <=>
           \/ Selecting!Kept = {} /\ row = [at |-> Selecting!NoDelivery, oc |-> "null"]
           \/ \E d \in Selecting!Kept :
                \E o \in (IF Selecting!OcsOf(d) = {} THEN {"null"} ELSE Selecting!OcsOf(d)) :
                  row = [at |-> d, oc |-> o]
<1>1. CASE Selecting!Kept = {}
  BY <1>1 DEF Selecting!Rows
<1>2. CASE Selecting!Kept # {}
  <2> DEFINE Ocs(d) == IF Selecting!OcsOf(d) = {} THEN {"null"} ELSE Selecting!OcsOf(d)
             Of(d) == {[at |-> d, oc |-> o] : o \in Ocs(d)}
  <2>1. Selecting!Rows = UNION {Of(d) : d \in Selecting!Kept}
    BY <1>2 DEF Selecting!Rows
  <2>2. \A d : row \in Of(d) <=> \E o \in Ocs(d) : row = [at |-> d, oc |-> o]
    OBVIOUS
  <2> HIDE DEF Of
  <2>3. row \in Selecting!Rows <=> \E d \in Selecting!Kept : row \in Of(d)
    BY <2>1
  <2>4. QED
    BY <1>2, <2>2, <2>3
<1>3. QED
  BY <1>1, <1>2

LEMMA RowsAreKept ==
  ASSUME NEW row \in Selecting!Rows
  PROVE  row.at \in Selecting!Kept \/ (Selecting!Kept = {} /\ row.at = Selecting!NoDelivery)
  BY RowsOf

LEMMA KeptHasRow ==
  ASSUME Selecting!TypeOK, NEW d \in Selecting!Kept
  PROVE  /\ \E row \in Selecting!Rows : row.at = d
         /\ Selecting!DomesticOnly(d)
              \/ \E row \in Selecting!Rows : row.at = d /\ row.oc \in {"I", "null"}
<1>1. d \in Deliveries
  BY DEF Selecting!Kept
<1>2. Selecting!OcsOf(d) \subseteq {"I", "D"}
  BY <1>1 DEF Selecting!OcsOf, Selecting!TypeOK
<1>3. CASE Selecting!OcsOf(d) = {}
  <2>1. [at |-> d, oc |-> "null"] \in Selecting!Rows
    BY <1>3, RowsOf
  <2>2. QED
    BY <2>1
<1>4. CASE "I" \in Selecting!OcsOf(d)
  <2>1. [at |-> d, oc |-> "I"] \in Selecting!Rows
    BY <1>4, RowsOf
  <2>2. QED
    BY <2>1
<1>5. CASE Selecting!OcsOf(d) = {"D"}
  <2>1. [at |-> d, oc |-> "D"] \in Selecting!Rows
    BY <1>5, RowsOf
  <2>2. QED
    BY <1>5, <2>1 DEF Selecting!DomesticOnly
<1>6. QED
  BY <1>2, <1>3, <1>4, <1>5

\* What a query gives, one delivery at a time.
LEMMA Given ==
  ASSUME NEW f, NEW want, NEW x
  PROVE  x \in Selecting!ByFilter(f, want) <=>
           \E r \in Selecting!Rows :
             /\ x = r.at /\ r.oc \in {"I", "null"}
             /\ Selecting!Calls(want) /\ Selecting!Asks(f, r) /\ Selecting!OfBrand(f)
             /\ want.units0 \/ Selecting!HasUnits(r)
  BY DEF Selecting!ByFilter

\* What a query asks of a row is about its delivery, and the query is of the
\* whole colour besides.
LEMMA AsksOfDelivery ==
  ASSUME NEW f, NEW r, NEW s, r.at = s.at
  PROVE  (Selecting!Asks(f, r) <=> Selecting!Asks(f, s))
         /\ (Selecting!HasUnits(r) <=> Selecting!HasUnits(s))
  BY DEF Selecting!Asks, Selecting!HasUnits

LEMMA NotADelivery == Selecting!NoDelivery \notin Deliveries
  BY PartsAssumption DEF Selecting!BrandAssumption

LEMMA ApproveKeeps ==
  ASSUME WholeInv, NEW f, Selecting!Approve(f)
  PROVE  WholeInv'
<1> DEFINE given == Selecting!ByFilter(f, Selecting!Approval)
<1>1. /\ given \cap Deliveries # {}
      /\ approval' = "Approvement"
      /\ color' = [status |-> "Confirmed", approved |-> TRUE]
      /\ ships' = [d \in Deliveries |->
           IF d \in given THEN [ships[d] EXCEPT !.named = TRUE]
           ELSE [ships[d] EXCEPT !.kept = FALSE]]
      /\ left' = left \cup
           {d \in Deliveries :
              (f.shippings # {} /\ d \notin f.shippings) \/ Selecting!DomesticOnly(d)}
      /\ UNCHANGED ocs
  BY DEF Selecting!Approve
<1>2. /\ ships \in [Deliveries -> [units: {0, 1}, named: BOOLEAN, kept: BOOLEAN]]
      /\ ocs \in [Deliveries -> SUBSET {"I", "D"}] /\ left \subseteq Deliveries
      /\ Selecting!TypeOK
  BY DEF WholeInv, Selecting!TypeOK
<1>3. \A d \in given : d \in Deliveries => ships[d].kept
  <2>1. SUFFICES ASSUME NEW d \in given, d \in Deliveries PROVE ships[d].kept
    OBVIOUS
  <2>2. PICK r \in Selecting!Rows : d = r.at
    BY Given
  <2>3. QED
    BY <2>1, <2>2, RowsAreKept, NotADelivery DEF Selecting!Kept
<1>4. \A d \in Deliveries : ships[d].kept /\ d \notin given => d \in left'
  <2>1. SUFFICES ASSUME NEW d \in Deliveries, ships[d].kept, d \notin given,
                        ~Selecting!DomesticOnly(d)
                 PROVE  f.shippings # {} /\ d \notin f.shippings
    BY <1>1
  <2>2. PICK x \in given : x \in Deliveries
    BY <1>1
  <2>3. PICK r \in Selecting!Rows :
          Selecting!Calls(Selecting!Approval) /\ Selecting!Asks(f, r) /\ Selecting!OfBrand(f)
    BY Given
  <2>4. PICK s \in Selecting!Rows : s.at = d /\ s.oc \in {"I", "null"}
    BY <1>2, <2>1, KeptHasRow DEF Selecting!Kept
  <2>5. ~Selecting!Asks(f, s)
    BY <2>1, <2>3, <2>4, Given DEF Selecting!Approval
  <2>6. QED
    BY <2>3, <2>4, <2>5 DEF Selecting!Asks
<1> HIDE DEF given
<1>5. Selecting!TypeOK'
  <2>1. ships' \in [Deliveries -> [units: {0, 1}, named: BOOLEAN, kept: BOOLEAN]]
    BY <1>1, <1>2
  <2>2. left' \subseteq Deliveries
    BY <1>1, <1>2
  <2>3. color' \in [status: Selecting!ColorStatuses, approved: BOOLEAN]
    BY <1>1 DEF Selecting!ColorStatuses
  <2>4. QED
    BY <1>1, <1>2, <2>1, <2>2, <2>3 DEF Selecting!TypeOK
<1>6. ASSUME NEW d \in Deliveries
      PROVE  IF ships'[d].kept THEN color'.approved => ships'[d].named ELSE d \in left'
  <2>1. CASE d \in given
    <3>1. ships'[d].kept = ships[d].kept /\ ships'[d].named = TRUE
      BY <1>1, <1>2, <2>1
    <3>2. QED
      BY <1>3, <2>1, <3>1
  <2>2. CASE d \notin given
    <3>1. ships'[d].kept = FALSE
      BY <1>1, <1>2, <2>2
    <3>2. d \in left'
      BY <1>1, <1>4, <2>2 DEF WholeInv
    <3>3. QED
      BY <3>1, <3>2
  <2>3. QED
    BY <2>1, <2>2
<1>7. QED
  BY <1>5, <1>6 DEF WholeInv

\* The other steps of the colour's life.
LEMMA SelectionKeeps ==
  ASSUME WholeInv, Selecting!Next \/ UNCHANGED selectionVars
  PROVE  WholeInv'
<1>1. /\ approval \in {"CompletePurchase", "Approvement"}
      /\ color \in [status: Selecting!ColorStatuses, approved: BOOLEAN]
      /\ ships \in [Deliveries -> [units: {0, 1}, named: BOOLEAN, kept: BOOLEAN]]
      /\ ocs \in [Deliveries -> SUBSET {"I", "D"}] /\ left \subseteq Deliveries
      /\ color.approved => approval = "Approvement"
      /\ \A d \in Deliveries :
           IF ships[d].kept THEN color.approved => ships[d].named ELSE d \in left
  BY DEF WholeInv, Selecting!TypeOK
<1>2. CASE UNCHANGED selectionVars
  BY <1>1, <1>2 DEF selectionVars, WholeInv, Selecting!TypeOK
<1>3. CASE \E f \in Selecting!Filters : Selecting!Approve(f)
  BY <1>3, ApproveKeeps
<1>4. ASSUME NEW d \in Deliveries, NEW type \in {"I", "D"}, Selecting!OcStored(d, type)
      PROVE  WholeInv'
  <2>1. ocs' \in [Deliveries -> SUBSET {"I", "D"}]
    BY <1>1, <1>4 DEF Selecting!OcStored
  <2>2. UNCHANGED <<approval, color, ships, left>>
    BY <1>4 DEF Selecting!OcStored
  <2>3. QED
    BY <1>1, <2>1, <2>2 DEF WholeInv, Selecting!TypeOK
<1>5. ASSUME NEW status \in Selecting!ColorStatuses, Selecting!SaveStatusColor(status)
      PROVE  WholeInv'
  <2>1. color' \in [status: Selecting!ColorStatuses, approved: BOOLEAN] /\ color'.approved = color.approved
    BY <1>1, <1>5 DEF Selecting!SaveStatusColor
  <2>2. UNCHANGED <<approval, ships, ocs, left>>
    BY <1>5 DEF Selecting!SaveStatusColor
  <2>3. QED
    BY <1>1, <2>1, <2>2 DEF WholeInv, Selecting!TypeOK
<1>6. ASSUME NEW d \in Deliveries, Selecting!SaveUnits(d)
      PROVE  WholeInv'
  <2>1. PICK units \in {0, 1} : ships' = [ships EXCEPT ![d].units = units]
    BY <1>6 DEF Selecting!SaveUnits
  <2>2. /\ ships' \in [Deliveries -> [units: {0, 1}, named: BOOLEAN, kept: BOOLEAN]]
        /\ \A e \in Deliveries : ships'[e].kept = ships[e].kept /\ ships'[e].named = ships[e].named
    BY <1>1, <2>1
  <2>3. UNCHANGED <<approval, color, ocs, left>>
    BY <1>6 DEF Selecting!SaveUnits
  <2>4. QED
    BY <1>1, <2>2, <2>3 DEF WholeInv, Selecting!TypeOK
<1>7. CASE Selecting!RevertStatus
  <2>1. /\ approval' = "CompletePurchase" /\ color' = [status |-> "Pending", approved |-> FALSE]
        /\ ships' = [d \in Deliveries |-> [ships[d] EXCEPT !.named = @ /\ ~ships[d].kept]]
        /\ UNCHANGED <<ocs, left>>
    BY <1>7 DEF Selecting!RevertStatus
  <2> DEFINE named == [d \in Deliveries |-> ships[d].named /\ ~ships[d].kept]
  <2>2. named \in [Deliveries -> BOOLEAN]
    OBVIOUS
  <2>3. ships' = [d \in Deliveries |-> [ships[d] EXCEPT !.named = named[d]]]
    BY <2>1
  <2> HIDE DEF named
  <2>4. /\ ships' \in [Deliveries -> [units: {0, 1}, named: BOOLEAN, kept: BOOLEAN]]
        /\ \A d \in Deliveries : ships'[d].kept = ships[d].kept
    BY <1>1, <2>2, <2>3
  <2>5. color' \in [status: Selecting!ColorStatuses, approved: BOOLEAN] /\ color'.approved = FALSE
    BY <2>1 DEF Selecting!ColorStatuses
  <2>6. QED
    BY <1>1, <2>1, <2>4, <2>5 DEF WholeInv, Selecting!TypeOK
<1>8. QED
  BY <1>2, <1>3, <1>4, <1>5, <1>6, <1>7 DEF Selecting!Next

LEMMA SelectionInvariance == Spec => []WholeInv
<1>1. Init => WholeInv
  <2>1. SUFFICES ASSUME Selecting!Init PROVE WholeInv
    BY PartsBegin
  <2>2. QED
    BY <2>1 DEF Selecting!Init, WholeInv, Selecting!TypeOK, Selecting!ColorStatuses
<1>2. WholeInv /\ [Next]_allVars => WholeInv'
  BY SelectionSteps, SelectionKeeps
<1>3. QED
  BY <1>1, <1>2, PTL DEF Spec, allVars

\* For any deliveries and brands, a delivery loses its colour only by an
\* approval that was not asked for it or found domestic OCs alone, and every
\* other delivery of an approved colour has its piName.
THEOREM ColorsAreWhole == Spec => []WholeColor
<1>1. WholeInv => WholeColor
  BY DEF WholeInv, WholeColor, Selecting!WholeColor
<1>2. QED
  BY <1>1, SelectionInvariance, PTL

\* What the four copies of the query say of the same rows.

LEMMA SummaryAgrees ==
  ASSUME WholeInv
  PROVE  Selecting!SummaryOfApproval
<1> SUFFICES ASSUME NEW f \in Selecting!Filters
             PROVE  Selecting!ByFilter(f, Selecting!Summary) =
                      {d \in Selecting!ByFilter(f, Selecting!Approval) \cap Deliveries :
                         ships[d].units # 0}
  BY DEF Selecting!SummaryOfApproval
<1>1. Selecting!Calls(Selecting!Summary) <=> Selecting!Calls(Selecting!Approval)
  BY DEF Selecting!Calls, Selecting!Summary, Selecting!Approval
<1>2. ~Selecting!Summary.units0 /\ Selecting!Approval.units0
  BY DEF Selecting!Summary, Selecting!Approval
<1>3. \A r \in Selecting!Rows :
        Selecting!HasUnits(r) <=> r.at \in Deliveries /\ ships[r.at].units # 0
  BY RowsAreKept, NotADelivery DEF Selecting!HasUnits, Selecting!Kept
<1>4. \A x : x \in Selecting!ByFilter(f, Selecting!Summary) <=>
             x \in Selecting!ByFilter(f, Selecting!Approval) /\ x \in Deliveries /\ ships[x].units # 0
  BY <1>1, <1>2, <1>3, Given
<1>5. QED
  BY <1>4

LEMMA ReportsDoAgree ==
  ASSUME WholeInv
  PROVE  Selecting!ReportsAgree
<1> SUFFICES ASSUME NEW f \in Selecting!Filters
             PROVE  LET wanted == {r.at : r \in {r \in Selecting!Rows :
                                    Selecting!Asks(f, r) /\ Selecting!HasUnits(r)}}
                        sheet == Selecting!ByFilterV1(f, Selecting!SkuReport)
                        report == Selecting!ByFilter(f, Selecting!SkuReport)
                    IN /\ report \subseteq sheet
                       /\ sheet # {} /\ report = {} => \A d \in wanted : Selecting!DomesticOnly(d)
                       /\ sheet # {} => sheet = Selecting!Kept
  BY DEF Selecting!ReportsAgree
<1> DEFINE wanted == {r.at : r \in {r \in Selecting!Rows :
                        Selecting!Asks(f, r) /\ Selecting!HasUnits(r)}}
           sheet == Selecting!ByFilterV1(f, Selecting!SkuReport)
           report == Selecting!ByFilter(f, Selecting!SkuReport)
           Lists(r) == /\ Selecting!Calls(Selecting!SkuReport)
                       /\ Selecting!Asks(f, r) /\ Selecting!OfBrand(f)
                       /\ Selecting!HasUnits(r)
<1>1. sheet = IF \E r \in Selecting!Rows : Lists(r) THEN {r.at : r \in Selecting!Rows} ELSE {}
  BY DEF Selecting!ByFilterV1, Selecting!SkuReport
<1>2. \A x : x \in report <=> \E r \in Selecting!Rows : x = r.at /\ r.oc \in {"I", "null"} /\ Lists(r)
  BY Given DEF Selecting!SkuReport
<1>3. report \subseteq sheet
  BY <1>1, <1>2
<1>4. ASSUME sheet # {}, report = {}, NEW d \in wanted
      PROVE  Selecting!DomesticOnly(d)
  <2>1. PICK r \in Selecting!Rows : Lists(r)
    BY <1>1, <1>4
  <2>2. PICK s \in Selecting!Rows : d = s.at /\ Selecting!Asks(f, s) /\ Selecting!HasUnits(s)
    BY <1>4
  <2>3. d \in Selecting!Kept
    BY <2>2, RowsAreKept DEF Selecting!HasUnits
  <2>4. SUFFICES ASSUME NEW t \in Selecting!Rows, t.at = d, t.oc \in {"I", "null"} PROVE FALSE
    BY <2>3, KeptHasRow DEF WholeInv
  <2>5. Lists(t)
    BY <2>1, <2>2, <2>4, AsksOfDelivery
  <2>6. QED
    BY <1>2, <1>4, <2>4, <2>5
<1>5. ASSUME sheet # {} PROVE sheet = Selecting!Kept
  <2>1. PICK r \in Selecting!Rows : Lists(r)
    BY <1>1, <1>5
  <2>2. Selecting!Kept # {}
    BY <2>1, RowsAreKept DEF Selecting!HasUnits
  <2>3. \A d \in Selecting!Kept : \E s \in Selecting!Rows : s.at = d
    BY KeptHasRow DEF WholeInv
  <2>4. \A s \in Selecting!Rows : s.at \in Selecting!Kept
    BY <2>2, RowsAreKept
  <2>5. sheet = {s.at : s \in Selecting!Rows}
    BY <1>1, <1>5
  <2>6. QED
    BY <2>3, <2>4, <2>5
<1>6. QED
  BY <1>3, <1>4, <1>5

LEMMA ReportedCanAdjust ==
  ASSUME WholeInv
  PROVE  Selecting!ReportedAdjustable
<1> SUFFICES ASSUME NEW f \in Selecting!Filters
             PROVE  /\ Selecting!ByFilter(f, Selecting!SkuReport)
                         \cup Selecting!ByFilterV1(f, Selecting!SkuReport) \subseteq Selecting!ToAdjust
                    /\ Selecting!Enhancement(f, Selecting!OrderReports) # {} =>
                         Selecting!ByFilter(f, Selecting!OrderReports) =
                           {d \in Selecting!Enhancement(f, Selecting!OrderReports) :
                              f.shippings = {} \/ d \in f.shippings}
  BY DEF Selecting!ReportedAdjustable
<1>1. Selecting!Calls(Selecting!SkuReport) =>
        Selecting!ToAdjust = {r.at : r \in Selecting!Rows}
  BY DEF Selecting!Calls, Selecting!SkuReport, Selecting!ToAdjust
<1>2. Selecting!ByFilter(f, Selecting!SkuReport) \subseteq Selecting!ToAdjust
  <2>1. SUFFICES ASSUME NEW x \in Selecting!ByFilter(f, Selecting!SkuReport)
                 PROVE  x \in Selecting!ToAdjust
    OBVIOUS
  <2>2. PICK r \in Selecting!Rows : x = r.at /\ Selecting!Calls(Selecting!SkuReport)
    BY <2>1, Given
  <2>3. QED
    BY <1>1, <2>2
<1>3. Selecting!ByFilterV1(f, Selecting!SkuReport) \subseteq Selecting!ToAdjust
  BY <1>1 DEF Selecting!ByFilterV1
<1>4. ASSUME Selecting!Enhancement(f, Selecting!OrderReports) # {}
      PROVE  Selecting!ByFilter(f, Selecting!OrderReports) =
               {d \in Selecting!Enhancement(f, Selecting!OrderReports) :
                  f.shippings = {} \/ d \in f.shippings}
  <2> DEFINE g == [f EXCEPT !.shippings = {}]
             want == Selecting!OrderReports
  <2>1. f.users = {} /\ Selecting!Enhancement(f, want) = Selecting!ByFilter(g, want)
    BY <1>4 DEF Selecting!Enhancement
  <2>2. g.shippings = {} /\ g.users = f.users /\ g.brands = f.brands
    BY DEF Selecting!Filters
  <2> HIDE DEF g, want
  <2>3. \A r : Selecting!Asks(f, r) <=>
                 Selecting!Asks(g, r) /\ (f.shippings = {} \/ r.at \in f.shippings)
    BY <2>2 DEF Selecting!Asks
  <2>4. Selecting!OfBrand(f) <=> Selecting!OfBrand(g)
    BY <2>2 DEF Selecting!OfBrand
  <2>5. \A x : x \in Selecting!ByFilter(f, want) <=>
               x \in Selecting!ByFilter(g, want) /\ (f.shippings = {} \/ x \in f.shippings)
    BY <2>3, <2>4, Given
  <2>6. QED
    BY <2>1, <2>5 DEF want
<1>5. QED
  BY <1>2, <1>3, <1>4

\* For any deliveries, brands and filter, in every state that is reached, the
\* queries of approvals, reports and adjustments find what each promises the
\* others.
THEOREM QueriesDoAgree == Spec => []QueriesAgree
<1>1. WholeInv => QueriesAgree
  BY SummaryAgrees, ReportsDoAgree, ReportedCanAdjust DEF QueriesAgree, Selecting!QueriesAgree
<1>2. QED
  BY <1>1, SelectionInvariance, PTL

-----------------------------------------------------------------------------
\* Catalogs.

CatalogRecord == [name : Names, active : BOOLEAN]

\* A request at work has found the record, and the record is as was last asked.
CatalogInv ==
  /\ shape \in Listing!Shapes
  /\ record = Listing!NoRecord \/ record \in CatalogRecord
  /\ DOMAIN client = Clients
  /\ \A c \in Clients :
       /\ client[c].pc \in {"idle", "edit", "put_aside"}
       /\ client[c].pc # "idle" =>
            client[c].sent \in CatalogRecord /\ client[c].found \in CatalogRecord /\ record \in CatalogRecord
       /\ client[c].found = Listing!NoRecord \/ client[c].found \in CatalogRecord
  /\ asked = record \/ asked \in CatalogRecord
  /\ edits \in 0 .. MaxEdits
  /\ record \in CatalogRecord =>
       /\ asked \in CatalogRecord /\ record.active = asked.active
       /\ ~stale => record.name = asked.name

LEMMA RecordOf ==
  Listing!Record = CatalogRecord
  BY DEF Listing!Record, CatalogRecord

\* The record is there with what was asked of it.
LEMMA CatalogBegins ==
  ASSUME CatalogInv, record' \in CatalogRecord, asked' = record', UNCHANGED <<shape, client, stale>>,
         edits' \in 0 .. MaxEdits
  PROVE  CatalogInv'
  BY DEF CatalogInv, CatalogRecord

\* A request ends, and leaves in the record what it was asked.
LEMMA CatalogEnds ==
  ASSUME CatalogInv, NEW c \in Clients, client' = [client EXCEPT ![c] = Listing!Resting],
         record' \in CatalogRecord, asked' \in CatalogRecord, UNCHANGED <<shape, edits>>,
         record'.active = asked'.active, ~stale' => record'.name = asked'.name
  PROVE  CatalogInv'
<1>1. Listing!Resting.pc = "idle" /\ Listing!Resting.found = Listing!NoRecord
  BY DEF Listing!Resting, Listing!NoRecord
<1>2. /\ DOMAIN client' = Clients /\ client'[c] = Listing!Resting
      /\ \A d \in Clients : d # c => client'[d] = client[d]
  BY DEF CatalogInv
<1>3. \A d \in Clients :
        /\ client'[d].pc \in {"idle", "edit", "put_aside"}
        /\ client'[d].pc # "idle" =>
             client'[d].sent \in CatalogRecord /\ client'[d].found \in CatalogRecord
        /\ client'[d].found = Listing!NoRecord \/ client'[d].found \in CatalogRecord
  BY <1>1, <1>2 DEF CatalogInv
<1>4. QED
  BY <1>2, <1>3 DEF CatalogInv

LEMMA FindKeeps ==
  ASSUME CatalogInv, NEW c \in Clients, NEW pc \in {"edit", "put_aside"}, Listing!Find(c, pc)
  PROVE  CatalogInv'
<1>1. PICK sent \in CatalogRecord :
        client' = [client EXCEPT ![c] = [pc |-> pc, sent |-> sent, found |-> record]]
  BY RecordOf DEF Listing!Find
<1>2. record \in CatalogRecord /\ UNCHANGED <<shape, record, asked, stale>>
  BY DEF Listing!Find, CatalogInv
<1>3. edits' \in 0 .. MaxEdits
  BY PartsAssumption DEF Listing!Find, Listing!Begins, CatalogInv, Listing!EditsAssumption
<1> DEFINE new == [pc |-> pc, sent |-> sent, found |-> record]
<1>4. new.pc = pc /\ new.sent = sent /\ new.found = record
  OBVIOUS
<1> HIDE DEF new
<1>5. /\ DOMAIN client' = Clients /\ client'[c] = new
      /\ \A d \in Clients : d # c => client'[d] = client[d]
  BY <1>1 DEF CatalogInv, new
<1>6. \A d \in Clients :
        /\ client'[d].pc \in {"idle", "edit", "put_aside"}
        /\ client'[d].pc # "idle" =>
             client'[d].sent \in CatalogRecord /\ client'[d].found \in CatalogRecord
        /\ client'[d].found = Listing!NoRecord \/ client'[d].found \in CatalogRecord
  BY <1>2, <1>4, <1>5 DEF CatalogInv
<1>7. QED
  BY <1>2, <1>3, <1>5, <1>6 DEF CatalogInv

LEMMA EditKeeps ==
  ASSUME CatalogInv, NEW c \in Clients, Listing!Edit(c)
  PROVE  CatalogInv'
<1> DEFINE sent == client[c].sent
           whole == "active" \in shape.edits
<1>1. /\ record' = [sent EXCEPT !.active = IF whole THEN @ ELSE record.active]
      /\ asked' = [asked EXCEPT !.name = sent.name, !.active = IF whole THEN sent.active ELSE @]
      /\ client' = [client EXCEPT ![c] = Listing!Resting]
      /\ UNCHANGED <<shape, edits, stale>>
  BY DEF Listing!Edit, Listing!Written
<1>2. sent \in CatalogRecord /\ record \in CatalogRecord /\ asked \in CatalogRecord /\ record.active = asked.active
  BY DEF Listing!Edit, CatalogInv
<1> HIDE DEF sent, whole
<1>3. /\ record' \in CatalogRecord /\ record'.name = sent.name
      /\ record'.active = IF whole THEN sent.active ELSE record.active
  BY <1>1, <1>2 DEF CatalogRecord
<1>4. /\ asked' \in CatalogRecord /\ asked'.name = sent.name
      /\ asked'.active = IF whole THEN sent.active ELSE asked.active
  BY <1>1, <1>2 DEF CatalogRecord
<1>5. QED
  BY <1>1, <1>2, <1>3, <1>4, CatalogEnds

LEMMA PutAsideKeeps ==
  ASSUME CatalogInv, NEW c \in Clients, Listing!PutAside(c)
  PROVE  CatalogInv'
<1> DEFINE sent == client[c].sent
           found == client[c].found
           assigns == shape.saves = "sent"
           remakes == shape = Listing!Size /\ sent.active
           saved == IF assigns THEN [sent EXCEPT !.active = FALSE]
                    ELSE IF remakes THEN sent ELSE [found EXCEPT !.active = sent.active]
<1>1. /\ record' = saved
      /\ asked' = [asked EXCEPT !.active = saved.active,
                     !.name = IF assigns \/ remakes THEN sent.name ELSE @]
      /\ stale' = (stale \/ (shape.saves = "found" /\ found # record))
      /\ client' = [client EXCEPT ![c] = Listing!Resting]
      /\ UNCHANGED <<shape, edits>>
  BY DEF Listing!PutAside
<1>2. /\ sent \in CatalogRecord /\ found \in CatalogRecord /\ record \in CatalogRecord
      /\ asked \in CatalogRecord /\ (~stale => record.name = asked.name)
  BY DEF Listing!PutAside, CatalogInv
<1>3. ~assigns => shape.saves = "found"
  BY DEF CatalogInv, Listing!Shapes, Listing!Cso, Listing!Category, Listing!Rse, Listing!SeasonSticker,
     Listing!Segment, Listing!Packaging, Listing!Shipmethod, Listing!ExitPort, Listing!Provider,
     Listing!Size, Listing!Whole, Listing!ByFlag
<1> HIDE DEF sent, found, assigns, remakes
<1>4. /\ saved \in CatalogRecord
      /\ saved.name = IF assigns \/ remakes THEN sent.name ELSE found.name
  BY <1>2 DEF CatalogRecord
<1> HIDE DEF saved
<1>5. /\ asked' \in CatalogRecord /\ asked'.active = saved.active
      /\ asked'.name = IF assigns \/ remakes THEN sent.name ELSE asked.name
  BY <1>1, <1>2, <1>4 DEF CatalogRecord
<1>6. ~stale' => record'.name = asked'.name
  BY <1>1, <1>2, <1>3, <1>4, <1>5
<1>7. QED
  BY <1>1, <1>4, <1>5, <1>6, CatalogEnds

LEMMA CatalogKeeps ==
  ASSUME CatalogInv, Listing!CatalogNext \/ UNCHANGED catalogVars
  PROVE  CatalogInv'
<1>1. CASE UNCHANGED catalogVars
  BY <1>1 DEF catalogVars, CatalogInv
<1>2. CASE Listing!Create
  <2>1. record' \in CatalogRecord /\ asked' = record' /\ UNCHANGED <<shape, client, stale>>
    BY <1>2, RecordOf DEF Listing!Create
  <2>2. edits' \in 0 .. MaxEdits
    BY <1>2, PartsAssumption DEF Listing!Create, Listing!Begins, CatalogInv, Listing!EditsAssumption
  <2>3. QED
    BY <2>1, <2>2, CatalogBegins
<1>3. CASE Listing!Seeded
  <2>1. record' \in CatalogRecord /\ asked' = record' /\ UNCHANGED <<shape, client, edits, stale>>
    BY <1>3, RecordOf DEF Listing!Seeded
  <2>2. QED
    BY <2>1, CatalogBegins DEF CatalogInv
<1>4. QED
  BY <1>1, <1>2, <1>3, FindKeeps, EditKeeps, PutAsideKeeps DEF Listing!CatalogNext

\* For any clients, names and number of requests, a record is put aside or back
\* as was last asked, and has the columns last asked unless a row found before
\* an edit was saved after it.
THEOREM AskedIsKept == Spec => []AskedKept
<1>1. Init => CatalogInv
  <2>1. SUFFICES ASSUME Listing!CatalogInit PROVE CatalogInv
    BY PartsBegin
  <2>2. Listing!Resting.pc = "idle" /\ Listing!Resting.found = Listing!NoRecord
    BY DEF Listing!Resting, Listing!NoRecord
  <2>3. edits \in 0 .. MaxEdits
    BY <2>1, PartsAssumption DEF Listing!CatalogInit, Listing!EditsAssumption
  <2>4. Listing!NoRecord \notin CatalogRecord
    BY DEF Listing!NoRecord, CatalogRecord
  <2>5. QED
    BY <2>1, <2>2, <2>3, <2>4 DEF Listing!CatalogInit, CatalogInv
<1>2. CatalogInv /\ [Next]_allVars => CatalogInv'
  BY CatalogSteps, CatalogKeeps
<1>3. CatalogInv => AskedKept
  BY RecordOf DEF CatalogInv, AskedKept, Listing!AskedKept, Listing!CatalogTypeOK
<1>4. QED
  BY <1>1, <1>2, <1>3, PTL DEF Spec, allVars

-----------------------------------------------------------------------------
\* DeliveryRows.

Request == [pc : {"idle", "delete", "save", "column"}, units : Delivering!Sent, id : Nat,
            few : BOOLEAN, full : BOOLEAN, sent : BOOLEAN, first : Nat, others : SUBSET Nat]

\* The numbers that requests have read are of rows there were.
NumbersInv ==
  /\ next \in Nat \ {0} /\ failures \in Nat /\ had \in BOOLEAN
  /\ mixed \in BOOLEAN /\ taken \in BOOLEAN
  /\ DOMAIN rows \subseteq 1 .. next - 1
  /\ \A i \in DOMAIN rows : rows[i] \in Units
  /\ save \in [Savers -> Request]
  /\ \A r \in Savers : /\ save[r].others \subseteq 1 .. next - 1
                         /\ save[r].first \in 0 .. next - 1 /\ save[r].id \in 0 .. next - 1

\* A request that nothing overlaps reads the rows as they stay until it writes.
AloneInv ==
  ~mixed => /\ \A r, s \in Delivering!Saving : r = s
            /\ \A r \in Savers :
                 /\ save[r].pc = "delete" =>
                      /\ save[r].others = DOMAIN rows \ {save[r].first}
                      /\ IF save[r].first = 0 THEN DOMAIN rows = {} ELSE save[r].first \in DOMAIN rows
                 /\ save[r].pc = "save" =>
                      /\ DOMAIN rows \subseteq {save[r].first}
                      /\ save[r].first # 0 => save[r].first \in DOMAIN rows

\* While no row has been taken from under the request that was to keep it, each
\* request still has its row, and deletes others alone.
KeptInv ==
  ~taken => /\ had => DOMAIN rows # {}
            /\ \A r \in Savers :
                 /\ save[r].pc \in {"delete", "save"} /\ save[r].first # 0 =>
                      save[r].first \in DOMAIN rows
                 /\ save[r].pc = "delete" =>
                      /\ save[r].first \notin save[r].others
                      /\ save[r].first = 0 => save[r].others = {}

RowsInv == NumbersInv /\ AloneInv /\ KeptInv /\ Delivering!SavedAsSent

LEMMA UnitsOfSent ==
  ASSUME NEW units \in Delivering!Sent
  PROVE  /\ Delivering!UnitsOf(units) \in Units
         /\ units # Delivering!Absent => units = {Delivering!UnitsOf(units)}
<1>1. CASE units = Delivering!Absent
  BY <1>1, PartsAssumption DEF Delivering!UnitsOf, Delivering!UnitsAssumption
<1>2. CASE units # Delivering!Absent
  <2>1. \E u \in Units : units = {u}
    BY <1>2 DEF Delivering!Sent
  <2>2. QED
    BY <1>2, <2>1 DEF Delivering!UnitsOf
<1>3. QED
  BY <1>1, <1>2

\* A row saved is there, with the units sent if any were; the others stay.
LEMMA StoredRowIs ==
  ASSUME NumbersInv, NEW i, NEW units \in Delivering!Sent
  PROVE  LET stored == Delivering!StoredRow(i, units) IN
         /\ DOMAIN stored = DOMAIN rows \cup {i}
         /\ \A j \in DOMAIN stored : stored[j] \in Units
         /\ units # Delivering!Absent => units = {stored[i]}
<1> DEFINE u == IF i \in DOMAIN rows /\ units = Delivering!Absent THEN rows[i]
                ELSE Delivering!UnitsOf(units)
           stored == [j \in DOMAIN rows \cup {i} |-> IF j = i THEN u ELSE rows[j]]
<1>1. Delivering!StoredRow(i, units) = stored
  BY DEF Delivering!StoredRow, Delivering!Put
<1>2. u \in Units /\ (units # Delivering!Absent => units = {u})
  BY UnitsOfSent DEF NumbersInv
<1> HIDE DEF u
<1>3. QED
  BY <1>1, <1>2 DEF NumbersInv

\* A request begins.
LEMMA SaveBegins ==
  ASSUME RowsInv, NEW r \in Savers, NEW q \in Request, Delivering!BeginSave(r, q),
         q.others \subseteq 1 .. next - 1, q.first \in 0 .. next - 1, q.id \in 0 .. next - 1, q.pc \in {"delete", "column"},
         q.pc = "delete" => /\ q.others = DOMAIN rows \ {q.first}
                            /\ IF q.first = 0 THEN DOMAIN rows = {} ELSE q.first \in DOMAIN rows
  PROVE  RowsInv'
<1>1. /\ save[r].pc = "idle" /\ save' = [save EXCEPT ![r] = q]
      /\ mixed' = (mixed \/ Delivering!Saving # {})
      /\ UNCHANGED <<rows, next, failures, had, ended, taken>>
  BY DEF Delivering!BeginSave
<1>2. /\ save' \in [Savers -> Request] /\ save'[r] = q
      /\ \A s \in Savers : s # r => save'[s] = save[s]
  BY <1>1 DEF RowsInv, NumbersInv
<1>3. NumbersInv'
  BY <1>1, <1>2 DEF RowsInv, NumbersInv, Delivering!Saving
<1>4. Delivering!Saving' = Delivering!Saving \cup {r}
  BY <1>2 DEF Delivering!Saving
<1>5. AloneInv'
  <2>1. ~mixed' => ~mixed /\ Delivering!Saving' = {r}
    BY <1>1, <1>4
  <2>2. ~mixed' => \A s \in Savers : s # r => save'[s].pc = "idle"
    BY <2>1, <1>2 DEF Delivering!Saving
  <2>3. QED
    BY <1>1, <1>2, <2>1, <2>2 DEF RowsInv, AloneInv
<1>6. Delivering!SavedAsSent'
  BY <1>4 DEF Delivering!SavedAsSent
<1>7. KeptInv'
  BY <1>1, <1>2 DEF RowsInv, KeptInv, NumbersInv
<1>8. QED
  BY <1>3, <1>5, <1>6, <1>7 DEF RowsInv

LEMMA RestingIsRequest == Delivering!NotSaving \in Request
<1>1. {} \in SUBSET Nat /\ Delivering!Absent \in Delivering!Sent
  BY DEF Delivering!Sent
<1>2. QED
  BY <1>1 DEF Delivering!NotSaving, Request

LEMMA CountIs ==
  ASSUME NEW S
  PROVE  Delivering!Cardinality(S) = Cardinality(S)
  BY DEF Delivering!Cardinality, Cardinality

LEMMA SaveReadKeeps ==
  ASSUME RowsInv, NEW r \in Savers, Delivering!SaveRead(r)
  PROVE  RowsInv'
<1>1. PICK units \in Delivering!Sent, first \in (IF DOMAIN rows = {} THEN {0} ELSE DOMAIN rows) :
        Delivering!BeginSave(r, [Delivering!NotSaving EXCEPT !.pc = "delete", !.units = units,
                                   !.first = first, !.others = DOMAIN rows \ {first}])
  BY DEF Delivering!SaveRead, Delivering!Repeated
<1> DEFINE q == [Delivering!NotSaving EXCEPT !.pc = "delete", !.units = units, !.first = first,
                                            !.others = DOMAIN rows \ {first}]
<1>2. Delivering!BeginSave(r, q)
  BY <1>1
<1>3. /\ DOMAIN rows \subseteq 1 .. next - 1 /\ next \in Nat \ {0}
      /\ first \in 0 .. next - 1
      /\ IF first = 0 THEN DOMAIN rows = {} ELSE first \in DOMAIN rows
  BY DEF RowsInv, NumbersInv
<1>4. q \in Request
  <2>1. DOMAIN rows \ {first} \in SUBSET Nat /\ first \in Nat
    BY <1>3
  <2>2. QED
    BY <2>1, RestingIsRequest DEF Request
<1>5. q.others = DOMAIN rows \ {first} /\ q.first = first /\ q.id = 0 /\ q.pc = "delete"
  BY DEF Delivering!NotSaving
<1> HIDE DEF q
<1>6. QED
  BY <1>2, <1>3, <1>4, <1>5, SaveBegins

LEMMA ColumnReadKeeps ==
  ASSUME RowsInv, NEW r \in Savers, Delivering!ColumnRead(r)
  PROVE  RowsInv'
<1>1. PICK units \in Delivering!Sent \ {Delivering!Absent} :
        \E id \in 0 .. next - 1 : \E few, full, sent \in BOOLEAN :
          /\ ~few => (sent /\ ~full)
          /\ \E first \in (IF DOMAIN rows = {} \/ ~few THEN {0} ELSE DOMAIN rows) :
               Delivering!BeginSave(r, [Delivering!NotSaving EXCEPT !.pc = "column", !.units = units,
                  !.id = id, !.few = few, !.full = full, !.sent = sent, !.first = first])
  BY DEF Delivering!ColumnRead
<1>2. PICK id \in 0 .. next - 1 : \E few, full, sent \in BOOLEAN :
          /\ ~few => (sent /\ ~full)
          /\ \E first \in (IF DOMAIN rows = {} \/ ~few THEN {0} ELSE DOMAIN rows) :
               Delivering!BeginSave(r, [Delivering!NotSaving EXCEPT !.pc = "column", !.units = units,
                  !.id = id, !.few = few, !.full = full, !.sent = sent, !.first = first])
  BY <1>1
<1>3. PICK few \in BOOLEAN, full \in BOOLEAN, sent \in BOOLEAN :
          \E first \in (IF DOMAIN rows = {} \/ ~few THEN {0} ELSE DOMAIN rows) :
               Delivering!BeginSave(r, [Delivering!NotSaving EXCEPT !.pc = "column", !.units = units,
                  !.id = id, !.few = few, !.full = full, !.sent = sent, !.first = first])
  BY <1>2
<1>4. PICK first \in (IF DOMAIN rows = {} \/ ~few THEN {0} ELSE DOMAIN rows) :
        Delivering!BeginSave(r, [Delivering!NotSaving EXCEPT !.pc = "column", !.units = units,
                  !.id = id, !.few = few, !.full = full, !.sent = sent, !.first = first])
  BY <1>3
<1> DEFINE q == [Delivering!NotSaving EXCEPT !.pc = "column", !.units = units,
                  !.id = id, !.few = few, !.full = full, !.sent = sent, !.first = first]
<1>5. Delivering!BeginSave(r, q)
  BY <1>4
<1>6. DOMAIN rows \subseteq 1 .. next - 1 /\ next \in Nat \ {0}
  BY DEF RowsInv, NumbersInv
<1>7. first \in 0 .. next - 1 /\ id \in 0 .. next - 1 /\ first \in Nat /\ id \in Nat
  BY <1>6
<1>8. q \in Request
  <2> DEFINE q1 == [Delivering!NotSaving EXCEPT !.pc = "column", !.units = units, !.id = id]
             q2 == [q1 EXCEPT !.few = few]
             q3 == [q2 EXCEPT !.full = full]
             q4 == [q3 EXCEPT !.sent = sent]
  <2>1. q1 \in Request
    BY <1>7, RestingIsRequest DEF Request
  <2> HIDE DEF q1
  <2>2. q2 \in Request
    BY <2>1 DEF Request
  <2> HIDE DEF q2
  <2>3. q3 \in Request
    BY <2>2 DEF Request
  <2> HIDE DEF q3
  <2>4. q4 \in Request
    BY <2>3 DEF Request
  <2> HIDE DEF q4
  <2>5. [q4 EXCEPT !.first = first] \in Request
    BY <1>7, <2>4 DEF Request
  <2>6. QED
    BY <2>5 DEF q1, q2, q3, q4
<1>9. q.others = {} /\ q.first = first /\ q.id = id /\ q.pc = "column"
  BY DEF Delivering!NotSaving
<1> HIDE DEF q
<1>10. QED
  BY <1>5, <1>6, <1>7, <1>8, <1>9, SaveBegins

LEMMA SaveDeleteKeeps ==
  ASSUME RowsInv, NEW r \in Savers, Delivering!SaveDelete(r)
  PROVE  RowsInv'
<1>1. /\ save[r].pc = "delete"
      /\ rows' = [i \in DOMAIN rows \ save[r].others |-> rows[i]]
      /\ save' = [save EXCEPT ![r].pc = "save"]
      /\ taken' = (taken \/ Delivering!Takes(r))
      /\ UNCHANGED <<next, saves, failures, had, ended, mixed>>
  BY DEF Delivering!SaveDelete
<1>2. /\ save' \in [Savers -> Request] /\ save'[r] = [save[r] EXCEPT !.pc = "save"]
      /\ \A s \in Savers : s # r => save'[s] = save[s]
  BY <1>1 DEF RowsInv, NumbersInv, Request
<1>3. /\ save'[r].pc = "save" /\ save'[r].first = save[r].first
      /\ save'[r].others = save[r].others /\ save'[r].id = save[r].id
  BY <1>2 DEF RowsInv, NumbersInv, Request
<1>4. /\ DOMAIN rows' = DOMAIN rows \ save[r].others
      /\ \A i \in DOMAIN rows' : rows'[i] = rows[i]
  BY <1>1
<1>5. NumbersInv'
  BY <1>1, <1>2, <1>3, <1>4 DEF RowsInv, NumbersInv, Delivering!Takes
<1>6. Delivering!Saving' = Delivering!Saving /\ r \in Delivering!Saving
  BY <1>1, <1>2, <1>3 DEF Delivering!Saving
<1>7. AloneInv'
  <2>1. ~mixed => \A s \in Savers : s # r => save'[s].pc = "idle"
    BY <1>2, <1>6 DEF RowsInv, AloneInv, Delivering!Saving
  <2>2. ~mixed => /\ save[r].others = DOMAIN rows \ {save[r].first}
                  /\ IF save[r].first = 0 THEN DOMAIN rows = {} ELSE save[r].first \in DOMAIN rows
    BY <1>1 DEF RowsInv, AloneInv
  <2>3. ~mixed => /\ DOMAIN rows' \subseteq {save[r].first}
                  /\ save[r].first # 0 => save[r].first \in DOMAIN rows'
    BY <1>4, <2>2
  <2>4. QED
    BY <1>1, <1>3, <1>6, <2>1, <2>3 DEF RowsInv, AloneInv
<1>8. Delivering!SavedAsSent'
  BY <1>6 DEF Delivering!SavedAsSent
<1>9. KeptInv'
  <2>1. SUFFICES ASSUME ~taken, ~Delivering!Takes(r) PROVE KeptInv'
    BY <1>1 DEF KeptInv
  <2>2. /\ had => DOMAIN rows # {}
        /\ \A s \in Savers : save[s].pc \in {"delete", "save"} /\ save[s].first # 0 =>
             save[s].first \in DOMAIN rows
        /\ save[r].first \notin save[r].others
        /\ save[r].first = 0 => save[r].others = {}
    BY <1>1, <2>1 DEF RowsInv, KeptInv
  <2>3. \A s \in Savers : save[s].pc \in {"delete", "save"} => save[s].first \notin save[r].others
    BY <2>1, <2>2 DEF Delivering!Takes
  <2>4. had => DOMAIN rows' # {}
    BY <1>1, <1>4, <2>2
  <2>5. \A s \in Savers : save'[s].pc \in {"delete", "save"} /\ save'[s].first # 0 =>
          save'[s].first \in DOMAIN rows'
    BY <1>1, <1>2, <1>3, <1>4, <2>2, <2>3
  <2>6. QED
    BY <1>1, <1>2, <1>3, <2>1, <2>4, <2>5 DEF RowsInv, KeptInv
<1>10. QED
  BY <1>5, <1>7, <1>8, <1>9 DEF RowsInv

\* A request ends.
LEMMA SaveEnds ==
  ASSUME NumbersInv, NEW r \in Savers, NEW op, Delivering!EndSave(r, op)
  PROVE  /\ save' \in [Savers -> Request] /\ save'[r] = Delivering!NotSaving
         /\ \A s \in Savers : s # r => save'[s] = save[s]
         /\ Delivering!Saving' = Delivering!Saving \ {r}
         /\ ended'.op = op /\ ended'.units = save[r].units
         /\ UNCHANGED <<mixed, taken>>
<1>1. /\ save' = [save EXCEPT ![r] = Delivering!NotSaving]
      /\ ended' = [op |-> op, units |-> save[r].units, id |-> save[r].id]
      /\ UNCHANGED <<mixed, taken>>
  BY DEF Delivering!EndSave
<1>2. Delivering!NotSaving \in Request /\ Delivering!NotSaving.pc = "idle"
  BY DEF Delivering!NotSaving, Request, Delivering!Sent
<1>3. /\ save' \in [Savers -> Request] /\ save'[r] = Delivering!NotSaving
      /\ \A s \in Savers : s # r => save'[s] = save[s]
  BY <1>1, <1>2 DEF NumbersInv
<1>4. QED
  BY <1>1, <1>2, <1>3 DEF Delivering!Saving

\* A request ends with a row that is saved.
LEMMA RowSaved ==
  ASSUME RowsInv, NEW r \in Savers, NEW op \in {"saved", "column", "others"},
         Delivering!EndSave(r, op), NEW i \in 1 .. next, NEW units \in Delivering!Sent,
         rows' = Delivering!StoredRow(i, units),
         next' = IF i = next THEN next + 1 ELSE next,
         had' = TRUE, UNCHANGED failures,
         save[r].pc # "idle", op \in {"saved", "column"} => units = save[r].units,
         op = "saved" /\ ~mixed => DOMAIN rows \subseteq {i}
  PROVE  RowsInv'
<1>1. /\ DOMAIN rows' = DOMAIN rows \cup {i}
      /\ \A j \in DOMAIN rows' : rows'[j] \in Units
      /\ units # Delivering!Absent => units = {rows'[i]}
  BY StoredRowIs DEF RowsInv
<1>2. /\ save' \in [Savers -> Request] /\ save'[r] = Delivering!NotSaving
      /\ \A s \in Savers : s # r => save'[s] = save[s]
      /\ Delivering!Saving' = Delivering!Saving \ {r}
      /\ ended'.op = op /\ ended'.units = save[r].units
      /\ UNCHANGED <<mixed, taken>>
  BY SaveEnds DEF RowsInv
<1>3. /\ Delivering!NotSaving.pc = "idle" /\ Delivering!NotSaving.first = 0
      /\ Delivering!NotSaving.others = {} /\ Delivering!NotSaving.id = 0
  BY DEF Delivering!NotSaving
<1>4. next' \in Nat \ {0} /\ next <= next' /\ i \in 1 .. next' - 1 /\ next \in Nat \ {0}
  BY DEF RowsInv, NumbersInv
<1>5. NumbersInv'
  <2>1. DOMAIN rows' \subseteq 1 .. next' - 1
    BY <1>1, <1>4 DEF RowsInv, NumbersInv
  <2>2. \A s \in Savers : save'[s].others \subseteq 1 .. next' - 1 /\ save'[s].first \in 0 .. next' - 1
                            /\ save'[s].id \in 0 .. next' - 1
    BY <1>2, <1>3, <1>4 DEF RowsInv, NumbersInv
  <2>3. QED
    BY <1>1, <1>2, <1>4, <2>1, <2>2 DEF RowsInv, NumbersInv
<1>6. AloneInv'
  <2>1. CASE mixed
    BY <1>1, <1>2, <2>1 DEF AloneInv
  <2>2. CASE ~mixed
    <3>1. \A s \in Savers : s # r => save[s].pc = "idle"
      BY <2>2 DEF RowsInv, AloneInv, Delivering!Saving
    <3>2. QED
      BY <1>1, <1>2, <1>3, <2>2, <3>1 DEF AloneInv, Delivering!Saving
  <2>3. QED
    BY <2>1, <2>2
<1>7. Delivering!SavedAsSent'
  <2>1. SUFFICES ASSUME ~mixed', Delivering!Saving' = {}, ended'.units # Delivering!Absent
                 PROVE  /\ op = "saved" => /\ Delivering!Cardinality(DOMAIN rows') = 1
                                           /\ \A j \in DOMAIN rows' : ended'.units = {rows'[j]}
                        /\ op = "column" => \E j \in DOMAIN rows' : ended'.units = {rows'[j]}
    BY <1>2 DEF Delivering!SavedAsSent
  <2>2. CASE op = "saved"
    <3>1. DOMAIN rows' = {i}
      BY <1>1, <1>2, <2>1, <2>2
    <3>2. QED
      BY <1>1, <1>2, <2>1, <2>2, <3>1, FS_Singleton, CountIs
  <2>3. CASE op = "column"
    BY <1>1, <1>2, <2>1, <2>3
  <2>4. QED
    BY <2>2, <2>3
<1>8. KeptInv'
  BY <1>1, <1>2, <1>3 DEF RowsInv, KeptInv
<1>9. QED
  BY <1>5, <1>6, <1>7, <1>8 DEF RowsInv

\* A request ends, and has saved nothing.
LEMMA NothingSaved ==
  ASSUME RowsInv, NEW r \in Savers, NEW op \in {"failed", "others", "saved"}, op = "saved" => mixed,
         Delivering!EndSave(r, op),
         failures' \in Nat, UNCHANGED <<rows, next, had>>
  PROVE  RowsInv'
<1>1. /\ save' \in [Savers -> Request] /\ save'[r] = Delivering!NotSaving
      /\ \A s \in Savers : s # r => save'[s] = save[s]
      /\ Delivering!Saving' = Delivering!Saving \ {r}
      /\ ended'.op = op
      /\ UNCHANGED <<mixed, taken>>
  BY SaveEnds DEF RowsInv
<1>2. /\ Delivering!NotSaving.pc = "idle" /\ Delivering!NotSaving.first = 0
      /\ Delivering!NotSaving.others = {} /\ Delivering!NotSaving.id = 0
  BY DEF Delivering!NotSaving
<1>3. NumbersInv'
  BY <1>1, <1>2 DEF RowsInv, NumbersInv
<1>4. AloneInv'
  BY <1>1, <1>2 DEF RowsInv, AloneInv
<1>5. KeptInv'
  BY <1>1, <1>2 DEF RowsInv, KeptInv
<1>6. Delivering!SavedAsSent'
  BY <1>1 DEF Delivering!SavedAsSent
<1>7. QED
  BY <1>3, <1>4, <1>5, <1>6 DEF RowsInv

LEMMA SaveSaveKeeps ==
  ASSUME RowsInv, NEW r \in Savers, Delivering!SaveSave(r)
  PROVE  RowsInv'
<1> DEFINE i == IF save[r].first = 0 THEN next ELSE save[r].first
           gone == i # next /\ i \notin DOMAIN rows
<1>1. /\ save[r].pc = "save" /\ UNCHANGED failures
      /\ \/ /\ ~gone
            /\ rows' = Delivering!StoredRow(i, save[r].units)
            /\ next' = IF i = next THEN next + 1 ELSE next
            /\ had' = TRUE /\ Delivering!EndSave(r, "saved")
         \/ /\ gone /\ \E op \in {"saved", "failed"} : Delivering!EndSave(r, op)
            /\ UNCHANGED <<rows, next, had>>
  BY DEF Delivering!SaveSave
<1>2. i \in 1 .. next /\ save[r].units \in Delivering!Sent /\ failures \in Nat
  BY DEF RowsInv, NumbersInv, Request
<1>3. ~mixed => DOMAIN rows \subseteq {i} /\ ~gone
  BY <1>1 DEF RowsInv, AloneInv, NumbersInv
<1> HIDE DEF i, gone
<1>4. CASE gone
  <2>1. PICK op \in {"saved", "failed"} : Delivering!EndSave(r, op)
    BY <1>1, <1>4
  <2>2. UNCHANGED <<rows, next, had, failures>>
    BY <1>1, <1>4
  <2>3. QED
    BY <1>2, <1>3, <1>4, <2>1, <2>2, NothingSaved
<1>5. CASE ~gone
  BY <1>1, <1>2, <1>3, <1>5, RowSaved
<1>6. QED
  BY <1>4, <1>5

LEMMA SaveFailsKeeps ==
  ASSUME RowsInv, NEW r \in Savers, Delivering!SaveFails(r)
  PROVE  RowsInv'
<1>1. /\ failures' = failures + 1 /\ Delivering!EndSave(r, "failed") /\ UNCHANGED <<rows, next, had>>
  BY DEF Delivering!SaveFails
<1>2. failures \in Nat
  BY DEF RowsInv, NumbersInv
<1>3. QED
  BY <1>1, <1>2, NothingSaved

LEMMA ColumnSaveKeeps ==
  ASSUME RowsInv, NEW r \in Savers, Delivering!ColumnSave(r)
  PROVE  RowsInv'
<1> DEFINE sent == save[r].sent
           units == IF sent THEN save[r].units ELSE Delivering!Absent
           op == IF sent THEN "column" ELSE "others"
<1>1. save[r].pc = "column" /\ Delivering!EndSave(r, op) /\ UNCHANGED failures
  BY DEF Delivering!ColumnSave
<1>2. /\ save[r] \in Request /\ save[r].units \in Delivering!Sent /\ sent \in BOOLEAN
      /\ failures \in Nat /\ next \in Nat \ {0}
  BY DEF RowsInv, NumbersInv, Request
<1>3. CASE Delivering!ColumnRow(r) = {}
  <2>1. ~sent
    BY <1>3 DEF Delivering!ColumnRow
  <2>2. UNCHANGED <<rows, next, had>>
    BY <1>3 DEF Delivering!ColumnSave
  <2>3. QED
    BY <1>1, <1>2, <2>1, <2>2, NothingSaved
<1>4. CASE Delivering!ColumnRow(r) # {}
  <2>1. PICK i \in Delivering!ColumnRow(r) :
          /\ rows' = Delivering!StoredRow(i, units)
          /\ next' = IF i = next THEN next + 1 ELSE next
          /\ had' = TRUE
    BY <1>4 DEF Delivering!ColumnSave
  <2>2. i \in 1 .. next
    BY <1>2, <2>1 DEF Delivering!ColumnRow, RowsInv, NumbersInv
  <2>3. units \in Delivering!Sent /\ op \in {"column", "others"} /\ (op = "column" => units = save[r].units)
    BY <1>2 DEF Delivering!Sent
  <2> HIDE DEF units, op
  <2>4. QED
    BY <1>1, <2>1, <2>2, <2>3, RowSaved
<1>5. QED
  BY <1>3, <1>4

\* For any requests, units, and number of requests and failures, a save that
\* nothing overlapped leaves what was sent, and no delivery that had a row is
\* left without one, unless a save deletes the row another is to keep.
THEOREM UnitsAreSaved == Spec => []UnitsSaved
<1>1. Init => RowsInv
  <2>1. SUFFICES ASSUME Delivering!RowsInit PROVE RowsInv
    BY PartsBegin
  <2>2. Delivering!NotSaving \in Request /\ Delivering!NotSaving.pc = "idle"
        /\ Delivering!NotSaving.others = {} /\ Delivering!NotSaving.first = 0
        /\ Delivering!NotSaving.id = 0
    BY DEF Delivering!NotSaving, Request, Delivering!Sent
  <2>3. DOMAIN rows \subseteq 1 .. next - 1 /\ next \in Nat \ {0} /\ (had => DOMAIN rows # {})
    <3>1. /\ next = Delivering!Cardinality(DOMAIN rows) + 1 /\ (had <=> rows # <<>>)
          /\ rows \in {<<>>, <<0>>, <<0, 0>>}
      BY <2>1 DEF Delivering!RowsInit
    <3>2. CASE rows = <<>>
      <4>1. DOMAIN rows = 1 .. 0
        BY <3>2
      <4>2. Delivering!Cardinality(DOMAIN rows) = 0
        BY <4>1, CountIs, FS_Interval
      <4>3. QED
        BY <3>1, <3>2, <4>1, <4>2
    <3>3. CASE rows = <<0>>
      <4>1. DOMAIN rows = 1 .. 1
        BY <3>3
      <4>2. Delivering!Cardinality(DOMAIN rows) = 1
        <5>1. \A n \in Nat : Cardinality(1 .. n) = n
          BY FS_Interval
        <5>2. Cardinality(DOMAIN rows) = 1
          BY <4>1, <5>1
        <5>3. QED
          BY <5>2, CountIs
      <4>3. QED
        BY <3>1, <3>3, <4>1, <4>2
    <3>4. CASE rows = <<0, 0>>
      <4>1. DOMAIN rows = 1 .. 2
        BY <3>4
      <4>2. Delivering!Cardinality(DOMAIN rows) = 2
        <5>1. \A n \in Nat : Cardinality(1 .. n) = n
          BY FS_Interval
        <5>2. Cardinality(DOMAIN rows) = 2
          BY <4>1, <5>1
        <5>3. QED
          BY <5>2, CountIs
      <4>3. QED
        BY <3>1, <3>4, <4>1, <4>2
    <3>5. QED
      BY <3>1, <3>2, <3>3, <3>4
  <2>4. \A i \in DOMAIN rows : rows[i] \in Units
    BY <2>1, PartsAssumption DEF Delivering!RowsInit, Delivering!UnitsAssumption
  <2>6. Delivering!Saving = {} /\ save = [r \in Savers |-> Delivering!NotSaving]
    BY <2>1, <2>2 DEF Delivering!RowsInit, Delivering!Saving
  <2>7. had \in BOOLEAN /\ mixed = FALSE /\ taken = FALSE /\ failures = 0 /\ ended.op = "none"
    BY <2>1 DEF Delivering!RowsInit
  <2>5. \A r \in Savers : save[r] = Delivering!NotSaving
    BY <2>6
  <2>8. NumbersInv
    <3>1. save \in [Savers -> Request]
      BY <2>2, <2>6
    <3>2. 0 \in 0 .. next - 1
      BY <2>3
    <3>3. \A r \in Savers : /\ save[r].others \subseteq 1 .. next - 1
                            /\ save[r].first \in 0 .. next - 1 /\ save[r].id \in 0 .. next - 1
      BY <2>2, <2>5, <3>2
    <3>4. QED
      BY <2>3, <2>4, <2>7, <3>1, <3>3 DEF NumbersInv
  <2>11. AloneInv
    BY <2>2, <2>3, <2>5, <2>6, <2>7 DEF AloneInv
  <2>9. Delivering!SavedAsSent
    BY <2>7 DEF Delivering!SavedAsSent
  <2>12. KeptInv
    BY <2>2, <2>3, <2>5, <2>7 DEF KeptInv
  <2>10. QED
    BY <2>8, <2>9, <2>11, <2>12 DEF RowsInv
<1>2. RowsInv /\ [Next]_allVars => RowsInv'
  <2>1. SUFFICES ASSUME RowsInv, Delivering!RowsNext \/ UNCHANGED deliveryVars
                 PROVE  RowsInv'
    BY DeliverySteps
  <2>2. CASE UNCHANGED deliveryVars
    BY <2>1, <2>2
       DEF deliveryVars, RowsInv, NumbersInv, AloneInv, KeptInv, Delivering!SavedAsSent, Delivering!Saving
  <2>3. QED
    BY <2>1, <2>2, SaveReadKeeps, SaveDeleteKeeps, SaveSaveKeeps, SaveFailsKeeps, ColumnReadKeeps,
       ColumnSaveKeeps DEF Delivering!RowsNext
<1>3. RowsInv => UnitsSaved
  <2>1. RowsInv => Delivering!DeliveryKept
    BY DEF RowsInv, KeptInv, Delivering!DeliveryKept
  <2>2. QED
    BY <2>1 DEF RowsInv, NumbersInv, UnitsSaved, Delivering!UnitsSaved, Delivering!RowsTypeOK
<1>4. QED
  BY <1>1, <1>2, <1>3, PTL DEF Spec, allVars

-----------------------------------------------------------------------------
\* ShippingDates.

DateTask == [shipping : Shippings \cup {"none"}, id : 0 .. MaxRows, pc : {"find", "write", "done"}]
DateCall == [pc : {"idle", "create", "update", "delete_rows", "remove", "child", "add_child", "drop_child"},
             origin : Origins, asks : SUBSET Shippings, date : Dating!Dates, tasks : SUBSET DateTask,
             failed : BOOLEAN, alone : BOOLEAN, whole : BOOLEAN]

HasRow(origin, shipping) == \E r \in dates : r.origin = origin /\ r.shipping = shipping
HasCN == \E r \in dates : r.origin = "CN"

\* The rows are those of the unique indexes, and no number is given twice.
TablesInv ==
  /\ dates \subseteq Dating!Row /\ ids \in 0 .. MaxRows /\ children \subseteq 1 .. ids
  /\ \A r \in dates : r.id <= ids
  /\ \A r, s \in dates : r.id = s.id \/ (r.origin = s.origin /\ r.shipping = s.shipping) => r = s
  /\ \A i, j \in children : i = j
  /\ call \in [Clients -> DateCall]
  /\ met \in BOOLEAN /\ trimmed \in BOOLEAN

\* What a request has done so far is there, unless another has undone it.
RequestInv(c) ==
  LET q == call[c] IN
  /\ \A t \in q.tasks : t.id <= ids
  /\ q.pc \in {"create", "update"} =>
       /\ \A t \in q.tasks : t.shipping \in Shippings
       /\ \A s \in q.asks : \E t \in q.tasks : t.shipping = s
  /\ q.pc = "create" /\ q.whole /\ ~q.failed =>
       \A t \in q.tasks : t.pc = "done" => HasRow(q.origin, t.shipping)
  /\ q.pc = "update" /\ q.alone /\ ~q.failed =>
       \A t \in q.tasks : t.pc = "done" =>
         \A r \in dates : r.origin = q.origin /\ r.shipping = t.shipping => r.date = q.date
  /\ q.pc = "delete_rows" /\ q.alone /\ ~q.failed =>
       \A r \in dates : r.origin = "CN" => \E t \in q.tasks : t.pc = "write" /\ t.id = r.id
  /\ q.pc = "remove" /\ q.alone => ~HasCN /\ \A i \in children : \E t \in q.tasks : t.id = i
  /\ ~met => (q.pc = "delete_rows" => ~q.failed) /\ (q.pc \in Dating!Jealous => q.alone)
  /\ ~trimmed /\ q.pc = "update" =>
       \A t \in q.tasks : t.pc = "write" =>
         \A r \in dates : r.id = t.id => r.origin = q.origin /\ r.shipping = t.shipping
  /\ ~met /\ ~trimmed /\ q.pc \in {"child", "add_child"} => HasCN

\* Two requests at work have met, and neither is alone.
MeetInv ==
  \A c, d \in Clients : c # d /\ call[c].pc # "idle" /\ call[d].pc # "idle" =>
    met /\ (call[c].pc \in Dating!Jealous => ~call[c].alone)

ChildInv ==
  ~met /\ ~trimmed /\ (\A c \in Clients : call[c].pc \notin {"delete_rows", "remove"})
    /\ children # {} => HasCN

DatesInv ==
  TablesInv /\ (\A c \in Clients : RequestInv(c)) /\ MeetInv /\ ChildInv /\ Dating!DatesAsAsked

LEMMA RestingIsCall == Dating!Resting \in DateCall
<1>1. /\ "CN" \in Origins /\ "early" \in Dating!Dates
      /\ {} \in SUBSET DateTask /\ {} \in SUBSET Shippings
  BY PartsAssumption DEF Dating!DatesAssumption, Dating!Dates
<1>2. QED
  BY <1>1 DEF DateCall, Dating!Resting

\* A request beside the one that takes a step does not move, though what it
\* counted on may be gone.
Beside(d) ==
  /\ call'[d].pc = call[d].pc /\ call'[d].origin = call[d].origin /\ call'[d].asks = call[d].asks
  /\ call'[d].date = call[d].date /\ call'[d].tasks = call[d].tasks /\ call'[d].failed = call[d].failed
  /\ call'[d].alone => call[d].alone
  /\ call'[d].whole => call[d].whole

\* Rows are where they were, as far as a request counts on them.
RowsStay == \A o, s : HasRow(o, s) => HasRow(o, s)'
PlacesStay ==
  ~trimmed' => ~trimmed /\ \A r \in dates' : r.id <= ids =>
                             \E s \in dates : s.id = r.id /\ s.origin = r.origin /\ s.shipping = r.shipping

LEMMA BesideKept ==
  ASSUME DatesInv, NEW d \in Clients, Beside(d),
         call'[d].pc # "idle" => met' /\ (call'[d].pc \in Dating!Jealous => ~call'[d].alone),
         ids' \in Nat, ids <= ids',
         call'[d].pc = "create" /\ call'[d].whole => RowsStay,
         PlacesStay
  PROVE  RequestInv(d)'
<1>1. /\ call[d] \in DateCall /\ RequestInv(d) /\ ids \in 0 .. MaxRows /\ MaxRows \in Nat
  BY PartsAssumption DEF DatesInv, TablesInv, Dating!DatesAssumption
<1>2. \A t \in call[d].tasks : t.id \in Nat
  BY <1>1 DEF DateCall, DateTask
<1>3. "delete_rows" \in Dating!Jealous /\ "remove" \in Dating!Jealous /\ "update" \in Dating!Jealous
      /\ "idle" \notin Dating!Jealous
  BY DEF Dating!Jealous
<1>4. \A t \in call'[d].tasks : t.id <= ids'
  <2>1. SUFFICES ASSUME NEW t \in call[d].tasks PROVE t.id <= ids'
    BY DEF Beside
  <2>2. t.id <= ids
    BY <1>1 DEF RequestInv
  <2>3. QED
    BY <1>1, <1>2, <2>2
<1>5. call'[d].pc \in {"create", "update"} =>
       /\ \A t \in call'[d].tasks : t.shipping \in Shippings
       /\ \A s \in call'[d].asks : \E t \in call'[d].tasks : t.shipping = s
  BY <1>1 DEF Beside, RequestInv
<1>6. call'[d].pc = "create" /\ call'[d].whole /\ ~call'[d].failed =>
        \A t \in call'[d].tasks : t.pc = "done" =>
          \E r \in dates' : r.origin = call'[d].origin /\ r.shipping = t.shipping
  <2>1. SUFFICES ASSUME call[d].pc = "create", call'[d].whole, ~call[d].failed,
                        NEW t \in call[d].tasks, t.pc = "done"
                 PROVE  \E r \in dates' : r.origin = call[d].origin /\ r.shipping = t.shipping
    BY DEF Beside
  <2>2. HasRow(call[d].origin, t.shipping)
    BY <1>1, <2>1 DEF Beside, RequestInv
  <2>3. QED
    BY <2>1, <2>2 DEF Beside, RowsStay, HasRow
<1>7. ~trimmed' /\ call'[d].pc = "update" =>
       \A t \in call'[d].tasks : t.pc = "write" =>
         \A r \in dates' : r.id = t.id => r.origin = call'[d].origin /\ r.shipping = t.shipping
  <2>1. SUFFICES ASSUME ~trimmed', call[d].pc = "update", NEW t \in call[d].tasks, t.pc = "write",
                        NEW r \in dates', r.id = t.id
                 PROVE  r.origin = call[d].origin /\ r.shipping = t.shipping
    BY DEF Beside
  <2>2. r.id <= ids
    BY <1>1, <2>1 DEF RequestInv
  <2>3. PICK s \in dates : s.id = r.id /\ s.origin = r.origin /\ s.shipping = r.shipping
    BY <2>1, <2>2 DEF PlacesStay
  <2>4. QED
    BY <1>1, <2>1, <2>3 DEF RequestInv, PlacesStay
<1>9. /\ call'[d].pc \in Dating!Jealous => ~call'[d].alone
      /\ call'[d].pc # "idle" => met'
  BY <1>3
<1>8. QED
  BY <1>3, <1>4, <1>5, <1>6, <1>7, <1>9 DEF RequestInv, HasRow

\* A step of a request at work.
LEMMA StepKeeps ==
  ASSUME DatesInv, NEW c \in Clients, call[c].pc # "idle", TablesInv',
         \A d \in Clients : d # c => Beside(d) /\ (call'[d].alone <=> call[d].alone),
         call'[c].pc \in Dating!Jealous =>
           call[c].pc \in Dating!Jealous /\ (call'[c].alone => call[c].alone),
         met => met', ids <= ids', PlacesStay,
         \A d \in Clients : d # c /\ call'[d].pc = "create" /\ call'[d].whole => RowsStay,
         RequestInv(c)', ChildInv', Dating!DatesAsAsked'
  PROVE  DatesInv'
<1>1. ids' \in Nat
  BY PartsAssumption DEF TablesInv, Dating!DatesAssumption
<1>2. \A d \in Clients : RequestInv(d)'
  <2>1. SUFFICES ASSUME NEW d \in Clients, d # c PROVE RequestInv(d)'
    OBVIOUS
  <2>2. Beside(d) /\ (call'[d].alone <=> call[d].alone)
    BY <2>1
  <2>3. call'[d].pc # "idle" => met' /\ (call'[d].pc \in Dating!Jealous => ~call'[d].alone)
    BY <2>1, <2>2 DEF Beside, DatesInv, MeetInv
  <2>4. call'[d].pc = "create" /\ call'[d].whole => RowsStay
    BY <2>1
  <2>5. QED
    BY <1>1, <2>2, <2>3, <2>4, BesideKept
<1>3. MeetInv'
  <2>1. SUFFICES ASSUME NEW d \in Clients, NEW e \in Clients, d # e,
                        call'[d].pc # "idle", call'[e].pc # "idle"
                 PROVE  met' /\ (call'[d].pc \in Dating!Jealous => ~call'[d].alone)
    BY DEF MeetInv
  <2>2. call[d].pc # "idle" /\ call[e].pc # "idle"
    BY <2>1 DEF Beside
  <2>3. met /\ (call[d].pc \in Dating!Jealous => ~call[d].alone)
    BY <2>1, <2>2 DEF DatesInv, MeetInv
  <2>4. QED
    BY <2>1, <2>3 DEF Beside
<1>4. QED
  BY <1>2, <1>3 DEF DatesInv

\* How the other requests are left by a step.
LEMMA GoesBeside ==
  ASSUME TablesInv, NEW c \in Clients, NEW to \in DateCall, call' = [call EXCEPT ![c] = to]
  PROVE  /\ call' \in [Clients -> DateCall] /\ call'[c] = to
         /\ \A d \in Clients : d # c => Beside(d) /\ (call'[d].alone <=> call[d].alone)
  BY DEF TablesInv, Beside

LEMMA LosesBeside ==
  ASSUME TablesInv, NEW c \in Clients, NEW to \in DateCall, NEW end, Dating!Loses(c, to, end)
  PROVE  /\ call' \in [Clients -> DateCall] /\ call'[c] = to
         /\ \A d \in Clients : d # c => Beside(d) /\ (call'[d].alone <=> call[d].alone)
                                        /\ (call'[d].pc = "create" => ~call'[d].whole)
<1> DEFINE b == [d \in Clients |-> call[d].whole /\ call[d].pc # "create"]
<1>1. b \in [Clients -> BOOLEAN] /\ \A d \in Clients : b[d] <=> call[d].whole /\ call[d].pc # "create"
  OBVIOUS
<1>2. call' = [d \in Clients |-> IF d = c THEN to ELSE [call[d] EXCEPT !.whole = b[d]]]
  BY DEF Dating!Loses
<1>3. \A d \in Clients : call[d] \in DateCall
  BY DEF TablesInv
<1> HIDE DEF b
<1>4. \A d \in Clients : b[d] \in BOOLEAN
  BY <1>1
<1>5. \A d \in Clients : d # c => call'[d] = [call[d] EXCEPT !.whole = b[d]]
  BY <1>2
<1>6. \A d \in Clients : [call[d] EXCEPT !.whole = b[d]] \in DateCall
  BY <1>3, <1>4 DEF DateCall
<1>7. \A d \in Clients : d # c =>
        /\ call'[d].pc = call[d].pc /\ call'[d].origin = call[d].origin /\ call'[d].asks = call[d].asks
        /\ call'[d].date = call[d].date /\ call'[d].tasks = call[d].tasks /\ call'[d].failed = call[d].failed
        /\ call'[d].alone = call[d].alone /\ call'[d].whole = b[d]
  <2>1. SUFFICES ASSUME NEW d \in Clients, d # c
                 PROVE  /\ call'[d].pc = call[d].pc /\ call'[d].origin = call[d].origin
                        /\ call'[d].asks = call[d].asks /\ call'[d].date = call[d].date
                        /\ call'[d].tasks = call[d].tasks /\ call'[d].failed = call[d].failed
                        /\ call'[d].alone = call[d].alone /\ call'[d].whole = b[d]
    OBVIOUS
  <2> DEFINE q == call[d]
  <2>2. q \in DateCall /\ call'[d] = [q EXCEPT !.whole = b[d]] /\ b[d] \in BOOLEAN
    BY <1>3, <1>4, <1>5, <2>1
  <2> HIDE DEF q
  <2>3. /\ call'[d].pc = q.pc /\ call'[d].origin = q.origin
        /\ call'[d].asks = q.asks /\ call'[d].date = q.date
        /\ call'[d].tasks = q.tasks /\ call'[d].failed = q.failed
        /\ call'[d].alone = q.alone /\ call'[d].whole = b[d]
    BY <2>2 DEF DateCall
  <2>4. QED
    BY <2>3 DEF q
<1>8. call' \in [Clients -> DateCall] /\ call'[c] = to
  BY <1>2, <1>6
<1>9. QED
  BY <1>1, <1>7, <1>8 DEF Beside

\* A task is done.
LEMMA TaskIs ==
  ASSUME TablesInv, NEW c \in Clients, NEW t \in call[c].tasks, NEW failed \in BOOLEAN
  PROVE  LET to == Dating!Task(c, t, failed)
             done == [t EXCEPT !.pc = "done", !.id = 0]
         IN /\ to \in DateCall /\ to.pc = call[c].pc /\ to.origin = call[c].origin
            /\ to.asks = call[c].asks /\ to.date = call[c].date
            /\ to.alone = call[c].alone /\ to.whole = call[c].whole
            /\ to.tasks = (call[c].tasks \ {t}) \cup {done}
            /\ (to.failed <=> call[c].failed \/ failed)
            /\ done \in DateTask /\ done.pc = "done" /\ done.id = 0 /\ done.shipping = t.shipping
<1> DEFINE b == [x \in {1} |-> call[c].failed \/ failed]
           done == [t EXCEPT !.pc = "done", !.id = 0]
           tasks == (call[c].tasks \ {t}) \cup {done}
<1>1. b \in [{1} -> BOOLEAN] /\ (b[1] <=> call[c].failed \/ failed)
  OBVIOUS
<1>2. Dating!Task(c, t, failed) = [call[c] EXCEPT !.tasks = tasks, !.failed = b[1]]
  BY DEF Dating!Task
<1>3. call[c] \in DateCall /\ t \in DateTask /\ 0 \in 0 .. MaxRows
  BY PartsAssumption DEF TablesInv, DateCall, Dating!DatesAssumption
<1>4. done \in DateTask /\ done.pc = "done" /\ done.id = 0 /\ done.shipping = t.shipping
  BY <1>3 DEF DateTask
<1>5. tasks \in SUBSET DateTask
  BY <1>3, <1>4 DEF DateCall
<1> HIDE DEF b, tasks, done
<1>6. b[1] \in BOOLEAN
  BY <1>1
<1> DEFINE to == [call[c] EXCEPT !.tasks = tasks, !.failed = b[1]]
<1>7. /\ to \in DateCall /\ to.pc = call[c].pc /\ to.origin = call[c].origin
      /\ to.asks = call[c].asks /\ to.date = call[c].date
      /\ to.alone = call[c].alone /\ to.whole = call[c].whole
      /\ to.tasks = tasks /\ to.failed = b[1]
  BY <1>3, <1>5, <1>6 DEF DateCall
<1> HIDE DEF to
<1>8. QED
  BY <1>1, <1>2, <1>4, <1>7 DEF to, tasks, done

LEMMA Unanswered ==
  ASSUME answer' = Dating!NoAnswer
  PROVE  Dating!DatesAsAsked'
  BY DEF Dating!DatesAsAsked, Dating!NoAnswer

LEMMA RestingRequest ==
  ASSUME NEW c \in Clients, call'[c] = Dating!Resting
  PROVE  RequestInv(c)'
  BY DEF RequestInv, Dating!Resting, Dating!Jealous

\* While nothing has met, a request at work is the only one.
LEMMA ChildWas ==
  ASSUME DatesInv, NEW c \in Clients, call[c].pc \notin {"idle", "delete_rows", "remove"},
         ~met, ~trimmed, children # {}
  PROVE  HasCN
<1>1. \A d \in Clients : d # c => call[d].pc = "idle"
  BY DEF DatesInv, MeetInv
<1>2. QED
  BY <1>1 DEF DatesInv, ChildInv

LEMMA QuietStep ==
  ASSUME DatesInv, NEW c \in Clients, call[c].pc # "idle", NEW to \in DateCall,
         call' = [call EXCEPT ![c] = to], UNCHANGED <<dates, children, ids, trimmed>>,
         met' \in BOOLEAN, met => met',
         to.pc \in Dating!Jealous => call[c].pc \in Dating!Jealous /\ (to.alone => call[c].alone),
         ~met' /\ ~trimmed /\ to.pc \notin {"delete_rows", "remove"} /\ children # {} => HasCN,
         RequestInv(c)', Dating!DatesAsAsked'
  PROVE  DatesInv'
<1>1. /\ call' \in [Clients -> DateCall] /\ call'[c] = to
      /\ \A d \in Clients : d # c => Beside(d) /\ (call'[d].alone <=> call[d].alone)
  BY GoesBeside DEF DatesInv
<1>2. TablesInv'
  BY <1>1 DEF DatesInv, TablesInv
<1>3. PlacesStay /\ RowsStay
  BY DEF PlacesStay, RowsStay, HasRow
<1>4. ids <= ids'
  BY PartsAssumption DEF DatesInv, TablesInv, Dating!DatesAssumption
<1>5. ChildInv'
  BY <1>1 DEF ChildInv, HasCN
<1>6. QED
  BY <1>1, <1>2, <1>3, <1>4, <1>5, StepKeeps

LEMMA TaskFindKeeps ==
  ASSUME DatesInv, NEW c \in Clients, Dating!TaskFind(c)
  PROVE  DatesInv'
<1>1. PICK t \in {u \in call[c].tasks : u.pc = "find"} :
        LET found == Dating!At(call[c].origin, t.shipping)
            writes == (found = {}) <=> (call[c].pc = "create")
            now == [t EXCEPT !.pc = IF writes THEN "write" ELSE "done",
                      !.id = IF writes /\ found # {} THEN (CHOOSE r \in found : TRUE).id ELSE 0]
        IN Dating!Goes(c, [call[c] EXCEPT !.tasks = (@ \ {t}) \cup {now}])
  BY DEF Dating!TaskFind
<1> DEFINE found == Dating!At(call[c].origin, t.shipping)
           writes == (found = {}) <=> (call[c].pc = "create")
           pc == IF writes THEN "write" ELSE "done"
           id == IF writes /\ found # {} THEN (CHOOSE r \in found : TRUE).id ELSE 0
           now == [t EXCEPT !.pc = pc, !.id = id]
           tasks == (call[c].tasks \ {t}) \cup {now}
           to == [call[c] EXCEPT !.tasks = tasks]
<1>2. /\ call[c].pc \in {"create", "update"} /\ UNCHANGED <<dates, children, ids, met, trimmed>>
      /\ call[c] \in DateCall /\ t \in DateTask /\ ids \in 0 .. MaxRows /\ MaxRows \in Nat
      /\ dates \subseteq Dating!Row /\ RequestInv(c) /\ met \in BOOLEAN
  BY PartsAssumption DEF Dating!TaskFind, DatesInv, TablesInv, DateCall, Dating!DatesAssumption
<1>3. call' = [call EXCEPT ![c] = to] /\ answer' = Dating!NoAnswer
  BY <1>1 DEF Dating!Goes
<1>4. found = {r \in dates : r.origin = call[c].origin /\ r.shipping = t.shipping}
  BY DEF Dating!At
<1>5. /\ id \in 0 .. ids /\ pc \in {"write", "done"}
      /\ id # 0 => \E r \in found : r.id = id
      /\ pc = "done" => IF call[c].pc = "create" THEN found # {} ELSE found = {}
  <2>1. \A r \in found : r.id \in 1 .. MaxRows /\ r.id <= ids
    BY <1>2, <1>4 DEF Dating!Row, DatesInv, TablesInv
  <2> HIDE DEF found
  <2>2. found # {} => (CHOOSE r \in found : TRUE) \in found
    OBVIOUS
  <2>3. CASE writes
    <3>1. pc = "write"
      BY <2>3
    <3>2. CASE found = {}
      <4>1. id = 0
        BY <3>2
      <4>2. QED
        BY <1>2, <3>1, <4>1
    <3>3. CASE found # {}
      <4>1. id = (CHOOSE r \in found : TRUE).id
        BY <2>3, <3>3
      <4>2. \E r \in found : r.id = id
        BY <2>2, <3>3, <4>1
      <4>3. QED
        <5>1. PICK r \in found : r.id = id
          BY <4>2
        <5>2. id \in 0 .. ids
          BY <1>2, <2>1, <5>1
        <5>3. QED
          BY <3>1, <4>2, <5>2
    <3>4. QED
      BY <3>2, <3>3
  <2>4. CASE ~writes
    <3>1. pc = "done" /\ id = 0
      BY <2>4
    <3>2. IF call[c].pc = "create" THEN found # {} ELSE found = {}
      BY <2>4
    <3>3. QED
      BY <1>2, <3>1, <3>2
  <2>5. QED
    BY <2>3, <2>4
<1> HIDE DEF found, pc, id
<1>6. /\ now \in DateTask /\ now.pc = pc /\ now.id = id /\ now.shipping = t.shipping
  <2>1. t \in DateTask /\ id \in 0 .. MaxRows /\ pc \in {"write", "done"}
    BY <1>2, <1>5
  <2>2. QED
    BY <2>1 DEF DateTask
<1> HIDE DEF now
<1>7. tasks \in SUBSET DateTask
  BY <1>2, <1>6 DEF DateCall
<1> HIDE DEF tasks
<1>8. /\ to \in DateCall /\ to.pc = call[c].pc /\ to.origin = call[c].origin
      /\ to.asks = call[c].asks /\ to.date = call[c].date /\ to.failed = call[c].failed
      /\ to.alone = call[c].alone /\ to.whole = call[c].whole /\ to.tasks = tasks
  BY <1>2, <1>7 DEF DateCall
<1> HIDE DEF to
<1>9. call'[c] = to
  BY <1>3, <1>8 DEF DatesInv, TablesInv
<1>10. \A u \in tasks : u = now \/ u \in call[c].tasks
  BY DEF tasks
<1>11. RequestInv(c)'
  <2>1. \A u \in tasks : u.id <= ids
    BY <1>2, <1>5, <1>6, <1>10 DEF RequestInv
  <2>2. /\ \A u \in tasks : u.shipping \in Shippings
        /\ \A s \in call[c].asks : \E u \in tasks : u.shipping = s
    <3>1. now \in tasks /\ \A u \in call[c].tasks : u # t => u \in tasks
      BY DEF tasks
    <3>2. QED
      BY <1>2, <1>6, <1>10, <3>1 DEF RequestInv
  <2>3. call[c].pc = "create" /\ call[c].whole /\ ~call[c].failed =>
          \A u \in tasks : u.pc = "done" => HasRow(call[c].origin, u.shipping)
    BY <1>2, <1>4, <1>5, <1>6, <1>10 DEF RequestInv, HasRow
  <2>4. call[c].pc = "update" /\ call[c].alone /\ ~call[c].failed =>
          \A u \in tasks : u.pc = "done" =>
            \A r \in dates : r.origin = call[c].origin /\ r.shipping = u.shipping => r.date = call[c].date
    BY <1>2, <1>4, <1>5, <1>6, <1>10 DEF RequestInv
  <2>5. ~trimmed /\ call[c].pc = "update" =>
          \A u \in tasks : u.pc = "write" =>
            \A r \in dates : r.id = u.id => r.origin = call[c].origin /\ r.shipping = u.shipping
    <3>1. \A r \in dates : r.id # 0
      BY <1>2 DEF Dating!Row
    <3>2. \A r, s \in dates : r.id = s.id => r = s
      BY DEF DatesInv, TablesInv
    <3>3. \A r \in dates : r.id = id => r.origin = call[c].origin /\ r.shipping = t.shipping
      BY <1>4, <1>5, <3>1, <3>2
    <3>4. QED
      BY <1>2, <1>6, <1>10, <3>3 DEF RequestInv
  <2>6. ~met => (call[c].pc \in Dating!Jealous => call[c].alone)
    BY <1>2 DEF RequestInv
  <2>7. QED
    BY <1>2, <1>8, <1>9, <2>1, <2>2, <2>3, <2>4, <2>5, <2>6 DEF RequestInv, HasRow
<1>12. ~met' /\ ~trimmed /\ children # {} => HasCN
  BY <1>2, ChildWas
<1>13. QED
  BY <1>2, <1>3, <1>8, <1>9, <1>11, <1>12, QuietStep, Unanswered

\* A task that is done, of a creation or an update.
LEMMA TaskCreates ==
  ASSUME DatesInv, NEW c \in Clients, NEW t \in call[c].tasks, t.pc = "write",
         call[c].pc = "create", ids < MaxRows,
         dates' = dates \cup Dating!Created(c, t),
         ids' = IF Dating!Created(c, t) = {} THEN ids ELSE ids + 1,
         Dating!Goes(c, Dating!Task(c, t, Dating!Created(c, t) = {})),
         met' = (met \/ Dating!Created(c, t) = {}), UNCHANGED <<children, trimmed>>
  PROVE  DatesInv'
<1> DEFINE new == [id |-> ids + 1, origin |-> call[c].origin, shipping |-> t.shipping, date |-> call[c].date]
           place == Dating!At(call[c].origin, t.shipping)
           done == [t EXCEPT !.pc = "done", !.id = 0]
           failed == Dating!Created(c, t) = {}
           to == Dating!Task(c, t, failed)
<1>1. /\ TablesInv /\ RequestInv(c) /\ call[c] \in DateCall /\ t \in DateTask
      /\ ids \in 0 .. MaxRows /\ MaxRows \in Nat /\ met \in BOOLEAN /\ dates \subseteq Dating!Row
  BY PartsAssumption DEF DatesInv, TablesInv, DateCall, Dating!DatesAssumption
<1>2. Dating!Created(c, t) = IF place # {} THEN {} ELSE {new}
  BY DEF Dating!Created
<1>3. place = {r \in dates : r.origin = call[c].origin /\ r.shipping = t.shipping}
  BY DEF Dating!At
<1>4. failed \in BOOLEAN /\ (failed <=> place # {})
  BY <1>2
<1> HIDE DEF failed
<1>5. /\ to \in DateCall /\ to.pc = call[c].pc /\ to.origin = call[c].origin
      /\ to.asks = call[c].asks /\ to.date = call[c].date
      /\ to.alone = call[c].alone /\ to.whole = call[c].whole
      /\ to.tasks = (call[c].tasks \ {t}) \cup {done}
      /\ (to.failed <=> call[c].failed \/ failed)
      /\ done \in DateTask /\ done.pc = "done" /\ done.id = 0 /\ done.shipping = t.shipping
  BY <1>1, <1>4, TaskIs
<1>6. call' = [call EXCEPT ![c] = to] /\ answer' = Dating!NoAnswer
  BY DEF Dating!Goes, failed
<1> HIDE DEF done, to
<1>7. /\ call' \in [Clients -> DateCall] /\ call'[c] = to
      /\ \A d \in Clients : d # c => Beside(d) /\ (call'[d].alone <=> call[d].alone)
  BY <1>1, <1>5, <1>6, GoesBeside
<1>8. dates \subseteq dates' /\ RowsStay /\ (HasCN => HasCN')
  BY DEF RowsStay, HasRow, HasCN
<1>9. ~failed => dates' = dates \cup {new} /\ ids' = ids + 1 /\ \E r \in dates' : r.origin = call[c].origin /\ r.shipping = t.shipping
  <2>1. SUFFICES ASSUME ~failed PROVE dates' = dates \cup {new} /\ ids' = ids + 1 /\ \E r \in dates' : r.origin = call[c].origin /\ r.shipping = t.shipping
    OBVIOUS
  <2>2. dates' = dates \cup {new} /\ ids' = ids + 1
    BY <1>2, <1>4, <2>1
  <2>3. new \in dates' /\ new.origin = call[c].origin /\ new.shipping = t.shipping
    BY <2>2
  <2>4. QED
    BY <2>2, <2>3
<1>10. failed => dates' = dates /\ ids' = ids
  BY <1>2, <1>4
<1>11. TablesInv'
  <2>1. CASE failed
    BY <1>1, <1>7, <1>10, <2>1 DEF TablesInv
  <2>2. CASE ~failed
    <3>1. new \in Dating!Row /\ new.id = ids + 1 /\ new.origin = call[c].origin /\ new.shipping = t.shipping
      BY <1>1 DEF RequestInv, Dating!Row, DateCall
    <3> HIDE DEF new
    <3>2. \A r \in dates : r.id \in 1 .. MaxRows /\ r.id <= ids /\ r.id # new.id /\ r.id <= ids + 1
      BY <1>1, <3>1 DEF TablesInv, Dating!Row
    <3>3. \A r \in dates : ~(r.origin = new.origin /\ r.shipping = new.shipping)
      BY <1>3, <1>4, <2>2, <3>1
    <3>4. ids' \in 0 .. MaxRows /\ children' \subseteq 1 .. ids'
      BY <1>1, <1>9, <2>2 DEF TablesInv
    <3>5. \A r \in dates' : r.id <= ids'
      BY <1>1, <1>9, <2>2, <3>1, <3>2
    <3>6. \A r, s \in dates' : r.id = s.id \/ (r.origin = s.origin /\ r.shipping = s.shipping) => r = s
      BY <1>1, <1>9, <2>2, <3>1, <3>2, <3>3 DEF TablesInv
    <3>7. dates' \subseteq Dating!Row
      BY <1>1, <1>9, <2>2, <3>1
    <3>8. QED
      BY <1>1, <1>7, <3>4, <3>5, <3>6, <3>7 DEF TablesInv
  <2>3. QED
    BY <2>1, <2>2
<1>12. PlacesStay
  <2>1. \A r \in dates' : r.id <= ids => r \in dates
    <3>1. new.id = ids + 1
      OBVIOUS
    <3> HIDE DEF new
    <3>2. QED
      BY <1>1, <1>4, <1>9, <1>10, <3>1
  <2>2. QED
    BY <2>1 DEF PlacesStay
<1>13. ids <= ids'
  BY <1>1, <1>9, <1>10
<1>14. RequestInv(c)'
  <2>1. \A u \in to.tasks : u = done \/ u \in call[c].tasks
    BY <1>5
  <2>2. done \in to.tasks /\ \A u \in call[c].tasks : u # t => u \in to.tasks
    BY <1>5
  <2>3. \A u \in to.tasks : u.id <= ids'
    <3>1. \A u \in call[c].tasks : u.id <= ids /\ u.id \in Nat
      BY <1>1 DEF RequestInv, DateCall, DateTask
    <3>2. ids' \in Nat
      BY <1>1, <1>9, <1>10
    <3>3. QED
      BY <1>1, <1>5, <1>13, <2>1, <3>1, <3>2
  <2>4. /\ \A u \in to.tasks : u.shipping \in Shippings
        /\ \A s \in to.asks : \E u \in to.tasks : u.shipping = s
    BY <1>1, <1>5, <2>1, <2>2 DEF RequestInv
  <2>5. to.whole /\ ~to.failed =>
          \A u \in to.tasks : u.pc = "done" => \E r \in dates' : r.origin = to.origin /\ r.shipping = u.shipping
    <3>1. SUFFICES ASSUME call[c].whole, ~call[c].failed, ~failed, NEW u \in to.tasks, u.pc = "done"
                   PROVE  \E r \in dates' : r.origin = call[c].origin /\ r.shipping = u.shipping
      BY <1>5
    <3>2. CASE u = done
      BY <1>5, <1>9, <3>1, <3>2 DEF HasRow
    <3>3. CASE u \in call[c].tasks
      BY <1>1, <1>8, <3>1, <3>3 DEF RequestInv, HasRow
    <3>4. QED
      BY <2>1, <3>2, <3>3
  <2>6. "create" \notin Dating!Jealous
    BY DEF Dating!Jealous
  <2>7. QED
    BY <1>5, <1>7, <2>3, <2>4, <2>5, <2>6 DEF RequestInv, HasRow
<1>15. ChildInv'
  BY <1>8, ChildWas DEF ChildInv
<1>16. QED
  BY <1>5, <1>7, <1>8, <1>11, <1>12, <1>13, <1>14, <1>15, StepKeeps, Unanswered, <1>6 DEF Dating!Jealous

\* What an update leaves of the rows.
LEMMA UpdatedIs ==
  ASSUME DatesInv, NEW c \in Clients, NEW t \in call[c].tasks, call[c].pc = "update",
         ~Dating!Taken(c, t)
  PROVE  LET new(r) == [id |-> r.id, origin |-> call[c].origin, shipping |-> t.shipping, date |-> call[c].date]
             after == Dating!Updated(c, t)
         IN /\ \A r \in dates : r.id # t.id => r \in after
            /\ \A r \in dates : r.id = t.id => new(r) \in after
            /\ \A s \in after : (s \in dates /\ s.id # t.id) \/ \E r \in dates : r.id = t.id /\ s = new(r)
            /\ \A r \in dates : r.origin = call[c].origin /\ r.shipping = t.shipping => r.id = t.id
  BY DEF Dating!Updated, Dating!Taken, Dating!At

LEMMA TaskUpdates ==
  ASSUME DatesInv, NEW c \in Clients, NEW t \in call[c].tasks, t.pc = "write",
         call[c].pc = "update", dates' = Dating!Updated(c, t),
         IF Dating!Moves(c, t) THEN Dating!Loses(c, Dating!Task(c, t, Dating!Taken(c, t)), Dating!NoAnswer)
         ELSE Dating!Goes(c, Dating!Task(c, t, Dating!Taken(c, t))),
         UNCHANGED <<ids, met, children, trimmed>>
  PROVE  DatesInv'
<1> DEFINE done == [t EXCEPT !.pc = "done", !.id = 0]
           failed == Dating!Taken(c, t)
           to == Dating!Task(c, t, failed)
           moves == Dating!Moves(c, t)
<1>1. /\ TablesInv /\ RequestInv(c) /\ call[c] \in DateCall /\ t \in DateTask
      /\ ids \in 0 .. MaxRows /\ MaxRows \in Nat /\ met \in BOOLEAN /\ dates \subseteq Dating!Row
  BY PartsAssumption DEF DatesInv, TablesInv, DateCall, Dating!DatesAssumption
<1>2. failed \in BOOLEAN
  BY DEF Dating!Taken
<1>3. /\ IF moves THEN Dating!Loses(c, to, Dating!NoAnswer) ELSE call' = [call EXCEPT ![c] = to]
      /\ answer' = Dating!NoAnswer
  BY DEF Dating!Goes, Dating!Loses
<1> HIDE DEF failed
<1>4. /\ to \in DateCall /\ to.pc = call[c].pc /\ to.origin = call[c].origin
      /\ to.asks = call[c].asks /\ to.date = call[c].date
      /\ to.alone = call[c].alone /\ to.whole = call[c].whole
      /\ to.tasks = (call[c].tasks \ {t}) \cup {done}
      /\ (to.failed <=> call[c].failed \/ failed)
      /\ done \in DateTask /\ done.pc = "done" /\ done.id = 0 /\ done.shipping = t.shipping
  BY <1>1, <1>2, TaskIs
<1> HIDE DEF done, to, moves
<1>5. /\ call' \in [Clients -> DateCall] /\ call'[c] = to
      /\ \A d \in Clients : d # c => /\ Beside(d) /\ (call'[d].alone <=> call[d].alone)
                                     /\ moves /\ call'[d].pc = "create" => ~call'[d].whole
  <2>1. CASE moves
    BY <1>1, <1>3, <1>4, <2>1, LosesBeside
  <2>2. CASE ~moves
    BY <1>1, <1>3, <1>4, <2>2, GoesBeside
  <2>3. QED
    BY <2>1, <2>2
<1>6. \A u \in to.tasks : u = done \/ u \in call[c].tasks
  BY <1>4
<1>7. done \in to.tasks /\ \A u \in call[c].tasks : u # t => u \in to.tasks
  BY <1>4
<1>8. /\ \A u \in to.tasks : u.id <= ids
      /\ \A u \in to.tasks : u.shipping \in Shippings
      /\ \A s \in to.asks : \E u \in to.tasks : u.shipping = s
  BY <1>1, <1>4, <1>6, <1>7 DEF RequestInv
<1>9. ~met => (to.pc \in Dating!Jealous => to.alone)
  BY <1>1, <1>4 DEF RequestInv
<1>10. CASE failed
  <2>1. dates' = dates /\ ~moves
    BY <1>10 DEF failed, Dating!Updated, moves, Dating!Moves
  <2>2. to.failed
    BY <1>4, <1>10
  <2>3. ~trimmed => \A u \in to.tasks : u.pc = "write" =>
          \A r \in dates : r.id = u.id => r.origin = to.origin /\ r.shipping = u.shipping
    BY <1>1, <1>4, <1>6 DEF RequestInv
  <2>4. RequestInv(c)'
    BY <1>4, <1>5, <1>8, <1>9, <2>1, <2>2, <2>3 DEF RequestInv, HasRow, HasCN
  <2>5. ~met' /\ ~trimmed /\ children # {} => HasCN
    BY ChildWas
  <2>6. QED
    BY <1>1, <1>3, <1>4, <2>1, <2>4, <2>5, QuietStep, Unanswered
<1>11. CASE ~failed
  <2> DEFINE new(r) == [id |-> r.id, origin |-> call[c].origin, shipping |-> t.shipping, date |-> call[c].date]
  <2>1. /\ \A r \in dates : r.id # t.id => r \in dates'
        /\ \A r \in dates : r.id = t.id => new(r) \in dates'
        /\ \A s \in dates' : (s \in dates /\ s.id # t.id) \/ \E r \in dates : r.id = t.id /\ s = new(r)
        /\ \A r \in dates : r.origin = call[c].origin /\ r.shipping = t.shipping => r.id = t.id
    BY <1>1, <1>11, UpdatedIs DEF failed
  <2>2. \A r : /\ new(r).id = r.id /\ new(r).origin = call[c].origin
               /\ new(r).shipping = t.shipping /\ new(r).date = call[c].date
    OBVIOUS
  <2>3. \A r \in dates : new(r) \in Dating!Row
    BY <1>1 DEF RequestInv, Dating!Row, DateCall
  <2> HIDE DEF new
  <2>4. ~moves => \A r \in dates : r.id = t.id => r.origin = call[c].origin /\ r.shipping = t.shipping
    BY <1>11 DEF moves, Dating!Moves, failed
  <2>5. ~trimmed => ~moves
    BY <1>1 DEF RequestInv, moves, Dating!Moves
  <2>6. ~moves => RowsStay /\ (HasCN => HasCN')
    <3>1. ~moves => \A r \in dates : \E s \in dates' : s.origin = r.origin /\ s.shipping = r.shipping
      BY <2>1, <2>2, <2>4
    <3>2. QED
      BY <3>1 DEF RowsStay, HasRow, HasCN
  <2>7. PlacesStay
    <3>1. ~trimmed => \A s \in dates' : \E r \in dates : r.id = s.id /\ r.origin = s.origin /\ r.shipping = s.shipping
      BY <2>1, <2>2, <2>4, <2>5
    <3>2. QED
      BY <3>1 DEF PlacesStay
  <2>8. TablesInv'
    <3>1. dates' \subseteq Dating!Row
      BY <1>1, <2>1, <2>3
    <3>2. \A r \in dates' : r.id <= ids
      BY <1>1, <2>1, <2>2 DEF TablesInv
    <3>3. \A r, s \in dates : r.id = s.id \/ (r.origin = s.origin /\ r.shipping = s.shipping) => r = s
      BY <1>1 DEF TablesInv
    <3>4. \A r, s \in dates' : r.id = s.id \/ (r.origin = s.origin /\ r.shipping = s.shipping) => r = s
      BY <2>1, <2>2, <3>3
    <3>5. QED
      BY <1>1, <1>5, <3>1, <3>2, <3>4 DEF TablesInv
  <2>9. to.alone /\ ~to.failed =>
          \A u \in to.tasks : u.pc = "done" =>
            \A r \in dates' : r.origin = to.origin /\ r.shipping = u.shipping => r.date = to.date
    <3>1. SUFFICES ASSUME call[c].alone, ~call[c].failed, NEW u \in to.tasks, u.pc = "done",
                          NEW r \in dates', r.origin = call[c].origin, r.shipping = u.shipping
                   PROVE  r.date = call[c].date
      BY <1>4
    <3>2. CASE \E q \in dates : r = new(q)
      BY <2>2, <3>2
    <3>3. CASE r \in dates /\ r.id # t.id
      <4>1. u # done
        BY <1>4, <2>1, <3>1, <3>3
      <4>2. QED
        BY <1>1, <1>6, <3>1, <3>3, <4>1 DEF RequestInv
    <3>4. QED
      BY <2>1, <3>2, <3>3
  <2>10. ~trimmed => \A u \in to.tasks : u.pc = "write" =>
           \A r \in dates' : r.id = u.id => r.origin = to.origin /\ r.shipping = u.shipping
    <3>1. SUFFICES ASSUME ~trimmed, NEW u \in to.tasks, u.pc = "write", NEW r \in dates', r.id = u.id
                   PROVE  r.origin = call[c].origin /\ r.shipping = u.shipping
      BY <1>4
    <3>2. u \in call[c].tasks
      BY <1>4, <1>6, <3>1
    <3>3. PICK s \in dates : s.id = r.id /\ s.origin = r.origin /\ s.shipping = r.shipping
      BY <2>1, <2>2, <2>4, <2>5, <3>1
    <3>4. QED
      BY <1>1, <3>1, <3>2, <3>3 DEF RequestInv
  <2>11. RequestInv(c)'
    BY <1>4, <1>5, <1>8, <1>9, <2>9, <2>10 DEF RequestInv
  <2>12. ChildInv'
    BY <2>5, <2>6, ChildWas DEF ChildInv
  <2>13. ids <= ids'
    BY <1>1
  <2>14. \A d \in Clients : d # c /\ call'[d].pc = "create" /\ call'[d].whole => RowsStay
    BY <1>5, <2>6
  <2>15. QED
    BY <1>1, <1>3, <1>4, <1>5, <2>7, <2>8, <2>11, <2>12, <2>13, <2>14, StepKeeps, Unanswered
<1>12. QED
  BY <1>10, <1>11

LEMMA TaskWriteKeeps ==
  ASSUME DatesInv, NEW c \in Clients, Dating!TaskWrite(c)
  PROVE  DatesInv'
  BY TaskCreates, TaskUpdates DEF Dating!TaskWrite

LEMMA BulkEndsKeeps ==
  ASSUME DatesInv, NEW c \in Clients, Dating!BulkEnds(c)
  PROVE  DatesInv'
<1>1. /\ call[c].pc \in {"create", "update"} \/ (call[c].pc = "delete_rows" /\ call[c].failed)
      /\ \A t \in call[c].tasks : t.pc = "done"
      /\ UNCHANGED <<dates, children, ids, met, trimmed>>
      /\ call' = [call EXCEPT ![c] = Dating!Resting]
      /\ answer' = IF call[c].failed THEN Dating!NoAnswer ELSE call[c]
  BY DEF Dating!BulkEnds, Dating!AllDone, Dating!Ends, Dating!EndsBadly
<1>2. RequestInv(c) /\ call[c] \in DateCall /\ met \in BOOLEAN
  BY DEF DatesInv, TablesInv
<1>3. call'[c] = Dating!Resting
  BY <1>1 DEF DatesInv, TablesInv
<1>4. RequestInv(c)'
  BY <1>3, RestingRequest
<1>5. Dating!DatesAsAsked'
  <2>1. CASE call[c].failed
    BY <1>1, <2>1, Unanswered
  <2>2. CASE ~call[c].failed
    <3>1. answer' = call[c] /\ call[c].pc \in {"create", "update"}
      BY <1>1, <2>2
    <3>2. call[c].pc = "create" /\ call[c].whole =>
            \A s \in call[c].asks : \E r \in dates : r.origin = call[c].origin /\ r.shipping = s
      BY <1>1, <1>2, <2>2 DEF RequestInv, HasRow
    <3>3. call[c].pc = "update" /\ call[c].alone =>
            \A r \in dates : r.origin = call[c].origin /\ r.shipping \in call[c].asks => r.date = call[c].date
      BY <1>1, <1>2, <2>2 DEF RequestInv
    <3>4. QED
      BY <1>1, <3>1, <3>2, <3>3 DEF Dating!DatesAsAsked, Dating!At
  <2>3. QED
    BY <2>1, <2>2
<1>6. ~met' /\ ~trimmed /\ children # {} => HasCN
  BY <1>1, <1>2, ChildWas DEF RequestInv
<1>7. Dating!Resting.pc \notin Dating!Jealous
  BY DEF Dating!Resting, Dating!Jealous
<1>8. QED
  BY <1>1, <1>2, <1>4, <1>5, <1>6, <1>7, RestingIsCall, QuietStep

LEMMA DeleteRowKeeps ==
  ASSUME DatesInv, NEW c \in Clients, Dating!DeleteRow(c)
  PROVE  DatesInv'
<1>1. PICK t \in call[c].tasks :
        /\ t.pc = "write" /\ dates' = {r \in dates : r.id # t.id}
        /\ Dating!Loses(c, Dating!Task(c, t, FALSE), Dating!NoAnswer)
  BY DEF Dating!DeleteRow
<1> DEFINE done == [t EXCEPT !.pc = "done", !.id = 0]
           to == Dating!Task(c, t, FALSE)
<1>2. /\ call[c].pc = "delete_rows" /\ UNCHANGED <<children, ids, met, trimmed>>
      /\ TablesInv /\ RequestInv(c) /\ ids \in 0 .. MaxRows /\ MaxRows \in Nat
  BY PartsAssumption DEF Dating!DeleteRow, DatesInv, TablesInv, Dating!DatesAssumption
<1>3. /\ to \in DateCall /\ to.pc = call[c].pc /\ to.origin = call[c].origin
      /\ to.alone = call[c].alone
      /\ to.tasks = (call[c].tasks \ {t}) \cup {done}
      /\ (to.failed <=> call[c].failed)
      /\ done.pc = "done" /\ done.id = 0
  BY <1>2, TaskIs
<1> HIDE DEF done, to
<1>4. /\ call' \in [Clients -> DateCall] /\ call'[c] = to /\ answer' = Dating!NoAnswer
      /\ \A d \in Clients : d # c => /\ Beside(d) /\ (call'[d].alone <=> call[d].alone)
                                     /\ call'[d].pc = "create" => ~call'[d].whole
  <2>1. Dating!Loses(c, to, Dating!NoAnswer)
    BY <1>1 DEF to
  <2>2. answer' = Dating!NoAnswer
    BY <2>1 DEF Dating!Loses
  <2>3. QED
    BY <1>2, <1>3, <2>1, <2>2, LosesBeside
<1>5. dates' \subseteq dates
  BY <1>1
<1>6. TablesInv'
  BY <1>2, <1>4, <1>5 DEF TablesInv
<1>7. PlacesStay
  BY <1>2, <1>5 DEF PlacesStay
<1>8. RequestInv(c)'
  <2>1. \A u \in to.tasks : u = done \/ u \in call[c].tasks
    BY <1>3
  <2>2. \A u \in call[c].tasks : u # t => u \in to.tasks
    BY <1>3
  <2>3. \A u \in to.tasks : u.id <= ids
    BY <1>2, <1>3, <2>1 DEF RequestInv
  <2>4. to.alone /\ ~to.failed =>
          \A r \in dates' : r.origin = "CN" => \E u \in to.tasks : u.pc = "write" /\ u.id = r.id
    <3>1. SUFFICES ASSUME call[c].alone, ~call[c].failed, NEW r \in dates', r.origin = "CN"
                   PROVE  \E u \in to.tasks : u.pc = "write" /\ u.id = r.id
      BY <1>3
    <3>2. PICK u \in call[c].tasks : u.pc = "write" /\ u.id = r.id
      BY <1>2, <1>5, <3>1 DEF RequestInv
    <3>3. u # t
      BY <1>1, <3>1, <3>2
    <3>4. QED
      BY <2>2, <3>2, <3>3
  <2>5. ~met => ~to.failed /\ to.alone
    BY <1>2, <1>3 DEF RequestInv, Dating!Jealous
  <2>6. QED
    BY <1>2, <1>3, <1>4, <2>3, <2>4, <2>5 DEF RequestInv
<1>9. ChildInv'
  BY <1>2, <1>3, <1>4 DEF ChildInv
<1>10. call'[c].pc \in Dating!Jealous => call[c].pc \in Dating!Jealous /\ (call'[c].alone => call[c].alone)
  BY <1>3, <1>4
<1>11. ids <= ids'
  BY <1>2
<1>12. QED
  BY <1>2, <1>4, <1>6, <1>7, <1>8, <1>9, <1>10, <1>11, StepKeeps, Unanswered

LEMMA FindChildrenKeeps ==
  ASSUME DatesInv, NEW c \in Clients, Dating!FindChildren(c)
  PROVE  DatesInv'
<1> DEFINE q == call[c]
           tasks == {[shipping |-> "none", id |-> i, pc |-> "write"] : i \in children}
           to == [q EXCEPT !.pc = "remove", !.tasks = tasks]
<1>1. /\ q.pc = "delete_rows" /\ (\A t \in q.tasks : t.pc = "done") /\ ~q.failed
      /\ call' = [call EXCEPT ![c] = to] /\ answer' = Dating!NoAnswer
      /\ UNCHANGED <<dates, children, ids, met, trimmed>>
  BY DEF Dating!FindChildren, Dating!AllDone, Dating!Goes
<1>2. /\ TablesInv /\ RequestInv(c) /\ q \in DateCall /\ ids \in 0 .. MaxRows /\ MaxRows \in Nat
      /\ children \subseteq 1 .. ids /\ met \in BOOLEAN
  BY PartsAssumption DEF DatesInv, TablesInv, Dating!DatesAssumption
<1>3. /\ \A t \in tasks : t \in DateTask /\ t.id <= ids
      /\ \A i \in children : \E t \in tasks : t.id = i
  <2> DEFINE new(i) == [shipping |-> "none", id |-> i, pc |-> "write"]
  <2>1. \A i \in children : i \in 0 .. MaxRows /\ i <= ids
    BY <1>2
  <2>2. \A i \in children : new(i) \in DateTask /\ new(i).id = i
    BY <2>1 DEF DateTask
  <2>3. tasks = {new(i) : i \in children}
    OBVIOUS
  <2> HIDE DEF new, tasks
  <2>4. QED
    BY <2>1, <2>2, <2>3
<1> HIDE DEF tasks
<1>4. tasks \in SUBSET DateTask
  BY <1>3
<1>5. q.alone => ~HasCN
  BY <1>1, <1>2 DEF RequestInv, HasCN
<1> HIDE DEF q
<1>6. /\ to \in DateCall /\ to.pc = "remove" /\ to.tasks = tasks /\ to.alone = q.alone
  BY <1>2, <1>4 DEF DateCall
<1> HIDE DEF to
<1>7. call'[c] = to
  BY <1>1, <1>2 DEF TablesInv
<1>8. ~met => q.alone
  BY <1>1, <1>2 DEF RequestInv, Dating!Jealous, q
<1>9. RequestInv(c)'
  BY <1>1, <1>3, <1>5, <1>6, <1>7, <1>8 DEF RequestInv, HasCN
<1>10. q.pc \in Dating!Jealous /\ call[c] = q
  BY <1>1 DEF Dating!Jealous, q
<1>11. QED
  BY <1>1, <1>2, <1>6, <1>9, <1>10, QuietStep, Unanswered

\* A request ends that has removed children.
LEMMA ChildrenGone ==
  ASSUME DatesInv, NEW c \in Clients, call[c].pc # "idle",
         children' = children \ {t.id : t \in call[c].tasks},
         Dating!Loses(c, Dating!Resting, call[c]), UNCHANGED <<dates, ids, met, trimmed>>,
         call[c].pc = "remove" \/ call[c].pc = "drop_child"
  PROVE  DatesInv'
<1>1. TablesInv /\ RequestInv(c) /\ ids \in 0 .. MaxRows /\ MaxRows \in Nat
  BY PartsAssumption DEF DatesInv, TablesInv, Dating!DatesAssumption
<1>2. /\ call' \in [Clients -> DateCall] /\ call'[c] = Dating!Resting /\ answer' = call[c]
      /\ \A d \in Clients : d # c => /\ Beside(d) /\ (call'[d].alone <=> call[d].alone)
                                     /\ call'[d].pc = "create" => ~call'[d].whole
  <2>1. answer' = call[c]
    BY DEF Dating!Loses
  <2>2. QED
    BY <1>1, <2>1, RestingIsCall, LosesBeside
<1>3. TablesInv'
  BY <1>1, <1>2 DEF TablesInv
<1>4. call[c].pc = "remove" /\ call[c].alone => ~HasCN /\ children' = {}
  BY <1>1 DEF RequestInv
<1>5. Dating!DatesAsAsked'
  BY <1>2, <1>4 DEF Dating!DatesAsAsked, Dating!InCN, HasCN
<1>6. ChildInv'
  <2>1. call[c].pc = "remove" /\ ~met => call[c].alone
    BY <1>1 DEF RequestInv, Dating!Jealous
  <2>2. call[c].pc = "drop_child" /\ ~met /\ ~trimmed /\ children' # {} => HasCN
    BY ChildWas
  <2>3. QED
    BY <1>4, <2>1, <2>2 DEF ChildInv, HasCN
<1>7. RequestInv(c)' /\ Dating!Resting.pc \notin Dating!Jealous
  BY <1>2, RestingRequest DEF Dating!Resting, Dating!Jealous
<1>8. PlacesStay /\ ids <= ids'
  BY <1>1 DEF PlacesStay
<1>9. QED
  BY <1>2, <1>3, <1>5, <1>6, <1>7, <1>8, StepKeeps

LEMMA ChildFindKeeps ==
  ASSUME DatesInv, NEW c \in Clients, Dating!ChildFind(c)
  PROVE  DatesInv'
<1>1. /\ call[c].pc = "child" /\ UNCHANGED <<dates, children, ids, met, trimmed>>
      /\ TablesInv /\ RequestInv(c) /\ call[c] \in DateCall /\ met \in BOOLEAN
  BY DEF Dating!ChildFind, DatesInv, TablesInv
<1>2. ~met' /\ ~trimmed /\ children # {} => HasCN
  BY <1>1, ChildWas
<1>3. CASE children # {}
  <2>1. call' = [call EXCEPT ![c] = Dating!Resting] /\ answer' = call[c]
    BY <1>3 DEF Dating!ChildFind, Dating!Ends
  <2>2. call'[c] = Dating!Resting
    BY <1>1, <2>1 DEF TablesInv
  <2>3. RequestInv(c)' /\ Dating!Resting.pc \notin Dating!Jealous
    BY <2>2, RestingRequest DEF Dating!Resting, Dating!Jealous
  <2>4. Dating!DatesAsAsked'
    BY <1>1, <2>1 DEF Dating!DatesAsAsked
  <2>5. QED
    BY <1>1, <1>2, <2>1, <2>3, <2>4, RestingIsCall, QuietStep
<1>4. CASE children = {}
  <2> DEFINE q == call[c]
             to == [q EXCEPT !.pc = "add_child"]
  <2>1. call' = [call EXCEPT ![c] = to] /\ answer' = Dating!NoAnswer
    BY <1>4 DEF Dating!ChildFind, Dating!Goes
  <2>2. q \in DateCall
    BY <1>1
  <2>3. (\A t \in q.tasks : t.id <= ids) /\ (~met /\ ~trimmed => HasCN)
    BY <1>1 DEF RequestInv
  <2> HIDE DEF q
  <2>4. to \in DateCall /\ to.pc = "add_child" /\ to.tasks = q.tasks
    BY <2>2 DEF DateCall
  <2> HIDE DEF to
  <2>5. call'[c] = to
    BY <1>1, <2>1 DEF TablesInv
  <2>6. RequestInv(c)'
    BY <1>1, <2>3, <2>4, <2>5 DEF RequestInv, HasCN, Dating!Jealous
  <2>7. to.pc \notin Dating!Jealous
    BY <2>4 DEF Dating!Jealous
  <2>8. QED
    BY <1>1, <1>2, <2>1, <2>4, <2>6, <2>7, QuietStep, Unanswered
<1>5. QED
  BY <1>3, <1>4

LEMMA ChildInsertKeeps ==
  ASSUME DatesInv, NEW c \in Clients, Dating!ChildInsert(c)
  PROVE  DatesInv'
<1>1. /\ call[c].pc = "add_child" /\ ids < MaxRows /\ UNCHANGED <<dates, trimmed>>
      /\ call' = [call EXCEPT ![c] = Dating!Resting]
      /\ IF children # {} THEN answer' = Dating!NoAnswer /\ met' = TRUE /\ UNCHANGED <<children, ids>>
         ELSE answer' = call[c] /\ ids' = ids + 1 /\ children' = {ids'} /\ UNCHANGED met
  BY DEF Dating!ChildInsert, Dating!EndsBadly, Dating!Ends
<1>2. /\ TablesInv /\ RequestInv(c) /\ ids \in 0 .. MaxRows /\ MaxRows \in Nat /\ met \in BOOLEAN
  BY PartsAssumption DEF DatesInv, TablesInv, Dating!DatesAssumption
<1>3. /\ call' \in [Clients -> DateCall] /\ call'[c] = Dating!Resting
      /\ \A d \in Clients : d # c => Beside(d) /\ (call'[d].alone <=> call[d].alone)
  BY <1>1, <1>2, RestingIsCall, GoesBeside
<1>11. (children # {} /\ ids' = ids /\ children' = children)
         \/ (ids' = ids + 1 /\ children' = {ids + 1})
  BY <1>1
<1>4. ids' \in ids .. MaxRows /\ (met => met') /\ met' \in BOOLEAN
  <2>1. ids' \in ids .. MaxRows
    BY <1>1, <1>2, <1>11
  <2>2. met' = TRUE \/ met' = met
    BY <1>1
  <2>3. QED
    BY <1>2, <2>1, <2>2
<1>5. TablesInv'
  <2>1. children' \subseteq 1 .. ids' /\ \A i, j \in children' : i = j
    <3>1. CASE ids' = ids /\ children' = children
      BY <1>2, <3>1 DEF TablesInv
    <3>2. CASE ids' = ids + 1 /\ children' = {ids + 1}
      BY <1>2, <3>2
    <3>3. QED
      BY <1>11, <3>1, <3>2
  <2>2. ids' \in 0 .. MaxRows /\ \A r \in dates' : r.id <= ids'
    <3>1. \A r \in dates : r.id \in Nat /\ r.id <= ids
      BY <1>2 DEF TablesInv, Dating!Row
    <3>2. QED
      BY <1>1, <1>2, <1>4, <3>1
  <2>3. QED
    BY <1>1, <1>2, <1>3, <1>4, <2>1, <2>2 DEF TablesInv
<1>6. Dating!DatesAsAsked'
  BY <1>1, Unanswered DEF Dating!DatesAsAsked
<1>7. RequestInv(c)' /\ Dating!Resting.pc \notin Dating!Jealous
  BY <1>3, RestingRequest DEF Dating!Resting, Dating!Jealous
<1>8. PlacesStay /\ RowsStay /\ ids <= ids'
  BY <1>1, <1>2, <1>4 DEF PlacesStay, RowsStay, HasRow
<1>9. ChildInv'
  <2>1. ~met /\ ~trimmed => HasCN
    BY <1>1, <1>2 DEF RequestInv
  <2>2. QED
    BY <1>1, <1>4, <2>1 DEF ChildInv, HasCN
<1>10. QED
  BY <1>1, <1>3, <1>4, <1>5, <1>6, <1>7, <1>8, <1>9, StepKeeps

LEMMA LapseKeeps ==
  ASSUME DatesInv, NEW c \in Clients, Dating!Lapse(c)
  PROVE  DatesInv'
<1>1. /\ call[c].pc # "idle" /\ met' = TRUE /\ answer' = Dating!NoAnswer
      /\ UNCHANGED <<dates, children, ids, trimmed>>
      /\ TablesInv /\ RequestInv(c) /\ call[c] \in DateCall
  BY DEF Dating!Lapse, DatesInv, TablesInv, Dating!Goes, Dating!EndsBadly
<1>2. CASE call' = [call EXCEPT ![c] = Dating!Resting]
  <2>1. call'[c] = Dating!Resting
    BY <1>1, <1>2 DEF TablesInv
  <2>2. RequestInv(c)' /\ Dating!Resting.pc \notin Dating!Jealous
    BY <2>1, RestingRequest DEF Dating!Resting, Dating!Jealous
  <2>3. QED
    BY <1>1, <1>2, <2>2, RestingIsCall, QuietStep, Unanswered
<1>3. ASSUME NEW t \in call[c].tasks, t.pc # "done", call[c].pc \in Dating!Parallel,
             call' = [call EXCEPT ![c] = Dating!Task(c, t, TRUE)]
      PROVE  DatesInv'
  <2> DEFINE done == [t EXCEPT !.pc = "done", !.id = 0]
             to == Dating!Task(c, t, TRUE)
  <2>1. /\ to \in DateCall /\ to.pc = call[c].pc /\ to.origin = call[c].origin
        /\ to.asks = call[c].asks /\ to.alone = call[c].alone
        /\ to.tasks = (call[c].tasks \ {t}) \cup {done} /\ to.failed
        /\ done \in DateTask /\ done.pc = "done" /\ done.id = 0 /\ done.shipping = t.shipping
    BY <1>1, TaskIs
  <2>2. call' = [call EXCEPT ![c] = to]
    BY <1>3
  <2> HIDE DEF done, to
  <2>3. call'[c] = to
    BY <1>1, <2>2 DEF TablesInv
  <2>4. \A u \in to.tasks : u = done \/ u \in call[c].tasks
    BY <2>1
  <2>5. done \in to.tasks /\ \A u \in call[c].tasks : u # t => u \in to.tasks
    BY <2>1
  <2>6. ids \in Nat
    BY PartsAssumption, <1>1 DEF TablesInv, Dating!DatesAssumption
  <2>7. \A u \in to.tasks : u.id <= ids
    BY <1>1, <2>1, <2>4, <2>6 DEF RequestInv
  <2>8. to.pc \in {"create", "update"} =>
          /\ \A u \in to.tasks : u.shipping \in Shippings
          /\ \A s \in to.asks : \E u \in to.tasks : u.shipping = s
    BY <1>1, <2>1, <2>4, <2>5 DEF RequestInv
  <2>9. ~trimmed /\ to.pc = "update" => \A u \in to.tasks : u.pc = "write" =>
          \A r \in dates : r.id = u.id => r.origin = to.origin /\ r.shipping = u.shipping
    BY <1>1, <2>1, <2>4 DEF RequestInv
  <2>10. call[c].pc # "remove"
    BY <1>3 DEF Dating!Parallel
  <2>11. RequestInv(c)'
    BY <1>1, <2>1, <2>3, <2>7, <2>8, <2>9, <2>10 DEF RequestInv
  <2>12. QED
    BY <1>1, <2>1, <2>2, <2>11, QuietStep, Unanswered
<1>4. QED
  BY <1>2, <1>3 DEF Dating!Lapse, Dating!Goes, Dating!EndsBadly

\* A request begins.
LEMMA RequestBegins ==
  ASSUME DatesInv, NEW c \in Clients, NEW new \in DateCall, Dating!BeginAs(c, new), new.pc # "idle",
         UNCHANGED <<dates, children, ids, trimmed>>,
         \A t \in new.tasks : t.id <= ids /\ t.pc # "done",
         new.pc \in {"create", "update"} =>
           /\ \A t \in new.tasks : t.shipping \in Shippings /\ t.pc = "find"
           /\ \A s \in new.asks : \E t \in new.tasks : t.shipping = s,
         new.pc = "delete_rows" =>
           /\ ~new.failed
           /\ \A r \in dates : r.origin = "CN" => \E t \in new.tasks : t.pc = "write" /\ t.id = r.id,
         new.pc # "remove", new.pc \in {"child", "add_child"} => HasCN
  PROVE  DatesInv'
<1> DEFINE under == Dating!Under(c)
           b == [d \in Clients |-> IF d = c THEN new.pc \in Dating!Jealous => ~under
                                   ELSE call[d].alone /\ call[d].pc \notin Dating!Jealous]
<1>1. /\ call[c].pc = "idle" /\ answer' = Dating!NoAnswer /\ met' = (met \/ under)
      /\ TablesInv /\ MeetInv /\ ChildInv /\ ids \in 0 .. MaxRows /\ MaxRows \in Nat /\ met \in BOOLEAN
  BY PartsAssumption DEF Dating!BeginAs, DatesInv, TablesInv, Dating!DatesAssumption
<1>2. call' = [d \in Clients |-> IF d = c THEN [new EXCEPT !.alone = b[d]] ELSE [call[d] EXCEPT !.alone = b[d]]]
  BY DEF Dating!BeginAs
<1>3. /\ \A d \in Clients : b[d] \in BOOLEAN
      /\ b[c] <=> (new.pc \in Dating!Jealous => ~under)
      /\ \A d \in Clients : d # c => (b[d] <=> call[d].alone /\ call[d].pc \notin Dating!Jealous)
  OBVIOUS
<1>4. /\ under \in BOOLEAN /\ (under <=> \E d \in Clients : d # c /\ call[d].pc # "idle")
  BY DEF Dating!Under
<1> HIDE DEF b, under
<1>5. \A d \in Clients : call[d] \in DateCall
  BY <1>1 DEF TablesInv
<1>6. \A q \in DateCall : \A x \in BOOLEAN :
        LET p == [q EXCEPT !.alone = x]
        IN /\ p \in DateCall /\ p.pc = q.pc /\ p.origin = q.origin /\ p.asks = q.asks /\ p.date = q.date
           /\ p.tasks = q.tasks /\ p.failed = q.failed /\ p.alone = x /\ p.whole = q.whole
  <2>1. SUFFICES ASSUME NEW q \in DateCall, NEW x \in BOOLEAN
        PROVE  LET p == [q EXCEPT !.alone = x]
               IN /\ p \in DateCall /\ p.pc = q.pc /\ p.origin = q.origin /\ p.asks = q.asks /\ p.date = q.date
                  /\ p.tasks = q.tasks /\ p.failed = q.failed /\ p.alone = x /\ p.whole = q.whole
    OBVIOUS
  <2>2. QED
    BY DEF DateCall
<1>7. /\ call'[c] \in DateCall /\ call'[c].pc = new.pc /\ call'[c].asks = new.asks
      /\ call'[c].tasks = new.tasks /\ call'[c].failed = new.failed /\ call'[c].alone = b[c]
  <2>1. call'[c] = [new EXCEPT !.alone = b[c]]
    BY <1>2
  <2>2. QED
    BY <1>3, <1>6, <2>1
<1>8. \A d \in Clients : d # c => call'[d] \in DateCall /\ Beside(d) /\ call'[d].alone = b[d]
  <2>1. SUFFICES ASSUME NEW d \in Clients, d # c
                 PROVE  call'[d] \in DateCall /\ Beside(d) /\ call'[d].alone = b[d]
    OBVIOUS
  <2>2. call'[d] = [call[d] EXCEPT !.alone = b[d]]
    BY <1>2, <2>1
  <2>3. QED
    BY <1>3, <1>5, <1>6, <2>1, <2>2 DEF Beside
<1>9. TablesInv'
  <2>1. call' \in [Clients -> DateCall]
    BY <1>2, <1>7, <1>8
  <2>2. met' \in BOOLEAN
    BY <1>1, <1>4
  <2>3. QED
    BY <1>1, <2>1, <2>2 DEF TablesInv
<1>10. PlacesStay /\ RowsStay /\ ids' \in Nat /\ ids <= ids'
  BY <1>1 DEF PlacesStay, RowsStay, HasRow
<1>11. \A d \in Clients : d # c => RequestInv(d)'
  <2>1. SUFFICES ASSUME NEW d \in Clients, d # c PROVE RequestInv(d)'
    OBVIOUS
  <2>2. call'[d].pc # "idle" => met' /\ (call'[d].pc \in Dating!Jealous => ~call'[d].alone)
    BY <1>1, <1>3, <1>4, <1>8, <2>1 DEF Beside
  <2>3. Beside(d)
    BY <1>8, <2>1
  <2>4. QED
    BY <1>10, <2>2, <2>3, BesideKept
<1>12. RequestInv(c)'
  BY <1>1, <1>3, <1>4, <1>7 DEF RequestInv, HasCN
<1>13. MeetInv'
  <2>1. SUFFICES ASSUME NEW d \in Clients, NEW e \in Clients, d # e,
                        call'[d].pc # "idle", call'[e].pc # "idle"
                 PROVE  met' /\ (call'[d].pc \in Dating!Jealous => ~call'[d].alone)
    BY DEF MeetInv
  <2>2. CASE d = c
    BY <1>1, <1>3, <1>4, <1>7, <1>8, <2>1, <2>2 DEF Beside
  <2>3. CASE d # c
    BY <1>1, <1>3, <1>4, <1>8, <2>1, <2>3 DEF Beside
  <2>4. QED
    BY <2>2, <2>3
<1>14. ChildInv'
  <2>1. SUFFICES ASSUME ~met', ~trimmed, children # {} PROVE HasCN
    BY DEF ChildInv, HasCN
  <2>2. ~met /\ \A d \in Clients : call[d].pc = "idle"
    BY <1>1, <1>4, <2>1
  <2>3. QED
    BY <1>1, <2>1, <2>2 DEF ChildInv
<1>15. QED
  BY <1>1, <1>9, <1>11, <1>12, <1>13, <1>14, Unanswered DEF DatesInv

LEMMA BulkKeeps ==
  ASSUME DatesInv, NEW c \in Clients, NEW pc \in {"create", "update"}, Dating!Bulk(c, pc)
  PROVE  DatesInv'
<1>1. PICK origin \in Origins, asks \in SUBSET Shippings, date \in FirstDates \cup Dating!Dates :
        Dating!BeginAs(c, [Dating!Resting EXCEPT !.pc = pc, !.origin = origin, !.asks = asks, !.date = date,
          !.tasks = {[shipping |-> s, id |-> 0, pc |-> "find"] : s \in asks}])
  BY DEF Dating!Bulk
<1> DEFINE task(s) == [shipping |-> s, id |-> 0, pc |-> "find"]
           tasks == {task(s) : s \in asks}
           new == [Dating!Resting EXCEPT !.pc = pc, !.origin = origin, !.asks = asks, !.date = date,
                                         !.tasks = tasks]
<1>2. Dating!BeginAs(c, new) /\ UNCHANGED <<dates, children, ids, trimmed>>
  BY <1>1 DEF Dating!Bulk
<1>3. date \in Dating!Dates /\ ids \in Nat /\ 0 \in 0 .. MaxRows
  BY PartsAssumption DEF Dating!DatesAssumption, Dating!Dates, DatesInv, TablesInv
<1>4. \A s \in asks : task(s) \in DateTask /\ task(s).shipping = s /\ task(s).id = 0 /\ task(s).pc = "find"
  BY <1>3 DEF DateTask
<1> HIDE DEF task
<1>5. /\ tasks \in SUBSET DateTask
      /\ \A t \in tasks : t.id = 0 /\ t.pc = "find" /\ t.shipping \in Shippings
      /\ \A s \in asks : \E t \in tasks : t.shipping = s
  BY <1>4
<1> HIDE DEF tasks
<1>6. new \in DateCall /\ new.pc = pc /\ new.asks = asks /\ new.tasks = tasks
  BY <1>3, <1>5, RestingIsCall DEF DateCall
<1> HIDE DEF new
<1>7. QED
  BY <1>2, <1>3, <1>5, <1>6, RequestBegins

LEMMA DeleteAllKeeps ==
  ASSUME DatesInv, NEW c \in Clients, Dating!DeleteAll(c)
  PROVE  DatesInv'
<1> DEFINE task(r) == [shipping |-> r.shipping, id |-> r.id, pc |-> "write"]
           tasks == {task(r) : r \in Dating!InCN}
           new == [Dating!Resting EXCEPT !.pc = "delete_rows", !.tasks = tasks]
<1>1. Dating!BeginAs(c, new) /\ UNCHANGED <<dates, children, ids, trimmed>>
  BY DEF Dating!DeleteAll
<1>2. \A r \in dates : r.shipping \in Shippings /\ r.id \in 1 .. MaxRows /\ r.id <= ids
  BY DEF DatesInv, TablesInv, Dating!Row
<1>3. \A r : r \in Dating!InCN <=> r \in dates /\ r.origin = "CN"
  BY DEF Dating!InCN
<1>4. MaxRows \in Nat
  BY PartsAssumption DEF Dating!DatesAssumption
<1>5. \A r \in Dating!InCN : task(r) \in DateTask /\ task(r).id = r.id /\ task(r).pc = "write"
  BY <1>2, <1>3, <1>4 DEF DateTask
<1> HIDE DEF task
<1>6. /\ tasks \in SUBSET DateTask
      /\ \A t \in tasks : t.id <= ids /\ t.pc = "write"
      /\ \A r \in dates : r.origin = "CN" => \E t \in tasks : t.pc = "write" /\ t.id = r.id
  BY <1>2, <1>3, <1>5
<1> HIDE DEF tasks
<1>7. new \in DateCall /\ new.pc = "delete_rows" /\ new.tasks = tasks /\ new.failed = Dating!Resting.failed
  BY <1>6, RestingIsCall DEF DateCall
<1>8. ~new.failed
  BY <1>7 DEF Dating!Resting
<1> HIDE DEF new
<1>9. QED
  BY <1>1, <1>6, <1>7, <1>8, RequestBegins

LEMMA CreateChildKeeps ==
  ASSUME DatesInv, NEW c \in Clients, Dating!CreateChild(c)
  PROVE  DatesInv'
<1> DEFINE new == [Dating!Resting EXCEPT !.pc = "child"]
<1>1. Dating!BeginAs(c, new) /\ UNCHANGED <<dates, children, ids, trimmed>> /\ HasCN
  BY DEF Dating!CreateChild, Dating!InCN, HasCN
<1>2. new \in DateCall /\ new.pc = "child" /\ new.tasks = Dating!Resting.tasks
  BY RestingIsCall DEF DateCall
<1>3. new.tasks = {}
  BY <1>2 DEF Dating!Resting
<1> HIDE DEF new
<1>4. QED
  BY <1>1, <1>2, <1>3, RequestBegins

LEMMA DeleteChildKeeps ==
  ASSUME DatesInv, NEW c \in Clients, Dating!DeleteChild(c)
  PROVE  DatesInv'
<1> DEFINE task(i) == [shipping |-> "none", id |-> i, pc |-> "write"]
           tasks == {task(i) : i \in children}
           new == [Dating!Resting EXCEPT !.pc = "drop_child", !.tasks = tasks]
<1>1. Dating!BeginAs(c, new) /\ UNCHANGED <<dates, children, ids, trimmed>>
  BY DEF Dating!DeleteChild
<1>2. \A i \in children : i \in 0 .. MaxRows /\ i <= ids
  BY PartsAssumption DEF DatesInv, TablesInv, Dating!DatesAssumption
<1>3. \A i \in children : task(i) \in DateTask /\ task(i).id = i /\ task(i).pc = "write"
  BY <1>2 DEF DateTask
<1> HIDE DEF task
<1>4. tasks \in SUBSET DateTask /\ \A t \in tasks : t.id <= ids /\ t.pc = "write"
  BY <1>2, <1>3
<1> HIDE DEF tasks
<1>5. new \in DateCall /\ new.pc = "drop_child" /\ new.tasks = tasks
  BY <1>4, RestingIsCall DEF DateCall
<1> HIDE DEF new
<1>6. QED
  BY <1>1, <1>4, <1>5, RequestBegins

\* A request of one statement, that deletes a row or writes one.
LEMMA OnceKeeps ==
  ASSUME DatesInv, NEW c \in Clients, Dating!Once(c), UNCHANGED <<children, ids>>,
         dates' \subseteq Dating!Row, \A r \in dates' : r.id <= ids,
         \A r, s \in dates' : r.id = s.id \/ (r.origin = s.origin /\ r.shipping = s.shipping) => r = s
  PROVE  DatesInv'
<1> DEFINE under == Dating!Under(c)
           b == [d \in Clients |-> call[d].whole /\ call[d].pc # "create"]
           a == [d \in Clients |-> call[d].alone /\ call[d].pc \notin Dating!Jealous]
<1>1. /\ call[c].pc = "idle" /\ answer' = Dating!NoAnswer /\ met' = (met \/ under) /\ trimmed' = TRUE
      /\ TablesInv /\ ids \in 0 .. MaxRows /\ MaxRows \in Nat /\ met \in BOOLEAN
  BY PartsAssumption DEF Dating!Once, DatesInv, TablesInv, Dating!DatesAssumption
<1>2. call' = [d \in Clients |-> [call[d] EXCEPT !.whole = b[d], !.alone = a[d]]]
  BY DEF Dating!Once
<1>3. \A d \in Clients :
        /\ a[d] \in BOOLEAN /\ b[d] \in BOOLEAN
        /\ b[d] <=> call[d].whole /\ call[d].pc # "create"
        /\ a[d] <=> call[d].alone /\ call[d].pc \notin Dating!Jealous
  OBVIOUS
<1>4. /\ under \in BOOLEAN /\ (under <=> \E d \in Clients : d # c /\ call[d].pc # "idle")
  BY DEF Dating!Under
<1> HIDE DEF a, b, under
<1>5. \A d \in Clients : call'[d] \in DateCall /\ Beside(d) /\ call'[d].alone = a[d] /\ call'[d].whole = b[d]
  <2>1. SUFFICES ASSUME NEW d \in Clients
                 PROVE  call'[d] \in DateCall /\ Beside(d) /\ call'[d].alone = a[d] /\ call'[d].whole = b[d]
    OBVIOUS
  <2> DEFINE q == call[d]
             x == b[d]
             y == a[d]
             p == [q EXCEPT !.whole = x, !.alone = y]
  <2>2. /\ q \in DateCall /\ call'[d] = p /\ x \in BOOLEAN /\ y \in BOOLEAN
        /\ (x => q.whole) /\ (y => q.alone)
    BY <1>1, <1>2, <1>3 DEF TablesInv
  <2> HIDE DEF q, x, y
  <2>3. /\ p \in DateCall /\ p.pc = q.pc /\ p.origin = q.origin /\ p.asks = q.asks /\ p.date = q.date
        /\ p.tasks = q.tasks /\ p.failed = q.failed /\ p.alone = y /\ p.whole = x
    BY <2>2 DEF DateCall
  <2> HIDE DEF p
  <2>4. QED
    BY <2>2, <2>3 DEF Beside, q, x, y
<1>6. TablesInv'
  <2>1. call' \in [Clients -> DateCall]
    BY <1>2, <1>5
  <2>2. met' \in BOOLEAN
    BY <1>1, <1>4
  <2>3. QED
    BY <1>1, <2>1, <2>2 DEF TablesInv
<1>7. PlacesStay /\ ids' \in Nat /\ ids <= ids'
  BY <1>1 DEF PlacesStay
<1>8. \A d \in Clients : /\ call'[d].pc # "idle" => met' /\ (call'[d].pc \in Dating!Jealous => ~call'[d].alone)
                         /\ ~(call'[d].pc = "create" /\ call'[d].whole)
  BY <1>1, <1>3, <1>4, <1>5 DEF Beside
<1>9. \A d \in Clients : RequestInv(d)'
  <2>1. SUFFICES ASSUME NEW d \in Clients PROVE RequestInv(d)'
    OBVIOUS
  <2>2. Beside(d) /\ ~(call'[d].pc = "create" /\ call'[d].whole)
        /\ (call'[d].pc # "idle" => met' /\ (call'[d].pc \in Dating!Jealous => ~call'[d].alone))
    BY <1>5, <1>8
  <2>3. QED
    BY <1>7, <2>2, BesideKept
<1>10. MeetInv' /\ ChildInv'
  BY <1>1, <1>8 DEF MeetInv, ChildInv
<1>11. QED
  BY <1>1, <1>6, <1>9, <1>10, Unanswered DEF DatesInv

LEMMA DeleteOneKeeps ==
  ASSUME DatesInv, NEW c \in Clients, Dating!DeleteOne(c)
  PROVE  DatesInv'
<1>1. Dating!Once(c) /\ UNCHANGED <<children, ids>> /\ dates' \subseteq dates
  BY DEF Dating!DeleteOne
<1>2. QED
  BY <1>1, OnceKeeps DEF DatesInv, TablesInv

LEMMA UpdateOneKeeps ==
  ASSUME DatesInv, NEW c \in Clients, Dating!UpdateOne(c)
  PROVE  DatesInv'
<1>1. Dating!Once(c) /\ UNCHANGED <<children, ids>>
  BY DEF Dating!UpdateOne
<1>2. PICK r \in dates, origin \in Origins, s \in Shippings, date \in Dating!Dates :
        /\ Dating!At(origin, s) \subseteq {r}
        /\ dates' = (dates \ {r}) \cup {[r EXCEPT !.origin = origin, !.shipping = s, !.date = date]}
  BY DEF Dating!UpdateOne
<1> DEFINE new == [r EXCEPT !.origin = origin, !.shipping = s, !.date = date]
<1>3. /\ dates \subseteq Dating!Row /\ \A q \in dates : q.id <= ids
      /\ \A p, q \in dates : p.id = q.id \/ (p.origin = q.origin /\ p.shipping = q.shipping) => p = q
  BY DEF DatesInv, TablesInv
<1>4. new \in Dating!Row /\ new.id = r.id /\ new.origin = origin /\ new.shipping = s
  BY <1>3 DEF Dating!Row
<1>5. \A q \in dates : q.origin = origin /\ q.shipping = s => q = r
  BY <1>2 DEF Dating!At
<1> HIDE DEF new
<1>6. \A q \in dates' : q = new \/ (q \in dates /\ q # r)
  BY <1>2 DEF new
<1>7. dates' \subseteq Dating!Row /\ \A q \in dates' : q.id <= ids
  BY <1>3, <1>4, <1>6
<1>8. \A p, q \in dates' : p.id = q.id \/ (p.origin = q.origin /\ p.shipping = q.shipping) => p = q
  BY <1>3, <1>4, <1>5, <1>6
<1>9. QED
  BY <1>1, <1>7, <1>8, OnceKeeps

LEMMA DatesInvariance == Spec => []DatesInv
<1>1. Init => DatesInv
  <2>1. SUFFICES ASSUME Dating!DatesInit PROVE DatesInv
    BY PartsBegin
  <2>2. \A c \in Clients : call[c] = Dating!Resting
    BY <2>1 DEF Dating!DatesInit
  <2>3. \A r \in dates : r \in Dating!Row /\ r.id = 1
    BY <2>1 DEF Dating!DatesInit
  <2>4. \A r, s \in dates : r = s
    BY <2>1 DEF Dating!DatesInit
  <2>5. ids \in 0 .. MaxRows /\ \A r \in dates : r.id <= ids
    <3>1. dates # {} => ids = 1 /\ 1 \in 1 .. MaxRows
      BY <2>1, <2>3 DEF Dating!DatesInit, Dating!Row
    <3>2. dates = {} => ids = 0
      BY <2>1 DEF Dating!DatesInit
    <3>3. MaxRows \in Nat
      BY PartsAssumption DEF Dating!DatesAssumption
    <3>4. QED
      BY <2>3, <3>1, <3>2, <3>3
  <2>6. children = {} /\ met = FALSE /\ trimmed = FALSE /\ answer = Dating!NoAnswer
        /\ call \in [Clients -> DateCall]
    BY <2>1, RestingIsCall DEF Dating!DatesInit
  <2>7. TablesInv
    BY <2>3, <2>4, <2>5, <2>6 DEF TablesInv
  <2>8. \A c \in Clients : RequestInv(c)
    BY <2>2 DEF RequestInv, Dating!Resting, Dating!Jealous
  <2>9. MeetInv /\ ChildInv /\ Dating!DatesAsAsked
    BY <2>2, <2>6 DEF MeetInv, ChildInv, Dating!DatesAsAsked, Dating!Resting
  <2>10. QED
    BY <2>7, <2>8, <2>9 DEF DatesInv
<1>2. DatesInv /\ [Next]_allVars => DatesInv'
  <2>1. SUFFICES ASSUME DatesInv, Dating!DatesNext \/ UNCHANGED dateVars
                 PROVE  DatesInv'
    BY DateSteps
  <2>2. CASE UNCHANGED dateVars
    BY <2>1, <2>2 DEF dateVars, DatesInv, TablesInv, RequestInv, MeetInv, ChildInv, HasRow, HasCN,
       Dating!DatesAsAsked, Dating!InCN, Dating!At
  <2>3. ASSUME NEW c \in Clients, Dating!RemoveChildren(c) \/ Dating!ChildDrop(c)
        PROVE  DatesInv'
    BY <2>1, <2>3, ChildrenGone DEF Dating!RemoveChildren, Dating!ChildDrop
  <2>4. QED
    BY <2>1, <2>2, <2>3, BulkKeeps, TaskFindKeeps, TaskWriteKeeps, BulkEndsKeeps, DeleteOneKeeps,
       UpdateOneKeeps, DeleteAllKeeps, DeleteRowKeeps, FindChildrenKeeps, CreateChildKeeps,
       ChildFindKeeps, ChildInsertKeeps, DeleteChildKeeps, LapseKeeps DEF Dating!DatesNext
<1>3. QED
  BY <1>1, <1>2, PTL DEF Spec, allVars

\* For any requests, origins, deliveries and bounds, a bulk request for dates
\* that succeeded leaves what it asked: a creation unless rows were taken away
\* or moved meanwhile, an update and a deletion if they ran alone.
THEOREM DatesAreAsAsked == Spec => []DatesAsAsked
<1>1. DatesInv => DatesAsAsked
  BY DEF DatesInv, DatesAsAsked
<1>2. QED
  BY <1>1, DatesInvariance, PTL

\* For any requests, origins, deliveries and bounds, no child is left without
\* dates of China by requests that came one by one and did not fail, while no
\* row is deleted or moved by itself.
THEOREM ChildrenAreDated == Spec => []ChildrenDated
<1>1. DatesInv => ChildrenDated
  <2>1. SUFFICES ASSUME DatesInv PROVE Dating!ChildrenDated
    BY DEF ChildrenDated
  <2>2. Dating!DatesTypeOK
    <3>1. \A c \in Clients : call[c] \in DateCall
      BY <2>1 DEF DatesInv, TablesInv
    <3>2. children \subseteq 1 .. MaxRows
      BY <2>1, PartsAssumption DEF DatesInv, TablesInv, Dating!DatesAssumption
    <3>3. Cardinality(children) <= 1
      <4>1. CASE children = {}
        <5>1. Cardinality(children) = 0
          BY <4>1, FS_EmptySet
        <5>2. QED
          BY <5>1
      <4>2. CASE children # {}
        <5>1. PICK i \in children : children = {i}
          BY <2>1, <4>2 DEF DatesInv, TablesInv
        <5>2. Cardinality(children) = 1
          BY <5>1, FS_Singleton
        <5>3. QED
          BY <5>2
      <4>3. QED
        BY <4>1, <4>2
    <3>4. Dating!Cardinality(children) = Cardinality(children)
      BY DEF Dating!Cardinality, Cardinality
    <3>5. QED
      BY <2>1, <3>1, <3>2, <3>3, <3>4 DEF DatesInv, TablesInv, Dating!DatesTypeOK, DateCall, DateTask
  <2>3. HasCN => Dating!InCN # {}
    BY DEF HasCN, Dating!InCN
  <2>4. QED
    BY <2>1, <2>2, <2>3 DEF DatesInv, ChildInv, Dating!ChildrenDated
<1>2. QED
  BY <1>1, DatesInvariance, PTL

-----------------------------------------------------------------------------
\* Negotiations.

QuotingWork == [pc : {"idle", "save", "quoted", "replace", "import", "imported", "choose"},
                sent : Quoting!Sheets, read : SUBSET Nat, were : SUBSET Nat, page : SUBSET Nat,
                chosen : Nat, provider : Providers \cup {Quoting!None},
                type : {"save", "toAprove", "toUnits"}, named : BOOLEAN, todo : SUBSET Details]
Choices == [chosen : Nat, provider : Providers \cup {Quoting!None}]

\* What a request has read there was, and what it suggests or chooses it can.
Sound(q) ==
  /\ q.page \subseteq 1 .. Len(negotiations) /\ q.chosen <= Len(negotiations)
  /\ q.chosen # 0 => q.provider \in Providers
  /\ q.pc = "save" /\ q.chosen # 0 =>
       q.chosen \in q.page /\ \A k \in DOMAIN q.sent : ~q.sent[k].suggested
  /\ q.pc = "choose" /\ q.named => Quoting!Acceptable(q.type, q.chosen)
  /\ q.pc \in {"import", "imported"} => q.sent # <<>>

StoredInv ==
  /\ negotiations \in Seq(Quoting!Negotiation)
  /\ details \in [Details -> Choices] /\ \A d \in Details : details[d].chosen <= Len(negotiations)
  /\ purchase \in {"InNegotiation", "CompletePurchase", "StylesUnitsPurchase"}
  /\ style \in {"Pending", "Cotizado", "Negotiated"}
  /\ crossed \in BOOLEAN /\ omitted \in BOOLEAN
QuotedInv == /\ StoredInv /\ work \in [Users -> QuotingWork]
             /\ \A u \in Users : Sound(work[u])

\* The negotiations that are there are those of the sheet.
Imported(sheet) ==
  /\ Cardinality(Quoting!Live) = Len(sheet)
  /\ \A k \in DOMAIN sheet : \E i \in Quoting!Live : negotiations[i] = Quoting!New(sheet[k])

\* What the one request at work has read is so still, and what it has written
\* stays.
Fresh(q) ==
  /\ q.pc \in {"save", "replace"} => q.read = Quoting!Live
  /\ q.pc = "save" => q.were = {i \in Quoting!Live : negotiations[i].suggested}
  /\ q.pc = "import" => Quoting!Live = {}
  /\ q.pc = "imported" => Imported(q.sent)
  /\ q.pc = "choose" =>
       /\ purchase = "InNegotiation"
       /\ q.named => \A d \in Details \ q.todo :
            details[d].chosen = q.chosen /\ details[d].provider = q.provider

Vendor == purchase # "InNegotiation" /\ ~omitted => Quoting!HasVendor

\* While no two requests have crossed.
UncrossedInv ==
  ~crossed => /\ \A u, v \in Quoting!Working : u = v
              /\ \A u \in Users : Fresh(work[u])
              /\ Vendor

QuotingInv ==
  /\ QuotedInv /\ UncrossedInv
  /\ Quoting!OneSuggested /\ Quoting!ImportedExactly /\ Quoting!VendorChosen

\* The sheets sent, one quotation suggested at most.
LEMMA SheetIs ==
  ASSUME NEW s \in Quoting!Sheets
  PROVE  /\ s \in Seq(Quoting!Entries)
         /\ \A i, j \in DOMAIN s : s[i].suggested /\ s[j].suggested => i = j
<1>1. s \in Quoting!SeqOf(Quoting!Entries, 2)
  BY DEF Quoting!Sheets
<1>2. PICK m \in 0 .. 2 : s \in [1 .. m -> Quoting!Entries]
  BY <1>1 DEF Quoting!SeqOf
<1>3. QED
  BY <1>2 DEF Quoting!Sheets

LEMMA EmptySheet == <<>> \in Quoting!Sheets
<1>1. <<>> \in [1 .. 0 -> Quoting!Entries]
  OBVIOUS
<1>2. <<>> \in Quoting!SeqOf(Quoting!Entries, 2)
  BY <1>1 DEF Quoting!SeqOf
<1>3. QED
  BY <1>2 DEF Quoting!Sheets

LEMMA RestingIsWork == Quoting!Resting \in QuotingWork
  BY EmptySheet DEF QuotingWork, Quoting!Resting

LEMMA NewOnesAre ==
  ASSUME NEW s \in Quoting!Sheets
  PROVE  /\ Quoting!NewOnes(s) \in Seq(Quoting!Negotiation) /\ Len(Quoting!NewOnes(s)) = Len(s)
         /\ \A k \in 1 .. Len(s) : Quoting!NewOnes(s)[k] = Quoting!New(s[k])
<1>1. s \in Seq(Quoting!Entries)
  BY SheetIs
<1>2. \A k \in 1 .. Len(s) : Quoting!New(s[k]) \in Quoting!Negotiation
  <2>1. ASSUME NEW e \in Quoting!Entries PROVE Quoting!New(e) \in Quoting!Negotiation
    BY DEF Quoting!New, Quoting!Negotiation, Quoting!Entries
  <2>2. \A k \in 1 .. Len(s) : s[k] \in Quoting!Entries
    BY <1>1
  <2>3. QED
    BY <2>1, <2>2
<1>3. QED
  BY <1>1, <1>2 DEF Quoting!NewOnes

LEMMA RestingIsFine ==
  ASSUME Len(negotiations) \in Nat
  PROVE  Sound(Quoting!Resting) /\ Fresh(Quoting!Resting)
  BY DEF Sound, Fresh, Quoting!Resting

LEMMA QuotingBegins ==
  ASSUME PartsAssumption, Quoting!NegotiationsInit
  PROVE  QuotingInv
<1>1. negotiations \in Seq(Quoting!Negotiation) /\ Len(negotiations) <= 1
  <2>1. CASE negotiations = <<>>
    BY <2>1
  <2>2. CASE \E p \in {CHOOSE q \in Providers : TRUE} :
               negotiations = <<[provider |-> p, suggested |-> TRUE, live |-> TRUE]>>
    <3>1. PICK p \in Providers :
            negotiations = <<[provider |-> p, suggested |-> TRUE, live |-> TRUE]>>
      BY <2>2 DEF PartsAssumption, Quoting!ProvidersAssumption
    <3>2. [provider |-> p, suggested |-> TRUE, live |-> TRUE] \in Quoting!Negotiation
      BY <3>1 DEF Quoting!Negotiation
    <3>3. QED
      BY <3>1, <3>2
  <2>3. QED
    BY <2>1, <2>2 DEF Quoting!NegotiationsInit
<1>2. /\ details \in [Details -> Choices]
      /\ \A d \in Details : details[d].chosen <= Len(negotiations)
  <2>1. CASE /\ negotiations = <<>>
             /\ details = [d \in Details |-> [chosen |-> 0, provider |-> Quoting!None]]
    BY <2>1 DEF Choices
  <2>2. CASE \E p \in {CHOOSE q \in Providers : TRUE}, choice \in {0, 1} :
               /\ negotiations = <<[provider |-> p, suggested |-> TRUE, live |-> TRUE]>>
               /\ details = [d \in Details |->
                    [chosen |-> choice,
                     provider |-> IF choice = 0 THEN Quoting!None ELSE p]]
    <3>1. (CHOOSE q \in Providers : TRUE) \in Providers
      BY DEF PartsAssumption, Quoting!ProvidersAssumption
    <3>2. PICK p \in {CHOOSE q \in Providers : TRUE}, choice \in {0, 1} :
            /\ negotiations = <<[provider |-> p, suggested |-> TRUE, live |-> TRUE]>>
            /\ details = [d \in Details |->
                 [chosen |-> choice, provider |-> IF choice = 0 THEN Quoting!None ELSE p]]
      BY <2>2
    <3>3. p \in Providers
      BY <3>1
    <3>4. Len(negotiations) = 1
      BY <3>2
    <3>5. QED
      BY <3>2, <3>3, <3>4 DEF Choices
  <2>3. QED
    BY <2>1, <2>2 DEF Quoting!NegotiationsInit
<1>3. \A u \in Users : work[u] = Quoting!Resting
  BY DEF Quoting!NegotiationsInit
<1>4. work \in [Users -> QuotingWork]
  BY RestingIsWork DEF Quoting!NegotiationsInit
<1>5. QuotedInv
  BY <1>1, <1>2, <1>3, <1>4, RestingIsFine DEF QuotedInv, StoredInv, Quoting!NegotiationsInit
<1>6. \A u \in Users : work[u].pc = "idle"
  BY <1>3 DEF Quoting!Resting
<1>7. Vendor
  BY DEF Vendor, Quoting!NegotiationsInit
<1>8. UncrossedInv
  BY <1>1, <1>3, <1>6, <1>7, RestingIsFine DEF UncrossedInv, Quoting!Working
<1>9. Quoting!OneSuggested
  BY <1>1 DEF Quoting!OneSuggested, Quoting!Live
<1>10. Quoting!ImportedExactly /\ Quoting!VendorChosen
  BY <1>7 DEF Quoting!ImportedExactly, Quoting!VendorChosen, Vendor, Quoting!NegotiationsInit
<1>11. QED
  BY <1>5, <1>8, <1>9, <1>10 DEF QuotingInv

\* The requests that do not take a step keep what is sound of them.
LEMMA RestStay ==
  ASSUME QuotedInv, StoredInv', NEW u \in Users, NEW q \in QuotingWork,
         work' = [work EXCEPT ![u] = q], Sound(q)', Len(negotiations') >= Len(negotiations)
  PROVE  QuotedInv'
<1>1. work' \in [Users -> QuotingWork]
  BY DEF QuotedInv
<1>2. work'[u] = q /\ \A v \in Users \ {u} : work'[v] = work[v]
  BY DEF QuotedInv
<1>3. ASSUME NEW v \in Users PROVE Sound(work[v])'
  <2>1. CASE v = u
    BY <1>2, <2>1 DEF Sound
  <2>2. CASE v # u
    <3>1. Len(negotiations) \in Nat /\ Len(negotiations') \in Nat
      BY DEF QuotedInv, StoredInv
    <3>2. work'[v] = work[v] /\ work[v] \in QuotingWork /\ Sound(work[v])
      BY <1>2, <2>2 DEF QuotedInv
    <3>3. work[v].chosen \in Nat /\ work[v].page \subseteq 1 .. Len(negotiations)
      BY <3>2 DEF QuotingWork, Sound
    <3>4. work[v].page \subseteq 1 .. Len(negotiations') /\ work[v].chosen <= Len(negotiations')
      BY <3>1, <3>2, <3>3 DEF Sound
    <3>5. QED
      BY <3>2, <3>4 DEF Sound
  <2>3. QED
    BY <2>1, <2>2
<1>4. QED
  BY <1>1, <1>3 DEF QuotedInv

\* A request at work goes on: no other works, and no answer is given yet.
LEMMA WorkGoes ==
  ASSUME QuotingInv, NEW u \in Users, NEW q \in QuotingWork, work' = [work EXCEPT ![u] = q],
         Sound(q)', StoredInv', Len(negotiations') >= Len(negotiations),
         work[u].pc # "idle", q.pc # "idle", crossed' = crossed,
         ~crossed => Fresh(q)' /\ Vendor', Quoting!OneSuggested'
  PROVE  QuotingInv'
<1>1. QuotedInv'
  BY RestStay DEF QuotingInv
<1>2. work'[u] = q /\ \A v \in Users \ {u} : work'[v] = work[v]
  BY DEF QuotingInv, QuotedInv
<1>3. u \in Quoting!Working'
  BY <1>2 DEF Quoting!Working
<1>4. Quoting!ImportedExactly' /\ Quoting!VendorChosen'
  BY <1>3 DEF Quoting!ImportedExactly, Quoting!VendorChosen, Quoting!AllQuiet
<1>5. ASSUME ~crossed' PROVE \A v \in Users \ {u} : work[v].pc = "idle"
  BY <1>5 DEF QuotingInv, UncrossedInv, Quoting!Working
<1>6. UncrossedInv'
  <2> SUFFICES ASSUME ~crossed' PROVE UncrossedInv'
    BY DEF UncrossedInv
  <2>1. \A v, w \in Quoting!Working' : v = w
    BY <1>2, <1>5 DEF Quoting!Working
  <2>2. \A v \in Users : Fresh(work[v])'
    BY <1>2, <1>5 DEF Fresh
  <2>3. QED
    BY <2>1, <2>2 DEF UncrossedInv
<1>7. QED
  BY <1>1, <1>4, <1>6 DEF QuotingInv

\* A request ends, with its answer.
LEMMA WorkEnds ==
  ASSUME QuotingInv, NEW u \in Users, NEW op, Quoting!Finish(u, op), work[u].pc # "idle",
         NEW sent, sent = work[u].sent, StoredInv', Len(negotiations') >= Len(negotiations),
         ~crossed => Vendor', Quoting!OneSuggested',
         ~crossed /\ op = "imported" => Imported(sent)' /\ (sent # <<>> => style' = "Cotizado"),
         ~crossed /\ op = "chosen" => \A d \in Details : details'[d].chosen = work[u].chosen
  PROVE  QuotingInv'
<1>1. Sound(Quoting!Resting)' /\ Fresh(Quoting!Resting)'
  BY DEF StoredInv, Sound, Fresh, Quoting!Resting
<1>2. work' = [work EXCEPT ![u] = Quoting!Resting] /\ crossed' = crossed
  BY DEF Quoting!Finish
<1>3. QuotedInv'
  BY <1>1, <1>2, RestStay, RestingIsWork DEF QuotingInv
<1>4. work'[u] = Quoting!Resting /\ \A v \in Users \ {u} : work'[v] = work[v]
  BY <1>2 DEF QuotingInv, QuotedInv
<1>5. ASSUME ~crossed PROVE \A v \in Users \ {u} : work[v].pc = "idle"
  BY <1>5 DEF QuotingInv, UncrossedInv, Quoting!Working
<1>6. ASSUME ~crossed PROVE Quoting!Working' = {}
  BY <1>4, <1>5, <1>6 DEF Quoting!Working, Quoting!Resting
<1>7. UncrossedInv'
  <2> SUFFICES ASSUME ~crossed' PROVE UncrossedInv'
    BY DEF UncrossedInv
  <2>1. \A v \in Users : Fresh(work[v])'
    BY <1>1, <1>2, <1>4, <1>5 DEF Fresh
  <2>2. QED
    BY <1>2, <1>6, <2>1 DEF UncrossedInv
<1>8. ASSUME ~crossed PROVE final' = [op |-> op, sent |-> sent, chosen |-> work[u].chosen]
  BY <1>8 DEF Quoting!Finish
<1>9. Quoting!ImportedExactly'
  <2>1. \A S : Quoting!Cardinality(S) = Cardinality(S)
    BY DEF Quoting!Cardinality, Cardinality
  <2>2. ASSUME Quoting!AllQuiet', final'.op = "imported"
        PROVE  op = "imported" /\ final'.sent = sent /\ ~crossed
    BY <1>2, <1>8, <2>2 DEF Quoting!AllQuiet
  <2>3. ASSUME Quoting!AllQuiet', final'.op = "imported"
        PROVE  Imported(sent)' /\ (sent # <<>> => style' = "Cotizado")
    BY <2>2, <2>3
  <2>4. QED
    BY <2>1, <2>2, <2>3 DEF Quoting!ImportedExactly, Imported
<1>10. Quoting!VendorChosen'
  BY <1>2, <1>8 DEF Quoting!VendorChosen, Quoting!AllQuiet, Vendor
<1>11. QED
  BY <1>3, <1>7, <1>9, <1>10 DEF QuotingInv

\* A request begins; alone, it has read what there is.
LEMMA WorkStarts ==
  ASSUME QuotingInv, NEW u \in Users, NEW q \in QuotingWork, Quoting!Start(u, q),
         q.pc # "idle", Sound(q), Quoting!Working = {} /\ ~crossed => Fresh(q)
  PROVE  QuotingInv'
<1> USE DEF Quoting!Start
<1>1. StoredInv'
  BY DEF QuotingInv, QuotedInv, StoredInv
<1>2. QuotedInv'
  <2>1. Sound(q)' /\ Len(negotiations') >= Len(negotiations)
    BY DEF Sound, QuotingInv, QuotedInv, StoredInv
  <2>2. QED
    BY <1>1, <2>1, RestStay DEF QuotingInv
<1>3. work'[u] = q /\ \A v \in Users \ {u} : work'[v] = work[v]
  BY DEF QuotingInv, QuotedInv
<1>4. u \in Quoting!Working'
  BY <1>3 DEF Quoting!Working
<1>5. Quoting!ImportedExactly' /\ Quoting!VendorChosen'
  BY <1>4 DEF Quoting!ImportedExactly, Quoting!VendorChosen, Quoting!AllQuiet
<1>6. UncrossedInv'
  <2> SUFFICES ASSUME ~crossed' PROVE UncrossedInv'
    BY DEF UncrossedInv
  <2>1. ~crossed /\ Quoting!Working = {}
    BY DEF QuotingInv, QuotedInv, StoredInv
  <2>2. \A v \in Users : work[v].pc = "idle"
    BY <2>1 DEF Quoting!Working
  <2>3. \A v, w \in Quoting!Working' : v = w
    BY <1>3, <2>2 DEF Quoting!Working
  <2>4. Fresh(q)'
    BY <2>1 DEF Fresh, Imported, Quoting!Live
  <2>5. \A v \in Users : Fresh(work[v])'
    BY <1>3, <2>2, <2>4 DEF Fresh
  <2>6. Vendor'
    BY <2>1 DEF QuotingInv, UncrossedInv, Vendor, Quoting!HasVendor
  <2>7. QED
    BY <2>3, <2>5, <2>6 DEF UncrossedInv
<1>7. Quoting!OneSuggested'
  BY DEF QuotingInv, QuotedInv, StoredInv, Quoting!OneSuggested, Quoting!Live
<1>8. QED
  BY <1>2, <1>5, <1>6, <1>7 DEF QuotingInv

LEMMA SaveStartKeeps ==
  ASSUME QuotingInv, NEW u \in Users, Quoting!SaveStart(u)
  PROVE  QuotingInv'
<1>1. PICK page \in Quoting!Pages, added \in {s \in Quoting!Sheets : Len(s) <= 1} :
        \E suggest \in page \cup {0} :
          \E provider \in IF suggest = 0 THEN {Quoting!None} ELSE Providers :
            /\ (suggest # 0) => (\A i \in DOMAIN added : ~added[i].suggested)
            /\ Quoting!Start(u, [Quoting!Resting EXCEPT !.pc = "save", !.read = Quoting!Live,
                 !.sent = added, !.were = {i \in Quoting!Live : negotiations[i].suggested},
                 !.page = page, !.chosen = suggest, !.provider = provider])
  BY DEF Quoting!SaveStart
<1>2. PICK suggest \in page \cup {0} :
        \E provider \in IF suggest = 0 THEN {Quoting!None} ELSE Providers :
            /\ (suggest # 0) => (\A i \in DOMAIN added : ~added[i].suggested)
            /\ Quoting!Start(u, [Quoting!Resting EXCEPT !.pc = "save", !.read = Quoting!Live,
                 !.sent = added, !.were = {i \in Quoting!Live : negotiations[i].suggested},
                 !.page = page, !.chosen = suggest, !.provider = provider])
  BY <1>1
<1>3. PICK provider \in IF suggest = 0 THEN {Quoting!None} ELSE Providers :
            /\ (suggest # 0) => (\A i \in DOMAIN added : ~added[i].suggested)
            /\ Quoting!Start(u, [Quoting!Resting EXCEPT !.pc = "save", !.read = Quoting!Live,
                 !.sent = added, !.were = {i \in Quoting!Live : negotiations[i].suggested},
                 !.page = page, !.chosen = suggest, !.provider = provider])
  BY <1>2
<1> DEFINE were == {i \in Quoting!Live : negotiations[i].suggested}
           q == [Quoting!Resting EXCEPT !.pc = "save", !.read = Quoting!Live, !.sent = added,
                   !.were = were, !.page = page, !.chosen = suggest, !.provider = provider]
<1>4. negotiations \in Seq(Quoting!Negotiation)
  BY DEF QuotingInv, QuotedInv, StoredInv
<1>5. Quoting!Live \subseteq 1 .. Len(negotiations) /\ page \subseteq 1 .. Len(negotiations)
  BY <1>4 DEF Quoting!Live, Quoting!Pages
<1>6. Quoting!Live \in SUBSET Nat /\ were \in SUBSET Nat /\ page \in SUBSET Nat
  <2>1. 1 .. Len(negotiations) \subseteq Nat
    BY <1>4
  <2>2. were \subseteq Quoting!Live
    OBVIOUS
  <2>3. QED
    BY <1>5, <2>1, <2>2
<1>7. suggest \in Nat /\ suggest <= Len(negotiations)
  BY <1>4, <1>5
<1>8. provider \in Providers \cup {Quoting!None} /\ (suggest # 0 => provider \in Providers)
  OBVIOUS
<1> HIDE DEF were
<1>9. q \in QuotingWork
  BY <1>6, <1>7, <1>8, RestingIsWork DEF QuotingWork
<1>10. /\ q.pc = "save" /\ q.read = Quoting!Live /\ q.were = were /\ q.page = page
      /\ q.chosen = suggest /\ q.provider = provider /\ q.sent = added
  BY DEF Quoting!Resting
<1>11. Quoting!Start(u, q)
  BY <1>3 DEF were
<1> HIDE DEF q
<1>12. Sound(q)
  BY <1>3, <1>5, <1>7, <1>8, <1>10 DEF Sound
<1>13. Fresh(q)
  BY <1>10 DEF Fresh, were
<1>14. QED
  BY <1>9, <1>10, <1>11, <1>12, <1>13, WorkStarts

LEMMA ImportStartKeeps ==
  ASSUME QuotingInv, NEW u \in Users, Quoting!ImportStart(u)
  PROVE  QuotingInv'
<1>1. PICK sheet \in Quoting!Sheets :
        Quoting!Start(u, [Quoting!Resting EXCEPT !.pc = "replace", !.sent = sheet,
                                                 !.read = Quoting!Live])
  BY DEF Quoting!ImportStart
<1> DEFINE q == [Quoting!Resting EXCEPT !.pc = "replace", !.sent = sheet, !.read = Quoting!Live]
<1>2. negotiations \in Seq(Quoting!Negotiation)
  BY DEF QuotingInv, QuotedInv, StoredInv
<1>3. Quoting!Live \in SUBSET Nat
  BY <1>2 DEF Quoting!Live
<1>4. q \in QuotingWork
  BY <1>3, RestingIsWork DEF QuotingWork
<1>5. q.pc = "replace" /\ q.read = Quoting!Live /\ q.page = {} /\ q.chosen = 0
  BY DEF Quoting!Resting
<1>6. Quoting!Start(u, q)
  BY <1>1
<1> HIDE DEF q
<1>7. Sound(q) /\ Fresh(q)
  BY <1>2, <1>5 DEF Sound, Fresh
<1>8. QED
  BY <1>4, <1>5, <1>6, <1>7, WorkStarts

LEMMA ChooseStartKeeps ==
  ASSUME QuotingInv, NEW u \in Users, Quoting!ChooseStart(u)
  PROVE  QuotingInv'
<1>1. PICK chosen \in 0 .. Len(negotiations), type \in {"save", "toAprove", "toUnits"} :
        /\ purchase = "InNegotiation" /\ Quoting!Acceptable(type, chosen)
        /\ Quoting!Start(u, [Quoting!Resting EXCEPT !.pc = "choose", !.chosen = chosen,
             !.type = type, !.named = TRUE, !.todo = Details,
             !.provider = IF chosen = 0 THEN Quoting!None ELSE negotiations[chosen].provider])
  BY DEF Quoting!ChooseStart
<1> DEFINE provider == IF chosen = 0 THEN Quoting!None ELSE negotiations[chosen].provider
           q == [Quoting!Resting EXCEPT !.pc = "choose", !.chosen = chosen, !.type = type,
                   !.named = TRUE, !.todo = Details, !.provider = provider]
<1>2. negotiations \in Seq(Quoting!Negotiation)
  BY DEF QuotingInv, QuotedInv, StoredInv
<1>3. provider \in Providers \cup {Quoting!None} /\ (chosen # 0 => provider \in Providers)
  <2>1. chosen # 0 => negotiations[chosen] \in Quoting!Negotiation
    BY <1>2
  <2>2. QED
    BY <2>1 DEF Quoting!Negotiation
<1>4. Quoting!Start(u, q)
  BY <1>1
<1> HIDE DEF provider
<1>5. chosen \in Nat /\ chosen <= Len(negotiations)
  BY <1>2
<1>6. q \in QuotingWork
  BY <1>3, <1>5, RestingIsWork DEF QuotingWork
<1>7. /\ q.pc = "choose" /\ q.page = {} /\ q.chosen = chosen /\ q.type = type
      /\ q.todo = Details /\ q.provider = provider
  BY DEF Quoting!Resting
<1> HIDE DEF q
<1>8. Sound(q) /\ Fresh(q)
  BY <1>1, <1>3, <1>5, <1>7 DEF Sound, Fresh
<1>9. QED
  BY <1>4, <1>6, <1>7, <1>8, WorkStarts

LEMMA ChooseOthersKeeps ==
  ASSUME QuotingInv, NEW u \in Users, Quoting!ChooseOthers(u)
  PROVE  QuotingInv'
<1>1. PICK type \in {"save", "toAprove", "toUnits"} :
        /\ purchase = "InNegotiation"
        /\ Quoting!Start(u, [Quoting!Resting EXCEPT !.pc = "choose", !.type = type])
  BY DEF Quoting!ChooseOthers
<1> DEFINE q == [Quoting!Resting EXCEPT !.pc = "choose", !.type = type]
<1>2. q \in QuotingWork
  BY RestingIsWork DEF QuotingWork
<1>3. q.pc = "choose" /\ q.page = {} /\ q.chosen = 0 /\ q.named = FALSE
  BY DEF Quoting!Resting
<1>4. Quoting!Start(u, q)
  BY <1>1
<1> HIDE DEF q
<1>5. Sound(q) /\ Fresh(q)
  BY <1>1, <1>3 DEF Sound, Fresh, QuotingInv, QuotedInv, StoredInv
<1>6. QED
  BY <1>2, <1>3, <1>4, <1>5, WorkStarts

LEMMA QuotedKeeps ==
  ASSUME QuotingInv, NEW u \in Users, Quoting!Quoted(u)
  PROVE  QuotingInv'
<1> USE DEF Quoting!Quoted
<1>1. StoredInv'
  BY DEF QuotingInv, QuotedInv, StoredInv, Quoting!Finish
<1>2. Len(negotiations') >= Len(negotiations)
  BY DEF QuotingInv, QuotedInv, StoredInv
<1>3. Quoting!OneSuggested' /\ (~crossed => Vendor')
  BY DEF QuotingInv, UncrossedInv, Vendor, Quoting!HasVendor, Quoting!OneSuggested, Quoting!Live, Quoting!Finish
<1>4. QED
  BY <1>1, <1>2, <1>3, WorkEnds

LEMMA ImportQuotedKeeps ==
  ASSUME QuotingInv, NEW u \in Users, Quoting!ImportQuoted(u)
  PROVE  QuotingInv'
<1> USE DEF Quoting!ImportQuoted
<1>1. StoredInv'
  BY DEF QuotingInv, QuotedInv, StoredInv, Quoting!Finish
<1>2. Len(negotiations') >= Len(negotiations)
  BY DEF QuotingInv, QuotedInv, StoredInv
<1>3. Quoting!OneSuggested' /\ (~crossed => Vendor')
  BY DEF QuotingInv, UncrossedInv, Vendor, Quoting!HasVendor, Quoting!OneSuggested, Quoting!Live, Quoting!Finish
<1>4. PICK sent : sent = work[u].sent
  OBVIOUS
<1>5. Quoting!Live' = Quoting!Live
  BY DEF Quoting!Live
<1>6. ~crossed => Imported(sent)'
  BY <1>4, <1>5 DEF QuotingInv, UncrossedInv, Fresh, Imported
<1>7. QED
  BY <1>1, <1>2, <1>3, <1>4, <1>6, WorkEnds

LEMMA FailsKeeps ==
  ASSUME QuotingInv, NEW u \in Users, Quoting!Fails(u)
  PROVE  QuotingInv'
<1> USE DEF Quoting!Fails
<1>1. StoredInv'
  BY DEF QuotingInv, QuotedInv, StoredInv, Quoting!Finish
<1>2. Len(negotiations') >= Len(negotiations)
  BY DEF QuotingInv, QuotedInv, StoredInv
<1>3. Quoting!OneSuggested' /\ (~crossed => Vendor')
  BY DEF QuotingInv, UncrossedInv, Vendor, Quoting!HasVendor, Quoting!OneSuggested, Quoting!Live, Quoting!Finish
<1>4. QED
  BY <1>1, <1>2, <1>3, WorkEnds

LEMMA UpdateStatusKeeps ==
  ASSUME QuotingInv, NEW u \in Users, Quoting!UpdateStatus(u)
  PROVE  QuotingInv'
<1> USE DEF Quoting!UpdateStatus
<1>1. StoredInv'
  BY DEF QuotingInv, QuotedInv, StoredInv
<1>2. QuotedInv'
  BY <1>1 DEF QuotingInv, QuotedInv, Sound
<1>3. Quoting!Working' = Quoting!Working /\ Quoting!Live' = Quoting!Live
  BY DEF Quoting!Working, Quoting!Live
<1>4. ~crossed' => ~crossed
  BY DEF QuotingInv, QuotedInv, StoredInv
<1>5. UncrossedInv'
  <2> SUFFICES ASSUME ~crossed' PROVE UncrossedInv'
    BY DEF UncrossedInv
  <2>1. \A v \in Users : Fresh(work[v])'
    BY <1>3, <1>4 DEF QuotingInv, UncrossedInv, Fresh, Imported
  <2>2. QED
    BY <1>3, <1>4, <2>1 DEF QuotingInv, UncrossedInv, Vendor, Quoting!HasVendor
<1>6. Quoting!OneSuggested'
  BY <1>3, <1>4 DEF QuotingInv, Quoting!OneSuggested
<1>7. Quoting!ImportedExactly' /\ Quoting!VendorChosen'
  BY <1>5 DEF UncrossedInv, Vendor, Quoting!ImportedExactly, Quoting!VendorChosen,
              Quoting!AllQuiet
<1>8. QED
  BY <1>2, <1>5, <1>6, <1>7 DEF QuotingInv

LEMMA ChooseDetailKeeps ==
  ASSUME QuotingInv, NEW u \in Users, NEW d \in Details, Quoting!ChooseDetail(u, d)
  PROVE  QuotingInv'
<1> USE DEF Quoting!ChooseDetail
<1>1. PICK q : q = [work[u] EXCEPT !.todo = @ \ {d}]
  OBVIOUS
<1>2. work[u] \in QuotingWork /\ Sound(work[u]) /\ work[u].pc = "choose"
  BY DEF QuotingInv, QuotedInv
<1>3. /\ q \in QuotingWork /\ q.pc = "choose" /\ q.chosen = work[u].chosen
      /\ q.named = work[u].named /\ q.provider = work[u].provider /\ q.page = work[u].page /\ q.type = work[u].type
      /\ q.todo = work[u].todo \ {d} /\ work' = [work EXCEPT ![u] = q]
  BY <1>2, <1>1 DEF QuotingWork
<1>4. Sound(q)'
  BY <1>2, <1>3 DEF Sound, Quoting!Acceptable
<1>5. StoredInv' /\ Len(negotiations') >= Len(negotiations)
  <2>1. [chosen |-> work[u].chosen, provider |-> work[u].provider] \in Choices
    BY <1>2 DEF QuotingWork, Choices
  <2>2. QED
    BY <1>2, <2>1 DEF QuotingInv, QuotedInv, StoredInv, Sound
<1>6. Quoting!OneSuggested'
  BY DEF QuotingInv, Quoting!OneSuggested, Quoting!Live
<1>7. ~crossed => Vendor' /\ Fresh(q)'
  <2> SUFFICES ASSUME ~crossed PROVE Vendor' /\ Fresh(q)'
    OBVIOUS
  <2>1. Fresh(work[u])
    BY DEF QuotingInv, UncrossedInv
  <2>2. purchase = "InNegotiation"
    BY <1>2, <2>1 DEF Fresh
  <2>3. q.named => \A e \in Details \ q.todo :
          details'[e].chosen = q.chosen /\ details'[e].provider = q.provider
    BY <1>2, <1>3, <2>1 DEF Fresh, QuotingInv, QuotedInv, StoredInv
  <2>4. QED
    BY <1>3, <2>2, <2>3 DEF Fresh, Vendor
<1>8. QED
  BY <1>2, <1>3, <1>4, <1>5, <1>6, <1>7, WorkGoes

LEMMA ChooseEndKeeps ==
  ASSUME QuotingInv, NEW u \in Users, PartsAssumption, Quoting!ChooseEnd(u)
  PROVE  QuotingInv'
<1> USE DEF Quoting!ChooseEnd
<1>1. work[u] \in QuotingWork /\ Sound(work[u]) /\ work[u].pc = "choose" /\ work[u].todo = {}
  BY DEF QuotingInv, QuotedInv
<1>2. StoredInv' /\ Len(negotiations') >= Len(negotiations)
  <2>1. omitted' \in BOOLEAN
    OBVIOUS
  <2>2. purchase' \in {"InNegotiation", "CompletePurchase", "StylesUnitsPurchase"}
    BY <1>1 DEF QuotingInv, QuotedInv, StoredInv, QuotingWork
  <2>3. UNCHANGED <<negotiations, details, style, crossed>>
    BY DEF Quoting!Finish
  <2> HIDE DEF Quoting!ChooseEnd
  <2>4. StoredInv /\ Len(negotiations) \in Nat
    <3>1. StoredInv
      BY DEF QuotingInv, QuotedInv
    <3>2. QED
      BY <3>1 DEF StoredInv
  <2>5. QED
    BY <2>1, <2>2, <2>3, <2>4 DEF StoredInv
<1>3. Quoting!OneSuggested'
  BY DEF QuotingInv, Quoting!OneSuggested, Quoting!Live, Quoting!Finish
<1>4. ASSUME ~crossed
      PROVE  /\ purchase = "InNegotiation"
             /\ work[u].named =>
                  \A d \in Details : /\ details[d].chosen = work[u].chosen
                                     /\ details[d].provider = work[u].provider
  BY <1>1, <1>4 DEF QuotingInv, UncrossedInv, Fresh
<1>5. ASSUME ~crossed PROVE Vendor'
  <2>1. CASE work[u].type = "save"
    BY <1>4, <1>5, <2>1 DEF Vendor
  <2>2. CASE work[u].type # "save" /\ ~work[u].named
    <3>1. omitted'
      BY <2>2
    <3>2. QED
      BY <3>1 DEF Vendor
  <2>3. CASE work[u].type # "save" /\ work[u].named
    <3>1. work[u].chosen # 0
      BY <1>1, <2>3 DEF Sound, Quoting!Acceptable
    <3>2. work[u].provider \in Providers /\ work[u].provider # Quoting!None
      BY <1>1, <3>1 DEF Sound, PartsAssumption, Quoting!ProvidersAssumption
    <3>3. QED
      BY <1>4, <1>5, <2>3, <3>1, <3>2 DEF Vendor, Quoting!HasVendor
  <2>4. QED
    BY <1>1, <2>1, <2>2, <2>3 DEF QuotingWork
<1>6. ASSUME ~crossed, work[u].named
      PROVE  \A d \in Details : details'[d].chosen = work[u].chosen
  BY <1>4, <1>6
<1>7. PICK op : op = IF work[u].named THEN "chosen" ELSE "passed over"
  OBVIOUS
<1>8. Quoting!Finish(u, op) /\ op # "imported" /\ (op = "chosen" => work[u].named)
  BY <1>7
<1>9. ~crossed /\ op = "chosen" => \A d \in Details : details'[d].chosen = work[u].chosen
  BY <1>6, <1>8
<1>10. PICK sent : sent = work[u].sent
  OBVIOUS
<1>11. work[u].pc # "idle" /\ op # "imported"
  BY <1>1, <1>8
<1>12. QED
  BY <1>2, <1>3, <1>5, <1>8, <1>9, <1>10, <1>11, WorkEnds

LEMMA ListOf ==
  ASSUME NEW S, NEW n \in Nat, NEW f \in [1 .. n -> S]
  PROVE  f \in Seq(S) /\ Len(f) = n /\ \A i \in 1 .. n : f[i] \in S
  OBVIOUS

\* One sequence after another, and the numbers the second then has.
LEMMA AfterOne ==
  ASSUME NEW S, NEW s \in Seq(S), NEW t \in Seq(S)
  PROVE  /\ s \o t \in Seq(S) /\ Len(s \o t) = Len(s) + Len(t)
         /\ \A i \in 1 .. Len(s) : (s \o t)[i] = s[i]
         /\ \A k \in 1 .. Len(t) : (s \o t)[Len(s) + k] = t[k]
  BY ConcatProperties

LEMMA AfterTwo ==
  ASSUME NEW S, NEW r \in Seq(S), NEW s \in Seq(S), NEW t \in Seq(S),
         NEW all, all = r \o s \o t
  PROVE  /\ all \in Seq(S) /\ Len(all) = Len(r) + Len(s) + Len(t)
         /\ \A i \in 1 .. Len(r) : all[i] = r[i]
         /\ \A k \in 1 .. Len(s) : all[Len(r) + k] = s[k]
         /\ \A k \in 1 .. Len(t) : all[Len(r) + Len(s) + k] = t[k]
<1>1. Len(r) \in Nat /\ Len(s) \in Nat /\ Len(t) \in Nat
  OBVIOUS
<1>2. PICK two \in Seq(S) : two = r \o s
  BY AfterOne
<1>3. /\ Len(two) = Len(r) + Len(s) /\ \A i \in 1 .. Len(r) : two[i] = r[i]
      /\ \A k \in 1 .. Len(s) : two[Len(r) + k] = s[k]
  BY <1>2, AfterOne
<1>4. all = two \o t
  BY <1>2
<1>5. /\ all \in Seq(S) /\ Len(all) = Len(two) + Len(t)
      /\ \A i \in 1 .. Len(two) : all[i] = two[i]
      /\ \A k \in 1 .. Len(t) : all[Len(two) + k] = t[k]
  BY <1>4, AfterOne
<1>6. ASSUME NEW i \in 1 .. Len(r) PROVE all[i] = r[i]
  BY <1>1, <1>3, <1>5
<1>7. ASSUME NEW k \in 1 .. Len(s) PROVE all[Len(r) + k] = s[k]
  BY <1>1, <1>3, <1>5
<1>8. QED
  BY <1>1, <1>3, <1>5, <1>6, <1>7

LEMMA NumbersAfter ==
  ASSUME NEW n \in Nat, NEW m \in Nat
  PROVE  /\ \A i \in n + 1 .. n + m : \E k \in 1 .. m : i = n + k
         /\ Cardinality(n + 1 .. n + m) = m
<1>1. ASSUME NEW i \in n + 1 .. n + m PROVE \E k \in 1 .. m : i = n + k
  <2>1. i - n \in 1 .. m /\ i = n + (i - n)
    OBVIOUS
  <2>2. QED
    BY <2>1
<1>2. Cardinality(n + 1 .. n + m) = IF n + 1 > n + m THEN 0 ELSE (n + m) - (n + 1) + 1
  BY FS_Interval
<1>3. QED
  BY <1>1, <1>2

LEMMA NewIs ==
  ASSUME NEW e
  PROVE  Quoting!New(e).live /\ Quoting!New(e).suggested = e.suggested
  BY DEF Quoting!New

LEMMA ImportInsertKeeps ==
  ASSUME QuotingInv, NEW u \in Users, Quoting!ImportInsert(u)
  PROVE  QuotingInv'
<1> USE DEF Quoting!ImportInsert, Quoting!Then
<1>1. work[u] \in QuotingWork /\ Sound(work[u]) /\ work[u].pc = "import"
  BY DEF QuotingInv, QuotedInv
<1>2. PICK q : q = [work[u] EXCEPT !.pc = "imported"]
  OBVIOUS
<1>3. /\ q \in QuotingWork /\ q.pc = "imported" /\ q.chosen = work[u].chosen
      /\ q.provider = work[u].provider /\ q.page = work[u].page /\ q.sent = work[u].sent
      /\ work' = [work EXCEPT ![u] = q]
  BY <1>1, <1>2 DEF QuotingWork
<1>4. q.sent \in Quoting!Sheets
  BY <1>3 DEF QuotingWork
<1> DEFINE new == Quoting!NewOnes(q.sent)
<1>5. /\ new \in Seq(Quoting!Negotiation) /\ Len(new) = Len(q.sent)
      /\ \A k \in 1 .. Len(q.sent) : new[k] = Quoting!New(q.sent[k])
      /\ q.sent \in Seq(Quoting!Entries)
  BY <1>4, NewOnesAre, SheetIs
<1>6. negotiations \in Seq(Quoting!Negotiation) /\ negotiations' = negotiations \o new
  BY <1>3 DEF QuotingInv, QuotedInv, StoredInv
<1> HIDE DEF new
<1>7. /\ negotiations' \in Seq(Quoting!Negotiation)
      /\ Len(negotiations') = Len(negotiations) + Len(q.sent)
      /\ \A i \in 1 .. Len(negotiations) : negotiations'[i] = negotiations[i]
      /\ \A k \in 1 .. Len(q.sent) :
           negotiations'[Len(negotiations) + k] = Quoting!New(q.sent[k])
  BY <1>5, <1>6, AfterOne
<1>8. Len(negotiations) \in Nat /\ Len(q.sent) \in Nat
  BY <1>5, <1>6
<1>9. StoredInv' /\ Len(negotiations') >= Len(negotiations)
  <2>1. details \in [Details -> Choices] /\ \A d \in Details : details[d].chosen <= Len(negotiations')
    BY <1>7, <1>8 DEF QuotingInv, QuotedInv, StoredInv, Choices
  <2>2. QED
    BY <1>7, <1>8, <2>1 DEF QuotingInv, QuotedInv, StoredInv
<1>10. Sound(q)'
  <2>1. q.page \subseteq 1 .. Len(negotiations') /\ q.chosen <= Len(negotiations')
    BY <1>1, <1>3, <1>7, <1>8 DEF Sound, QuotingWork
  <2>2. QED
    BY <1>1, <1>3, <2>1 DEF Sound
<1>11. ASSUME ~crossed
       PROVE  Quoting!Live' = Len(negotiations) + 1 .. Len(negotiations) + Len(q.sent)
  <2>1. \A i \in 1 .. Len(negotiations) : ~negotiations[i].live
    BY <1>1, <1>6, <1>11 DEF QuotingInv, UncrossedInv, Fresh, Quoting!Live
  <2>2. ASSUME NEW i
        PROVE  i \in Quoting!Live' <=> i \in Len(negotiations) + 1 .. Len(negotiations) + Len(q.sent)
    <3>1. i \in Quoting!Live' <=> i \in 1 .. Len(negotiations') /\ negotiations'[i].live
      BY <1>7 DEF Quoting!Live
    <3>2. CASE i \in 1 .. Len(negotiations)
      BY <1>7, <1>8, <2>1, <3>1, <3>2
    <3>3. CASE i \in Len(negotiations) + 1 .. Len(negotiations')
      <4>1. PICK k \in 1 .. Len(q.sent) : i = Len(negotiations) + k
        <5>1. i \in Len(negotiations) + 1 .. Len(negotiations) + Len(q.sent)
          BY <1>7, <3>3
        <5>2. QED
          BY <1>8, <5>1, NumbersAfter
      <4>2. negotiations'[i].live
        BY <1>7, <4>1, NewIs
      <4>3. QED
        BY <1>7, <1>8, <3>1, <3>3, <4>2
    <3>4. QED
      BY <1>7, <1>8, <3>1, <3>2, <3>3
  <2>3. QED
    BY <2>2
<1>12. Quoting!OneSuggested'
  <2> SUFFICES ASSUME ~crossed, NEW i \in Quoting!Live', NEW j \in Quoting!Live',
                      negotiations'[i].suggested, negotiations'[j].suggested
               PROVE  i = j
    BY DEF Quoting!OneSuggested
  <2> DEFINE a == i - Len(negotiations)
             b == j - Len(negotiations)
  <2>1. a \in 1 .. Len(q.sent) /\ b \in 1 .. Len(q.sent)
    BY <1>8, <1>11
  <2>2. i = Len(negotiations) + a /\ j = Len(negotiations) + b
    BY <1>8, <1>11
  <2> HIDE DEF a, b
  <2>3. q.sent[a].suggested /\ q.sent[b].suggested
    BY <1>7, <2>1, <2>2, NewIs
  <2>4. a = b
    BY <1>4, <1>5, <2>1, <2>3, SheetIs
  <2>5. QED
    BY <2>2, <2>4
<1>13. ASSUME ~crossed PROVE Fresh(q)' /\ Vendor'
  <2>1. Cardinality(Quoting!Live') = Len(q.sent)
    BY <1>8, <1>11, <1>13, NumbersAfter
  <2>2. ASSUME NEW k \in DOMAIN q.sent
        PROVE  \E i \in Quoting!Live' : negotiations'[i] = Quoting!New(q.sent[k])
    <3>1. k \in 1 .. Len(q.sent)
      BY <1>5
    <3>2. Len(negotiations) + k \in Quoting!Live'
      BY <1>8, <1>11, <1>13, <3>1
    <3>3. QED
      BY <1>7, <3>1, <3>2
  <2>3. Imported(q.sent)'
    BY <2>1, <2>2 DEF Imported
  <2>4. Vendor'
    BY <1>13 DEF QuotingInv, UncrossedInv, Vendor, Quoting!HasVendor
  <2>5. QED
    BY <1>3, <2>3, <2>4 DEF Fresh
<1>14. QED
  BY <1>1, <1>3, <1>9, <1>10, <1>12, <1>13, WorkGoes

LEMMA ImportDeleteKeeps ==
  ASSUME QuotingInv, NEW u \in Users, Quoting!ImportDelete(u)
  PROVE  QuotingInv'
<1>1. work[u] \in QuotingWork /\ Sound(work[u]) /\ work[u].pc = "replace"
  BY DEF QuotingInv, QuotedInv, Quoting!ImportDelete
<1>2. negotiations \in Seq(Quoting!Negotiation)
  BY DEF QuotingInv, QuotedInv, StoredInv
<1> DEFINE read == work[u].read
           stays == [i \in DOMAIN negotiations |-> negotiations[i].live /\ i \notin read]
<1>3. \A i \in DOMAIN negotiations : stays[i] \in BOOLEAN
  BY Zenon
<1>4. \A i \in DOMAIN negotiations : stays[i] <=> negotiations[i].live /\ i \notin read
  OBVIOUS
<1>5. negotiations' = [i \in DOMAIN negotiations |-> [negotiations[i] EXCEPT !.live = stays[i]]]
  BY DEF Quoting!ImportDelete, Quoting!Replaced
<1> HIDE DEF stays
<1>6. /\ negotiations' \in Seq(Quoting!Negotiation) /\ Len(negotiations') = Len(negotiations)
      /\ \A i \in DOMAIN negotiations :
           negotiations'[i].suggested = negotiations[i].suggested /\ negotiations'[i].live = stays[i]
  <2>1. ASSUME NEW n \in Quoting!Negotiation, NEW b \in BOOLEAN
        PROVE  /\ [n EXCEPT !.live = b] \in Quoting!Negotiation
               /\ [n EXCEPT !.live = b].suggested = n.suggested /\ [n EXCEPT !.live = b].live = b
    BY DEF Quoting!Negotiation
  <2>2. \A i \in DOMAIN negotiations :
          negotiations[i] \in Quoting!Negotiation /\ negotiations'[i] = [negotiations[i] EXCEPT !.live = stays[i]]
    BY <1>2, <1>5
  <2>3. ASSUME NEW i \in DOMAIN negotiations
        PROVE  /\ negotiations'[i] \in Quoting!Negotiation
               /\ negotiations'[i].suggested = negotiations[i].suggested
               /\ negotiations'[i].live = stays[i]
    <3>1. PICK b \in BOOLEAN : b = stays[i]
      BY <1>3, Zenon
    <3>2. negotiations'[i] = [negotiations[i] EXCEPT !.live = b] /\ negotiations[i] \in Quoting!Negotiation
      BY <2>2, <3>1
    <3>3. QED
      BY <2>1, <3>1, <3>2
  <2>4. DOMAIN negotiations' = 1 .. Len(negotiations) /\ Len(negotiations) \in Nat
    BY <1>2, <1>5
  <2>5. negotiations' = [i \in 1 .. Len(negotiations) |-> negotiations'[i]]
    BY <1>2, <1>5
  <2>6. QED
    BY <1>2, <2>3, <2>4, <2>5
<1>7. Quoting!Live' = Quoting!Live \ read
  BY <1>2, <1>4, <1>6 DEF Quoting!Live
<1>8. StoredInv' /\ Len(negotiations') >= Len(negotiations)
  BY <1>6 DEF QuotingInv, QuotedInv, StoredInv, Quoting!ImportDelete, Quoting!Finish, Quoting!Then
<1>9. UNCHANGED <<details, purchase, omitted, crossed>>
  BY DEF Quoting!ImportDelete, Quoting!Finish, Quoting!Then
<1>10. Quoting!OneSuggested' /\ (~crossed => Vendor')
  <2>1. Quoting!OneSuggested'
    BY <1>2, <1>6, <1>7, <1>9 DEF QuotingInv, Quoting!OneSuggested, Quoting!Live
  <2>2. QED
    BY <1>9, <2>1 DEF QuotingInv, UncrossedInv, Vendor, Quoting!HasVendor
<1>11. ~crossed => Quoting!Live' = {}
  BY <1>1, <1>7 DEF QuotingInv, UncrossedInv, Fresh
<1>12. CASE work[u].sent = <<>>
  <2>1. Quoting!Finish(u, "imported")
    BY <1>12 DEF Quoting!ImportDelete
  <2>2. ~crossed => Imported(<<>>)'
    <3>1. Cardinality({}) = 0
      BY FS_EmptySet
    <3>2. QED
      BY <1>11, <3>1 DEF Imported
  <2>3. QED
    BY <1>1, <1>8, <1>10, <1>12, <2>1, <2>2, WorkEnds
<1>13. CASE work[u].sent # <<>>
  <2>1. PICK q : q = [work[u] EXCEPT !.pc = "import"]
    OBVIOUS
  <2>2. /\ q \in QuotingWork /\ q.pc = "import" /\ q.chosen = work[u].chosen
        /\ q.provider = work[u].provider /\ q.page = work[u].page /\ q.sent = work[u].sent
    BY <1>1, <2>1 DEF QuotingWork
  <2>3. work' = [work EXCEPT ![u] = q]
    BY <1>13, <2>1 DEF Quoting!ImportDelete, Quoting!Then
  <2>4. Sound(q)'
    BY <1>1, <1>6, <1>13, <2>2 DEF Sound
  <2>5. ~crossed => Fresh(q)' /\ Vendor'
    BY <1>10, <1>11, <2>2 DEF Fresh
  <2>6. QED
    BY <1>1, <1>8, <1>9, <1>10, <2>2, <2>3, <2>4, <2>5, WorkGoes
<1>14. QED
  BY <1>12, <1>13

\* The numbers of a set one after another, each once.
LEMMA InOrder ==
  ASSUME NEW S, IsFiniteSet(S)
  PROVE  /\ Quoting!SetToSeq(S) \in Seq(S)
         /\ \A i, j \in DOMAIN Quoting!SetToSeq(S) :
              Quoting!SetToSeq(S)[i] = Quoting!SetToSeq(S)[j] => i = j
<1>1. Quoting!Cardinality(S) = Cardinality(S)
  BY DEF Quoting!Cardinality, Cardinality
<1>2. Cardinality(S) \in Nat /\ ExistsBijection(1 .. Cardinality(S), S)
  BY FS_CardinalityType
<1>3. PICK f \in [1 .. Cardinality(S) -> S] :
        \A a, b \in 1 .. Cardinality(S) : f[a] = f[b] => a = b
  BY <1>2 DEF ExistsBijection, Bijection, Injection, IsInjective
<1>4. Quoting!IsInjective(f)
  BY <1>3 DEF Quoting!IsInjective
<1>5. Quoting!SetToSeq(S) \in [1 .. Cardinality(S) -> S] /\ Quoting!IsInjective(Quoting!SetToSeq(S))
  BY <1>1, <1>3, <1>4 DEF Quoting!SetToSeq
<1>6. QED
  BY <1>2, <1>5 DEF Quoting!IsInjective

\* What is saved: the negotiations read, those of the page again, and the new.
SavedAll(q) ==
  [i \in DOMAIN negotiations |-> IF i \in q.read THEN Quoting!Saved(q, i) ELSE negotiations[i]]
  \o Quoting!Again(q) \o Quoting!NewOnes(q.sent)

SavedIs(q, gone, all) ==
  /\ gone \in Seq(q.page \ q.read) /\ \A i, j \in DOMAIN gone : gone[i] = gone[j] => i = j
  /\ all \in Seq(Quoting!Negotiation)
  /\ Len(all) = Len(negotiations) + Len(gone) + Len(q.sent)
  /\ \A i \in 1 .. Len(negotiations) :
       all[i] = IF i \in q.read THEN Quoting!Saved(q, i) ELSE negotiations[i]
  /\ \A k \in 1 .. Len(gone) : all[Len(negotiations) + k] = Quoting!Saved(q, gone[k])
  /\ \A k \in 1 .. Len(q.sent) :
       all[Len(negotiations) + Len(gone) + k] = Quoting!New(q.sent[k])

LEMMA SavedRows ==
  ASSUME QuotedInv, NEW u \in Users, work[u].pc = "save",
         NEW q, q = work[u], NEW gone, gone = Quoting!SetToSeq(q.page \ q.read),
         negotiations' = SavedAll(q)
  PROVE  SavedIs(q, gone, negotiations')
<1>1. negotiations \in Seq(Quoting!Negotiation) /\ q \in QuotingWork /\ Sound(q)
  BY DEF QuotedInv, StoredInv
<1>2. Len(negotiations) \in Nat /\ q.page \subseteq 1 .. Len(negotiations) /\ q.sent \in Quoting!Sheets
  BY <1>1 DEF Sound, QuotingWork
<1>3. gone \in Seq(q.page \ q.read) /\ \A i, j \in DOMAIN gone : gone[i] = gone[j] => i = j
  <2>1. IsFiniteSet(1 .. Len(negotiations))
    BY <1>2, FS_Interval
  <2>2. IsFiniteSet(q.page \ q.read)
    BY <1>2, <2>1, FS_Subset
  <2>3. QED
    BY <2>2, InOrder
<1>4. ASSUME NEW i \in 1 .. Len(negotiations) PROVE Quoting!Saved(q, i) \in Quoting!Negotiation
  <2>1. PICK b \in BOOLEAN : b = Quoting!SuggestedAfter(q, i)
    <3>1. Quoting!SuggestedAfter(q, i) \in BOOLEAN
      BY Zenon DEF Quoting!SuggestedAfter
    <3>2. QED
      BY <3>1
  <2>2. (IF i = q.chosen THEN q.provider ELSE negotiations[i].provider) \in Providers
    <3>1. negotiations[i] \in Quoting!Negotiation
      BY <1>1
    <3>2. i = q.chosen => q.provider \in Providers
      BY <1>1, <1>2 DEF Sound
    <3>3. QED
      BY <3>1, <3>2 DEF Quoting!Negotiation
  <2>3. QED
    BY <2>1, <2>2 DEF Quoting!Saved, Quoting!Negotiation
<1> DEFINE old == [i \in DOMAIN negotiations |->
                     IF i \in q.read THEN Quoting!Saved(q, i) ELSE negotiations[i]]
           again == Quoting!Again(q)
           new == Quoting!NewOnes(q.sent)
<1>5. /\ old \in Seq(Quoting!Negotiation) /\ Len(old) = Len(negotiations)
      /\ \A i \in 1 .. Len(negotiations) :
           old[i] = IF i \in q.read THEN Quoting!Saved(q, i) ELSE negotiations[i]
  <2>1. DOMAIN negotiations = 1 .. Len(negotiations)
    BY <1>1
  <2>2. ASSUME NEW i \in 1 .. Len(negotiations)
        PROVE  (IF i \in q.read THEN Quoting!Saved(q, i) ELSE negotiations[i]) \in Quoting!Negotiation
    BY <1>1, <1>4
  <2>3. QED
    BY <1>2, <2>1, <2>2
<1>6. /\ again \in Seq(Quoting!Negotiation) /\ Len(again) = Len(gone)
      /\ \A k \in 1 .. Len(gone) : again[k] = Quoting!Saved(q, gone[k])
  <2>1. ASSUME NEW k \in 1 .. Len(gone) PROVE gone[k] \in 1 .. Len(negotiations)
    <3>1. gone[k] \in q.page \ q.read
      BY <1>3
    <3>2. QED
      BY <1>2, <3>1
  <2>2. again = [k \in DOMAIN gone |-> Quoting!Saved(q, gone[k])]
    BY DEF Quoting!Again
  <2>3. \A k \in 1 .. Len(gone) : Quoting!Saved(q, gone[k]) \in Quoting!Negotiation
    BY <1>4, <2>1
  <2> HIDE DEF again
  <2>4. DOMAIN gone = 1 .. Len(gone) /\ Len(gone) \in Nat
    BY <1>3
  <2>5. again \in [1 .. Len(gone) -> Quoting!Negotiation]
    BY <2>2, <2>3, <2>4
  <2>6. \A k \in 1 .. Len(gone) : again[k] = Quoting!Saved(q, gone[k])
    BY <2>2, <2>4
  <2>7. PICK f : f = again
    OBVIOUS
  <2>8. PICK n \in Nat : n = Len(gone)
    BY <2>4
  <2>9. f \in [1 .. n -> Quoting!Negotiation]
    BY <2>5, <2>7, <2>8
  <2>10. f \in Seq(Quoting!Negotiation) /\ Len(f) = n
    BY <2>9, ListOf
  <2>11. QED
    BY <2>6, <2>7, <2>8, <2>10
<1>7. /\ new \in Seq(Quoting!Negotiation) /\ Len(new) = Len(q.sent)
      /\ \A k \in 1 .. Len(q.sent) : new[k] = Quoting!New(q.sent[k])
  BY <1>2, NewOnesAre
<1>8. negotiations' = old \o again \o new
  BY DEF SavedAll
<1> HIDE DEF old, again, new
<1>9. PICK all : all = negotiations'
  OBVIOUS
<1>10. /\ all \in Seq(Quoting!Negotiation) /\ Len(all) = Len(old) + Len(again) + Len(new)
       /\ \A i \in 1 .. Len(old) : all[i] = old[i]
       /\ \A k \in 1 .. Len(again) : all[Len(old) + k] = again[k]
       /\ \A k \in 1 .. Len(new) : all[Len(old) + Len(again) + k] = new[k]
  <2>1. old \in Seq(Quoting!Negotiation) /\ again \in Seq(Quoting!Negotiation) /\ new \in Seq(Quoting!Negotiation)
    BY <1>5, <1>6, <1>7
  <2>2. all = old \o again \o new
    BY <1>8, <1>9
  <2>3. QED
    BY <2>1, <2>2, AfterTwo
<1>11. Len(old) = Len(negotiations) /\ Len(again) = Len(gone) /\ Len(new) = Len(q.sent)
  BY <1>5, <1>6, <1>7
<1>12. Len(all) = Len(negotiations) + Len(gone) + Len(q.sent)
  BY <1>10, <1>11
<1>13. ASSUME NEW i \in 1 .. Len(negotiations)
       PROVE  all[i] = IF i \in q.read THEN Quoting!Saved(q, i) ELSE negotiations[i]
  BY <1>5, <1>10, <1>11
<1>14. ASSUME NEW k \in 1 .. Len(gone)
       PROVE  all[Len(negotiations) + k] = Quoting!Saved(q, gone[k])
  BY <1>6, <1>10, <1>11
<1>15. ASSUME NEW k \in 1 .. Len(q.sent)
       PROVE  all[Len(negotiations) + Len(gone) + k] = Quoting!New(q.sent[k])
  BY <1>7, <1>10, <1>11
<1>16. QED
  BY <1>3, <1>9, <1>10, <1>12, <1>13, <1>14, <1>15 DEF SavedIs

\* Of what is saved one at most is suggested, when what was read is so still: the
\* one the page chose, or one it adds, or the one there was.
LEMMA SavedSuggestsOne ==
  ASSUME QuotingInv, NEW u \in Users, work[u].pc = "save", ~crossed,
         NEW q, q = work[u], negotiations' = SavedAll(q),
         NEW i \in Quoting!Live', NEW j \in Quoting!Live',
         negotiations'[i].suggested, negotiations'[j].suggested
  PROVE  i = j
<1>1. PICK gone : gone = Quoting!SetToSeq(q.page \ q.read)
  OBVIOUS
<1>2. /\ gone \in Seq(q.page \ q.read) /\ \A a, b \in DOMAIN gone : gone[a] = gone[b] => a = b
      /\ negotiations' \in Seq(Quoting!Negotiation)
      /\ Len(negotiations') = Len(negotiations) + Len(gone) + Len(q.sent)
      /\ \A a \in 1 .. Len(negotiations) :
           negotiations'[a] = IF a \in q.read THEN Quoting!Saved(q, a) ELSE negotiations[a]
      /\ \A k \in 1 .. Len(gone) :
           negotiations'[Len(negotiations) + k] = Quoting!Saved(q, gone[k])
      /\ \A k \in 1 .. Len(q.sent) :
           negotiations'[Len(negotiations) + Len(gone) + k] = Quoting!New(q.sent[k])
  <2>1. QuotedInv
    BY DEF QuotingInv
  <2>2. SavedIs(q, gone, negotiations')
    BY <1>1, <2>1, SavedRows
  <2>3. QED
    BY <2>2 DEF SavedIs
<1>3. /\ q \in QuotingWork /\ Sound(q) /\ Fresh(q) /\ q.pc = "save"
      /\ negotiations \in Seq(Quoting!Negotiation)
  BY DEF QuotingInv, UncrossedInv, QuotedInv, StoredInv
<1>4. /\ q.read = Quoting!Live /\ q.were = {a \in Quoting!Live : negotiations[a].suggested}
      /\ q.page \subseteq 1 .. Len(negotiations) /\ q.sent \in Quoting!Sheets
      /\ q.chosen # 0 => q.chosen \in q.page /\ \A k \in DOMAIN q.sent : ~q.sent[k].suggested
  BY <1>3 DEF Sound, Fresh, QuotingWork
<1>5. /\ Len(negotiations) \in Nat /\ Len(gone) \in Nat /\ Len(q.sent) \in Nat
      /\ DOMAIN gone = 1 .. Len(gone) /\ DOMAIN q.sent = 1 .. Len(q.sent)
      /\ DOMAIN negotiations' = 1 .. Len(negotiations) + Len(gone) + Len(q.sent)
  <2>1. gone \in Seq(q.page \ q.read)
    BY <1>2
  <2>2. q.sent \in Seq(Quoting!Entries)
    BY <1>4, SheetIs
  <2>3. /\ negotiations' \in Seq(Quoting!Negotiation)
        /\ Len(negotiations') = Len(negotiations) + Len(gone) + Len(q.sent)
    BY <1>2
  <2>4. Len(gone) \in Nat /\ DOMAIN gone = 1 .. Len(gone)
    BY <2>1
  <2>5. Len(q.sent) \in Nat /\ DOMAIN q.sent = 1 .. Len(q.sent)
    BY <2>2
  <2>6. DOMAIN negotiations' = 1 .. Len(negotiations')
    <3>1. negotiations' \in Seq(Quoting!Negotiation)
      BY <2>3
    <3>2. QED
      BY <3>1
  <2>7. Len(negotiations) \in Nat
    BY <1>3
  <2>8. QED
    BY <2>3, <2>4, <2>5, <2>6, <2>7
<1> DEFINE L == Len(negotiations)
           G == Len(gone)
           Old(a) == a \in q.read /\ Quoting!SuggestedAfter(q, a)
           Anew(a) == \E k \in 1 .. G : a = L + k /\ Quoting!SuggestedAfter(q, gone[k])
           Added(a) == \E k \in 1 .. Len(q.sent) : a = L + G + k /\ q.sent[k].suggested
<1>6. ASSUME NEW a \in Quoting!Live', negotiations'[a].suggested
      PROVE  Old(a) \/ Anew(a) \/ Added(a)
  <2>1. a \in 1 .. L + G + Len(q.sent) /\ negotiations'[a].live
    BY <1>5, <1>6 DEF Quoting!Live
  <2>2. CASE a \in 1 .. L
    <3>1. a \in q.read
      <4>1. CASE a \notin q.read
        <5>1. negotiations[a].live
          BY <1>2, <2>1, <2>2, <4>1
        <5>2. QED
          BY <1>3, <1>4, <2>2, <5>1 DEF Quoting!Live
      <4>2. QED
        BY <4>1
    <3>2. negotiations'[a] = Quoting!Saved(q, a)
      BY <1>2, <2>2, <3>1
    <3>3. QED
      BY <1>6, <3>1, <3>2 DEF Quoting!Saved
  <2>3. CASE a \in L + 1 .. L + G
    <3>1. PICK k \in 1 .. G : a = L + k
      BY <1>5, <2>3, NumbersAfter
    <3>2. negotiations'[a] = Quoting!Saved(q, gone[k])
      BY <1>2, <3>1
    <3>3. QED
      BY <1>6, <3>1, <3>2 DEF Quoting!Saved
  <2>4. CASE a \in (L + G) + 1 .. (L + G) + Len(q.sent)
    <3>1. PICK k \in 1 .. Len(q.sent) : a = (L + G) + k
      <4>1. L + G \in Nat
        BY <1>5
      <4>2. QED
        BY <1>5, <2>4, <4>1, NumbersAfter
    <3>2. negotiations'[a] = Quoting!New(q.sent[k])
      BY <1>2, <3>1
    <3>3. QED
      BY <1>6, <3>1, <3>2, NewIs
  <2>5. ASSUME NEW n \in Nat, NEW m \in Nat, NEW p \in Nat, NEW b \in 1 .. n + m + p
        PROVE  b \in 1 .. n \/ b \in n + 1 .. n + m \/ b \in (n + m) + 1 .. (n + m) + p
    OBVIOUS
  <2>6. a \in 1 .. L \/ a \in L + 1 .. L + G \/ a \in (L + G) + 1 .. (L + G) + Len(q.sent)
    BY <1>5, <2>1, <2>5
  <2>7. QED
    BY <2>2, <2>3, <2>4, <2>6
<1>7. CASE q.chosen # 0
  <2>1. Quoting!Suggests(q) /\ \A k \in 1 .. Len(q.sent) : ~q.sent[k].suggested
    BY <1>4, <1>5, <1>7 DEF Quoting!Suggests
  <2>2. \A a : Quoting!SuggestedAfter(q, a) => a = q.chosen
    BY <2>1 DEF Quoting!SuggestedAfter
  <2>3. ASSUME NEW a, Old(a) \/ Anew(a) \/ Added(a)
        PROVE  \/ a = q.chosen /\ q.chosen \in q.read
               \/ \E k \in 1 .. G : a = L + k /\ gone[k] = q.chosen /\ q.chosen \notin q.read
    <3>1. \A k \in 1 .. G : gone[k] \in q.page \ q.read
      BY <1>2, <1>5
    <3>2. CASE Old(a)
      BY <2>2, <3>2
    <3>3. CASE Anew(a)
      BY <2>2, <3>1, <3>3
    <3>4. QED
      BY <2>1, <2>3, <3>2, <3>3
  <2>4. \A k, m \in 1 .. G : gone[k] = q.chosen /\ gone[m] = q.chosen => k = m
    <3>1. \A a, b \in DOMAIN gone : gone[a] = gone[b] => a = b
      BY <1>2
    <3>2. \A a, b \in 1 .. G : gone[a] = gone[b] => a = b
      BY <1>5, <3>1
    <3>3. QED
      BY <3>2
  <2>5. \/ i = q.chosen /\ q.chosen \in q.read
        \/ \E k \in 1 .. G : i = L + k /\ gone[k] = q.chosen /\ q.chosen \notin q.read
    BY <1>6, <2>3
  <2>6. \/ j = q.chosen /\ q.chosen \in q.read
        \/ \E k \in 1 .. G : j = L + k /\ gone[k] = q.chosen /\ q.chosen \notin q.read
    BY <1>6, <2>3
  <2>7. QED
    BY <2>4, <2>5, <2>6
<1>8. CASE q.chosen = 0
  <2>1. \A a : Quoting!SuggestedAfter(q, a) /\ a \in 1 .. L => ~Quoting!Suggests(q) /\ a \in q.were
    BY <1>8 DEF Quoting!SuggestedAfter
  <2>2. ASSUME NEW a, Old(a) \/ Anew(a) \/ Added(a)
        PROVE  \/ ~Quoting!Suggests(q) /\ a \in q.were
               \/ Quoting!Suggests(q) /\ Added(a)
    <3>1. \A k \in 1 .. G : gone[k] \in q.page /\ gone[k] \in 1 .. L
      <4>1. \A k \in 1 .. G : gone[k] \in q.page \ q.read
        BY <1>2, <1>5
      <4>2. QED
        BY <1>4, <4>1
    <3>2. CASE Old(a)
      <4>1. a \in 1 .. L
        BY <1>3, <1>4, <3>2 DEF Quoting!Live
      <4>2. QED
        BY <2>1, <3>2, <4>1
    <3>3. ~Anew(a)
      BY <1>8, <3>1 DEF Quoting!SuggestedAfter
    <3>4. CASE Added(a)
      BY <1>5, <3>4 DEF Quoting!Suggests
    <3>5. QED
      BY <2>2, <3>2, <3>3, <3>4
  <2>3. \A a, b \in q.were : a = b
    BY <1>4 DEF QuotingInv, Quoting!OneSuggested
  <2>4. \A k, m \in 1 .. Len(q.sent) : q.sent[k].suggested /\ q.sent[m].suggested => k = m
    BY <1>4, <1>5, SheetIs
  <2>5. \A a, b : Added(a) /\ Added(b) => a = b
    BY <2>4
  <2>6. Old(i) \/ Anew(i) \/ Added(i)
    BY <1>6
  <2>7. Old(j) \/ Anew(j) \/ Added(j)
    BY <1>6
  <2> HIDE DEF Old, Anew, Added
  <2>8. QED
    BY <2>2, <2>3, <2>5, <2>6, <2>7
<1>9. QED
  BY <1>3, <1>7, <1>8

LEMMA SaveKeeps ==
  ASSUME QuotingInv, NEW u \in Users, Quoting!Save(u)
  PROVE  QuotingInv'
<1>1. work[u] \in QuotingWork /\ Sound(work[u]) /\ work[u].pc = "save"
  BY DEF QuotingInv, QuotedInv, Quoting!Save
<1>2. PICK q : q = work[u]
  OBVIOUS
<1>3. PICK gone : gone = Quoting!SetToSeq(q.page \ q.read)
  OBVIOUS
<1>4. CASE negotiations' = SavedAll(q) /\ Quoting!Then(u, "quoted")
  <2>1. /\ gone \in Seq(q.page \ q.read) /\ negotiations' \in Seq(Quoting!Negotiation)
        /\ Len(negotiations') = Len(negotiations) + Len(gone) + Len(q.sent)
    <3>1. QuotedInv
      BY DEF QuotingInv
    <3>2. SavedIs(q, gone, negotiations')
      BY <1>1, <1>2, <1>3, <1>4, <3>1, SavedRows
    <3>3. QED
      BY <3>2 DEF SavedIs
  <2>2. Len(gone) \in Nat /\ Len(q.sent) \in Nat /\ Len(negotiations) \in Nat
    <3>1. q.sent \in Quoting!Sheets
      BY <1>1, <1>2 DEF QuotingWork
    <3>2. QED
      BY <2>1, <3>1, SheetIs DEF QuotingInv, QuotedInv, StoredInv
  <2>3. Len(negotiations') >= Len(negotiations) /\ Len(negotiations') \in Nat
    <3>1. Len(negotiations') = Len(negotiations) + Len(gone) + Len(q.sent)
      BY <2>1
    <3>2. \A n, m, p \in Nat : n + m + p >= n /\ n + m + p \in Nat
      OBVIOUS
    <3>3. QED
      BY <2>2, <3>1, <3>2
  <2>4. UNCHANGED <<details, purchase, omitted, style, crossed>>
    BY <1>4 DEF Quoting!Save, Quoting!Then
  <2>5. StoredInv'
    <3>1. \A d \in Details : details[d].chosen <= Len(negotiations')
      <4>1. \A d \in Details : details[d].chosen \in Nat /\ details[d].chosen <= Len(negotiations)
        BY DEF QuotingInv, QuotedInv, StoredInv, Choices
      <4>2. QED
        BY <2>2, <2>3, <4>1
    <3>2. QED
      BY <2>1, <2>4, <3>1 DEF QuotingInv, QuotedInv, StoredInv
  <2>6. PICK w : w = [work[u] EXCEPT !.pc = "quoted"]
    OBVIOUS
  <2>7. /\ w \in QuotingWork /\ w.pc = "quoted" /\ w.chosen = work[u].chosen
        /\ w.provider = work[u].provider /\ w.page = work[u].page
    BY <1>1, <2>6 DEF QuotingWork
  <2>8. work' = [work EXCEPT ![u] = w]
    BY <1>4, <2>6 DEF Quoting!Then
  <2>9. Sound(w)'
    <3>1. w.page \subseteq 1 .. Len(negotiations') /\ w.chosen <= Len(negotiations')
      BY <1>1, <2>2, <2>3, <2>7 DEF Sound, QuotingWork
    <3>2. QED
      BY <1>1, <2>7, <3>1 DEF Sound
  <2>10. Quoting!OneSuggested'
    <3> SUFFICES ASSUME ~crossed, NEW i \in Quoting!Live', NEW j \in Quoting!Live',
                        negotiations'[i].suggested, negotiations'[j].suggested
                 PROVE  i = j
      BY <2>4 DEF Quoting!OneSuggested
    <3>1. QED
      BY <1>1, <1>2, <1>4, SavedSuggestsOne
  <2>11. ~crossed => Fresh(w)' /\ Vendor'
    BY <2>4, <2>7 DEF QuotingInv, UncrossedInv, Fresh, Vendor, Quoting!HasVendor
  <2>12. QED
    BY <1>1, <2>3, <2>4, <2>5, <2>7, <2>8, <2>9, <2>10, <2>11, WorkGoes
<1>5. CASE UNCHANGED negotiations /\ Quoting!Finish(u, "failed")
  <2>1. StoredInv' /\ Len(negotiations') >= Len(negotiations)
    BY <1>5 DEF QuotingInv, QuotedInv, StoredInv, Quoting!Finish, Quoting!Save
  <2>2. Quoting!OneSuggested' /\ (~crossed => Vendor')
    BY <1>5 DEF QuotingInv, UncrossedInv, Vendor, Quoting!HasVendor, Quoting!OneSuggested, Quoting!Live,
                Quoting!Finish, Quoting!Save
  <2>3. QED
    BY <1>1, <1>2, <1>5, <2>1, <2>2, WorkEnds
<1>6. QED
  BY <1>2, <1>4, <1>5 DEF Quoting!Save, SavedAll

LEMMA QuotingRests ==
  ASSUME QuotingInv, UNCHANGED quotingVars
  PROVE  QuotingInv'
<1> USE DEF quotingVars
<1>1. Quoting!Working' = Quoting!Working /\ Quoting!Live' = Quoting!Live
  BY DEF Quoting!Working, Quoting!Live
<1>2. QuotedInv'
  BY DEF QuotingInv, QuotedInv, StoredInv, Sound
<1>3. UncrossedInv'
  BY <1>1 DEF QuotingInv, UncrossedInv, Fresh, Imported, Vendor, Quoting!HasVendor
<1>4. Quoting!OneSuggested' /\ Quoting!ImportedExactly' /\ Quoting!VendorChosen'
  BY <1>1 DEF QuotingInv, Quoting!OneSuggested, Quoting!ImportedExactly,
              Quoting!VendorChosen, Quoting!HasVendor, Quoting!AllQuiet
<1>5. QED
  BY <1>2, <1>3, <1>4 DEF QuotingInv

LEMMA QuotingKeeps ==
  ASSUME PartsAssumption, QuotingInv, Quoting!NegotiationsNext
  PROVE  QuotingInv'
<1>1. PICK u \in Users :
        \/ Quoting!SaveStart(u) \/ Quoting!Save(u) \/ Quoting!Quoted(u)
        \/ Quoting!ImportStart(u) \/ Quoting!ImportDelete(u) \/ Quoting!ImportInsert(u)
        \/ Quoting!ImportQuoted(u) \/ Quoting!UpdateStatus(u)
        \/ Quoting!ChooseStart(u) \/ Quoting!ChooseOthers(u)
        \/ (\E d \in Details : Quoting!ChooseDetail(u, d))
        \/ Quoting!ChooseEnd(u) \/ Quoting!Fails(u)
  BY DEF Quoting!NegotiationsNext
<1>2. QED
  BY <1>1, SaveStartKeeps, SaveKeeps, QuotedKeeps, ImportStartKeeps, ImportDeleteKeeps,
     ImportInsertKeeps, ImportQuotedKeeps, UpdateStatusKeeps, ChooseStartKeeps,
     ChooseOthersKeeps, ChooseDetailKeeps, ChooseEndKeeps, FailsKeeps

LEMMA QuotingInvariance == Spec => []QuotingInv
<1>1. Init => QuotingInv
  BY PartsAssumption, PartsBegin, QuotingBegins
<1>2. QuotingInv /\ [Next]_allVars => QuotingInv'
  BY PartsAssumption, QuotingSteps, QuotingKeeps, QuotingRests
<1>3. QED
  BY <1>1, <1>2, PTL DEF Spec, allVars

\* The quotations of a style are those asked for: one at most is suggested, and an
\* import that succeeded leaves those of its sheet, while requests come one by one.
THEOREM QuotationsAreKept == Spec => []QuotationsKept
<1>1. QuotingInv => QuotationsKept
  <2> SUFFICES ASSUME QuotingInv PROVE Quoting!NegotiationsTypeOK
    BY DEF QuotingInv, QuotationsKept, Quoting!QuotationsKept
  <2>1. \A i \in DOMAIN negotiations : negotiations[i] \in Quoting!Negotiation
    BY DEF QuotingInv, QuotedInv, StoredInv
  <2>2. \A d \in Details : /\ details[d].chosen \in 0 .. Len(negotiations)
                           /\ details[d].provider \in Providers \cup {Quoting!None}
    BY DEF QuotingInv, QuotedInv, StoredInv, Choices
  <2>3. QED
    BY <2>1, <2>2 DEF QuotingInv, QuotedInv, StoredInv, Quoting!NegotiationsTypeOK
<1>2. QED
  BY <1>1, QuotingInvariance, PTL

\* A choice that succeeded and named the style is that of every row of its details,
\* and a purchase that went on by one has the vendor of the style chosen, while
\* requests come one by one.
THEOREM VendorIsChosen == Spec => []VendorChosen
<1>1. QuotingInv => VendorChosen
  BY DEF QuotingInv, VendorChosen
<1>2. QED
  BY <1>1, QuotingInvariance, PTL
-----------------------------------------------------------------------------
\* PurchaseWizard: what WizardProofs proves of it alone.

Entry == INSTANCE WizardProofs

LEMMA WizardSteps ==
  ASSUME [Next]_allVars
  PROVE  Wizard!Next \/ UNCHANGED wizardVars
  BY DEF Next, allVars, WizardStep, DeliveryStep, QuotingStep, SelectionStep, DatesStep, CatalogStep

\* One module, under two names.
LEMMA SameAssumption ==
  Wizard!WizardAssumption => Entry!WizardAssumption
  BY Zenon DEF Wizard!WizardAssumption, Entry!WizardAssumption, Wizard!SentLine, Entry!SentLine,
         Wizard!StyleIds, Entry!StyleIds, Wizard!ColorIds, Entry!ColorIds,
         Wizard!IsFiniteSet, Entry!IsFiniteSet, Wizard!Cardinality, Entry!Cardinality

LEMMA SameInit ==
  Wizard!Init => Entry!Init
  BY Zenon DEF Wizard!Init, Entry!Init, Wizard!NewRows, Entry!NewRows, Wizard!NewRow,
         Entry!NewRow, Wizard!StyleIds, Entry!StyleIds, Wizard!ColorIds, Entry!ColorIds,
         Wizard!Once, Entry!Once, Wizard!NoDeletion, Entry!NoDeletion, Wizard!Idle,
         Entry!Idle, Wizard!IsFiniteSet, Entry!IsFiniteSet, Wizard!Cardinality,
         Entry!Cardinality, Wizard!SetToSeq, Entry!SetToSeq, Wizard!IsInjective,
         Entry!IsInjective

LEMMA SameNext ==
  Wizard!Next => Entry!Next
  BY Zenon DEF Wizard!Kinds, Entry!Kinds, Wizard!Idle, Entry!Idle, Wizard!NoColors,
         Entry!NoColors, Wizard!Once, Entry!Once, Wizard!NewRow, Entry!NewRow,
         Wizard!NewRows, Entry!NewRows, Wizard!Deleted, Entry!Deleted, Wizard!StoreDeleted,
         Entry!StoreDeleted, Wizard!StyleDeleted, Entry!StyleDeleted, Wizard!Present,
         Entry!Present, Wizard!Rows, Entry!Rows, Wizard!StylesOf, Entry!StylesOf,
         Wizard!Removed, Entry!Removed, Wizard!Running, Entry!Running, Wizard!Begin,
         Entry!Begin, Wizard!Go, Entry!Go, Wizard!End, Entry!End, Wizard!Instances,
         Entry!Instances, Wizard!CreateLook, Entry!CreateLook, Wizard!CreateSave,
         Entry!CreateSave, Wizard!CreateStores, Entry!CreateStores, Wizard!EditRead,
         Entry!EditRead, Wizard!EditSave, Entry!EditSave, Wizard!Missing, Entry!Missing,
         Wizard!EditAdd, Entry!EditAdd, Wizard!EditRemove, Entry!EditRemove,
         Wizard!AssociateRead, Entry!AssociateRead, Wizard!StoresSent, Entry!StoresSent,
         Wizard!StylesSent, Entry!StylesSent, Wizard!AssociateStores, Entry!AssociateStores,
         Wizard!ActiveAfter, Entry!ActiveAfter, Wizard!AssociateStyles,
         Entry!AssociateStyles, Wizard!Line, Entry!Line, Wizard!NextLine, Entry!NextLine,
         Wizard!EndLine, Entry!EndLine, Wizard!LineFound, Entry!LineFound, Wizard!LineFind,
         Entry!LineFind, Wizard!LineInsert, Entry!LineInsert, Wizard!LineInsertColors,
         Entry!LineInsertColors, Wizard!LineAddColors, Entry!LineAddColors,
         Wizard!LineRemoveColors, Entry!LineRemoveColors, Wizard!AssociateEnd,
         Entry!AssociateEnd, Wizard!ToDelete, Entry!ToDelete, Wizard!Delete, Entry!Delete,
         Wizard!DeleteWrite, Entry!DeleteWrite, Wizard!Serve, Entry!Serve, Wizard!Next,
         Entry!Next, Wizard!store, Entry!store, Wizard!StyleIds, Entry!StyleIds,
         Wizard!ColorIds, Entry!ColorIds, Wizard!IsFiniteSet, Entry!IsFiniteSet,
         Wizard!Cardinality, Entry!Cardinality, Wizard!SetToSeq, Entry!SetToSeq,
         Wizard!IsInjective, Entry!IsInjective

LEMMA SameAsked ==
  Entry!AsAsked => Wizard!AsAsked
  BY DEF Wizard!AsAsked, Entry!AsAsked, Wizard!TypeOK, Entry!TypeOK, Wizard!Quiet,
         Entry!Quiet, Wizard!OneStylePerStore, Entry!OneStylePerStore,
         Wizard!AssociatedAsSent, Entry!AssociatedAsSent, Wizard!StoresAsAsked,
         Entry!StoresAsAsked, Wizard!Kinds, Entry!Kinds, Wizard!StoreRow, Entry!StoreRow,
         Wizard!StyleRow, Entry!StyleRow, Wizard!StyleIds, Entry!StyleIds, Wizard!ColorIds,
         Entry!ColorIds, Wizard!Running, Entry!Running, Wizard!Rows, Entry!Rows,
         Wizard!StoreDeleted, Entry!StoreDeleted, Wizard!Deleted, Entry!Deleted,
         Wizard!StoresSent, Entry!StoresSent, Wizard!StylesSent, Entry!StylesSent,
         Wizard!StylesOf, Entry!StylesOf, Wizard!LineFound, Entry!LineFound, Wizard!Removed,
         Entry!Removed, Wizard!StyleDeleted, Entry!StyleDeleted, Wizard!Once, Entry!Once

\* What clients asked for, and were told was stored, is stored once its requests
\* have been served one by one: the stores of a purchase, its styles in each and
\* their colours (purchase.service.ts:149-175, :702-774).
THEOREM RequestsAreKept == Spec => []AsAsked
<1>1. Entry!WizardAssumption
  BY PartsAssumption, SameAssumption DEF PartsAssumption
<1>2. Init => Entry!WizardInv
  BY <1>1, PartsBegin, SameInit, Entry!WizardBegins
<1>3. Entry!WizardInv /\ [Next]_allVars => Entry!WizardInv'
  <2> SUFFICES ASSUME Entry!WizardInv, [Next]_allVars PROVE Entry!WizardInv'
    OBVIOUS
  <2>1. Entry!Next \/ UNCHANGED Entry!vars
    BY WizardSteps, SameNext DEF wizardVars, Entry!vars
  <2>2. QED
    BY <1>1, <2>1, Entry!WizardKept
<1>4. Entry!WizardInv => AsAsked
  BY <1>1, SameAsked, Entry!WizardShows DEF AsAsked
<1>5. QED
  BY <1>2, <1>3, <1>4, PTL DEF Spec, allVars
=============================================================================
