---------------------------- MODULE DeliveryUnits ---------------------------
(***************************************************************************)
(* The delivery rows (PurchaseStyleColorShipping, E1..E6) of one colour of *)
(* a purchase and the handlers that write them: the two endpoints that     *)
(* save units, the adjustment to the UT, the arrival dates and the         *)
(* approval.  There is no transaction: every await is a step of its own,   *)
(* and Repository.save() of an entity read earlier writes back every       *)
(* column it holds, those another handler changed meanwhile included.      *)
(***************************************************************************)
EXTENDS UnitRounding, FiniteSets

CONSTANTS
  Shippings,   \* the delivery rows of the colour
  UT,          \* units of one size curve of the style (details.ratio)
  SaveValues,  \* the units a client sends
  Dates,       \* the delivery dates a client sends
  Endpoints,   \* the units endpoints in use, of UnitsEndpoints
  Requests,    \* the requests that may be served at the same time
  MaxFaults    \* bound on the requests lost with their process

UnitsEndpoints == {"save-shippings-units", "save-shipping-units"}

ASSUME UTAssumption == UT \in Nat \ {0}
ASSUME SaveValuesAssumption == SaveValues \subseteq Nat
ASSUME EndpointsAssumption == Endpoints \subseteq UnitsEndpoints
ASSUME MaxFaultsAssumption == MaxFaults \in Nat

NoDate == "no date"
ASSUME DatesAssumption == NoDate \notin Dates
\* A delivery's piName: empty; only delivery and date, from a colour
\* without piName; or the colour's piName, delivery and date.
NoName == "no name"
PiNames == {NoName, "bare", "full"}
Row == [units: Nat, piName: PiNames,
        date: Dates \cup {NoDate}, arrivalDate: Dates \cup {NoDate}]

VARIABLES
  row,       \* the delivery rows stored
  approved,  \* PurchaseStyleColor.approved; its piName is set exactly then
  main,      \* what the request, or its adjustment, does next
  arrival,   \* what the updateArrivalDates it called does next
  held,      \* the rows the request holds in memory, about to be saved
  picked,    \* which of them
  heldArr,   \* the rows updateArrivalDates holds
  quiet,     \* the last units were sent to the endpoint that awaits, when
             \* nothing ran, and all saved; nothing has overlapped or been
             \* lost since
  undated,   \* the last arrival dates were not computed, or not all saved
  faults,    \* requests lost so far
  asked      \* the units last sent, or kept by sending none, per row

rowVars == <<row, approved>>
taskVars == <<main, arrival, held, picked, heldArr>>
ghostVars == <<quiet, undated, faults, asked>>
vars == <<rowVars, taskVars, ghostVars>>

MainSteps == {"idle", "store", "adjust", "adjust save",
              "awaited store", "awaited adjust", "awaited adjust save",
              "approve color", "approve shippings"}
ArrivalSteps == {"none", "read", "save"}

TypeOK ==
  /\ row \in [Shippings -> Row]
  /\ approved \in BOOLEAN
  /\ main \in [Requests -> MainSteps]
  /\ arrival \in [Requests -> ArrivalSteps]
  /\ held \in [Requests -> [Shippings -> Row]]
  /\ picked \in [Requests -> SUBSET Shippings]
  /\ heldArr \in [Requests -> [Shippings -> Row]]
  /\ quiet \in BOOLEAN
  /\ undated \in BOOLEAN
  /\ faults \in 0 .. MaxFaults
  /\ asked \in [Shippings -> Nat]

EmptyRows == [d \in Shippings |->
  [units |-> 0, piName |-> NoName, date |-> NoDate, arrivalDate |-> NoDate]]

\* A colour whose deliveries exist with no units yet.
Init ==
  /\ row = EmptyRows
  /\ approved = FALSE
  /\ main = [r \in Requests |-> "idle"]
  /\ arrival = [r \in Requests |-> "none"]
  /\ held = [r \in Requests |-> EmptyRows]
  /\ picked = [r \in Requests |-> {}]
  /\ heldArr = [r \in Requests |-> EmptyRows]
  /\ quiet = TRUE
  /\ undated = FALSE
  /\ faults = 0
  /\ asked = [d \in Shippings |-> 0]

Idle(r) == main[r] = "idle" /\ arrival[r] = "none"
Settled == \A r \in Requests : Idle(r)
-----------------------------------------------------------------------------
\* The request has written the rows it held.
Release(r) ==
  /\ main' = [main EXCEPT ![r] = "idle"]
  /\ held' = [held EXCEPT ![r] = EmptyRows]
  /\ picked' = [picked EXCEPT ![r] = {}]

WithUnits(sent, on) ==
  [d \in Shippings |-> [row[d] EXCEPT !.units = sent[d], !.date = on]]
\* Rows are saved in packs, of those of the other colours too, and the last
\* pack may be left out (SaveInPacks).
Saving(stored, skipped) == [d \in Shippings |-> IF d \in skipped THEN row[d] ELSE stored[d]]

\* Mutant: the adjustment and the arrival dates are started together.
SaveShippingsUnitsTogether(r) ==
  /\ Idle(r) /\ "save-shippings-units" \in Endpoints
  /\ \E sent \in [Shippings -> SaveValues], on \in Dates, skipped \in SUBSET Shippings :
       /\ row' = Saving(WithUnits(sent, on), skipped)
       /\ asked' = sent
       /\ quiet' = (Settled /\ skipped = {})
  /\ main' = [main EXCEPT ![r] = "adjust"]
  /\ arrival' = [arrival EXCEPT ![r] = "read"]
  /\ UNCHANGED <<approved, held, picked, heldArr, undated, faults>>

\* POST /save-shippings-units of every delivery stores the units and dates,
\* nothing else, and awaits the adjustment.
SaveShippingsUnits(r) ==
  /\ Idle(r) /\ "save-shippings-units" \in Endpoints
  /\ \E sent \in [Shippings -> SaveValues], on \in Dates, skipped \in SUBSET Shippings :
       /\ row' = Saving(WithUnits(sent, on), skipped)
       /\ asked' = sent
       /\ quiet' = (Settled /\ skipped = {})
  /\ main' = [main EXCEPT ![r] = "awaited adjust"]
  /\ UNCHANGED <<approved, arrival, held, picked, heldArr, undated, faults>>

\* Of some deliveries only, it reads their whole rows to save them.
SaveSomeShippings(r) ==
  /\ Idle(r) /\ "save-shippings-units" \in Endpoints
  /\ \E some \in (SUBSET Shippings) \ {{}, Shippings},
        sent \in [Shippings -> SaveValues], on \in Dates :
       /\ held' = [held EXCEPT ![r] = WithUnits(sent, on)]
       /\ picked' = [picked EXCEPT ![r] = some]
       /\ asked' = [d \in Shippings |-> IF d \in some THEN sent[d] ELSE row[d].units]
  /\ main' = [main EXCEPT ![r] = "awaited store"]
  /\ quiet' = Settled
  /\ UNCHANGED <<rowVars, arrival, heldArr, undated, faults>>

\* POST /save-shipping-units, always of every delivery, reads the whole rows.
SaveShippingUnits(r) ==
  /\ Idle(r) /\ "save-shipping-units" \in Endpoints
  /\ \E sent \in [Shippings -> SaveValues], on \in Dates :
       /\ held' = [held EXCEPT ![r] = WithUnits(sent, on)]
       /\ asked' = sent
  /\ picked' = [picked EXCEPT ![r] = Shippings]
  /\ main' = [main EXCEPT ![r] = "store"]
  /\ quiet' = FALSE
  /\ UNCHANGED <<rowVars, arrival, heldArr, undated, faults>>

\* What is stored when r saves the rows it picked.
HeldOver(r) == [d \in Shippings |-> IF d \in picked[r] THEN held[r][d] ELSE row[d]]

\* The whole rows are saved.  The first endpoint, which saves packs, goes on
\* to await the adjustment; the second starts it and the arrival dates, and
\* awaits neither.
StoreUnits(r) ==
  /\ held' = [held EXCEPT ![r] = EmptyRows]
  /\ picked' = [picked EXCEPT ![r] = {}]
  /\ \/ /\ main[r] = "awaited store"
        /\ \E skipped \in SUBSET picked[r] :
             /\ row' = Saving(HeldOver(r), skipped)
             /\ quiet' = (quiet /\ skipped = {})
        /\ main' = [main EXCEPT ![r] = "awaited adjust"]
        /\ UNCHANGED arrival
     \/ /\ main[r] = "store"
        /\ row' = HeldOver(r)
        /\ main' = [main EXCEPT ![r] = "adjust"]
        /\ arrival' = [arrival EXCEPT ![r] = "read"]
        /\ UNCHANGED quiet
  /\ UNCHANGED <<approved, heldArr, undated, faults, asked>>

-----------------------------------------------------------------------------
\* The piName adjustUTUnits gives: kept when there is one, otherwise
\* built from the colour's, which is empty before the approval.
AdjustedPiName(name) ==
  CASE name # NoName -> name
    [] name = NoName /\ approved -> "full"
    [] OTHER -> "bare"

\* Mutant: the arrival dates are not recomputed after an awaited adjustment.
AfterAdjustOnly(r) == Release(r) /\ UNCHANGED arrival

\* After an awaited adjustment the endpoint starts the arrival dates.
AfterAdjust(r) ==
  /\ Release(r)
  /\ arrival' = IF main[r] \in {"awaited adjust", "awaited adjust save"}
                  THEN [arrival EXCEPT ![r] = "read"] ELSE arrival

\* The rows its query finds, and what it makes of them in memory.
Nonzero == {d \in Shippings : row[d].units # 0}
Adjusted == [d \in Shippings |->
  [row[d] EXCEPT !.units = AdjustUnits(row[d].units, UT),
                 !.piName = AdjustedPiName(row[d].piName)]]

AdjustRead(r) ==
  /\ main[r] \in {"adjust", "awaited adjust"}
  /\ \/ Nonzero = {} /\ AfterAdjust(r)
     \/ /\ Nonzero # {}
        /\ held' = [held EXCEPT ![r] = Adjusted]
        /\ picked' = [picked EXCEPT ![r] = Nonzero]
        /\ main' = [main EXCEPT ![r] =
             IF main[r] = "adjust" THEN "adjust save" ELSE "awaited adjust save"]
        /\ UNCHANGED arrival
  /\ UNCHANGED <<rowVars, heldArr, ghostVars>>

\* Mutant: the rows of zero units, not read, are dropped.
AdjustSaveDropping(r) ==
  /\ main[r] \in {"adjust save", "awaited adjust save"}
  /\ row' = [d \in picked[r] |-> held[r][d]]
  /\ AfterAdjust(r)
  /\ UNCHANGED <<approved, heldArr, ghostVars>>

AdjustSave(r) ==
  /\ main[r] \in {"adjust save", "awaited adjust save"}
  /\ row' = HeldOver(r)
  /\ AfterAdjust(r)
  /\ UNCHANGED <<approved, heldArr, ghostVars>>

-----------------------------------------------------------------------------
\* updateArrivalDates called by POST /arrivalDates or a change of origin.
GenerateArrivalDates(r) ==
  /\ Idle(r)
  /\ arrival' = [arrival EXCEPT ![r] = "read"]
  /\ quiet' = (quiet /\ Settled)
  /\ UNCHANGED <<rowVars, main, held, picked, heldArr, undated, faults, asked>>

\* It reads whole rows and computes an arrival date for those with a date.
\* It throws, and nobody learns of it, at a style of the request that has no
\* origin or one without days.
ArrivalRead(r) ==
  /\ arrival[r] = "read"
  /\ \/ /\ heldArr' = [heldArr EXCEPT ![r] =
             [d \in Shippings |-> [row[d] EXCEPT !.arrivalDate = row[d].date]]]
        /\ arrival' = [arrival EXCEPT ![r] = "save"]
        /\ UNCHANGED undated
     \/ /\ arrival' = [arrival EXCEPT ![r] = "none"]
        /\ undated' = TRUE
        /\ UNCHANGED heldArr
  /\ UNCHANGED <<rowVars, main, held, picked, quiet, faults, asked>>

\* It saves the rows that had a date.
ArrivalSave(r) ==
  /\ arrival[r] = "save"
  /\ LET dated == {d \in Shippings : heldArr[r][d].date # NoDate} IN
     \E skipped \in SUBSET dated :
       /\ row' = [d \in Shippings |->
            IF d \in dated \ skipped THEN heldArr[r][d] ELSE row[d]]
       /\ undated' = (skipped # {})
  /\ arrival' = [arrival EXCEPT ![r] = "none"]
  /\ heldArr' = [heldArr EXCEPT ![r] = EmptyRows]
  /\ UNCHANGED <<approved, main, held, picked, quiet, faults, asked>>

-----------------------------------------------------------------------------
\* The approval reads the colour with its deliveries and rounds in memory.
ApproveRead(r) ==
  /\ Idle(r) /\ ~approved
  /\ held' = [held EXCEPT ![r] = [d \in Shippings |->
       [row[d] EXCEPT !.units = RoundUnits(row[d].units, UT),
                      !.piName = "full"]]]
  /\ picked' = [picked EXCEPT ![r] = Shippings]
  /\ main' = [main EXCEPT ![r] = "approve color"]
  /\ quiet' = (quiet /\ Settled)
  /\ UNCHANGED <<rowVars, arrival, heldArr, undated, faults, asked>>

ApproveColor(r) ==
  /\ main[r] = "approve color"
  /\ approved' = TRUE
  /\ main' = [main EXCEPT ![r] = "approve shippings"]
  /\ UNCHANGED <<row, arrival, held, picked, heldArr, ghostVars>>

\* Mutant: a delivery that has a name keeps it (the code's commented-out rule).
ApproveShippingsKeepingName(r) ==
  /\ main[r] = "approve shippings"
  /\ row' = [d \in Shippings |->
       [row[d] EXCEPT !.units = held[r][d].units,
                      !.piName = IF row[d].piName # NoName THEN row[d].piName
                                 ELSE held[r][d].piName]]
  /\ Release(r)
  /\ UNCHANGED <<approved, arrival, heldArr, ghostVars>>

\* It saves id, piName and units only.
ApproveShippings(r) ==
  /\ main[r] = "approve shippings"
  /\ row' = [d \in Shippings |->
       [row[d] EXCEPT !.units = held[r][d].units,
                      !.piName = held[r][d].piName]]
  /\ Release(r)
  /\ UNCHANGED <<approved, arrival, heldArr, ghostVars>>

-----------------------------------------------------------------------------
\* The process serving r stops, or the query it awaits fails: what it had
\* still to do is lost.
Lose(r) ==
  /\ ~Idle(r) /\ faults < MaxFaults
  /\ Release(r)
  /\ arrival' = [arrival EXCEPT ![r] = "none"]
  /\ heldArr' = [heldArr EXCEPT ![r] = EmptyRows]
  /\ quiet' = FALSE
  /\ faults' = faults + 1
  /\ UNCHANGED <<rowVars, undated, asked>>

Step(r) ==
  \/ StoreUnits(r) \/ AdjustRead(r) \/ AdjustSave(r)
  \/ ArrivalRead(r) \/ ArrivalSave(r)
  \/ ApproveColor(r) \/ ApproveShippings(r)

Next == \E r \in Requests :
  \/ SaveShippingsUnits(r) \/ SaveSomeShippings(r) \/ SaveShippingUnits(r)
  \/ GenerateArrivalDates(r) \/ ApproveRead(r)
  \/ Step(r) \/ Lose(r)

Spec == Init /\ [][Next]_vars

-----------------------------------------------------------------------------
\* After units sent to the endpoint that awaits the adjustment, with nothing
\* else running, the units stored when the work is done are those sent,
\* rounded to a whole number of UT: the adjustment, the arrival dates and an
\* approval write back no units older than the ones sent, whatever overlapped
\* or was lost before (purchase.controller 227-234, purchase-style.service
\* 349-364).  Such a save repairs the rows.
QuietUnitsKept ==
  Settled /\ quiet =>
    \A d \in Shippings : row[d].units = RoundUnits(asked[d], UT)

\* And every delivery has the arrival date of its date, unless the origin of
\* a style had none to give: the adjustment does not write an older arrival
\* date over it, and dates that could be computed again repair those that
\* could not (purchase.service 987-1045).
QuietArrival ==
  Settled /\ quiet /\ ~undated =>
    \A d \in Shippings : row[d].arrivalDate = row[d].date

\* With one request at a time, none lost, and the endpoint that awaits: the
\* deliveries of an approved colour carry its whole piName, by which OCs are
\* matched to them, and those of a colour not approved never do.
PiNameWhenSettled ==
  Settled => \A d \in Shippings : (row[d].piName = "full") <=> approved

-----------------------------------------------------------------------------
\* What the code says of itself, and the runs refute for the endpoint that
\* does not await the adjustment (purchase.controller 242-251).

\* Units are brought to the nearest multiple of the UT ("se aproximan las
\* unidades al multiplo mas cercano de la UT", purchase-style.service 243).
UnitsAreRounded == Settled => \A d \in Shippings : IsMultiple(row[d].units, UT)
=============================================================================
