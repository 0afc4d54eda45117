-------------------------- MODULE PurchaseApproval --------------------------
(***************************************************************************)
(* The status of one purchase, its styles and its colours, and the         *)
(* handlers that move it through quotation, approval and reversal.  A      *)
(* handler is a chain of awaited queries without a transaction; revertStatus *)
(* and the last write of saveQuotationSelectionData are not awaited at     *)
(* all, so that their writes reach the database after the answer, in any   *)
(* order.                                                                  *)
(***************************************************************************)
EXTENDS Integers, FiniteSets

CONSTANTS
  Styles, Colors,   \* the styles of the purchase and their colours
  StyleOf,          \* the style of a colour
  Maintainers,      \* the sets of styles whose dollar and import factor may be
                    \* the ones maintained
  ClientStatuses,   \* the statuses a client asks for in PUT /purchase
  Requests,         \* the requests that may be served at the same time
  MaxFaults         \* bound on queries, processes and services that fail

\* shared/enums: the statuses of a purchase that matter here, and those of
\* a colour, which are also those of a style.
StylesUnitsPurchase == 4
CompletePurchase == 7
Approvement == 8
PendingNegotiation == 9
Cotizations == 10
InNegotiation == 11
PurchaseStatuses == 4 .. 11

Confirmed == 1
Canceled == 2
Pending == 3
Negotiated == 4
Cotizado == 5
ColorStatuses == 1 .. 5

ASSUME StylesAssumption == Styles # {} /\ Maintainers \subseteq SUBSET Styles
ASSUME StyleOfAssumption == StyleOf \in [Colors -> Styles]
ASSUME ClientAssumption == ClientStatuses \subseteq PurchaseStatuses
ASSUME FaultsAssumption == MaxFaults \in Nat

StylesOf(colors) == {StyleOf[c] : c \in colors}

\* A colour is given its piName with approved and loses it with it.
Color == [status: ColorStatuses, approved: BOOLEAN]
\* The details of a style: fob and price present, cost and imu computed.
Detail == [priced: BOOLEAN, costed: BOOLEAN]
\* Writes started and not awaited: a style's status, a colour's approval, a
\* colour's deliveries, the purchase's status.
Writes == [styles: SUBSET Styles, colors: SUBSET Colors,
           ships: SUBSET Colors, status: SUBSET PurchaseStatuses]
NoWrites == [styles |-> {}, colors |-> {}, ships |-> {}, status |-> {}]

VARIABLES
  pStatus,      \* Purchase.status
  styleStatus,  \* PurchaseStyle.status
  color,        \* PurchaseStyleColor
  shipPi,       \* the colour's deliveries have the piName of its approval
  det,          \* PurchaseStyleDetails
  maintained,   \* the styles whose dollar and import factor are maintained
  main,         \* what a request does next
  sel,          \* the colours an approval, or a change of status, works on
  held,         \* the details it holds in memory, of which styles
  goal,         \* the status it is going to write, 0 for none
  todo,         \* writes it started and does not await
  last,         \* the last operation, if it began when nothing ran and
                \* nothing has begun or failed since
  faults

store == <<pStatus, styleStatus, color, shipPi, det, maintained>>
local == <<main, sel, held, goal, todo>>
vars == <<store, local, last, faults>>

MainSteps == {"idle", "details", "colors", "ships", "purchase", "notify",
              "status", "color_status", "edit", "quotation"}
Operations == {"none", "approve", "revert", "step_back", "quote", "select"}
Nothing == [op |-> "none", on |-> {}, answer |-> "none"]
NotHeld == [of |-> {}, det |-> [s \in Styles |-> [priced |-> FALSE, costed |-> FALSE]]]

TypeOK ==
  /\ pStatus \in PurchaseStatuses
  /\ styleStatus \in [Styles -> ColorStatuses]
  /\ color \in [Colors -> Color]
  /\ shipPi \in [Colors -> BOOLEAN]
  /\ det \in [Styles -> Detail]
  /\ maintained \in Maintainers
  /\ main \in [Requests -> MainSteps]
  /\ sel \in [Requests -> SUBSET Colors]
  /\ held \in [Requests -> [of: SUBSET Styles, det: [Styles -> Detail]]]
  /\ goal \in [Requests -> 0 .. 11]
  /\ todo \in [Requests -> Writes]
  /\ last \in [op: Operations, on: (SUBSET Colors) \cup (SUBSET Styles),
               answer: {"none", "ok", "error"}]
  /\ faults \in 0 .. MaxFaults

\* A purchase whose styles, colours and units have been entered.
Init ==
  /\ pStatus = StylesUnitsPurchase
  /\ styleStatus = [s \in Styles |-> Pending]
  /\ color = [c \in Colors |-> [status |-> Pending, approved |-> FALSE]]
  /\ shipPi = [c \in Colors |-> FALSE]
  /\ det = [s \in Styles |-> [priced |-> FALSE, costed |-> FALSE]]
  /\ maintained \in Maintainers
  /\ main = [r \in Requests |-> "idle"]
  /\ sel = [r \in Requests |-> {}]
  /\ held = [r \in Requests |-> NotHeld]
  /\ goal = [r \in Requests |-> 0]
  /\ todo = [r \in Requests |-> NoWrites]
  /\ last = Nothing
  /\ faults = 0

Idle(r) == main[r] = "idle" /\ todo[r] = NoWrites
Settled == \A r \in Requests : Idle(r)

\* The operation begins; what it overlaps with is no longer alone.
Begin(op, on) ==
  last' = IF Settled THEN [op |-> op, on |-> on, answer |-> "none"] ELSE Nothing
Answer(a) ==
  last' = IF last = Nothing THEN Nothing ELSE [last EXCEPT !.answer = a]

\* The request has nothing left to await.
Stop(r) ==
  /\ main' = [main EXCEPT ![r] = "idle"]
  /\ sel' = [sel EXCEPT ![r] = {}]
  /\ held' = [held EXCEPT ![r] = NotHeld]
  /\ goal' = [goal EXCEPT ![r] = 0]

Await(r, step) == main' = [main EXCEPT ![r] = step]

-----------------------------------------------------------------------------
\* Mutant: one negotiated style is enough.
StatusReadAny(r) ==
  /\ Idle(r) /\ Cotizations \in ClientStatuses
  /\ goal' = [goal EXCEPT ![r] =
       IF \E s \in Styles : styleStatus[s] = Negotiated
         THEN InNegotiation ELSE Cotizations]
  /\ Await(r, "status")
  /\ Begin("quote", {})
  /\ UNCHANGED <<store, sel, held, todo, faults>>

\* updateStatus: to Cotizations it looks at the styles first, and goes to
\* InNegotiation if all of them are negotiated.
StatusRead(r) ==
  /\ Idle(r) /\ Cotizations \in ClientStatuses
  /\ goal' = [goal EXCEPT ![r] =
       IF \A s \in Styles : styleStatus[s] = Negotiated
         THEN InNegotiation ELSE Cotizations]
  /\ Await(r, "status")
  /\ Begin("quote", {})
  /\ UNCHANGED <<store, sel, held, todo, faults>>

StatusWrite(r) ==
  /\ main[r] = "status"
  /\ pStatus' = goal[r]
  /\ Stop(r) /\ Answer("ok")
  /\ UNCHANGED <<maintained, styleStatus, color, shipPi, det, todo, faults>>

\* Any other status is written as asked.
PutStatus(r) ==
  /\ Idle(r)
  /\ pStatus' \in ClientStatuses \ {Cotizations}
  /\ last' = Nothing
  /\ UNCHANGED <<maintained, styleStatus, color, shipPi, det, local, faults>>

\* PurchaseStyleService.updateStatus, and the negotiations saved, set the
\* status of styles in one query.
SetStyleStatus(r) ==
  /\ Idle(r)
  /\ \E s \in Styles, st \in {Negotiated, Cotizado} :
       styleStatus' = [styleStatus EXCEPT ![s] = st]
  /\ last' = Nothing
  /\ UNCHANGED <<maintained, pStatus, color, shipPi, det, local, faults>>

\* saveStatusColor, of one colour: saved when it differed at the read.
ColorStatusRead(r) ==
  /\ Idle(r)
  /\ \E c \in Colors, st \in {Canceled, Pending} :
       /\ color[c].status # st
       /\ sel' = [sel EXCEPT ![r] = {c}]
       /\ goal' = [goal EXCEPT ![r] = st]
  /\ Await(r, "color_status")
  /\ last' = Nothing
  /\ UNCHANGED <<store, held, todo, faults>>

ColorStatusSave(r) ==
  /\ main[r] = "color_status"
  /\ color' = [c \in Colors |-> IF c \in sel[r]
       THEN [color[c] EXCEPT !.status = goal[r]] ELSE color[c]]
  /\ Stop(r)
  /\ UNCHANGED <<maintained, pStatus, styleStatus, shipPi, det, todo, last, faults>>

\* saveStyleDetails, of one style: the whole row is read, given the price of
\* the form, which may be empty, and saved.
EditRead(r) ==
  /\ Idle(r)
  /\ \E s \in Styles, p \in BOOLEAN :
       held' = [held EXCEPT ![r] = [of |-> {s}, det |->
                  [NotHeld.det EXCEPT ![s] = [det[s] EXCEPT !.priced = p]]]]
  /\ Await(r, "edit")
  /\ last' = Nothing
  /\ UNCHANGED <<store, sel, goal, todo, faults>>

HeldOver(r) == [s \in Styles |-> IF s \in held[r].of THEN held[r].det[s] ELSE det[s]]

EditSave(r) ==
  /\ main[r] = "edit"
  /\ det' = HeldOver(r)
  /\ Stop(r)
  /\ UNCHANGED <<maintained, pStatus, styleStatus, color, shipPi, todo, last, faults>>

-----------------------------------------------------------------------------
\* saveQuotationSelectionData: "save" keeps the status and may empty prices,
\* "toAprove" needs them and completes the purchase, anything else returns it
\* to the units.
QuotationRead(r) ==
  /\ Idle(r) /\ pStatus = InNegotiation
  /\ \E sent \in (SUBSET Styles) \ {{}}, to \in {0, StylesUnitsPurchase, CompletePurchase},
        p \in BOOLEAN :
       /\ to # 0 => p
       /\ held' = [held EXCEPT ![r] = [of |-> sent, det |->
            [s \in Styles |-> [priced |-> p /\ s \in sent, costed |-> FALSE]]]]
       /\ goal' = [goal EXCEPT ![r] = to]
       /\ IF to = CompletePurchase THEN Begin("select", sent) ELSE last' = Nothing
  /\ Await(r, "quotation")
  /\ UNCHANGED <<store, sel, todo, faults>>

\* Mutant: the purchase is completed with the first style.
QuotationDetailEarly(r) ==
  /\ main[r] = "quotation"
  /\ \E s \in held[r].of : det' = [det EXCEPT ![s].priced = held[r].det[s].priced]
  /\ todo' = [todo EXCEPT ![r].status = {goal[r]} \ {0}]
  /\ Stop(r) /\ Answer("ok")
  /\ UNCHANGED <<maintained, pStatus, styleStatus, color, shipPi, faults>>

\* It updates the details style by style, the prices only, and then starts
\* the update of the purchase without awaiting it.
QuotationDetail(r) ==
  /\ main[r] = "quotation"
  /\ \E s \in held[r].of :
       /\ det' = [det EXCEPT ![s].priced = held[r].det[s].priced]
       /\ \/ /\ held[r].of = {s}
             /\ todo' = [todo EXCEPT ![r].status = {goal[r]} \ {0}]
             /\ Stop(r) /\ Answer("ok")
          \/ /\ held[r].of # {s}
             /\ held' = [held EXCEPT ![r].of = @ \ {s}]
             /\ UNCHANGED <<main, sel, goal, todo, last>>
  /\ UNCHANGED <<maintained, pStatus, styleStatus, color, shipPi, faults>>

\* The negotiation selected for a style is gone: it returns in the middle.
QuotationStops(r) ==
  /\ main[r] = "quotation" /\ goal[r] # 0
  /\ Stop(r) /\ Answer("error")
  /\ UNCHANGED <<store, todo, faults>>

-----------------------------------------------------------------------------
\* The colours of a filter that are Pending, of a purchase complete or
\* already approved, with fob and price in every style; else it is refused.
ApproveRead(r) ==
  /\ Idle(r)
  /\ pStatus \in {CompletePurchase, Approvement}
  /\ \E filter \in SUBSET Colors :
       LET found == {c \in filter : color[c].status = Pending} IN
       /\ found # {}
       /\ \A s \in StylesOf(found) : det[s].priced
       /\ sel' = [sel EXCEPT ![r] = found]
       /\ IF StylesOf(found) \subseteq maintained
            THEN /\ held' = [held EXCEPT ![r] = [of |-> StylesOf(found), det |->
                      [s \in Styles |-> [priced |-> s \in StylesOf(found),
                                         costed |-> s \in StylesOf(found)]]]]
                 /\ Await(r, "details")
            ELSE Await(r, "colors") /\ UNCHANGED held
       /\ Begin("approve", found)
  /\ UNCHANGED <<store, goal, todo, faults>>

\* Mutant: the cost computed is not saved.
ApproveDetailsUnsaved(r) ==
  /\ main[r] = "details"
  /\ Await(r, "colors")
  /\ UNCHANGED <<store, sel, held, goal, todo, last, faults>>

\* The whole rows of the details, as read, with their cost.
ApproveDetails(r) ==
  /\ main[r] = "details"
  /\ det' = HeldOver(r)
  /\ Await(r, "colors")
  /\ UNCHANGED <<maintained, pStatus, styleStatus, color, shipPi, sel, held, goal, todo, last, faults>>

ApproveColors(r) ==
  /\ main[r] = "colors"
  /\ color' = [c \in Colors |-> IF c \in sel[r]
       THEN [status |-> Confirmed, approved |-> TRUE] ELSE color[c]]
  /\ Await(r, "ships")
  /\ UNCHANGED <<maintained, pStatus, styleStatus, shipPi, det, sel, held, goal, todo, last, faults>>

ApproveShips(r) ==
  /\ main[r] = "ships"
  /\ shipPi' = [c \in Colors |-> c \in sel[r] \/ shipPi[c]]
  /\ Await(r, "purchase")
  /\ UNCHANGED <<maintained, pStatus, styleStatus, color, det, sel, held, goal, todo, last, faults>>

ApprovePurchase(r) ==
  /\ main[r] = "purchase"
  /\ pStatus' = Approvement
  /\ Await(r, "notify")
  /\ UNCHANGED <<maintained, styleStatus, color, shipPi, det, sel, held, goal, todo, last, faults>>

ApproveNotify(r) ==
  /\ main[r] = "notify"
  /\ Stop(r) /\ Answer("ok")
  /\ UNCHANGED <<store, todo, faults>>

\* The security service gives no users: the approval is answered as an error.
NotifyFails(r) ==
  /\ main[r] = "notify" /\ faults < MaxFaults
  /\ Stop(r) /\ Answer("error")
  /\ faults' = faults + 1
  /\ UNCHANGED <<store, todo>>

-----------------------------------------------------------------------------
\* Mutant: the purchase itself is left out.
RevertColorsOnly(r) ==
  /\ Idle(r)
  /\ pStatus \in {Approvement, PendingNegotiation}
  /\ todo' = [todo EXCEPT ![r] = [styles |-> Styles, colors |-> Colors,
                 ships |-> Colors, status |-> {}]]
  /\ last' = IF Settled
       THEN [op |-> "revert", on |-> Colors, answer |-> "ok"] ELSE Nothing
  /\ UNCHANGED <<store, main, sel, held, goal, faults>>

\* revertStatus by a Master: it starts every write and answers.
Revert(r) ==
  /\ Idle(r)
  /\ \/ /\ pStatus \in {Approvement, PendingNegotiation}
        /\ todo' = [todo EXCEPT ![r] = [styles |-> Styles, colors |-> Colors,
                       ships |-> Colors, status |-> {CompletePurchase}]]
        /\ last' = IF Settled
             THEN [op |-> "revert", on |-> Colors, answer |-> "ok"] ELSE Nothing
     \/ /\ pStatus = InNegotiation
        /\ todo' = [todo EXCEPT ![r].status = {PendingNegotiation}]
        /\ last' = IF Settled
             THEN [op |-> "step_back", on |-> {}, answer |-> "ok"] ELSE Nothing
  /\ UNCHANGED <<store, main, sel, held, goal, faults>>

WriteStyle(r) == \E s \in todo[r].styles :
  /\ styleStatus' = [styleStatus EXCEPT ![s] = Pending]
  /\ todo' = [todo EXCEPT ![r].styles = @ \ {s}]
  /\ UNCHANGED <<maintained, pStatus, color, shipPi, det, main, sel, held, goal, last, faults>>

\* Mutant: the colour is Pending again and keeps its approval.
WriteColorStatusOnly(r) == \E c \in todo[r].colors :
  /\ color' = [color EXCEPT ![c].status = Pending]
  /\ todo' = [todo EXCEPT ![r].colors = @ \ {c}]
  /\ UNCHANGED <<maintained, pStatus, styleStatus, shipPi, det, main, sel, held, goal, last, faults>>

WriteColor(r) == \E c \in todo[r].colors :
  /\ color' = [color EXCEPT ![c] = [status |-> Pending, approved |-> FALSE]]
  /\ todo' = [todo EXCEPT ![r].colors = @ \ {c}]
  /\ UNCHANGED <<maintained, pStatus, styleStatus, shipPi, det, main, sel, held, goal, last, faults>>

WriteShips(r) == \E c \in todo[r].ships :
  /\ shipPi' = [shipPi EXCEPT ![c] = FALSE]
  /\ todo' = [todo EXCEPT ![r].ships = @ \ {c}]
  /\ UNCHANGED <<maintained, pStatus, styleStatus, color, det, main, sel, held, goal, last, faults>>

WriteStatus(r) == \E st \in todo[r].status :
  /\ pStatus' = st
  /\ todo' = [todo EXCEPT ![r].status = {}]
  /\ UNCHANGED <<maintained, styleStatus, color, shipPi, det, main, sel, held, goal, last, faults>>

\* A query fails or the process stops: what the request had still to await
\* is lost, and some of the writes it did not await.
Lose(r) ==
  /\ ~Idle(r) /\ faults < MaxFaults
  /\ Stop(r)
  /\ \E left \in [styles: SUBSET todo[r].styles, colors: SUBSET todo[r].colors,
                  ships: SUBSET todo[r].ships, status: SUBSET todo[r].status] :
       /\ main[r] # "idle" \/ left # todo[r]
       /\ todo' = [todo EXCEPT ![r] = left]
  /\ last' = Nothing
  /\ faults' = faults + 1
  /\ UNCHANGED store

-----------------------------------------------------------------------------
Start(r) ==
  \/ StatusRead(r) \/ PutStatus(r) \/ SetStyleStatus(r) \/ ColorStatusRead(r)
  \/ EditRead(r) \/ QuotationRead(r) \/ ApproveRead(r) \/ Revert(r)

Step(r) ==
  \/ StatusWrite(r) \/ ColorStatusSave(r) \/ EditSave(r)
  \/ QuotationDetail(r) \/ QuotationStops(r)
  \/ ApproveDetails(r) \/ ApproveColors(r) \/ ApproveShips(r)
  \/ ApprovePurchase(r) \/ ApproveNotify(r)
  \/ WriteStyle(r) \/ WriteColor(r) \/ WriteShips(r) \/ WriteStatus(r)

Next == \E r \in Requests : Start(r) \/ Step(r) \/ NotifyFails(r) \/ Lose(r)

Spec == Init /\ [][Next]_vars
FairSpec == Spec /\ \A r \in Requests : WF_vars(Step(r))

-----------------------------------------------------------------------------
\* What an operation promises when it begins with nothing else running and
\* nothing begins or fails before it is done, whatever the purchase has been
\* through: approvals cut short, reversals half applied, edits overlapping.

\* An approval leaves the purchase approved and the colours it found
\* Confirmed, with a piName also on their deliveries, priced, and with a cost
\* when the maintainers cover all of them (purchase-style.service 204-339).
ApprovalHolds ==
  Settled /\ last.op = "approve" =>
    /\ pStatus = Approvement
    /\ \A c \in last.on :
         /\ color[c] = [status |-> Confirmed, approved |-> TRUE]
         /\ shipPi[c]
         /\ det[StyleOf[c]].priced
         /\ StylesOf(last.on) \subseteq maintained => det[StyleOf[c]].costed

Reverted ==
  /\ pStatus = CompletePurchase
  /\ \A s \in Styles : styleStatus[s] = Pending
  /\ \A c \in Colors :
       color[c] = [status |-> Pending, approved |-> FALSE] /\ ~shipPi[c]

\* A reversal of an approved purchase leaves no trace of any approval, though
\* none of its writes is awaited (purchase.service 1448-1509).
RevertHolds ==
  /\ Settled /\ last.op = "revert" => Reverted
  /\ Settled /\ last.op = "step_back" => pStatus = PendingNegotiation

\* The types hold, and PUT /purchase to Cotizations ends in InNegotiation exactly when every
\* style is negotiated (purchase.service 676-700).
QuoteHolds ==
  /\ TypeOK
  /\ Settled /\ last.op = "quote" =>
       pStatus = IF \A s \in Styles : styleStatus[s] = Negotiated
                   THEN InNegotiation ELSE Cotizations

\* A selection of quotations sent to approval and answered success leaves
\* the purchase complete and all the styles it sent priced
\* (purchase.service 1393-1446).
SelectionHolds ==
  Settled /\ last.op = "select" /\ last.answer = "ok" =>
    pStatus = CompletePurchase /\ \A s \in last.on : det[s].priced

\* With one request at a time and maintainers that cover every style: an
\* approved colour has its cost, at every step and after every failure,
\* because the details are saved before the colours.
ApprovedCosted ==
  maintained = Styles => \A c \in Colors : color[c].approved => det[StyleOf[c]].costed

\* A reversal begun alone takes effect unless something disturbs it.
RevertTakesEffect == last.op = "revert" ~> Reverted \/ last.op # "revert"
=============================================================================
