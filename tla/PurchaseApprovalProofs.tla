----------------------- MODULE PurchaseApprovalProofs -----------------------
(***************************************************************************)
(* For any styles, colours, maintainers, requests and number of failures:  *)
(* an operation that begins alone, and that nothing disturbs, does what it *)
(* promises; and with one request at a time an approved colour has its     *)
(* cost, at every step.                                                    *)
(***************************************************************************)
EXTENDS PurchaseApproval, TLAPS

LastType == [op: Operations, on: (SUBSET Colors) \cup (SUBSET Styles),
             answer: {"none", "ok", "error"}]
HeldType == [of: SUBSET Styles, det: [Styles -> Detail]]

StoreOK ==
  /\ pStatus \in PurchaseStatuses /\ styleStatus \in [Styles -> ColorStatuses]
  /\ color \in [Colors -> Color] /\ shipPi \in [Colors -> BOOLEAN]
  /\ det \in [Styles -> Detail] /\ maintained \in Maintainers
\* The statuses a request is going to write are of the kind it writes.
GoalOK ==
  \A r \in Requests :
    /\ main[r] = "status" => goal[r] \in PurchaseStatuses
    /\ main[r] = "color_status" => goal[r] \in ColorStatuses
    /\ main[r] = "quotation" => goal[r] \in {0} \cup PurchaseStatuses
LocalOK ==
  /\ main \in [Requests -> MainSteps] /\ sel \in [Requests -> SUBSET Colors]
  /\ held \in [Requests -> HeldType] /\ goal \in [Requests -> 0 .. 11]
  /\ GoalOK
TodoOK == todo \in [Requests -> Writes]
LastOK == last \in LastType /\ faults \in 0 .. MaxFaults
TypeInv == StoreOK /\ LocalOK /\ TodoOK /\ LastOK

\* PUT /purchase to Cotizations writes what it found of the styles.
Quoted == IF \A s \in Styles : styleStatus[s] = Negotiated THEN InNegotiation ELSE Cotizations
QuoteInv ==
  last.op = "quote" =>
    /\ \A r \in Requests : /\ main[r] \in {"idle", "status"} /\ todo[r] = NoWrites
                           /\ main[r] = "status" => goal[r] = Quoted
    /\ pStatus = Quoted \/ \E r \in Requests : main[r] = "status"

\* What a reversal has not undone is among its writes.
RevertInv ==
  last.op = "revert" =>
    /\ \A r \in Requests : main[r] = "idle" /\ todo[r].status \subseteq {CompletePurchase}
    /\ pStatus = CompletePurchase \/ \E r \in Requests : CompletePurchase \in todo[r].status
    /\ \A s \in Styles : styleStatus[s] = Pending \/ \E r \in Requests : s \in todo[r].styles
    /\ \A c \in Colors :
         /\ \/ color[c] = [status |-> Pending, approved |-> FALSE]
            \/ \E r \in Requests : c \in todo[r].colors
         /\ ~shipPi[c] \/ \E r \in Requests : c \in todo[r].ships

StepBackInv ==
  last.op = "step_back" =>
    /\ \A r \in Requests : main[r] = "idle" /\ todo[r].status \subseteq {PendingNegotiation}
    /\ pStatus = PendingNegotiation \/ \E r \in Requests : PendingNegotiation \in todo[r].status

\* A selection has priced the styles it no longer holds, and is answered when
\* it holds none.
SelectInv ==
  last.op = "select" =>
    /\ \A r \in Requests :
         /\ main[r] \in {"idle", "quotation"} /\ todo[r].status \subseteq {CompletePurchase}
         /\ main[r] = "quotation" =>
              /\ goal[r] = CompletePurchase
              /\ \A s \in Styles \cap last.on :
                   held[r].det[s].priced /\ (s \in held[r].of \/ det[s].priced)
    /\ last.on \subseteq Styles
    /\ last.answer = "ok" =>
         /\ \A s \in last.on : det[s].priced
         /\ pStatus = CompletePurchase \/ \E r \in Requests : CompletePurchase \in todo[r].status

\* What an approval has stored before each of its steps.
Priced(c) ==
  det[StyleOf[c]].priced /\ (StylesOf(last.on) \subseteq maintained => det[StyleOf[c]].costed)
Costs == \A c \in last.on : Priced(c)
Confirms == \A c \in last.on : color[c] = [status |-> Confirmed, approved |-> TRUE]
Ships == \A c \in last.on : shipPi[c]
Approving(r) ==
  /\ main[r] \in {"idle", "details", "colors", "ships", "purchase", "notify"}
  /\ main[r] # "idle" => sel[r] = last.on
  /\ main[r] = "details" =>
       \A s \in StylesOf(last.on) :
         s \in held[r].of /\ held[r].det[s].priced /\ held[r].det[s].costed
  /\ main[r] \in {"colors", "ships", "purchase", "notify"} => Costs
  /\ main[r] \in {"ships", "purchase", "notify"} => Confirms
  /\ main[r] \in {"purchase", "notify"} => Ships
  /\ main[r] = "notify" => pStatus = Approvement
ApproveInv ==
  last.op = "approve" =>
    /\ last.on \subseteq Colors
    /\ \A r \in Requests : todo[r] = NoWrites /\ Approving(r)
    /\ Settled => pStatus = Approvement /\ Costs /\ Confirms /\ Ships

IInv == TypeInv /\ QuoteInv /\ RevertInv /\ StepBackInv /\ SelectInv /\ ApproveInv

OneAtATime == \A r, s \in Requests : r = s

\* With every style maintained: an approved colour has its cost, what an
\* approval holds has it, and what an edit holds has it if the style does.
CostInv ==
  /\ ApprovedCosted
  /\ maintained = Styles => \A r \in Requests :
       /\ main[r] = "edit" =>
            \A s \in held[r].of : det[s].costed => held[r].det[s].costed
       /\ main[r] = "details" =>
            /\ \A s \in held[r].of : held[r].det[s].costed
            /\ StylesOf(sel[r]) \subseteq held[r].of
       /\ main[r] = "colors" => \A c \in sel[r] : det[StyleOf[c]].costed

-----------------------------------------------------------------------------
\* The types.

LEMMA TypeParts == TypeInv => TypeOK
  BY DEF TypeInv, TypeOK, StoreOK, LocalOK, TodoOK, LastOK, HeldType, LastType

LEMMA Kinds ==
  /\ ColorStatuses \subseteq 0 .. 11 /\ PurchaseStatuses \subseteq 0 .. 11
  /\ {Confirmed, Canceled, Pending, Negotiated, Cotizado} \subseteq ColorStatuses
  /\ {StylesUnitsPurchase, CompletePurchase, Approvement, PendingNegotiation, Cotizations,
      InNegotiation} \subseteq PurchaseStatuses
  /\ 0 \notin PurchaseStatuses
  BY DEF ColorStatuses, PurchaseStatuses, Confirmed, Canceled, Pending, Negotiated, Cotizado,
     StylesUnitsPurchase, CompletePurchase, Approvement, PendingNegotiation, Cotizations, InNegotiation

LEMMA ZeroTyped == 0 \in 0 .. 11
  OBVIOUS

LEMMA TypeInit == Init => TypeInv
<1> SUFFICES ASSUME Init PROVE TypeInv
  OBVIOUS
<1>1. StoreOK
  BY Kinds DEF Init, StoreOK, Color, Detail
<1>2. LocalOK
  BY Kinds DEF Init, LocalOK, GoalOK, MainSteps, HeldType, NotHeld, Detail
<1>3. TodoOK
  BY DEF Init, TodoOK, Writes, NoWrites
<1>4. LastOK
  BY FaultsAssumption DEF Init, LastOK, LastType, Nothing, Operations
<1>5. QED
  BY <1>1, <1>2, <1>3, <1>4 DEF TypeInv

\* The answers, the ends of requests and the writes left are typed.
LEMMA LastTyped ==
  /\ Nothing \in LastType
  /\ \A a \in {"none", "ok", "error"} : last \in LastType /\ Answer(a) => last' \in LastType
  /\ \A op \in Operations, on \in (SUBSET Colors) \cup (SUBSET Styles) :
       Begin(op, on) => last' \in LastType
<1>1. Nothing \in LastType
  BY DEF Nothing, LastType, Operations
<1>2. ASSUME NEW a \in {"none", "ok", "error"}, last \in LastType, Answer(a)
      PROVE  last' \in LastType
  BY <1>1, <1>2 DEF LastType, Answer
<1>3. ASSUME NEW op \in Operations, NEW on \in (SUBSET Colors) \cup (SUBSET Styles), Begin(op, on)
      PROVE  last' \in LastType
  BY <1>1, <1>3 DEF LastType, Begin
<1>4. QED
  BY <1>1, <1>2, <1>3

LEMMA StopTyped ==
  ASSUME LocalOK, NEW r \in Requests, Stop(r)
  PROVE  LocalOK'
<1>1. NotHeld \in HeldType
  BY DEF NotHeld, HeldType, Detail
<1>2. main' \in [Requests -> MainSteps] /\ goal' \in [Requests -> 0 .. 11]
  <2>1. "idle" \in MainSteps
    BY DEF MainSteps
  <2>2. QED
    BY <2>1, ZeroTyped DEF Stop, LocalOK
<1>3. sel' \in [Requests -> SUBSET Colors] /\ held' \in [Requests -> HeldType]
  BY <1>1 DEF Stop, LocalOK
<1>4. GoalOK'
  BY DEF Stop, LocalOK, GoalOK
<1>5. QED
  BY <1>2, <1>3, <1>4 DEF LocalOK

LEMMA AwaitTyped ==
  ASSUME LocalOK, NEW r \in Requests,
         NEW step \in {"details", "colors", "ships", "purchase", "notify"}, Await(r, step),
         UNCHANGED <<sel, held, goal>>
  PROVE  LocalOK'
  BY DEF Await, LocalOK, GoalOK, MainSteps

LEMMA WritesTyped ==
  ASSUME NEW w \in Writes
  PROVE  /\ \A s : [w EXCEPT !.styles = @ \ {s}] \in Writes
         /\ \A c : [w EXCEPT !.colors = @ \ {c}] \in Writes
         /\ \A c : [w EXCEPT !.ships = @ \ {c}] \in Writes
         /\ \A S \in SUBSET PurchaseStatuses : [w EXCEPT !.status = S] \in Writes
  BY DEF Writes

LEMMA HeldOverTyped ==
  ASSUME StoreOK, LocalOK, NEW r \in Requests
  PROVE  HeldOver(r) \in [Styles -> Detail]
  BY DEF StoreOK, LocalOK, HeldType, HeldOver

LEMMA DetailsMade ==
  /\ \A x \in Detail, p \in BOOLEAN : [x EXCEPT !.priced = p] \in Detail
  /\ \A S : [s \in Styles |-> [priced |-> s \in S, costed |-> s \in S]] \in [Styles -> Detail]
  /\ \A colors \in SUBSET Colors : StylesOf(colors) \subseteq Styles
<1>1. \A colors \in SUBSET Colors : StylesOf(colors) \subseteq Styles
  BY StyleOfAssumption DEF StylesOf
<1>2. QED
  BY <1>1 DEF Detail

LEMMA StartTyped ==
  ASSUME TypeInv, NEW r \in Requests, Start(r)
  PROVE  TypeInv'
<1>1. StoreOK'
  <2>1. CASE PutStatus(r)
    BY <2>1, ClientAssumption DEF TypeInv, StoreOK, PutStatus
  <2>2. CASE SetStyleStatus(r)
    BY <2>2, Kinds DEF TypeInv, StoreOK, SetStyleStatus
  <2>3. CASE UNCHANGED store
    BY <2>3 DEF TypeInv, StoreOK, store
  <2>4. QED
    BY <2>1, <2>2, <2>3 DEF Start, StatusRead, ColorStatusRead, EditRead, QuotationRead, ApproveRead,
       Revert
<1>2. LocalOK'
  <2> USE Kinds DEF TypeInv, LocalOK, GoalOK, Await, MainSteps
  <2>1. CASE StatusRead(r)
    BY <2>1 DEF StatusRead
  <2>2. CASE PutStatus(r) \/ SetStyleStatus(r) \/ Revert(r)
    BY <2>2 DEF PutStatus, SetStyleStatus, Revert, local
  <2>3. CASE ColorStatusRead(r)
    <3>1. PICK c \in Colors, st \in {Canceled, Pending} :
            sel' = [sel EXCEPT ![r] = {c}] /\ goal' = [goal EXCEPT ![r] = st]
      BY <2>3 DEF ColorStatusRead
    <3>2. st \in ColorStatuses /\ st \in 0 .. 11
      OBVIOUS
    <3>3. main' = [main EXCEPT ![r] = "color_status"] /\ held' = held
      BY <2>3 DEF ColorStatusRead
    <3>4. QED
      BY <3>1, <3>2, <3>3
  <2>4. CASE EditRead(r)
    <3>1. PICK s \in Styles, p \in BOOLEAN :
            held' = [held EXCEPT ![r] = [of |-> {s}, det |->
                       [NotHeld.det EXCEPT ![s] = [det[s] EXCEPT !.priced = p]]]]
      BY <2>4 DEF EditRead
    <3>2. [det[s] EXCEPT !.priced = p] \in Detail
      <4>1. det[s] \in Detail
        BY DEF StoreOK
      <4>2. QED
        BY <4>1, DetailsMade
    <3>3. NotHeld.det \in [Styles -> Detail]
      BY DEF NotHeld, Detail
    <3>4. [NotHeld.det EXCEPT ![s] = [det[s] EXCEPT !.priced = p]] \in [Styles -> Detail]
      BY <3>2, <3>3
    <3>5. [of |-> {s}, det |-> [NotHeld.det EXCEPT ![s] = [det[s] EXCEPT !.priced = p]]] \in HeldType
      BY <3>4 DEF HeldType
    <3>6. held' \in [Requests -> HeldType]
      BY <3>1, <3>5
    <3>7. main' = [main EXCEPT ![r] = "edit"] /\ goal' = goal /\ sel' = sel
      BY <2>4 DEF EditRead
    <3>8. QED
      BY <3>6, <3>7
  <2>5. CASE QuotationRead(r)
    <3>1. PICK sent \in (SUBSET Styles) \ {{}}, to \in {0, StylesUnitsPurchase, CompletePurchase},
               p \in BOOLEAN :
       /\ held' = [held EXCEPT ![r] = [of |-> sent, det |->
            [s \in Styles |-> [priced |-> p /\ s \in sent, costed |-> FALSE]]]]
       /\ goal' = [goal EXCEPT ![r] = to]
      BY <2>5 DEF QuotationRead
    <3>2. [s \in Styles |-> [priced |-> p /\ s \in sent, costed |-> FALSE]] \in [Styles -> Detail]
      BY DEF Detail
    <3>3. [of |-> sent, det |-> [s \in Styles |-> [priced |-> p /\ s \in sent, costed |-> FALSE]]]
            \in HeldType
      BY <3>2 DEF HeldType
    <3>4. held' \in [Requests -> HeldType]
      BY <3>1, <3>3
    <3>5. to \in {0} \cup PurchaseStatuses /\ to \in 0 .. 11
      BY ZeroTyped, Kinds
    <3>6. main' = [main EXCEPT ![r] = "quotation"] /\ sel' = sel
      BY <2>5 DEF QuotationRead
    <3>7. QED
      BY <3>1, <3>4, <3>5, <3>6
  <2>6. CASE ApproveRead(r)
    <3>1. PICK found \in SUBSET Colors :
       /\ sel' = [sel EXCEPT ![r] = found]
       /\ \/ /\ held' = [held EXCEPT ![r] = [of |-> StylesOf(found), det |->
                  [s \in Styles |-> [priced |-> s \in StylesOf(found),
                                     costed |-> s \in StylesOf(found)]]]]
             /\ main' = [main EXCEPT ![r] = "details"]
          \/ main' = [main EXCEPT ![r] = "colors"] /\ held' = held
      BY <2>6 DEF ApproveRead
    <3>2. StylesOf(found) \subseteq Styles
      BY DetailsMade
    <3>3. [s \in Styles |-> [priced |-> s \in StylesOf(found), costed |-> s \in StylesOf(found)]]
            \in [Styles -> Detail]
      BY DetailsMade
    <3>4. [of |-> StylesOf(found), det |->
            [s \in Styles |-> [priced |-> s \in StylesOf(found), costed |-> s \in StylesOf(found)]]]
            \in HeldType
      BY <3>2, <3>3 DEF HeldType
    <3>5. held' \in [Requests -> HeldType]
      BY <3>1, <3>4
    <3>6. goal' = goal
      BY <2>6 DEF ApproveRead
    <3>7. QED
      BY <3>1, <3>5, <3>6
  <2>7. QED
    BY <2>1, <2>2, <2>3, <2>4, <2>5, <2>6 DEF Start
<1>3. TodoOK'
  <2>1. CASE Revert(r)
    <3>1. [styles |-> Styles, colors |-> Colors, ships |-> Colors, status |-> {CompletePurchase}] \in Writes
      BY Kinds DEF Writes
    <3>2. todo[r] \in Writes /\ {PendingNegotiation} \in SUBSET PurchaseStatuses
      BY Kinds DEF TypeInv, TodoOK
    <3>3. QED
      BY <2>1, <3>1, <3>2, WritesTyped DEF TypeInv, TodoOK, Revert
  <2>2. QED
    BY <2>1 DEF TypeInv, TodoOK, Start, StatusRead, PutStatus, SetStyleStatus, ColorStatusRead,
       EditRead, QuotationRead, ApproveRead, local
<1>4. LastOK'
  <2>1. CASE Revert(r)
    <3>1. [op |-> "revert", on |-> Colors, answer |-> "ok"] \in LastType
      BY DEF LastType, Operations
    <3>2. [op |-> "step_back", on |-> {}, answer |-> "ok"] \in LastType
      BY DEF LastType, Operations
    <3>3. QED
      BY <2>1, <3>1, <3>2, LastTyped DEF TypeInv, LastOK, Revert
  <2>2. CASE ApproveRead(r)
    BY <2>2, LastTyped DEF TypeInv, LastOK, ApproveRead, Operations
  <2>3. QED
    BY <2>1, <2>2, LastTyped DEF TypeInv, LastOK, Start, StatusRead, PutStatus, SetStyleStatus,
       ColorStatusRead, EditRead, QuotationRead, Operations
<1>5. QED
  BY <1>1, <1>2, <1>3, <1>4 DEF TypeInv

LEMMA StepTyped ==
  ASSUME TypeInv, NEW r \in Requests, Step(r)
  PROVE  TypeInv'
<1> USE DEF TypeInv
<1>1. CASE StatusWrite(r)
  BY <1>1, LastTyped, StopTyped DEF StatusWrite, StoreOK, TodoOK, LastOK, LocalOK, GoalOK
<1>2. CASE ColorStatusSave(r)
  <2>1. StoreOK'
    <3>1. goal[r] \in ColorStatuses
      BY <1>2 DEF ColorStatusSave, LocalOK, GoalOK
    <3>2. \A c \in Colors : [color[c] EXCEPT !.status = goal[r]] \in Color /\ color[c] \in Color
      BY <3>1 DEF StoreOK, Color
    <3>3. color' \in [Colors -> Color]
      BY <1>2, <3>2 DEF ColorStatusSave
    <3>4. QED
      BY <1>2, <3>3 DEF ColorStatusSave, StoreOK
  <2>2. QED
    BY <1>2, <2>1, StopTyped DEF ColorStatusSave, TodoOK, LastOK
<1>3. CASE EditSave(r)
  BY <1>3, StopTyped, HeldOverTyped DEF EditSave, StoreOK, TodoOK, LastOK
<1>4. CASE QuotationDetail(r)
  <2>1. StoreOK'
    <3>1. PICK s \in held[r].of : det' = [det EXCEPT ![s].priced = held[r].det[s].priced]
      BY <1>4 DEF QuotationDetail
    <3>2. s \in Styles /\ held[r].det[s].priced \in BOOLEAN
      BY DEF LocalOK, HeldType, Detail
    <3>3. [det[s] EXCEPT !.priced = held[r].det[s].priced] \in Detail
      BY <3>2 DEF StoreOK, Detail
    <3>4. det' \in [Styles -> Detail]
      BY <3>1, <3>2, <3>3 DEF StoreOK
    <3>5. QED
      BY <1>4, <3>4 DEF QuotationDetail, StoreOK
  <2>2. LocalOK' /\ TodoOK' /\ LastOK'
    <3>1. PICK s \in held[r].of :
       \/ /\ held[r].of = {s}
          /\ todo' = [todo EXCEPT ![r].status = {goal[r]} \ {0}]
          /\ Stop(r) /\ Answer("ok")
       \/ /\ held[r].of # {s}
          /\ held' = [held EXCEPT ![r].of = @ \ {s}]
          /\ UNCHANGED <<main, sel, goal, todo, last>>
      BY <1>4 DEF QuotationDetail
    <3>2. main[r] = "quotation" /\ UNCHANGED faults
      BY <1>4 DEF QuotationDetail
    <3>3. CASE held[r].of = {s} /\ Stop(r) /\ Answer("ok")
               /\ todo' = [todo EXCEPT ![r].status = {goal[r]} \ {0}]
      <4>1. LocalOK' /\ LastOK'
        BY <3>2, <3>3, LastTyped, StopTyped DEF LastOK
      <4>2. todo[r] \in Writes /\ {goal[r]} \ {0} \in SUBSET PurchaseStatuses
        BY <3>2 DEF TodoOK, LocalOK, GoalOK
      <4>3. QED
        BY <3>3, <4>1, <4>2, WritesTyped DEF TodoOK
    <3>4. CASE held' = [held EXCEPT ![r].of = @ \ {s}] /\ UNCHANGED <<main, sel, goal, todo, last>>
      <4>1. [held[r] EXCEPT !.of = held[r].of \ {s}] \in HeldType
        BY DEF LocalOK, HeldType
      <4>2. held' \in [Requests -> HeldType]
        BY <3>4, <4>1 DEF LocalOK
      <4>3. QED
        BY <3>2, <3>4, <4>2 DEF TodoOK, LastOK, LocalOK, GoalOK
    <3>5. QED
      BY <3>1, <3>3, <3>4
  <2>3. QED
    BY <2>1, <2>2
<1>5. CASE QuotationStops(r) \/ ApproveNotify(r)
  BY <1>5, LastTyped, StopTyped DEF QuotationStops, ApproveNotify, store, StoreOK, TodoOK, LastOK
<1>6. CASE ApproveDetails(r)
  BY <1>6, AwaitTyped, HeldOverTyped DEF ApproveDetails, StoreOK, TodoOK, LastOK
<1>7. CASE ApproveColors(r)
  <2>1. StoreOK'
    BY <1>7, Kinds DEF ApproveColors, StoreOK, Color
  <2>2. QED
    BY <1>7, <2>1, AwaitTyped DEF ApproveColors, TodoOK, LastOK
<1>8. CASE ApproveShips(r) \/ ApprovePurchase(r)
  BY <1>8, AwaitTyped, Kinds DEF ApproveShips, ApprovePurchase, StoreOK, TodoOK, LastOK
<1>9. CASE WriteStyle(r) \/ WriteColor(r) \/ WriteShips(r) \/ WriteStatus(r)
  <2>1. StoreOK'
    <3>1. CASE WriteColor(r)
      <4>1. [status |-> Pending, approved |-> FALSE] \in Color
        BY Kinds DEF Color
      <4>2. QED
        BY <3>1, <4>1 DEF WriteColor, StoreOK
    <3>2. CASE WriteStatus(r)
      BY <3>2 DEF WriteStatus, StoreOK, TodoOK, Writes
    <3>3. CASE WriteStyle(r)
      <4>1. Pending \in ColorStatuses
        BY Kinds
      <4>2. QED
        BY <3>3, <4>1 DEF WriteStyle, StoreOK
    <3>4. CASE WriteShips(r)
      BY <3>4 DEF WriteShips, StoreOK
    <3>5. QED
      BY <1>9, <3>1, <3>2, <3>3, <3>4
  <2>2. TodoOK'
    <3>1. \E w \in Writes : todo' = [todo EXCEPT ![r] = w]
      <4>1. todo[r] \in Writes /\ {} \in SUBSET PurchaseStatuses
        BY DEF TodoOK
      <4>2. QED
        BY <1>9, <4>1, WritesTyped DEF WriteStyle, WriteColor, WriteShips, WriteStatus
    <3>2. QED
      BY <3>1 DEF TodoOK
  <2>3. QED
    BY <1>9, <2>1, <2>2 DEF WriteStyle, WriteColor, WriteShips, WriteStatus, LocalOK, GoalOK, LastOK
<1>10. QED
  BY <1>1, <1>2, <1>3, <1>4, <1>5, <1>6, <1>7, <1>8, <1>9 DEF Step

LEMMA TypeNext == TypeInv /\ [Next]_vars => TypeInv'
<1> SUFFICES ASSUME TypeInv, [Next]_vars PROVE TypeInv'
  OBVIOUS
<1> USE DEF TypeInv
<1>1. ASSUME NEW r \in Requests, NotifyFails(r) PROVE TypeInv'
  BY <1>1, LastTyped, StopTyped, FaultsAssumption DEF NotifyFails, store, StoreOK, TodoOK, LastOK
<1>2. ASSUME NEW r \in Requests, Lose(r) PROVE TypeInv'
  <2>1. TodoOK'
    BY <1>2 DEF Lose, TodoOK, Writes
  <2>2. QED
    BY <1>2, <2>1, LastTyped, StopTyped, FaultsAssumption DEF Lose, store, StoreOK, LastOK
<1>3. CASE UNCHANGED vars
  BY <1>3 DEF vars, store, local, StoreOK, LocalOK, GoalOK, TodoOK, LastOK
<1>4. QED
  BY <1>1, <1>2, <1>3, StartTyped, StepTyped DEF Next

-----------------------------------------------------------------------------
\* The last operation is of a request that began when nothing ran, or the one
\* there was.

LEMMA Began ==
  ASSUME NEW r \in Requests, Start(r), last'.op # "none"
  PROVE  /\ \A q \in Requests : main[q] = "idle" /\ todo[q] = NoWrites
         /\ last'.op = "quote" => StatusRead(r)
         /\ last'.op = "select" => QuotationRead(r)
         /\ last'.op = "approve" => ApproveRead(r)
         /\ last'.op \in {"revert", "step_back"} => Revert(r)
<1>1. last' # Nothing
  BY DEF Nothing
<1>2. CASE StatusRead(r)
  BY <1>1, <1>2 DEF StatusRead, Begin, Settled, Idle
<1>3. CASE QuotationRead(r)
  <2>1. PICK sent \in SUBSET Styles : Settled /\ last' = [op |-> "select", on |-> sent, answer |-> "none"]
    BY <1>1, <1>3 DEF QuotationRead, Begin
  <2>2. QED
    BY <1>3, <2>1 DEF Settled, Idle
<1>4. CASE ApproveRead(r)
  <2>1. PICK found \in SUBSET Colors : Settled /\ last' = [op |-> "approve", on |-> found, answer |-> "none"]
    BY <1>1, <1>4 DEF ApproveRead, Begin
  <2>2. QED
    BY <1>4, <2>1 DEF Settled, Idle
<1>5. CASE Revert(r)
  <2>1. \/ last' = IF Settled THEN [op |-> "revert", on |-> Colors, answer |-> "ok"] ELSE Nothing
        \/ last' = IF Settled THEN [op |-> "step_back", on |-> {}, answer |-> "ok"] ELSE Nothing
    BY <1>5 DEF Revert
  <2>2. Settled /\ last'.op \in {"revert", "step_back"}
    BY <1>1, <2>1
  <2>3. QED
    BY <1>5, <2>2 DEF Settled, Idle
<1>6. QED
  BY <1>1, <1>2, <1>3, <1>4, <1>5 DEF Start, PutStatus, SetStyleStatus, ColorStatusRead, EditRead

\* What a write leaves of the writes there were.

LEMMA StyleWritten ==
  ASSUME TodoOK, NEW r \in Requests, WriteStyle(r)
  PROVE  \E s \in todo[r].styles :
           /\ styleStatus' = [styleStatus EXCEPT ![s] = Pending]
           /\ UNCHANGED <<pStatus, color, shipPi>>
           /\ \A q \in Requests :
                /\ todo'[q].colors = todo[q].colors /\ todo'[q].ships = todo[q].ships
                /\ todo'[q].status = todo[q].status
                /\ todo[q].styles \ {s} \subseteq todo'[q].styles
<1>1. PICK s \in todo[r].styles :
        styleStatus' = [styleStatus EXCEPT ![s] = Pending]
        /\ todo' = [todo EXCEPT ![r] = [todo[r] EXCEPT !.styles = @ \ {s}]]
  BY DEF WriteStyle
<1> DEFINE w == [todo[r] EXCEPT !.styles = @ \ {s}]
<1>2. /\ w.colors = todo[r].colors /\ w.ships = todo[r].ships /\ w.status = todo[r].status
      /\ todo[r].styles \ {s} \subseteq w.styles
  BY DEF TodoOK, Writes
<1>3. \A q \in Requests : todo'[q] = IF q = r THEN w ELSE todo[q]
  BY <1>1 DEF TodoOK
<1>4. UNCHANGED <<pStatus, color, shipPi>>
  BY DEF WriteStyle
<1> HIDE DEF w
<1>5. \A q \in Requests : (q = r => todo'[q] = w) /\ (q # r => todo'[q] = todo[q])
  BY <1>3
<1>6. QED
  BY <1>1, <1>2, <1>4, <1>5

LEMMA ColorWritten ==
  ASSUME TodoOK, NEW r \in Requests, WriteColor(r)
  PROVE  \E c \in todo[r].colors :
           /\ color' = [color EXCEPT ![c] = [status |-> Pending, approved |-> FALSE]]
           /\ UNCHANGED <<pStatus, styleStatus, shipPi>>
           /\ \A q \in Requests :
                /\ todo'[q].styles = todo[q].styles /\ todo'[q].ships = todo[q].ships
                /\ todo'[q].status = todo[q].status
                /\ todo[q].colors \ {c} \subseteq todo'[q].colors
<1>1. PICK c \in todo[r].colors :
        color' = [color EXCEPT ![c] = [status |-> Pending, approved |-> FALSE]]
        /\ todo' = [todo EXCEPT ![r] = [todo[r] EXCEPT !.colors = @ \ {c}]]
  BY DEF WriteColor
<1> DEFINE w == [todo[r] EXCEPT !.colors = @ \ {c}]
<1>2. /\ w.styles = todo[r].styles /\ w.ships = todo[r].ships /\ w.status = todo[r].status
      /\ todo[r].colors \ {c} \subseteq w.colors
  BY DEF TodoOK, Writes
<1>3. \A q \in Requests : todo'[q] = IF q = r THEN w ELSE todo[q]
  BY <1>1 DEF TodoOK
<1>4. UNCHANGED <<pStatus, styleStatus, shipPi>>
  BY DEF WriteColor
<1> HIDE DEF w
<1>5. \A q \in Requests : (q = r => todo'[q] = w) /\ (q # r => todo'[q] = todo[q])
  BY <1>3
<1>6. QED
  BY <1>1, <1>2, <1>4, <1>5

LEMMA ShipsWritten ==
  ASSUME TodoOK, NEW r \in Requests, WriteShips(r)
  PROVE  \E c \in todo[r].ships :
           /\ shipPi' = [shipPi EXCEPT ![c] = FALSE]
           /\ UNCHANGED <<pStatus, styleStatus, color>>
           /\ \A q \in Requests :
                /\ todo'[q].styles = todo[q].styles /\ todo'[q].colors = todo[q].colors
                /\ todo'[q].status = todo[q].status
                /\ todo[q].ships \ {c} \subseteq todo'[q].ships
<1>1. PICK c \in todo[r].ships :
        shipPi' = [shipPi EXCEPT ![c] = FALSE]
        /\ todo' = [todo EXCEPT ![r] = [todo[r] EXCEPT !.ships = @ \ {c}]]
  BY DEF WriteShips
<1> DEFINE w == [todo[r] EXCEPT !.ships = @ \ {c}]
<1>2. /\ w.styles = todo[r].styles /\ w.colors = todo[r].colors /\ w.status = todo[r].status
      /\ todo[r].ships \ {c} \subseteq w.ships
  BY DEF TodoOK, Writes
<1>3. \A q \in Requests : todo'[q] = IF q = r THEN w ELSE todo[q]
  BY <1>1 DEF TodoOK
<1>4. UNCHANGED <<pStatus, styleStatus, color>>
  BY DEF WriteShips
<1> HIDE DEF w
<1>5. \A q \in Requests : (q = r => todo'[q] = w) /\ (q # r => todo'[q] = todo[q])
  BY <1>3
<1>6. QED
  BY <1>1, <1>2, <1>4, <1>5

LEMMA StatusWritten ==
  ASSUME TodoOK, NEW r \in Requests, WriteStatus(r)
  PROVE  \E st \in todo[r].status :
           /\ pStatus' = st
           /\ UNCHANGED <<styleStatus, color, shipPi>>
           /\ \A q \in Requests :
                /\ todo'[q].styles = todo[q].styles /\ todo'[q].colors = todo[q].colors
                /\ todo'[q].ships = todo[q].ships
                /\ todo'[q].status = IF q = r THEN {} ELSE todo[q].status
<1>1. PICK st \in todo[r].status :
        pStatus' = st
        /\ todo' = [todo EXCEPT ![r] = [todo[r] EXCEPT !.status = {}]]
  BY DEF WriteStatus
<1> DEFINE w == [todo[r] EXCEPT !.status = {}]
<1>2. /\ w.styles = todo[r].styles /\ w.colors = todo[r].colors /\ w.ships = todo[r].ships
      /\ w.status = {}
  BY DEF TodoOK, Writes
<1>3. \A q \in Requests : todo'[q] = IF q = r THEN w ELSE todo[q]
  BY <1>1 DEF TodoOK
<1>4. UNCHANGED <<styleStatus, color, shipPi>>
  BY DEF WriteStatus
<1> HIDE DEF w
<1>5. \A q \in Requests : (q = r => todo'[q] = w) /\ (q # r => todo'[q] = todo[q])
  BY <1>3
<1>6. QED
  BY <1>1, <1>2, <1>4, <1>5

LEMMA AnswerKeeps ==
  ASSUME LastOK, NEW a, Answer(a)
  PROVE  last'.op = last.op /\ last'.on = last.on
<1>1. CASE last = Nothing
  BY <1>1 DEF Answer
<1>2. CASE last # Nothing
  BY <1>2 DEF Answer, LastOK, LastType
<1>3. QED
  BY <1>1, <1>2

LEMMA Undisturbed ==
  ASSUME LastOK, [Next]_vars, last'.op # "none"
  PROVE  \/ \E r \in Requests : Start(r)
         \/ /\ last'.op = last.op /\ last'.on = last.on
            /\ UNCHANGED vars \/ \E r \in Requests : Step(r) \/ NotifyFails(r)
<1>1. CASE UNCHANGED vars
  BY <1>1 DEF vars
<1>2. ASSUME NEW r \in Requests, Lose(r) PROVE FALSE
  BY <1>2 DEF Lose, Nothing
<1>3. ASSUME NEW r \in Requests, Step(r) \/ NotifyFails(r)
      PROVE  last'.op = last.op /\ last'.on = last.on
  BY <1>3, AnswerKeeps DEF Step, StatusWrite, ColorStatusSave, EditSave, QuotationDetail, QuotationStops,
     ApproveDetails, ApproveColors, ApproveShips, ApprovePurchase, ApproveNotify, NotifyFails,
     WriteStyle, WriteColor, WriteShips, WriteStatus
<1>4. QED
  BY <1>1, <1>2, <1>3 DEF Next

-----------------------------------------------------------------------------
\* One invariant for each operation.

LEMMA QuoteNext ==
  ASSUME TypeInv, QuoteInv, [Next]_vars
  PROVE  QuoteInv'
<1> SUFFICES ASSUME last'.op = "quote" PROVE QuoteInv'
  BY DEF QuoteInv
<1>1. ASSUME NEW r \in Requests, Start(r) PROVE QuoteInv'
  <2>1. /\ StatusRead(r)
        /\ \A q \in Requests : main[q] = "idle" /\ todo[q] = NoWrites
    BY <1>1, Began
  <2>2. goal'[r] = Quoted /\ main'[r] = "status" /\ Quoted' = Quoted
    BY <2>1 DEF StatusRead, Await, Quoted, store, TypeInv, LocalOK
  <2>3. \A q \in Requests : todo'[q] = NoWrites /\ (q # r => main'[q] = "idle")
    BY <2>1 DEF StatusRead, Await, TypeInv, LocalOK
  <2>4. QED
    BY <2>2, <2>3 DEF QuoteInv
<1>2. ASSUME last.op = "quote", NEW r \in Requests, Step(r) \/ NotifyFails(r) PROVE QuoteInv'
  <2>1. /\ \A q \in Requests : main[q] \in {"idle", "status"} /\ todo[q] = NoWrites
        /\ \A q \in Requests : main[q] = "status" => goal[q] = Quoted
    BY <1>2 DEF QuoteInv
  <2>2. StatusWrite(r)
    <3>1. todo[r].styles = {} /\ todo[r].colors = {} /\ todo[r].ships = {} /\ todo[r].status = {}
      BY <2>1 DEF NoWrites
    <3>2. QED
      BY <1>2, <2>1, <3>1 DEF Step, NotifyFails, ColorStatusSave, EditSave, QuotationDetail,
       QuotationStops, ApproveDetails, ApproveColors, ApproveShips, ApprovePurchase, ApproveNotify,
       WriteStyle, WriteColor, WriteShips, WriteStatus
  <2>3. pStatus' = Quoted /\ Quoted' = Quoted
    BY <2>1, <2>2 DEF StatusWrite, Quoted
  <2>4. \A q \in Requests : /\ todo'[q] = NoWrites
                            /\ main'[q] = "idle" \/ (main'[q] = main[q] /\ goal'[q] = goal[q])
    <3>1. /\ main' = [main EXCEPT ![r] = "idle"] /\ goal' = [goal EXCEPT ![r] = 0]
          /\ todo' = todo
      BY <2>2 DEF StatusWrite, Stop
    <3>2. \A q \in Requests : /\ main'[q] = IF q = r THEN "idle" ELSE main[q]
                              /\ goal'[q] = IF q = r THEN 0 ELSE goal[q]
      BY <3>1 DEF TypeInv, LocalOK
    <3>4. todo' = todo
      BY <3>1
    <3>3. ASSUME NEW q \in Requests
          PROVE  /\ todo'[q] = NoWrites
                 /\ main'[q] = "idle" \/ (main'[q] = main[q] /\ goal'[q] = goal[q])
      <4>1. CASE q = r
        BY <2>1, <3>2, <3>4, <4>1
      <4>2. CASE q # r
        BY <2>1, <3>2, <3>4, <4>2
      <4>3. QED
        BY <4>1, <4>2
    <3>5. QED
      BY <3>3
  <2>5. QED
    BY <2>1, <2>3, <2>4 DEF QuoteInv
<1>3. ASSUME last.op = "quote", UNCHANGED vars PROVE QuoteInv'
  BY <1>3 DEF QuoteInv, Quoted, vars, store, local
<1>4. QED
  BY <1>1, <1>2, <1>3, Undisturbed DEF TypeInv

\* Both kinds of reversal.
LEMMA RevertNext ==
  ASSUME TypeInv, RevertInv, StepBackInv, [Next]_vars
  PROVE  RevertInv' /\ StepBackInv'
<1> SUFFICES ASSUME last'.op \in {"revert", "step_back"} PROVE RevertInv' /\ StepBackInv'
  BY DEF RevertInv, StepBackInv
<1>1. ASSUME NEW r \in Requests, Start(r) PROVE RevertInv' /\ StepBackInv'
  <2>1. /\ Revert(r)
        /\ \A q \in Requests : main'[q] = "idle" /\ todo[q] = NoWrites
    BY <1>1, Began DEF Revert
  <2>2. CASE /\ todo' = [todo EXCEPT ![r] = [styles |-> Styles, colors |-> Colors,
                           ships |-> Colors, status |-> {CompletePurchase}]]
             /\ last'.op = "revert"
    <3>1. /\ todo'[r] = [styles |-> Styles, colors |-> Colors, ships |-> Colors,
                         status |-> {CompletePurchase}]
          /\ \A q \in Requests : q # r => todo'[q] = NoWrites
      BY <2>1, <2>2 DEF TypeInv, TodoOK
    <3>2. /\ \A q \in Requests : todo'[q].status \subseteq {CompletePurchase}
          /\ CompletePurchase \in todo'[r].status /\ todo'[r].styles = Styles
          /\ todo'[r].colors = Colors /\ todo'[r].ships = Colors
      BY <3>1 DEF NoWrites
    <3>3. QED
      BY <2>1, <2>2, <3>2 DEF RevertInv, StepBackInv
  <2>3. CASE todo' = [todo EXCEPT ![r].status = {PendingNegotiation}] /\ last'.op = "step_back"
    <3>1. \A q \in Requests : todo'[q].status = IF q = r THEN {PendingNegotiation} ELSE {}
      <4>1. /\ todo'[r] = [todo[r] EXCEPT !.status = {PendingNegotiation}]
            /\ \A q \in Requests : q # r => todo'[q] = NoWrites
        BY <2>1, <2>3 DEF TypeInv, TodoOK
      <4>2. todo'[r].status = {PendingNegotiation}
        BY <4>1 DEF TypeInv, TodoOK, Writes
      <4>3. NoWrites.status = {}
        BY DEF NoWrites
      <4>4. QED
        BY <4>1, <4>2, <4>3
    <3>2. /\ \A q \in Requests : todo'[q].status \subseteq {PendingNegotiation}
          /\ PendingNegotiation \in todo'[r].status
      BY <3>1
    <3>3. QED
      BY <2>1, <2>3, <3>2 DEF RevertInv, StepBackInv
  <2>4. QED
    <3>2. last' # Nothing
      BY DEF Nothing
    <3>3. \/ /\ todo' = [todo EXCEPT ![r] = [styles |-> Styles, colors |-> Colors,
                           ships |-> Colors, status |-> {CompletePurchase}]]
             /\ last' = IF Settled THEN [op |-> "revert", on |-> Colors, answer |-> "ok"] ELSE Nothing
          \/ /\ todo' = [todo EXCEPT ![r].status = {PendingNegotiation}]
             /\ last' = IF Settled THEN [op |-> "step_back", on |-> {}, answer |-> "ok"] ELSE Nothing
      BY <2>1 DEF Revert
    <3>4. QED
      BY <2>2, <2>3, <3>2, <3>3
<1>2. ASSUME last.op = last'.op, NEW r \in Requests, Step(r) \/ NotifyFails(r)
      PROVE  RevertInv' /\ StepBackInv'
  <2>1. \A q \in Requests : main[q] = "idle"
    BY <1>2 DEF RevertInv, StepBackInv
  <2>2. WriteStyle(r) \/ WriteColor(r) \/ WriteShips(r) \/ WriteStatus(r)
    BY <1>2, <2>1 DEF Step, NotifyFails, StatusWrite, ColorStatusSave, EditSave, QuotationDetail,
       QuotationStops, ApproveDetails, ApproveColors, ApproveShips, ApprovePurchase, ApproveNotify
  <2>3. main' = main /\ last' = last
    BY <2>2 DEF WriteStyle, WriteColor, WriteShips, WriteStatus
  <2>4. CASE WriteStyle(r)
    <3>1. TodoOK /\ StoreOK /\ \A q \in Requests : main'[q] = "idle"
      BY <2>1, <2>3 DEF TypeInv
    <3>2. RevertInv'
      BY <1>2, <2>3, <2>4, <3>1, StyleWritten DEF RevertInv, StoreOK
    <3>3. StepBackInv'
      BY <1>2, <2>3, <2>4, <3>1, StyleWritten DEF StepBackInv
    <3>4. QED
      BY <3>2, <3>3
  <2>5. CASE WriteColor(r)
    <3>1. TodoOK /\ StoreOK /\ \A q \in Requests : main'[q] = "idle"
      BY <2>1, <2>3 DEF TypeInv
    <3>2. RevertInv'
      BY <1>2, <2>3, <2>5, <3>1, ColorWritten DEF RevertInv, StoreOK
    <3>3. StepBackInv'
      BY <1>2, <2>3, <2>5, <3>1, ColorWritten DEF StepBackInv
    <3>4. QED
      BY <3>2, <3>3
  <2>6. CASE WriteShips(r)
    <3>1. TodoOK /\ StoreOK /\ \A q \in Requests : main'[q] = "idle"
      BY <2>1, <2>3 DEF TypeInv
    <3>2. RevertInv'
      BY <1>2, <2>3, <2>6, <3>1, ShipsWritten DEF RevertInv, StoreOK
    <3>3. StepBackInv'
      BY <1>2, <2>3, <2>6, <3>1, ShipsWritten DEF StepBackInv
    <3>4. QED
      BY <3>2, <3>3
  <2>7. CASE WriteStatus(r)
    <3>1. TodoOK /\ StoreOK /\ \A q \in Requests : main'[q] = "idle"
      BY <2>1, <2>3 DEF TypeInv
    <3>2. RevertInv'
      <4> SUFFICES ASSUME last.op = "revert" PROVE RevertInv'
        BY <2>3 DEF RevertInv
      <4>1. PICK st \in todo[r].status :
              /\ pStatus' = st /\ UNCHANGED <<styleStatus, color, shipPi>>
              /\ \A q \in Requests :
                   /\ todo'[q].styles = todo[q].styles /\ todo'[q].colors = todo[q].colors
                   /\ todo'[q].ships = todo[q].ships
                   /\ todo'[q].status = IF q = r THEN {} ELSE todo[q].status
        BY <2>7, <3>1, StatusWritten
      <4>2. /\ \A q \in Requests : todo[q].status \subseteq {CompletePurchase}
            /\ st = CompletePurchase
        BY DEF RevertInv
      <4>3. pStatus' = CompletePurchase
            /\ \A q \in Requests : todo'[q].status \subseteq {CompletePurchase}
        BY <4>1, <4>2
      <4>4. \A s \in Styles : styleStatus'[s] = Pending \/ \E q \in Requests : s \in todo'[q].styles
        BY <4>1 DEF RevertInv
      <4>5. \A c \in Colors :
              /\ \/ color'[c] = [status |-> Pending, approved |-> FALSE]
                 \/ \E q \in Requests : c \in todo'[q].colors
              /\ ~shipPi'[c] \/ \E q \in Requests : c \in todo'[q].ships
        BY <4>1 DEF RevertInv
      <4>6. QED
        BY <3>1, <4>3, <4>4, <4>5 DEF RevertInv
    <3>3. StepBackInv'
      BY <1>2, <2>3, <2>7, <3>1, StatusWritten DEF StepBackInv
    <3>4. QED
      BY <3>2, <3>3
  <2>8. QED
    BY <2>2, <2>4, <2>5, <2>6, <2>7
<1>3. ASSUME UNCHANGED vars PROVE RevertInv' /\ StepBackInv'
  BY <1>3 DEF RevertInv, StepBackInv, vars, store, local
<1>4. QED
  BY <1>1, <1>2, <1>3, Undisturbed DEF TypeInv

\* A selection of quotations sent to approval.
LEMMA SelectNext ==
  ASSUME TypeInv, SelectInv, [Next]_vars
  PROVE  SelectInv'
<1> SUFFICES ASSUME last'.op = "select" PROVE SelectInv'
  BY DEF SelectInv
<1>1. ASSUME NEW r \in Requests, Start(r) PROVE SelectInv'
  <2>1. /\ QuotationRead(r)
        /\ \A q \in Requests : main[q] = "idle" /\ todo[q] = NoWrites
    BY <1>1, Began
  <2>2. PICK sent \in (SUBSET Styles) \ {{}}, to \in {0, StylesUnitsPurchase, CompletePurchase},
             p \in BOOLEAN :
       /\ to # 0 => p
       /\ held' = [held EXCEPT ![r] = [of |-> sent, det |->
            [s \in Styles |-> [priced |-> p /\ s \in sent, costed |-> FALSE]]]]
       /\ goal' = [goal EXCEPT ![r] = to]
       /\ IF to = CompletePurchase THEN Begin("select", sent) ELSE last' = Nothing
    BY <2>1 DEF QuotationRead
  <2>3. last' # Nothing
    BY DEF Nothing
  <2>4. to = CompletePurchase /\ p /\ last' = [op |-> "select", on |-> sent, answer |-> "none"]
    BY <2>2, <2>3 DEF Begin, CompletePurchase
  <2>5. /\ main' = [main EXCEPT ![r] = "quotation"] /\ todo' = todo
    BY <2>1 DEF QuotationRead, Await
  <2>6. /\ held'[r].of = sent /\ goal'[r] = CompletePurchase
        /\ \A s \in sent : held'[r].det[s].priced
    BY <2>2, <2>4 DEF TypeInv, LocalOK
  <2>7. \A q \in Requests : main'[q] = IF q = r THEN "quotation" ELSE "idle"
    BY <2>1, <2>5 DEF TypeInv, LocalOK
  <2>8. \A q \in Requests : todo'[q].status = {}
    BY <2>1, <2>5 DEF NoWrites
  <2>9. last'.on = sent /\ last'.answer = "none" /\ sent \subseteq Styles
    BY <2>4
  <2>10. QED
    BY <2>6, <2>7, <2>8, <2>9 DEF SelectInv
<1>2. ASSUME last.op = "select", last'.on = last.on, NEW r \in Requests, Step(r) \/ NotifyFails(r)
      PROVE  SelectInv'
  <2>1. /\ \A q \in Requests :
             main[q] \in {"idle", "quotation"} /\ todo[q].status \subseteq {CompletePurchase}
        /\ \A q \in Requests : main[q] = "quotation" =>
             /\ goal[q] = CompletePurchase
             /\ \A s \in Styles \cap last.on :
                  held[q].det[s].priced /\ (s \in held[q].of \/ det[s].priced)
        /\ last.on \subseteq Styles
        /\ last.answer = "ok" =>
             /\ \A s \in last.on : det[s].priced
             /\ pStatus = CompletePurchase \/ \E q \in Requests : CompletePurchase \in todo[q].status
    BY <1>2 DEF SelectInv
  <2>2. \/ QuotationDetail(r) \/ QuotationStops(r)
        \/ WriteStyle(r) \/ WriteColor(r) \/ WriteShips(r) \/ WriteStatus(r)
    BY <1>2, <2>1 DEF Step, NotifyFails, StatusWrite, ColorStatusSave, EditSave, ApproveDetails,
       ApproveColors, ApproveShips, ApprovePurchase, ApproveNotify
  <2>3. CASE QuotationDetail(r)
    <3>1. PICK s \in held[r].of :
            /\ det' = [det EXCEPT ![s].priced = held[r].det[s].priced]
            /\ \/ /\ held[r].of = {s}
                  /\ todo' = [todo EXCEPT ![r].status = {goal[r]} \ {0}]
                  /\ Stop(r) /\ Answer("ok")
               \/ /\ held[r].of # {s}
                  /\ held' = [held EXCEPT ![r].of = @ \ {s}]
                  /\ UNCHANGED <<main, sel, goal, todo, last>>
      BY <2>3 DEF QuotationDetail
    <3>2. main[r] = "quotation" /\ goal[r] = CompletePurchase /\ pStatus' = pStatus /\ s \in Styles
      BY <2>1, <2>3 DEF QuotationDetail, TypeInv, LocalOK, HeldType
    <3>3. \A x \in last.on : /\ det[x].priced => det'[x].priced
                             /\ x = s => det'[x].priced
      BY <2>1, <3>1, <3>2 DEF TypeInv, StoreOK, Detail
    <3>4. CASE /\ held[r].of = {s}
               /\ todo' = [todo EXCEPT ![r].status = {goal[r]} \ {0}]
               /\ Stop(r)
      <4>1. todo'[r].status = {CompletePurchase} /\ \A q \in Requests : q # r => todo'[q] = todo[q]
        BY <3>2, <3>4 DEF TypeInv, TodoOK, Writes, CompletePurchase
      <4>2. /\ main'[r] = "idle"
            /\ \A q \in Requests : q # r => main'[q] = main[q] /\ held'[q] = held[q] /\ goal'[q] = goal[q]
        BY <3>4 DEF Stop, TypeInv, LocalOK
      <4>3. \A x \in last.on : det'[x].priced
        BY <2>1, <3>2, <3>3, <3>4
      <4>4. ASSUME NEW q \in Requests
            PROVE  main'[q] \in {"idle", "quotation"} /\ todo'[q].status \subseteq {CompletePurchase}
        BY <2>1, <4>1, <4>2
      <4>5. ASSUME NEW q \in Requests, main'[q] = "quotation"
            PROVE  goal'[q] = CompletePurchase /\ \A x \in last.on : held'[q].det[x].priced
        BY <2>1, <4>2, <4>5
      <4>6. QED
        BY <1>2, <2>1, <4>1, <4>3, <4>4, <4>5 DEF SelectInv
    <3>5. CASE /\ held' = [held EXCEPT ![r].of = @ \ {s}]
               /\ UNCHANGED <<main, sel, goal, todo, last>>
      <4>1. /\ \A x : x \in held[r].of => x = s \/ x \in held'[r].of
            /\ \A q \in Requests : /\ held'[q].det = held[q].det
                                   /\ q # r => held'[q] = held[q]
        BY <3>5 DEF TypeInv, LocalOK, HeldType
      <4>2. ASSUME NEW q \in Requests, main[q] = "quotation", NEW x \in Styles \cap last.on
            PROVE  held'[q].det[x].priced /\ (x \in held'[q].of \/ det'[x].priced)
        BY <2>1, <3>3, <4>1, <4>2
      <4>3. main' = main /\ goal' = goal /\ todo' = todo /\ last' = last
        BY <3>5
      <4>4. QED
        BY <1>2, <2>1, <3>2, <3>3, <4>2, <4>3 DEF SelectInv
    <3>6. QED
      BY <3>1, <3>4, <3>5
  <2>4. CASE QuotationStops(r)
    <3>1. /\ main' = [main EXCEPT ![r] = "idle"] /\ held' = [held EXCEPT ![r] = NotHeld]
          /\ goal' = [goal EXCEPT ![r] = 0] /\ todo' = todo /\ det' = det /\ pStatus' = pStatus
      BY <2>4 DEF QuotationStops, Stop, store
    <3>2. \A q \in Requests :
            main'[q] = "idle"
            \/ (main'[q] = main[q] /\ held'[q] = held[q] /\ goal'[q] = goal[q])
      BY <3>1 DEF TypeInv, LocalOK
    <3>3. last'.answer # "ok"
      BY <1>2, <2>4 DEF QuotationStops, Answer, Nothing, TypeInv, LastOK, LastType
    <3>4. todo' = todo /\ det' = det
      BY <3>1
    <3>5. QED
      BY <1>2, <2>1, <3>2, <3>3, <3>4 DEF SelectInv
  <2>5. CASE WriteStyle(r) \/ WriteColor(r) \/ WriteShips(r) \/ WriteStatus(r)
    <3>1. main' = main /\ goal' = goal /\ held' = held /\ det' = det /\ last' = last
      BY <2>5 DEF WriteStyle, WriteColor, WriteShips, WriteStatus
    <3>2. \/ pStatus' = pStatus /\ \A q \in Requests : todo'[q].status = todo[q].status
          \/ /\ pStatus' = CompletePurchase
             /\ \A q \in Requests : todo'[q].status \subseteq {CompletePurchase}
      <4>1. TodoOK
        BY DEF TypeInv
      <4>2. CASE WriteStyle(r)
        BY <4>1, <4>2, StyleWritten
      <4>3. CASE WriteColor(r)
        BY <4>1, <4>3, ColorWritten
      <4>4. CASE WriteShips(r)
        BY <4>1, <4>4, ShipsWritten
      <4>5. CASE WriteStatus(r)
        BY <2>1, <4>1, <4>5, StatusWritten
      <4>6. QED
        BY <2>5, <4>2, <4>3, <4>4, <4>5
    <3>3. QED
      BY <1>2, <2>1, <3>1, <3>2 DEF SelectInv
  <2>6. QED
    BY <2>2, <2>3, <2>4, <2>5
<1>3. ASSUME last.op = "select", UNCHANGED vars PROVE SelectInv'
  BY <1>3 DEF SelectInv, vars, store, local
<1>4. QED
  BY <1>1, <1>2, <1>3, Undisturbed DEF TypeInv

\* An approval.
LEMMA ApproveBegun ==
  ASSUME TypeInv, NEW r \in Requests, Start(r), last'.op = "approve"
  PROVE  ApproveInv'
<1>1. /\ ApproveRead(r)
      /\ \A q \in Requests : main[q] = "idle" /\ todo[q] = NoWrites
  BY Began
<1>2. PICK found \in SUBSET Colors :
       /\ \A s \in StylesOf(found) : det[s].priced
       /\ sel' = [sel EXCEPT ![r] = found]
       /\ IF StylesOf(found) \subseteq maintained
            THEN /\ held' = [held EXCEPT ![r] = [of |-> StylesOf(found), det |->
                      [s \in Styles |-> [priced |-> s \in StylesOf(found),
                                         costed |-> s \in StylesOf(found)]]]]
                 /\ Await(r, "details")
            ELSE Await(r, "colors") /\ UNCHANGED held
       /\ Begin("approve", found)
  BY <1>1 DEF ApproveRead
<1>3. last'.on = found
  <2>1. last' # Nothing
    BY DEF Nothing
  <2>2. last' = [op |-> "approve", on |-> found, answer |-> "none"]
    BY <1>2, <2>1 DEF Begin
  <2>3. QED
    BY <2>2
<1>4. todo' = todo /\ det' = det /\ maintained' = maintained
  BY <1>1 DEF ApproveRead, store
<1>5. \A q \in Requests : todo'[q] = NoWrites /\ (q # r => main'[q] = "idle")
  BY <1>1, <1>2, <1>4 DEF Await, TypeInv, LocalOK
<1>6. sel'[r] = found
  BY <1>2 DEF TypeInv, LocalOK
<1>7. CASE StylesOf(found) \subseteq maintained
  <2> DEFINE read == [s \in Styles |-> [priced |-> s \in StylesOf(found), costed |-> s \in StylesOf(found)]]
  <2>1. held'[r] = [of |-> StylesOf(found), det |-> read] /\ main'[r] = "details"
    BY <1>2, <1>7 DEF Await, TypeInv, LocalOK
  <2>2. \A s \in StylesOf(found) : s \in Styles
    BY DetailsMade
  <2>3. \A s \in StylesOf(found) : read[s].priced /\ read[s].costed
    BY <2>2
  <2> HIDE DEF read
  <2>4. \A s \in StylesOf(found) :
          s \in held'[r].of /\ held'[r].det[s].priced /\ held'[r].det[s].costed
    BY <2>1, <2>3
  <2>5. \A q \in Requests : Approving(q)'
    BY <1>3, <1>5, <1>6, <2>1, <2>4 DEF Approving
  <2>6. ~Settled'
    BY <2>1 DEF Settled, Idle
  <2>7. QED
    BY <1>3, <1>5, <2>5, <2>6 DEF ApproveInv
<1>8. CASE ~(StylesOf(found) \subseteq maintained)
  <2>1. main'[r] = "colors"
    BY <1>2, <1>8 DEF Await, TypeInv, LocalOK
  <2>2. \A c \in found : StyleOf[c] \in StylesOf(found)
    BY DEF StylesOf
  <2>3. Costs'
    BY <1>2, <1>3, <1>4, <1>8, <2>2 DEF Costs, Priced
  <2>4. \A q \in Requests : Approving(q)'
    BY <1>3, <1>5, <1>6, <2>1, <2>3 DEF Approving
  <2>5. ~Settled'
    BY <2>1 DEF Settled, Idle
  <2>6. QED
    BY <1>3, <1>5, <2>4, <2>5 DEF ApproveInv
<1>9. QED
  BY <1>7, <1>8

\* The stage of the others stays when what it has stored does.
LEMMA ApprovingKept ==
  ASSUME NEW q \in Requests, Approving(q), last'.on = last.on,
         main'[q] = main[q], sel'[q] = sel[q], held'[q] = held[q],
         Costs => Costs', Confirms => Confirms', Ships => Ships',
         pStatus = Approvement => pStatus' = Approvement
  PROVE  Approving(q)'
  BY DEF Approving

LEMMA ApproveNext ==
  ASSUME TypeInv, ApproveInv, [Next]_vars
  PROVE  ApproveInv'
<1> SUFFICES ASSUME last'.op = "approve" PROVE ApproveInv'
  BY DEF ApproveInv
<1>1. ASSUME NEW r \in Requests, Start(r) PROVE ApproveInv'
  BY <1>1, ApproveBegun
<1>2. ASSUME last.op = "approve", last'.on = last.on, NEW r \in Requests, Step(r) \/ NotifyFails(r)
      PROVE  ApproveInv'
  <2>1. /\ last.on \subseteq Colors
        /\ \A q \in Requests : todo[q] = NoWrites /\ Approving(q)
    BY <1>2 DEF ApproveInv
  <2>2. todo[r].styles = {} /\ todo[r].colors = {} /\ todo[r].ships = {} /\ todo[r].status = {}
    BY <2>1 DEF NoWrites
  <2>3. \/ ApproveDetails(r) \/ ApproveColors(r) \/ ApproveShips(r) \/ ApprovePurchase(r)
        \/ ApproveNotify(r) \/ NotifyFails(r)
    BY <1>2, <2>1, <2>2 DEF Approving, Step, StatusWrite, ColorStatusSave, EditSave, QuotationDetail,
       QuotationStops, WriteStyle, WriteColor, WriteShips, WriteStatus
  <2>4. todo' = todo
    BY <2>3 DEF ApproveDetails, ApproveColors, ApproveShips, ApprovePurchase, ApproveNotify, NotifyFails
  <2>5. sel[r] = last.on
    BY <2>1, <2>3 DEF Approving, ApproveDetails, ApproveColors, ApproveShips, ApprovePurchase,
       ApproveNotify, NotifyFails
  <2>6. ASSUME NEW step \in {"colors", "ships", "purchase", "notify"}, Await(r, step),
               sel' = sel, held' = held, Approving(r)',
               Costs => Costs', Confirms => Confirms', Ships => Ships',
               pStatus = Approvement => pStatus' = Approvement
        PROVE  ApproveInv'
    <3>1. main'[r] = step /\ \A q \in Requests : q # r => main'[q] = main[q]
      BY <2>6 DEF Await, TypeInv, LocalOK
    <3>2. ~Settled'
      BY <3>1 DEF Settled, Idle
    <3>3. \A q \in Requests : Approving(q)'
      <4>1. ASSUME NEW q \in Requests, q # r PROVE Approving(q)'
        BY <1>2, <2>1, <2>6, <3>1, <4>1, ApprovingKept
      <4>2. QED
        BY <2>6, <4>1
    <3>4. QED
      BY <1>2, <2>1, <2>4, <3>2, <3>3 DEF ApproveInv
  <2>7. CASE ApproveDetails(r)
    <3>1. main[r] = "details" /\ Await(r, "colors") /\ sel' = sel /\ held' = held
          /\ UNCHANGED <<color, shipPi, pStatus, maintained>>
      BY <2>7 DEF ApproveDetails
    <3>2. \A c \in last.on : StyleOf[c] \in StylesOf(last.on) /\ StyleOf[c] \in Styles
      BY <2>1, StyleOfAssumption DEF StylesOf
    <3>3. \A s \in Styles : s \in held[r].of => det'[s] = held[r].det[s]
      BY <2>7 DEF ApproveDetails, HeldOver
    <3>4. \A c \in last.on : det'[StyleOf[c]].priced /\ det'[StyleOf[c]].costed
      BY <2>1, <3>1, <3>2, <3>3 DEF Approving
    <3>5. Costs'
      BY <1>2, <3>4 DEF Costs, Priced
    <3>6. (Confirms => Confirms') /\ (Ships => Ships')
      BY <1>2, <3>1 DEF Confirms, Ships
    <3>7. main'[r] = "colors"
      BY <3>1 DEF Await, TypeInv, LocalOK
    <3>8. Approving(r)'
      BY <1>2, <2>5, <3>1, <3>5, <3>7 DEF Approving
    <3>9. QED
      BY <2>6, <3>1, <3>5, <3>6, <3>8
  <2>8. CASE ApproveColors(r)
    <3>1. main[r] = "colors" /\ Await(r, "ships") /\ sel' = sel /\ held' = held
          /\ UNCHANGED <<det, shipPi, pStatus, maintained>>
      BY <2>8 DEF ApproveColors
    <3>2. (Costs => Costs') /\ (Ships => Ships')
      BY <1>2, <3>1 DEF Costs, Priced, Ships
    <3>3. Confirms'
      BY <1>2, <2>1, <2>5, <2>8 DEF ApproveColors, Confirms
    <3>4. Costs
      BY <2>1, <3>1 DEF Approving
    <3>5. main'[r] = "ships"
      BY <3>1 DEF Await, TypeInv, LocalOK
    <3>6. Approving(r)'
      BY <1>2, <2>5, <3>1, <3>2, <3>3, <3>4, <3>5 DEF Approving
    <3>7. QED
      BY <2>6, <3>1, <3>2, <3>3, <3>6
  <2>9. CASE ApproveShips(r)
    <3>1. main[r] = "ships" /\ Await(r, "purchase") /\ sel' = sel /\ held' = held
          /\ UNCHANGED <<det, color, pStatus, maintained>>
      BY <2>9 DEF ApproveShips
    <3>2. (Costs => Costs') /\ (Confirms => Confirms')
      BY <1>2, <3>1 DEF Costs, Priced, Confirms
    <3>3. Ships'
      BY <1>2, <2>1, <2>5, <2>9 DEF ApproveShips, Ships
    <3>4. Costs /\ Confirms
      BY <2>1, <3>1 DEF Approving
    <3>5. main'[r] = "purchase"
      BY <3>1 DEF Await, TypeInv, LocalOK
    <3>6. Approving(r)'
      BY <1>2, <2>5, <3>1, <3>2, <3>3, <3>4, <3>5 DEF Approving
    <3>7. QED
      BY <2>6, <3>1, <3>2, <3>3, <3>6
  <2>10. CASE ApprovePurchase(r)
    <3>1. main[r] = "purchase" /\ Await(r, "notify") /\ sel' = sel /\ held' = held
          /\ UNCHANGED <<det, color, shipPi, maintained>> /\ pStatus' = Approvement
      BY <2>10 DEF ApprovePurchase
    <3>2. (Costs => Costs') /\ (Confirms => Confirms') /\ (Ships => Ships')
      BY <1>2, <3>1 DEF Costs, Priced, Confirms, Ships
    <3>3. Costs /\ Confirms /\ Ships
      BY <2>1, <3>1 DEF Approving
    <3>4. main'[r] = "notify"
      BY <3>1 DEF Await, TypeInv, LocalOK
    <3>5. Approving(r)'
      BY <1>2, <2>5, <3>1, <3>2, <3>3, <3>4 DEF Approving
    <3>6. QED
      BY <2>6, <3>1, <3>2, <3>5
  <2>11. CASE ApproveNotify(r) \/ NotifyFails(r)
    <3>1. main[r] = "notify" /\ Stop(r) /\ UNCHANGED <<pStatus, det, color, shipPi, maintained>>
      BY <2>11 DEF ApproveNotify, NotifyFails, store
    <3>2. (Costs => Costs') /\ (Confirms => Confirms') /\ (Ships => Ships')
      BY <1>2, <3>1 DEF Costs, Priced, Confirms, Ships
    <3>3. pStatus = Approvement /\ Costs /\ Confirms /\ Ships
      BY <2>1, <3>1 DEF Approving
    <3>4. /\ main'[r] = "idle"
          /\ \A q \in Requests : q # r =>
               main'[q] = main[q] /\ sel'[q] = sel[q] /\ held'[q] = held[q]
      BY <3>1 DEF Stop, TypeInv, LocalOK
    <3>5. \A q \in Requests : Approving(q)'
      <4>1. ASSUME NEW q \in Requests, q # r PROVE Approving(q)'
        BY <1>2, <2>1, <3>1, <3>2, <3>4, <4>1, ApprovingKept
      <4>2. Approving(r)'
        BY <3>4 DEF Approving
      <4>3. QED
        BY <4>1, <4>2
    <3>6. QED
      BY <1>2, <2>1, <2>4, <3>1, <3>2, <3>3, <3>5 DEF ApproveInv
  <2>12. QED
    BY <2>3, <2>7, <2>8, <2>9, <2>10, <2>11
<1>3. ASSUME last.op = "approve", UNCHANGED vars PROVE ApproveInv'
  <2>1. /\ main' = main /\ todo' = todo /\ sel' = sel /\ held' = held /\ last' = last
        /\ UNCHANGED <<pStatus, det, color, shipPi, maintained>>
    BY <1>3 DEF vars, store, local
  <2>2. (Costs => Costs') /\ (Confirms => Confirms') /\ (Ships => Ships')
    BY <2>1 DEF Costs, Priced, Confirms, Ships
  <2>3. \A q \in Requests : Approving(q)'
    BY <1>3, <2>1, <2>2, ApprovingKept DEF ApproveInv
  <2>4. Settled' => Settled
    BY <2>1 DEF Settled, Idle
  <2>5. QED
    BY <1>3, <2>1, <2>2, <2>3, <2>4 DEF ApproveInv
<1>4. QED
  BY <1>1, <1>2, <1>3, Undisturbed DEF TypeInv

-----------------------------------------------------------------------------
\* An approved colour has its cost, with one request at a time.

LEMMA CostNext ==
  ASSUME OneAtATime, TypeInv, CostInv, [Next]_vars
  PROVE  CostInv'
<1>1. maintained' = maintained
  BY DEF Next, Start, Step, StatusRead, PutStatus, SetStyleStatus, ColorStatusRead, EditRead,
     QuotationRead, ApproveRead, Revert, StatusWrite, ColorStatusSave, EditSave, QuotationDetail,
     QuotationStops, ApproveDetails, ApproveColors, ApproveShips, ApprovePurchase, ApproveNotify,
     WriteStyle, WriteColor, WriteShips, WriteStatus, NotifyFails, Lose, vars, store
<1> SUFFICES ASSUME maintained = Styles PROVE CostInv'
  BY <1>1 DEF CostInv, ApprovedCosted
<1>2. \A c \in Colors : color[c].approved => det[StyleOf[c]].costed
  BY DEF CostInv, ApprovedCosted
<1>3. ASSUME \A s \in Styles : det'[s].costed = det[s].costed,
             \A c \in Colors : color'[c].approved => color[c].approved
      PROVE  ApprovedCosted'
  BY <1>2, <1>3, StyleOfAssumption DEF ApprovedCosted
<1>4. ASSUME NEW r \in Requests, main'[r] \notin {"edit", "details", "colors"}, ApprovedCosted'
      PROVE  CostInv'
  <2>1. \A q \in Requests : main'[q] \notin {"edit", "details", "colors"}
    BY <1>4 DEF OneAtATime
  <2>2. QED
    BY <1>4, <2>1 DEF CostInv
<1>5. ASSUME UNCHANGED <<det, color>> PROVE ApprovedCosted'
  BY <1>3, <1>5
<1>6. CASE UNCHANGED vars
  <2>1. UNCHANGED <<det, color, main, held, sel>>
    BY <1>6 DEF vars, store, local
  <2>2. QED
    BY <1>1, <2>1 DEF CostInv, ApprovedCosted
<1>7. ASSUME NEW r \in Requests, PutStatus(r) \/ SetStyleStatus(r) \/ Revert(r)
      PROVE  CostInv'
  <2>1. main[r] = "idle" /\ UNCHANGED <<det, color, main>>
    BY <1>7 DEF PutStatus, SetStyleStatus, Revert, Idle, local, store
  <2>2. QED
    BY <1>4, <1>5, <2>1
<1>8. ASSUME NEW r \in Requests, StatusRead(r) \/ ColorStatusRead(r) \/ QuotationRead(r)
      PROVE  CostInv'
  <2>1. main'[r] \in {"status", "color_status", "quotation"} /\ UNCHANGED <<det, color>>
    BY <1>8 DEF StatusRead, ColorStatusRead, QuotationRead, Await, store, TypeInv, LocalOK
  <2>2. QED
    BY <1>4, <1>5, <2>1
<1>9. ASSUME NEW r \in Requests, EditRead(r) PROVE CostInv'
  <2>1. PICK s \in Styles, p \in BOOLEAN :
          held' = [held EXCEPT ![r] = [of |-> {s}, det |->
                     [NotHeld.det EXCEPT ![s] = [det[s] EXCEPT !.priced = p]]]]
    BY <1>9 DEF EditRead
  <2>2. NotHeld.det \in [Styles -> Detail]
    BY DEF NotHeld, Detail
  <2>3. held'[r].of = {s} /\ held'[r].det[s] = [det[s] EXCEPT !.priced = p]
    BY <2>1, <2>2 DEF TypeInv, LocalOK
  <2>4. held'[r].det[s].costed = det[s].costed
    BY <2>3 DEF TypeInv, StoreOK, Detail
  <2>5. main'[r] = "edit" /\ UNCHANGED <<det, color>>
    BY <1>9 DEF EditRead, Await, store, TypeInv, LocalOK
  <2>6. ApprovedCosted'
    BY <1>5, <2>5
  <2>7. \A q \in Requests : /\ main'[q] = "edit"
                            /\ \A x \in held'[q].of : held'[q].det[x].costed = det'[x].costed
    BY <2>3, <2>4, <2>5 DEF OneAtATime
  <2>8. QED
    BY <2>6, <2>7 DEF CostInv
<1>10. ASSUME NEW r \in Requests, ApproveRead(r) PROVE CostInv'
  <2>1. PICK found \in SUBSET Colors :
       /\ sel' = [sel EXCEPT ![r] = found]
       /\ IF StylesOf(found) \subseteq maintained
            THEN /\ held' = [held EXCEPT ![r] = [of |-> StylesOf(found), det |->
                      [s \in Styles |-> [priced |-> s \in StylesOf(found),
                                         costed |-> s \in StylesOf(found)]]]]
                 /\ Await(r, "details")
            ELSE Await(r, "colors") /\ UNCHANGED held
    BY <1>10 DEF ApproveRead
  <2>2. StylesOf(found) \subseteq Styles
    BY DetailsMade
  <2> DEFINE read == [s \in Styles |-> [priced |-> s \in StylesOf(found), costed |-> s \in StylesOf(found)]]
  <2>3. held'[r] = [of |-> StylesOf(found), det |-> read] /\ main'[r] = "details" /\ sel'[r] = found
    BY <2>1, <2>2 DEF Await, TypeInv, LocalOK
  <2>4. \A s \in StylesOf(found) : read[s].costed
    BY <2>2
  <2> HIDE DEF read
  <2>5. /\ \A s \in held'[r].of : held'[r].det[s].costed
        /\ StylesOf(sel'[r]) \subseteq held'[r].of
    BY <2>3, <2>4
  <2>6. UNCHANGED <<det, color>>
    BY <1>10 DEF ApproveRead, store
  <2>7. ApprovedCosted'
    BY <1>5, <2>6
  <2>8. \A q \in Requests : /\ main'[q] = "details"
                            /\ \A s \in held'[q].of : held'[q].det[s].costed
                            /\ StylesOf(sel'[q]) \subseteq held'[q].of
    BY <2>3, <2>5 DEF OneAtATime
  <2>9. QED
    BY <2>7, <2>8 DEF CostInv
<1>11. ASSUME NEW r \in Requests, Stop(r), UNCHANGED <<det, color>> PROVE CostInv'
  <2>1. main'[r] = "idle"
    BY <1>11 DEF Stop, TypeInv, LocalOK
  <2>2. QED
    BY <1>4, <1>5, <1>11, <2>1
<1>12. ASSUME NEW r \in Requests,
              StatusWrite(r) \/ QuotationStops(r) \/ ApproveNotify(r) \/ NotifyFails(r) \/ Lose(r)
       PROVE  CostInv'
  BY <1>11, <1>12 DEF StatusWrite, QuotationStops, ApproveNotify, NotifyFails, Lose, store
<1>13. ASSUME NEW r \in Requests, ColorStatusSave(r) PROVE CostInv'
  <2>1. \A c \in Colors : color'[c].approved = color[c].approved
    BY <1>13 DEF ColorStatusSave, TypeInv, StoreOK, Color
  <2>2. ApprovedCosted'
    BY <1>3, <1>13, <2>1 DEF ColorStatusSave
  <2>3. main'[r] = "idle"
    BY <1>13 DEF ColorStatusSave, Stop, TypeInv, LocalOK
  <2>4. QED
    BY <1>4, <2>2, <2>3
<1>14. ASSUME NEW r \in Requests, EditSave(r) PROVE CostInv'
  <2>1. \A s \in Styles : det[s].costed => det'[s].costed
    <3>1. \A s \in held[r].of : det[s].costed => held[r].det[s].costed
      BY <1>14 DEF EditSave, CostInv
    <3>2. QED
      BY <1>14, <3>1 DEF EditSave, HeldOver
  <2>2. ApprovedCosted'
    BY <1>2, <1>14, <2>1, StyleOfAssumption DEF EditSave, ApprovedCosted
  <2>3. main'[r] = "idle"
    BY <1>14 DEF EditSave, Stop, TypeInv, LocalOK
  <2>4. QED
    BY <1>4, <2>2, <2>3
<1>15. ASSUME NEW r \in Requests, QuotationDetail(r) PROVE CostInv'
  <2>1. PICK s \in held[r].of : det' = [det EXCEPT ![s].priced = held[r].det[s].priced]
    BY <1>15 DEF QuotationDetail
  <2>2. \A x \in Styles : det'[x].costed = det[x].costed
    BY <2>1 DEF TypeInv, StoreOK, Detail
  <2>3. ApprovedCosted'
    BY <1>3, <1>15, <2>2 DEF QuotationDetail
  <2>4. main'[r] \in {"idle", "quotation"}
    BY <1>15 DEF QuotationDetail, Stop, TypeInv, LocalOK
  <2>5. QED
    BY <1>4, <2>3, <2>4
<1>16. ASSUME NEW r \in Requests, ApproveDetails(r) PROVE CostInv'
  <2>1. /\ \A s \in held[r].of : held[r].det[s].costed
        /\ StylesOf(sel[r]) \subseteq held[r].of
    BY <1>16 DEF ApproveDetails, CostInv
  <2>2. \A s \in Styles : /\ s \in held[r].of => det'[s].costed
                          /\ det[s].costed => det'[s].costed
    BY <1>16, <2>1 DEF ApproveDetails, HeldOver
  <2>3. ApprovedCosted'
    BY <1>2, <1>16, <2>2, StyleOfAssumption DEF ApproveDetails, ApprovedCosted
  <2>4. main'[r] = "colors" /\ sel' = sel
    BY <1>16 DEF ApproveDetails, Await, TypeInv, LocalOK
  <2>5. \A c \in sel[r] : StyleOf[c] \in StylesOf(sel[r]) /\ StyleOf[c] \in Styles
    BY StyleOfAssumption DEF StylesOf, TypeInv, LocalOK
  <2>6. \A c \in sel'[r] : det'[StyleOf[c]].costed
    BY <2>1, <2>2, <2>4, <2>5
  <2>7. \A q \in Requests : main'[q] = "colors" /\ \A c \in sel'[q] : det'[StyleOf[c]].costed
    BY <2>4, <2>6 DEF OneAtATime
  <2>8. QED
    BY <2>3, <2>7 DEF CostInv
<1>17. ASSUME NEW r \in Requests, ApproveColors(r) PROVE CostInv'
  <2>1. \A c \in sel[r] : det[StyleOf[c]].costed
    BY <1>17 DEF ApproveColors, CostInv
  <2>2. ApprovedCosted'
    BY <1>2, <1>17, <2>1 DEF ApproveColors, ApprovedCosted
  <2>3. main'[r] = "ships"
    BY <1>17 DEF ApproveColors, Await, TypeInv, LocalOK
  <2>4. QED
    BY <1>4, <2>2, <2>3
<1>18. ASSUME NEW r \in Requests, ApproveShips(r) \/ ApprovePurchase(r) PROVE CostInv'
  <2>1. main'[r] \in {"purchase", "notify"} /\ UNCHANGED <<det, color>>
    BY <1>18 DEF ApproveShips, ApprovePurchase, Await, TypeInv, LocalOK
  <2>2. QED
    BY <1>4, <1>5, <2>1
<1>19. ASSUME NEW r \in Requests, WriteStyle(r) \/ WriteColor(r) \/ WriteShips(r) \/ WriteStatus(r)
       PROVE  CostInv'
  <2>1. UNCHANGED <<det, main, held, sel>>
    BY <1>19 DEF WriteStyle, WriteColor, WriteShips, WriteStatus
  <2>2. \A c \in Colors : color'[c].approved => color[c].approved
    <3>1. CASE WriteColor(r)
      BY <3>1 DEF WriteColor, TypeInv, StoreOK
    <3>2. QED
      BY <1>19, <3>1 DEF WriteStyle, WriteShips, WriteStatus
  <2>3. ApprovedCosted'
    BY <1>3, <2>1, <2>2
  <2>4. QED
    BY <2>1, <2>3 DEF CostInv
<1>20. QED
  BY <1>6, <1>7, <1>8, <1>9, <1>10, <1>12, <1>13, <1>14, <1>15, <1>16, <1>17, <1>18, <1>19
     DEF Next, Start, Step

-----------------------------------------------------------------------------
THEOREM Invariance == Spec => []IInv
<1>1. Init => IInv
  BY TypeInit DEF Init, Nothing, IInv, QuoteInv, RevertInv, StepBackInv, SelectInv, ApproveInv
<1>2. IInv /\ [Next]_vars => IInv'
  BY TypeNext, QuoteNext, RevertNext, SelectNext, ApproveNext DEF IInv
<1>3. QED
  BY <1>1, <1>2, PTL DEF Spec

\* An approval that begins alone, and that nothing disturbs, leaves the purchase
\* approved and its colours Confirmed, named, priced and, if all their styles
\* are maintained, with a cost (purchase-style.service 204-339).
THEOREM ApprovalsHold == Spec => []ApprovalHolds
<1>1. IInv => ApprovalHolds
  BY DEF IInv, ApproveInv, ApprovalHolds, Costs, Priced, Confirms, Ships
<1>2. QED
  BY <1>1, Invariance, PTL

\* A reversal leaves, when its writes are done, no trace of any approval, though
\* none of them is awaited (purchase.service 1448-1509).
THEOREM ReversalsHold == Spec => []RevertHolds
<1>1. IInv => RevertHolds
  <2> SUFFICES ASSUME IInv, Settled PROVE RevertHolds
    BY DEF RevertHolds
  <2>1. \A r \in Requests : todo[r].styles = {} /\ todo[r].colors = {} /\ todo[r].ships = {}
                            /\ todo[r].status = {}
    BY DEF Settled, Idle, NoWrites
  <2>2. QED
    BY <2>1 DEF IInv, RevertInv, StepBackInv, RevertHolds, Reverted
<1>2. QED
  BY <1>1, Invariance, PTL

\* A purchase sent to Cotizations is InNegotiation exactly when every style is
\* negotiated (purchase.service 676-700).
THEOREM QuotesHold == Spec => []QuoteHolds
<1>1. IInv => QuoteHolds
  <2> SUFFICES ASSUME IInv, Settled, last.op = "quote" PROVE pStatus = Quoted
    BY TypeParts DEF IInv, QuoteHolds, Quoted
  <2>1. \A r \in Requests : main[r] # "status"
    BY DEF Settled, Idle
  <2>2. QED
    BY <2>1 DEF IInv, QuoteInv
<1>2. QED
  BY <1>1, Invariance, PTL

\* A selection answered success leaves the purchase complete and the styles it
\* sent priced, though its last write is not awaited (purchase.service
\* 1393-1446).
THEOREM SelectionsHold == Spec => []SelectionHolds
<1>1. IInv => SelectionHolds
  <2> SUFFICES ASSUME IInv, Settled PROVE SelectionHolds
    BY DEF SelectionHolds
  <2>1. \A r \in Requests : todo[r].status = {}
    BY DEF Settled, Idle, NoWrites
  <2>2. QED
    BY <2>1 DEF IInv, SelectInv, SelectionHolds
<1>2. QED
  BY <1>1, Invariance, PTL

\* With one request at a time and every style maintained, an approved colour has
\* its cost, at every step and after every failure: the details are saved
\* before the colours (purchase-style.service 204-339).
THEOREM ApprovedHaveCost ==
  ASSUME OneAtATime
  PROVE  Spec => []ApprovedCosted
<1>1. Init => TypeInv /\ CostInv
  <2>1. ASSUME Init PROVE CostInv
    BY <2>1 DEF Init, CostInv, ApprovedCosted
  <2>2. QED
    BY <2>1, TypeInit
<1>2. TypeInv /\ CostInv /\ [Next]_vars => (TypeInv /\ CostInv)'
  BY TypeNext, CostNext
<1>3. TypeInv /\ CostInv => ApprovedCosted
  BY DEF CostInv
<1>4. QED
  BY <1>1, <1>2, <1>3, PTL DEF Spec
=============================================================================
