---------------------------- MODULE PurchaseWizard ----------------------------
(***************************************************************************)
(* The entry of a purchase: its creation, the edit of its stores, the      *)
(* association of styles and colours to them, and its deletion.  Every     *)
(* handler looks and then writes, query after query, without a             *)
(* transaction; the deletion awaits none of its writes.                    *)
(***************************************************************************)
EXTENDS Integers, Sequences, FiniteSets, SequencesExt

CONSTANTS
  Requests,       \* the requests that may be served at the same time
  StoreIds,       \* the stores a purchase may be for
  Associations,   \* what clients associate: sequences of lines, of a row of
                  \* PurchaseStore, a style and its colours
  Asked,          \* the sets of stores a client asks for
  MaxServed       \* a bound: the requests served in all

StyleIds == UNION {{dto[i].style : i \in DOMAIN dto} : dto \in Associations}
ColorIds == UNION {UNION {dto[i].colors : i \in DOMAIN dto} : dto \in Associations}

SentLine == [at : Nat \ {0}, style : StyleIds, colors : (SUBSET ColorIds) \ {{}}]

WizardAssumption ==
  /\ IsFiniteSet(StoreIds) /\ StoreIds # {} /\ Asked \subseteq SUBSET StoreIds
  /\ Associations \subseteq Seq(SentLine) /\ StyleIds # {} /\ ColorIds # {}
  /\ MaxServed \in Nat

VARIABLES
  purchases,    \* how many purchases of the same instance there are
  stores,       \* of the first, its rows of PurchaseStore,
  styles,       \* and of PurchaseStyle, with a bag of colours each
  deletion,     \* its deletion: the rows to delete, and the writes under way
  req,          \* what each request does next and has read
  served,       \* how many requests have begun
  last,         \* the last request that ended, and what it was sent
  overlapped    \* whether a request ever began while another was served

vars == <<purchases, stores, styles, deletion, req, served, last, overlapped>>
store == <<purchases, stores, styles, deletion>>

Kinds == {"colors", "shippings", "details", "styles", "negotiations", "stores", "purchase"}
\* Rows are numbered and keep their number.  A row of a store is the purchase's,
\* or was taken from it when the purchase was saved without it, or removed.
StoreRow == [store: StoreIds, active: BOOLEAN, row: {"kept", "taken", "removed"}]
StyleRow == [at: Nat, style: StyleIds, active: BOOLEAN, colors: [ColorIds -> Nat]]

Idle == [pc |-> "idle", dto |-> <<>>, lines |-> <<>>, asked |-> {}, stores |-> {},
         styles |-> {}, found |-> 0, colors |-> {}]
NoDeletion == [begun |-> FALSE, stores |-> {}, styles |-> {}, writes |-> {}]

TypeOK ==
  /\ purchases \in 0 .. MaxServed + 1
  /\ \A i \in DOMAIN stores : stores[i] \in StoreRow
  \* Every style was associated to a row of the purchase's stores.
  /\ \A s \in DOMAIN styles : styles[s] \in StyleRow /\ styles[s].at \in DOMAIN stores
  /\ deletion.writes \subseteq Kinds /\ deletion.stores \subseteq DOMAIN stores
  /\ \A r \in Requests : req[r].found \in 0 .. Len(styles)
  /\ served \in 0 .. MaxServed
  /\ overlapped \in BOOLEAN

NoColors == [c \in ColorIds |-> 0]
Once(colors) == [c \in ColorIds |-> IF c \in colors THEN 1 ELSE 0]
NewRow(s) == [store |-> s, active |-> TRUE, row |-> "kept"]
NewRows(asked) == [i \in DOMAIN SetToSeq(asked) |-> NewRow(SetToSeq(asked)[i])]

\* No purchase; one for a store; one for each store, with the first style in
\* each of them, and the same with a store put aside.
Init ==
  LET all == NewRows(StoreIds)
      entry(i) == [at |-> i, style |-> CHOOSE s \in StyleIds : TRUE, active |-> TRUE,
                   colors |-> Once({CHOOSE c \in ColorIds : TRUE})]
  IN
  /\ \/ purchases = 0 /\ stores = <<>> /\ styles = <<>>
     \/ purchases = 1 /\ stores = <<all[1]>> /\ styles = <<>>
     \/ /\ purchases = 1 /\ styles = [i \in DOMAIN all |-> entry(i)]
        /\ stores \in {all, [all EXCEPT ![Len(all)].active = FALSE]}
  /\ deletion = NoDeletion
  /\ req = [r \in Requests |-> Idle]
  /\ served = 0
  /\ last = [op |-> "none", dto |-> <<>>, asked |-> {}]
  /\ overlapped = FALSE

-----------------------------------------------------------------------------
\* What is soft-deleted is hidden from the query of its own rows, and not from
\* the joins that read it with others (TypeORM 0.2.24).
Deleted(kind) == deletion.begun /\ kind \notin deletion.writes
StoreDeleted(i) == Deleted("stores") /\ i \in deletion.stores
StyleDeleted(s) == Deleted("styles") /\ s \in deletion.styles
Present == purchases > 0 /\ ~Deleted("purchase")

\* A style goes with the row of its store, ON DELETE CASCADE.
Rows == {i \in DOMAIN stores : stores[i].row = "kept"}
StylesOf(those) == {s \in DOMAIN styles : styles[s].at \in those}
Removed(i) == stores[i].row = "removed"

Running == {r \in Requests : req[r].pc # "idle"}

Begin(r, begun) ==
  /\ req[r].pc = "idle" /\ served < MaxServed
  /\ served' = served + 1
  /\ req' = [req EXCEPT ![r] = begun]
  /\ overlapped' = (overlapped \/ Running # {} \/ deletion.writes # {})
  /\ UNCHANGED last
Go(r, pc) == /\ req' = [req EXCEPT ![r].pc = pc]
             /\ UNCHANGED <<served, last, overlapped>>
End(r, op) ==
  /\ req' = [req EXCEPT ![r] = Idle]
  /\ last' = [op |-> op, dto |-> req[r].dto, asked |-> req[r].asked]
  /\ UNCHANGED <<served, overlapped>>

-----------------------------------------------------------------------------
\* create, without an id: the purchases counted have an active style in an
\* active store.
Instances ==
  IF Present /\ \E s \in StylesOf(Rows) : styles[s].active /\ stores[styles[s].at].active
  THEN {1} ELSE {}

CreateLook(r) ==
  /\ Instances = {}
  /\ \E asked \in Asked : Begin(r, [Idle EXCEPT !.pc = "create", !.asked = asked])
  /\ UNCHANGED store

\* The purchase, and then its stores, which matter here for the first alone.
CreateSave(r) ==
  /\ req[r].pc = "create"
  /\ purchases' = purchases + 1
  /\ IF purchases = 0 THEN Go(r, "create stores") ELSE End(r, "repeated")
  /\ UNCHANGED <<stores, styles, deletion>>

CreateStores(r) ==
  /\ req[r].pc = "create stores"
  /\ stores' = stores \o NewRows(req[r].asked)
  /\ End(r, "stored")
  /\ UNCHANGED <<purchases, styles, deletion>>

-----------------------------------------------------------------------------
\* create, with an id: the stores as they are, active or not.
EditRead(r) ==
  /\ Present
  /\ \E asked \in Asked :
       Begin(r, [Idle EXCEPT !.pc = "edit", !.asked = asked, !.stores = Rows])
  /\ UNCHANGED store

\* The purchase is saved with the stores read: TypeORM takes the others from
\* it, and gives back what another edit took.
EditSave(r) ==
  /\ req[r].pc = "edit"
  /\ stores' = [i \in DOMAIN stores |->
       IF Removed(i) THEN stores[i]
       ELSE [stores[i] EXCEPT !.row = IF i \in req[r].stores THEN "kept" ELSE "taken"]]
  /\ Go(r, "edit add")
  /\ UNCHANGED <<purchases, styles, deletion>>

\* The stores asked for that were not there.
Missing(r) == req[r].asked \ {stores[i].store : i \in req[r].stores}

EditAdd(r) ==
  /\ req[r].pc = "edit add"
  /\ stores' = stores \o NewRows(Missing(r))
  /\ Go(r, "edit remove")
  /\ UNCHANGED <<purchases, styles, deletion>>

EditRemove(r) ==
  /\ req[r].pc = "edit remove"
  /\ stores' = [i \in DOMAIN stores |->
       IF i \in req[r].stores /\ stores[i].store \notin req[r].asked
       THEN [stores[i] EXCEPT !.row = "removed"] ELSE stores[i]]
  /\ End(r, "stored")
  /\ UNCHANGED <<purchases, styles, deletion>>

-----------------------------------------------------------------------------
\* associateStyles: the active stores and their styles are read.
AssociateRead(r) ==
  /\ \E dto \in Associations :
       /\ \A i \in DOMAIN dto : dto[i].at \in DOMAIN stores
       /\ LET mine == {i \in Rows : stores[i].active /\ ~StoreDeleted(i)} IN
          Begin(r, [Idle EXCEPT !.pc = "associate", !.dto = dto, !.lines = dto,
                                !.stores = mine, !.styles = StylesOf(mine)])
  /\ UNCHANGED store

StoresSent(dto) == {dto[i].at : i \in DOMAIN dto}
StylesSent(dto) == {dto[i].style : i \in DOMAIN dto}

\* The stores not sent are put aside.
AssociateStores(r) ==
  /\ req[r].pc = "associate"
  /\ stores' = [i \in DOMAIN stores |->
       IF i \in req[r].stores \ StoresSent(req[r].dto)
       THEN [stores[i] EXCEPT !.active = FALSE] ELSE stores[i]]
  /\ Go(r, "associate styles")
  /\ UNCHANGED <<purchases, styles, deletion>>

\* Mutant: the styles sent again stay inactive.
ActiveAfterNever(r, s) == styles[s].active /\ styles[s].style \in StylesSent(req[r].dto)

\* A style of the stores sent is active if it was sent, of whichever store.
ActiveAfter(r, s) == styles[s].style \in StylesSent(req[r].dto)

AssociateStyles(r) ==
  /\ req[r].pc = "associate styles"
  /\ styles' = [s \in DOMAIN styles |->
       IF s \in req[r].styles /\ styles[s].at \in StoresSent(req[r].dto)
       THEN [styles[s] EXCEPT !.active = ActiveAfter(r, s)] ELSE styles[s]]
  /\ Go(r, "line")
  /\ UNCHANGED <<purchases, stores, deletion>>

Line(r) == Head(req[r].lines)
NextLine(r) ==
  /\ req' = [req EXCEPT ![r].pc = "line", ![r].lines = Tail(@), ![r].found = 0]
  /\ UNCHANGED <<served, last, overlapped>>

\* A line of a row that was not among the active stores has no store to answer
\* with: the request fails after the line was served.
EndLine(r) == IF Line(r).at \in req[r].stores THEN NextLine(r) ELSE End(r, "failed")

\* The style of the store, looked for before it is inserted.
LineFound(line) ==
  {s \in DOMAIN styles : /\ styles[s].at = line.at /\ styles[s].style = line.style
                         /\ ~Removed(line.at) /\ ~StyleDeleted(s)}

LineFind(r) ==
  /\ req[r].pc = "line" /\ req[r].lines # <<>>
  /\ \/ LineFound(Line(r)) = {} /\ Go(r, "insert")
     \/ \E s \in LineFound(Line(r)) :
          /\ req' = [req EXCEPT ![r].pc = "add colors", ![r].found = s,
                      ![r].colors = {c \in ColorIds : styles[s].colors[c] > 0}]
          /\ UNCHANGED <<served, last, overlapped>>
  /\ UNCHANGED store

\* The new style.  That of a row not among the active stores is stored without
\* a store, and that of a removed one refused by its foreign key.
LineInsert(r) ==
  /\ req[r].pc = "insert"
  /\ IF Line(r).at \in req[r].stores /\ ~Removed(Line(r).at)
     THEN /\ styles' = Append(styles, [at |-> Line(r).at, style |-> Line(r).style,
                                       active |-> TRUE, colors |-> NoColors])
          /\ req' = [req EXCEPT ![r].pc = "insert colors", ![r].found = Len(styles) + 1]
          /\ UNCHANGED <<served, last, overlapped>>
     ELSE UNCHANGED styles /\ End(r, "failed")
  /\ UNCHANGED <<purchases, stores, deletion>>

\* Its colours, refused too when the style has gone with its store.
LineInsertColors(r) ==
  /\ req[r].pc = "insert colors"
  /\ IF Removed(Line(r).at) THEN UNCHANGED styles /\ End(r, "failed")
     ELSE /\ styles' = [styles EXCEPT ![req[r].found].colors =
                          [c \in ColorIds |-> @[c] + Once(Line(r).colors)[c]]]
          /\ NextLine(r)
  /\ UNCHANGED <<purchases, stores, deletion>>

\* updatePurchaseStyle: the colours that were not there are added, those not
\* sent are removed.
LineAddColors(r) ==
  LET missing == Line(r).colors \ req[r].colors IN
  /\ req[r].pc = "add colors"
  /\ IF Removed(Line(r).at) /\ missing # {} THEN UNCHANGED styles /\ End(r, "failed")
     ELSE /\ styles' = [styles EXCEPT ![req[r].found].colors =
                          [c \in ColorIds |-> @[c] + Once(missing)[c]]]
          /\ Go(r, "remove colors")
  /\ UNCHANGED <<purchases, stores, deletion>>

LineRemoveColors(r) ==
  /\ req[r].pc = "remove colors"
  /\ styles' = [styles EXCEPT ![req[r].found].colors =
       [c \in ColorIds |-> IF c \in req[r].colors \ Line(r).colors THEN 0 ELSE @[c]]]
  /\ EndLine(r)
  /\ UNCHANGED <<purchases, stores, deletion>>

AssociateEnd(r) ==
  /\ req[r].pc = "line" /\ req[r].lines = <<>>
  /\ End(r, "associated")
  /\ UNCHANGED store

-----------------------------------------------------------------------------
\* Mutant: what is active is deleted.
ToDeleteActive == {i \in Rows : stores[i].active}

\* The rows of stores delete finds, and the styles of them.
ToDelete == Rows

\* delete answers once it has begun its seven writes.  A purchase is deleted
\* once here: a second deletion would mark the same rows again.
Delete(r) ==
  /\ Present /\ ~deletion.begun
  /\ req[r].pc = "idle" /\ served < MaxServed
  /\ served' = served + 1
  /\ deletion' = [begun |-> TRUE, stores |-> ToDelete, styles |-> StylesOf(ToDelete),
                  writes |-> Kinds]
  /\ overlapped' = (overlapped \/ Running # {})
  /\ last' = [op |-> "deleted", dto |-> <<>>, asked |-> {}]
  /\ UNCHANGED <<purchases, stores, styles, req>>

DeleteWrite(kind) ==
  /\ kind \in deletion.writes
  /\ deletion' = [deletion EXCEPT !.writes = @ \ {kind}]
  /\ UNCHANGED <<purchases, stores, styles, req, served, last, overlapped>>

Serve(r) ==
  \/ CreateSave(r) \/ CreateStores(r)
  \/ EditSave(r) \/ EditAdd(r) \/ EditRemove(r)
  \/ AssociateStores(r) \/ AssociateStyles(r) \/ AssociateEnd(r)
  \/ LineFind(r) \/ LineInsert(r) \/ LineInsertColors(r)
  \/ LineAddColors(r) \/ LineRemoveColors(r)

Next ==
  \/ \E r \in Requests :
       CreateLook(r) \/ EditRead(r) \/ AssociateRead(r) \/ Delete(r) \/ Serve(r)
  \/ \E kind \in Kinds : DeleteWrite(kind)

\* A query sent to the database ends.
Fairness == /\ \A r \in Requests : WF_vars(Serve(r))
            /\ \A kind \in Kinds : WF_vars(DeleteWrite(kind))

Spec == Init /\ [][Next]_vars /\ Fairness

-----------------------------------------------------------------------------
Quiet == ~overlapped /\ Running = {} /\ deletion.writes = {}

\* The row of a store and a style has no second row of the style: the check of
\* associateStyles (purchase.service.ts:734) holds while requests come one by one.
OneStylePerStore ==
  ~overlapped =>
    \A s, t \in DOMAIN styles :
      (styles[s].at = styles[t].at /\ styles[s].style = styles[t].style) => s = t

\* An association that succeeded leaves active the stores it was sent and no
\* others, each line's style active in its store with the colours of its last
\* line once each, and no active style that was not sent (purchase.service.ts:702-774).
AssociatedAsSent ==
  (Quiet /\ last.op = "associated") =>
    LET dto == last.dto
        active == {i \in Rows : stores[i].active /\ ~StoreDeleted(i)}
        settles(i) == \A j \in DOMAIN dto :
                      (j > i) => (dto[j].at # dto[i].at \/ dto[j].style # dto[i].style)
    IN
    /\ active = StoresSent(dto)
    /\ \A i \in DOMAIN dto : settles(i) =>
         \E s \in LineFound(dto[i]) : styles[s].active /\ styles[s].colors = Once(dto[i].colors)
    /\ \A s \in StylesOf(active) : styles[s].active => styles[s].style \in StylesSent(dto)

\* A creation or an edit of the stores leaves a row for each store asked for,
\* one and no more, a store put aside included (purchase.service.ts:149-175).
StoresAsAsked ==
  (Quiet /\ last.op = "stored") =>
    /\ {stores[i].store : i \in Rows} = last.asked
    /\ \A i, j \in Rows : stores[i].store = stores[j].store => i = j

\* The writes delete does not wait for (purchase.service.ts:301-307) take the
\* purchase, its stores and their styles in the end, unless a request served
\* meanwhile added to them.
DeletedWhole ==
  deletion.begun ~>
    (overlapped \/ (/\ ~Present
                    /\ \A i \in Rows : StoreDeleted(i)
                    /\ \A s \in StylesOf(Rows) : StyleDeleted(s)))

\* What requests that succeeded were sent is what is stored.
AsAsked == TypeOK /\ OneStylePerStore /\ AssociatedAsSent /\ StoresAsAsked

=============================================================================
