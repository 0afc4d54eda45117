----------------------------- MODULE StyleDetails -----------------------------
(***************************************************************************)
(* The details of one style of a purchase, which should be one row and are *)
(* looked for before every write: edits of one field, the form that edits  *)
(* all of them, the colour, and what an edit starts and does not await,    *)
(* the removal of the SKUs made from old details and the arrival dates.    *)
(***************************************************************************)
EXTENDS DetailFields, Sequences, FiniteSets

CONSTANTS
  Plays,       \* the sets of types of fields that behaviours may be about
  Sent,        \* texts a client sends to an edit of one field, of those the
               \* values stand for
  Asked,       \* what a client's form may ask of a field
  MaxEdits     \* bound on the edits of a behaviour

ASSUME PlaysAssumption == \A play \in Plays : play # {} /\ play \subseteq DetailsType
ASSUME SentAssumption == Sent \subseteq {NoText, "1", "2"}
ASSUME EditsAssumption == MaxEdits \in Nat \ {0}

VARIABLES
  types,     \* the types of fields this behaviour is about
  rows,      \* the rows of PurchaseStyleDetails of the style
  color,     \* PurchaseStyleColor.styleColorId of its colour
  skus,      \* the SKUs of the style
  creating,  \* what createsku has read to create one, or nothing
  arrival,   \* the origin the arrival date of a delivery was computed from
  edit,      \* the edits: what each does next and has read
  dating,    \* what the arrival dates each started do next
  last,      \* the value last stored of each field
  mixed,     \* an edit has overlapped another in a way the code does not
             \* withstand
  formed,    \* the form has changed what a SKU is made from
  undated    \* the last arrival dates were not computed, or not saved

skuVars == <<skus, creating>>
vars == <<types, rows, color, skuVars, arrival, edit, dating, last, mixed, formed, undated>>

Edits == 1 .. MaxEdits
Values == {"null", NoText, "0", "1", "2"}
\* getFieldsEdit shows the column ShownAs names, which should be that of Column.
Columns == {Column(t) : t \in types} \cup {ShownAs[t] : t \in types}
TypeOf(c) == CHOOSE t \in DetailsType : Column(t) = c
BlankRow == [c \in Columns |-> Blank(TypeOf(c))]
FullRow == [c \in Columns |-> "1"]

\* What a SKU is created with; its row has an identity, and is late when it
\* was stored after the change of what createsku had read.
SkuColumns == {Column(t) : t \in {u \in types : InSku(u)}}
SkuOf == [SkuColumns \cup {"color"} -> Values \ {"null"}]
Present == [c \in SkuColumns \cup {"color"} |-> IF c = "color" THEN color ELSE rows[1][c]]
Nothing == <<>>
Unread == "unread"

\* An edit: how it edits, the type and the text of an edit of one field, what
\* a form asks, the row it found, 0 for none, and what it read of it, or the
\* SKUs it is about to remove.
NewEdit == [pc |-> "new", how |-> "none", type |-> "none", sent |-> "none",
            asks |-> <<>>, at |-> 0, held |-> <<>>]

TypeOK ==
  /\ types \in Plays
  /\ \A i \in DOMAIN rows : /\ DOMAIN rows[i] = Columns
                            /\ \A c \in Columns : rows[i][c] \in ValuesOf(TypeOf(c))
  /\ color \in {"1", "2"}
  /\ \A s \in skus : s.made \in SkuOf /\ s.late \in BOOLEAN
  /\ creating \in SkuOf \cup {Nothing}
  /\ arrival \in Values
  /\ \A e \in Edits :
       /\ edit[e].pc \in {"new", "save", "clean", "remove", "done"}
       /\ edit[e].how \in {"none", "field", "form", "color"}
       /\ edit[e].at \in 0 .. Len(rows)
       /\ edit[e].pc \in {"clean", "remove"} => edit[e].how \in {"field", "color"}
  /\ dating \in [Edits -> Values \cup {"none", Unread}]
  /\ last \in [types -> Values]
  /\ mixed \in BOOLEAN /\ formed \in BOOLEAN /\ undated \in BOOLEAN

Init ==
  /\ types \in Plays
  /\ \E made \in {<<>>, <<BlankRow>>, <<FullRow>>} : rows = made
  /\ color = "1"
  /\ skus = {} /\ creating = Nothing
  /\ arrival = IF rows = <<FullRow>> THEN "1" ELSE "null"
  /\ edit = [e \in Edits |-> NewEdit]
  /\ dating = [e \in Edits |-> "none"]
  /\ last = [t \in types |-> IF rows = <<FullRow>> THEN "1" ELSE Blank(t)]
  /\ mixed = FALSE /\ formed = FALSE /\ undated = FALSE

Starts(e) == edit[e].pc = "new" /\ \A f \in 1 .. e - 1 : edit[f].pc # "new"
InFlight(e) == edit[e].pc = "save"

-----------------------------------------------------------------------------
\* Mutant: the row is read and saved whole.
HeldOfAll(t, row) == row

\* An edit of one field reads, and saves, that column alone: a catalog to
\* compare it, the others not even that.
HeldOf(t, row) ==
  IF Kind(t) = "catalog" THEN [c \in {Column(t)} |-> row[c]] ELSE <<>>

\* The row of the style that the query gives first.
Found(i) == IF rows = <<>> THEN i = 0 ELSE i \in DOMAIN rows

FieldRead(e) ==
  /\ Starts(e)
  /\ \E t \in types, sent \in Sent, i \in 0 .. Len(rows) :
       /\ Found(i)
       /\ edit' = [edit EXCEPT ![e] =
            [pc |-> "save", how |-> "field", type |-> t, sent |-> sent, asks |-> <<>>,
             at |-> i, held |-> IF i = 0 THEN <<>> ELSE HeldOf(t, rows[i])]]
  /\ UNCHANGED <<types, rows, color, skuVars, arrival, dating, last, mixed, formed, undated>>

\* What a form may ask of the fields: an identifier, -1 for none, a flag or a
\* text, or nothing.
MayAsk(t) ==
  {"absent"} \cup (ValuesOf(t) \ {"null"}) \cup (IF Kind(t) = "catalog" THEN {"-1"} ELSE {})
FormAsks == {asks \in [types -> Asked] : \A t \in types : asks[t] \in MayAsk(t)}

\* A form reads the whole row.
FormRead(e) ==
  /\ Starts(e)
  /\ \E asks \in FormAsks, i \in 0 .. Len(rows) :
       /\ Found(i)
       /\ edit' = [edit EXCEPT ![e] =
            [pc |-> "save", how |-> "form", type |-> "none", sent |-> "none", asks |-> asks,
             at |-> i, held |-> IF i = 0 THEN <<>> ELSE rows[i]]]
  /\ UNCHANGED <<types, rows, color, skuVars, arrival, dating, last, mixed, formed, undated>>

-----------------------------------------------------------------------------
Others(e) == {f \in Edits \ {e} : InFlight(f)}

\* The columns of over replace those of the row found; a row not found is new.
Saved(at, over) ==
  LET on(row) == [c \in Columns |-> IF c \in DOMAIN over THEN over[c] ELSE row[c]] IN
  IF at = 0 THEN Append(rows, on(BlankRow)) ELSE [rows EXCEPT ![at] = on(@)]

\* The overlaps that lose something: with a form, of two edits that found no
\* row, or of the same field.
Clashes(e) ==
  \E f \in Others(e) :
    \/ edit[e].how = "form" \/ edit[f].how = "form"
    \/ edit[e].how # "color" /\ edit[f].how # "color" /\ edit[e].at = 0
    \/ edit[e].how = edit[f].how /\ edit[e].type = edit[f].type

\* Mutant: the SKUs are not removed.
FieldCleansNone(t, held, value) == FALSE

\* A provider or a size that was there and is another removes the SKUs.
FieldCleans(t, held, value) ==
  InSku(t) /\ held # <<>> /\ held[Column(t)] \notin {"null", value}

\* Mutant: the arrival dates start with the save and read the origin before it.
DatesStartTogether(t, held) ==
  IF t = "Origin" /\ held # <<>> /\ held["origin"] # "null" THEN held["origin"] ELSE "none"

\* An edit of the origin starts the arrival dates, whatever it saved.
DatesStart(t, held) == IF t = "Origin" THEN Unread ELSE "none"

FieldSave(e) ==
  LET t == edit[e].type
      held == edit[e].held
      value == Stored(t, edit[e].sent)
      saves == /\ value # "error"
               /\ ~(Kind(t) = "catalog" /\ held # <<>> /\ held[Column(t)] = value)
      over == [c \in DOMAIN held \cup {Column(t)} |-> IF c = Column(t) THEN value ELSE held[c]]
  IN
  /\ InFlight(e) /\ edit[e].how = "field"
  /\ rows' = IF saves THEN Saved(edit[e].at, over) ELSE rows
  /\ last' = IF saves THEN [last EXCEPT ![t] = value] ELSE last
  /\ edit' = [edit EXCEPT ![e] =
       [@ EXCEPT !.pc = IF saves /\ FieldCleans(t, held, value) THEN "clean" ELSE "done",
                 !.held = <<>>]]
  /\ dating' = [dating EXCEPT ![e] = DatesStart(t, held)]
  /\ mixed' = (mixed \/ Clashes(e))
  /\ UNCHANGED <<types, color, skuVars, arrival, formed, undated>>

\* The form saves every column as it read it and changed it.  The SKUs it
\* removes are those of the style whose styleId is the id of the purchase
\* style, not those of this style.
FormSave(e) ==
  LET asks == edit[e].asks
      held == IF edit[e].at = 0 THEN BlankRow ELSE edit[e].held
      over == [c \in Columns |->
                 IF TypeOf(c) \in types THEN FromForm(TypeOf(c), asks[TypeOf(c)], held[c])
                 ELSE held[c]]
      changed == {t \in types : over[Column(t)] # held[Column(t)]}
  IN
  /\ InFlight(e) /\ edit[e].how = "form"
  /\ rows' = Saved(edit[e].at, over)
  /\ last' = [t \in types |-> IF t \in changed THEN over[Column(t)] ELSE last[t]]
  /\ edit' = [edit EXCEPT ![e] = [@ EXCEPT !.pc = "done", !.asks = <<>>, !.held = <<>>]]
  /\ dating' = [dating EXCEPT ![e] =
       IF "Origin" \in types /\ asks["Origin"] \notin {"absent", held["origin"]}
       THEN Unread ELSE "none"]
  /\ mixed' = (mixed \/ Clashes(e))
  /\ formed' = (formed \/ \E t \in changed : InSku(t))
  /\ UNCHANGED <<types, color, skuVars, arrival, undated>>

\* saveStyleColor
ColorRead(e) ==
  /\ Starts(e)
  /\ \E sent \in {"1", "2"} :
       edit' = [edit EXCEPT ![e] =
         [NewEdit EXCEPT !.pc = "save", !.how = "color", !.sent = sent, !.held = color]]
  /\ UNCHANGED <<types, rows, color, skuVars, arrival, dating, last, mixed, formed, undated>>

ColorSave(e) ==
  /\ InFlight(e) /\ edit[e].how = "color"
  /\ color' = edit[e].sent
  /\ edit' = [edit EXCEPT ![e] =
       [@ EXCEPT !.pc = IF edit[e].held = edit[e].sent THEN "done" ELSE "clean", !.held = <<>>]]
  /\ mixed' = (mixed \/ Clashes(e))
  /\ UNCHANGED <<types, rows, skuVars, arrival, dating, last, formed, undated>>

-----------------------------------------------------------------------------
\* cleanSkus, started and not awaited: the SKUs of the style are read, and
\* then removed.
CleanRead(e) ==
  /\ edit[e].pc = "clean"
  /\ edit' = [edit EXCEPT ![e] =
       [@ EXCEPT !.pc = IF skus = {} THEN "done" ELSE "remove", !.held = {s.id : s \in skus}]]
  /\ UNCHANGED <<types, rows, color, skuVars, arrival, dating, last, mixed, formed, undated>>

CleanRemove(e) ==
  /\ edit[e].pc = "remove"
  /\ skus' = {s \in skus : s.id \notin edit[e].held}
  /\ edit' = [edit EXCEPT ![e] = [@ EXCEPT !.pc = "done", !.held = <<>>]]
  /\ UNCHANGED <<types, rows, color, creating, arrival, dating, last, mixed, formed, undated>>

CleanSkus(e) == CleanRead(e) \/ CleanRemove(e)

\* createsku reads what it makes the SKU from, which needs the provider and
\* the size, and goes on to other queries.
CreateRead ==
  /\ creating = Nothing /\ rows # <<>>
  /\ \A c \in SkuColumns : rows[1][c] # "null"
  /\ creating' = Present
  /\ UNCHANGED <<types, rows, color, skus, arrival, edit, dating, last, mixed, formed, undated>>

\* An identity no row has, nor had when it was read to be removed.
Ids == {s.id : s \in skus} \cup UNION {edit[e].held : e \in {f \in Edits : edit[f].pc = "remove"}}
NewId == CHOOSE id \in 1 .. Cardinality(Ids) + 1 : id \notin Ids

\* Then it stores it, unless the style has one of that provider.
CreateStore ==
  /\ creating # Nothing
  /\ IF \E s \in skus : \A c \in SkuColumns \cap {"provider"} : s.made[c] = creating[c]
       THEN UNCHANGED skus
       ELSE skus' = skus \cup {[id |-> NewId, made |-> creating,
              late |-> creating # Present /\ \A e \in Edits : edit[e].pc # "clean"]}
  /\ creating' = Nothing
  /\ UNCHANGED <<types, rows, color, arrival, edit, dating, last, mixed, formed, undated>>

\* The dates of an edit end: while those of another run, they clash.
DatesEnd(e) ==
  /\ dating' = [dating EXCEPT ![e] = "none"]
  /\ mixed' = (mixed \/ \E f \in Edits \ {e} : dating[f] # "none")

\* updateArrivalDates, started and not awaited: it reads the origin and
\* computes the dates.  It throws, and nobody learns of it, for a style
\* without origin or one whose origin has no days.
DatesRead(e) ==
  /\ dating[e] = Unread
  /\ \E i \in 0 .. Len(rows) :
       /\ Found(i)
       /\ \/ /\ i # 0 /\ rows[i]["origin"] # "null"
             /\ dating' = [dating EXCEPT ![e] = rows[i]["origin"]]
             /\ UNCHANGED <<mixed, undated>>
          \/ DatesEnd(e) /\ undated' = TRUE
  /\ UNCHANGED <<types, rows, color, skuVars, arrival, edit, last, formed>>

\* The delivery may be in a pack that is left out (SaveInPacks).
DatesSave(e) ==
  /\ dating[e] \in {"1", "2"}
  /\ DatesEnd(e)
  /\ \/ arrival' = dating[e] /\ undated' = FALSE
     \/ UNCHANGED arrival /\ undated' = TRUE
  /\ UNCHANGED <<types, rows, color, skuVars, edit, last, formed>>

Next ==
  \/ \E e \in Edits :
       \/ FieldRead(e) \/ FieldSave(e)
       \/ FormRead(e) \/ FormSave(e)
       \/ ColorRead(e) \/ ColorSave(e)
       \/ CleanSkus(e) \/ DatesRead(e) \/ DatesSave(e)
  \/ CreateRead \/ CreateStore

\* What an edit has started goes on; nobody has to edit or to create SKUs.
Spec == Init /\ [][Next]_vars /\ \A e \in Edits : WF_vars(CleanSkus(e))

-----------------------------------------------------------------------------
Quiet == \A e \in Edits : edit[e].pc \in {"new", "done"} /\ dating[e] = "none"

\* The types hold, a style has one row of details, and an edit of a field undoes no edit of
\* another: what is shown of each type is what was last stored of it, as long
\* as no form overlaps another edit and no two edits begin the row
\* (purchase-style.service 1303-2458, 1109-1225, purchase.service 1047-1174).
EditsKept ==
  /\ TypeOK
  /\ ~mixed =>
       /\ Len(rows) <= 1
       /\ rows # <<>> => \A t \in types : rows[1][ShownAs[t]] = last[t]

Stale == \E s \in skus : ~s.late /\ s.made # Present

\* A SKU made with another provider, size or colour than the style has now is
\* removed, unless edits clashed, the form made the change or createsku stored
\* it after the change (purchase-style.service 1252-1268, 1317-1340, 1600-1624,
\* jdasku.service 381-396).
SkuFollows == (Stale /\ ~mixed /\ ~formed) ~> (~Stale \/ mixed \/ formed)

\* When nothing runs the arrival date of a delivery is of the origin of its
\* style, unless the dates of one edit overlapped those of another or the last
\* could not be computed: dates that can be computed again repair those that
\* could not (purchase.service 1058-1064, purchase-style.service 2676-2682,
\* 2717-2765).
QuietDates ==
  Quiet /\ ~mixed /\ ~undated /\ rows # <<>> /\ "Origin" \in types =>
    rows[1]["origin"] = arrival
=============================================================================
