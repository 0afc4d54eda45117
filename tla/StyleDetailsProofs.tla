-------------------------- MODULE StyleDetailsProofs --------------------------
(***************************************************************************)
(* Proofs about StyleDetails: that edits of fields keep each other's       *)
(* values, and that the arrival dates follow the origin.                   *)
(***************************************************************************)
EXTENDS StyleDetails, TLAPS

-----------------------------------------------------------------------------
\* The rows there may be of a style, and the values each edit may hold.
RowOf == {row \in [Columns -> Values] : \A c \in Columns : row[c] \in ValuesOf(TypeOf(c))}

Parts == {"pc", "how", "type", "sent", "asks", "at", "held"}

HoldsField(e) ==
  /\ edit[e].type \in types /\ edit[e].sent \in Sent
  /\ \A c \in DOMAIN edit[e].held : c = Column(edit[e].type)
HoldsForm(e) ==
  /\ edit[e].asks \in FormAsks
  /\ edit[e].at # 0 => edit[e].held \in RowOf

RowsTyped == types \in Plays /\ rows \in Seq(RowOf)
EditsTyped ==
  /\ DOMAIN edit = Edits
  /\ \A e \in Edits :
       /\ DOMAIN edit[e] = Parts
       /\ edit[e].pc \in {"new", "save", "clean", "remove", "done"}
       /\ edit[e].how \in {"none", "field", "form", "color"}
       /\ edit[e].at \in 0 .. Len(rows)
       /\ edit[e].pc \in {"clean", "remove"} => edit[e].how \in {"field", "color"}
       /\ InFlight(e) => /\ edit[e].how = "field" => HoldsField(e)
                         /\ edit[e].how = "form" => HoldsForm(e)
                         /\ edit[e].how = "color" => edit[e].sent \in {"1", "2"}
RestTyped ==
  /\ color \in {"1", "2"}
  /\ \A s \in skus : s.made \in SkuOf /\ s.late \in BOOLEAN
  /\ creating \in SkuOf \cup {Nothing}
  /\ arrival \in Values
  /\ dating \in [Edits -> Values \cup {"none", Unread}]
  /\ last \in [types -> Values]
  /\ mixed \in BOOLEAN /\ formed \in BOOLEAN /\ undated \in BOOLEAN

TypeInv == RowsTyped /\ EditsTyped /\ RestTyped

\* While nothing has clashed: the row says what was last stored of each type,
\* edits that found no row still have none beside them, and a form holds the
\* row as it is.
RowAgrees == rows # <<>> => \A t \in types : rows[1][Column(t)] = last[t]
BlankLast == rows = <<>> => \A t \in types : last[t] = Blank(t)
FoundNone(e) == InFlight(e) /\ edit[e].how # "color" /\ edit[e].at = 0 => rows = <<>>
FormHolds(e) == InFlight(e) /\ edit[e].how = "form" /\ edit[e].at # 0 => edit[e].held = rows[1]

Kept ==
  /\ Len(rows) <= 1
  /\ RowAgrees /\ BlankLast
  /\ \A e \in Edits : FoundNone(e) /\ FormHolds(e)
KeptInv == ~mixed => Kept

\* The dates that are to be computed from this origin.
Coming(e, origin) == dating[e] \in {Unread, origin}

\* An edit at work has not started its dates, only a change of the origin
\* starts them, and without a row no origin has been read.
DatesStarted ==
  /\ \A e \in Edits : edit[e].pc \in {"new", "save"} => dating[e] = "none"
  /\ \A e \in Edits : dating[e] # "none" => "Origin" \in types
  /\ rows = <<>> => \A e \in Edits : dating[e] \in {"none", Unread}

\* The dates follow the origin, or are to, or could not; and dates read from an
\* older origin are not the only ones to come.
DatesFollow(origin) ==
  /\ origin = arrival \/ undated \/ \E e \in Edits : Coming(e, origin)
  /\ \A e \in Edits :
       dating[e] # "none" /\ ~Coming(e, origin) => \E f \in Edits \ {e} : Coming(f, origin)
OriginNow == IF rows = <<>> THEN "null" ELSE rows[1]["origin"]
DatesInv == ~mixed /\ "Origin" \in types => DatesFollow(OriginNow)

IInv == TypeInv /\ KeptInv /\ DatesStarted /\ DatesInv

-----------------------------------------------------------------------------
\* The fields.

\* The type whose operation saves a column.
TypeSaving ==
  [provider |-> "Provider", cso |-> "Cso", category |-> "Category",
   exitPort |-> "ExitPort", segment |-> "Segment", atc |-> "Atc",
   origin |-> "Origin", ratio |-> "Ratio", size |-> "Size",
   shippingMethod |-> "ShippingMethod", packingMethod |-> "PackingMethod",
   hanger |-> "Hanger", vstTag |-> "VstTag", price |-> "Price",
   sato |-> "PriceSATO", fob |-> "Fob", techFile |-> "TechFile",
   sizeSpec |-> "SizeSpec", internetDescription |-> "InternetDescription",
   negotiatior |-> "Negotiatior", designer |-> "Designer",
   merchandiser |-> "Merchandiser", productManager |-> "PM",
   brandManager |-> "BM", rse |-> "Rse", gauge |-> "Gauge",
   fabricWight |-> "FabricWight",
   fabricConstruction |-> "FabricConstruction",
   fabricWeaving |-> "FabricWeaving", composition |-> "Composition",
   additionalAccesory |-> "AdditionalAccesory",
   fobReferencial |-> "FobReferencial",
   referencialProvider |-> "ReferencialProvider",
   collection |-> "Collection", event |-> "Event",
   seasonSticker |-> "SeasonSticker"]

\* An edit shows the column that its operation saves, and two operations
\* never save the same one (getFieldsEdit and saveStylesDetails).
LEMMA ColumnOfType ==
  ASSUME NEW t \in DetailsType
  PROVE  /\ Column(t) \in DOMAIN TypeSaving
         /\ TypeSaving[Column(t)] = t
         /\ ShownAs[t] = Column(t)
         /\ Kind(t) \in {"catalog", "flag", "number", "text"}
  BY SMTT(60) DEF TypeSaving, DetailsType, Column, Kind, ShownAs, SavedBy,
    Catalog, Flag, Number, Text, SaveProvider, SaveCso, SaveCategory, SaveExitPort, SaveSegment, SaveAtc,
    SaveOrigin, SaveRatio, SaveSize, SaveShippingMethod, SavePackingMethod,
    SaveHanger, SaveVstTag, SavePrice, SavePriceSATO, SaveFob, SaveTechFile,
    SaveSizeSpec, SaveInternetDescription, SaveNegotiatior, SaveDesigner,
    SaveMerchandiser, SaveProductManager, SaveBrandManager, SaveRse, SaveGauge,
    SaveFabricWight, SaveFabricConstruction, SaveFabricWeaving, SaveComposition,
    SaveAdditionalAccesory, SaveFobReferencial, SaveReferencialProvider,
    SaveCollection, SaveEvent, SaveSeasonSticker

LEMMA TypeOfColumn ==
  ASSUME NEW t \in DetailsType
  PROVE  TypeOf(Column(t)) = t
<1>1. \A u \in DetailsType : Column(u) = Column(t) => u = t
  BY ColumnOfType
<1>2. QED
  BY <1>1 DEF TypeOf

LEMMA OriginColumn == "Origin" \in DetailsType /\ Column("Origin") = "origin" /\ Kind("Origin") = "catalog"
  BY DEF DetailsType, Column, Kind, SavedBy, SaveOrigin, Catalog

\* The columns are those of the types.
LEMMA ColumnsOfTypes ==
  ASSUME types \in Plays
  PROVE  /\ types \subseteq DetailsType
         /\ \A t \in types : Column(t) \in Columns /\ ShownAs[t] = Column(t)
         /\ \A c \in Columns : TypeOf(c) \in types /\ Column(TypeOf(c)) = c
<1>1. types \subseteq DetailsType
  BY PlaysAssumption
<1>2. \A t \in types : Column(t) \in Columns /\ ShownAs[t] = Column(t)
  BY <1>1, ColumnOfType DEF Columns
<1>3. ASSUME NEW c \in Columns PROVE TypeOf(c) \in types /\ Column(TypeOf(c)) = c
  <2>1. PICK t \in types : c = Column(t)
    BY <1>1, ColumnOfType DEF Columns
  <2>2. QED
    BY <1>1, <2>1, TypeOfColumn
<1>4. QED
  BY <1>1, <1>2, <1>3

LEMMA ValueOfType ==
  ASSUME NEW t \in DetailsType
  PROVE  /\ ValuesOf(t) \subseteq Values
         /\ Blank(t) \in ValuesOf(t)
         /\ "1" \in ValuesOf(t)
  BY ColumnOfType DEF ValuesOf, Values, Blank

LEMMA StoredValue ==
  ASSUME NEW t \in DetailsType, NEW sent \in Sent, Stored(t, sent) # "error"
  PROVE  Stored(t, sent) \in ValuesOf(t) /\ Stored(t, sent) # "null"
<1>1. sent \in {NoText, "1", "2"}
  BY SentAssumption
<1>2. QED
  BY <1>1, ColumnOfType DEF Stored, ValuesOf, NoText

LEMMA FormValue ==
  ASSUME NEW t \in DetailsType, NEW asked \in MayAsk(t), NEW now \in ValuesOf(t)
  PROVE  FromForm(t, asked, now) \in ValuesOf(t)
  BY ColumnOfType DEF FromForm, MayAsk, ValuesOf, NoText

LEMMA OriginValues == ValuesOf("Origin") = {"null", "1", "2"} /\ Blank("Origin") = "null"
  BY OriginColumn DEF ValuesOf, Blank

-----------------------------------------------------------------------------
\* Rows.

LEMMA RowParts ==
  ASSUME types \in Plays, NEW row \in RowOf
  PROVE  /\ DOMAIN row = Columns
         /\ \A c \in Columns : row[c] \in ValuesOf(TypeOf(c))
         /\ \A t \in types : row[Column(t)] \in ValuesOf(t)
  BY ColumnsOfTypes, TypeOfColumn DEF RowOf

LEMMA BlankRowIs ==
  ASSUME types \in Plays
  PROVE  BlankRow \in RowOf /\ \A t \in types : BlankRow[Column(t)] = Blank(t)
  BY ColumnsOfTypes, TypeOfColumn, ValueOfType DEF RowOf, BlankRow

LEMMA FullRowIs ==
  ASSUME types \in Plays
  PROVE  FullRow \in RowOf /\ \A t \in types : FullRow[Column(t)] = "1"
  BY ColumnsOfTypes, TypeOfColumn, ValueOfType DEF RowOf, FullRow

\* A behaviour stays about the types it began with, and so its rows keep
\* their columns.
LEMMA Steady ==
  ASSUME types' = types
  PROVE  /\ Columns' = Columns /\ SkuColumns' = SkuColumns
         /\ BlankRow' = BlankRow /\ RowOf' = RowOf /\ FormAsks' = FormAsks /\ SkuOf' = SkuOf
  BY DEF Columns, SkuColumns, BlankRow, RowOf, FormAsks, SkuOf

\* What over says of a column, and what the row said of the others.
On(row, over) == [c \in Columns |-> IF c \in DOMAIN over THEN over[c] ELSE row[c]]

LEMMA OnTyped ==
  ASSUME types \in Plays, NEW row \in RowOf, NEW over,
         \A c \in Columns : c \in DOMAIN over => over[c] \in ValuesOf(TypeOf(c))
  PROVE  /\ On(row, over) \in RowOf
         /\ \A t \in types : On(row, over)[Column(t)] =
              IF Column(t) \in DOMAIN over THEN over[Column(t)] ELSE row[Column(t)]
<1>1. \A c \in Columns : On(row, over)[c] \in ValuesOf(TypeOf(c))
  BY RowParts DEF On
<1>2. \A c \in Columns : On(row, over)[c] \in Values
  BY <1>1, ColumnsOfTypes, ValueOfType
<1>3. On(row, over) \in [Columns -> Values]
  BY <1>2 DEF On
<1>4. QED
  BY <1>1, <1>3, ColumnsOfTypes DEF RowOf, On

\* A save replaces one row, or adds one.
LEMMA SavedRows ==
  ASSUME types \in Plays, rows \in Seq(RowOf), NEW at \in 0 .. Len(rows), NEW over,
         \A c \in Columns : c \in DOMAIN over => over[c] \in ValuesOf(TypeOf(c))
  PROVE  /\ Saved(at, over) \in Seq(RowOf) /\ Saved(at, over) # <<>>
         /\ Len(Saved(at, over)) = IF at = 0 THEN Len(rows) + 1 ELSE Len(rows)
         /\ at = 0 => Saved(at, over) = Append(rows, On(BlankRow, over))
         /\ at # 0 => Saved(at, over)[at] = On(rows[at], over)
<1>1. CASE at = 0
  <2>1. Saved(at, over) = Append(rows, On(BlankRow, over))
    BY <1>1 DEF Saved, On
  <2>2. On(BlankRow, over) \in RowOf
    BY BlankRowIs, OnTyped
  <2>3. QED
    BY <1>1, <2>1, <2>2
<1>2. CASE at # 0
  <2>1. Saved(at, over) = [rows EXCEPT ![at] = On(rows[at], over)]
    BY <1>2 DEF Saved, On
  <2>2. at \in 1 .. Len(rows) /\ rows[at] \in RowOf
    BY <1>2
  <2>3. On(rows[at], over) \in RowOf
    BY <2>2, OnTyped
  <2>4. QED
    BY <1>2, <2>1, <2>2, <2>3
<1>3. QED
  BY <1>1, <1>2

-----------------------------------------------------------------------------
\* Reads.

\* An edit that goes on well made leaves the edits well made.
LEMMA EditReplaced ==
  ASSUME TypeInv, types' = types, Len(rows) <= Len(rows'), Len(rows') \in Nat,
         NEW e \in Edits, NEW new, edit' = [edit EXCEPT ![e] = new],
         DOMAIN new = Parts, new.pc \in {"new", "save", "clean", "remove", "done"},
         new.how \in {"none", "field", "form", "color"}, new.at \in 0 .. Len(rows'),
         new.pc \in {"clean", "remove"} => new.how \in {"field", "color"},
         new.pc = "save" =>
           /\ new.how = "field" => /\ new.type \in types /\ new.sent \in Sent
                                   /\ \A c \in DOMAIN new.held : c = Column(new.type)
           /\ new.how = "form" => /\ new.asks \in FormAsks
                                  /\ new.at # 0 => new.held \in RowOf
           /\ new.how = "color" => new.sent \in {"1", "2"}
  PROVE  /\ EditsTyped'
         /\ edit'[e] = new /\ \A f \in Edits : f # e => edit'[f] = edit[f]
<1>1. edit'[e] = new /\ \A f \in Edits : f # e => edit'[f] = edit[f]
  BY DEF TypeInv, EditsTyped
<1>2. DOMAIN edit' = Edits /\ Len(rows) \in Nat
  BY DEF TypeInv, EditsTyped, RowsTyped
<1>3. ASSUME NEW f \in Edits, f # e
      PROVE  /\ DOMAIN edit'[f] = Parts
             /\ edit'[f].pc \in {"new", "save", "clean", "remove", "done"}
             /\ edit'[f].how \in {"none", "field", "form", "color"}
             /\ edit'[f].at \in 0 .. Len(rows')
             /\ edit'[f].pc \in {"clean", "remove"} => edit'[f].how \in {"field", "color"}
             /\ InFlight(f)' => /\ edit'[f].how = "field" => HoldsField(f)'
                                /\ edit'[f].how = "form" => HoldsForm(f)'
                                /\ edit'[f].how = "color" => edit'[f].sent \in {"1", "2"}
  BY <1>1, <1>2, <1>3, Steady DEF TypeInv, EditsTyped, InFlight, HoldsField, HoldsForm
<1>4. InFlight(e)' => /\ new.how = "field" => HoldsField(e)'
                      /\ new.how = "form" => HoldsForm(e)'
                      /\ new.how = "color" => new.sent \in {"1", "2"}
  BY <1>1, Steady DEF InFlight, HoldsField, HoldsForm
<1>5. QED
  BY <1>1, <1>2, <1>3, <1>4 DEF EditsTyped

\* Nothing else changes when an edit reads.
Reading == UNCHANGED <<types, rows, color, skuVars, arrival, dating, last, mixed, formed, undated>>

LEMMA RestSteady ==
  ASSUME RestTyped, UNCHANGED <<types, color, skuVars, arrival, dating, last, mixed, formed, undated>>
  PROVE  RestTyped'
  BY Steady DEF RestTyped, skuVars

\* An edit that starts has read what there is.
LEMMA ReadKeeps ==
  ASSUME IInv, Reading, NEW e \in Edits, Starts(e), NEW new, edit' = [edit EXCEPT ![e] = new],
         DOMAIN new = Parts, new.pc = "save", new.how \in {"field", "form", "color"},
         new.at \in 0 .. Len(rows),
         new.how # "color" /\ new.at = 0 => rows = <<>>,
         new.how = "field" => /\ new.type \in types /\ new.sent \in Sent
                              /\ \A c \in DOMAIN new.held : c = Column(new.type),
         new.how = "form" => new.asks \in FormAsks /\ (new.at # 0 => new.held = rows[new.at]),
         new.how = "color" => new.sent \in {"1", "2"}
  PROVE  IInv'
<1>1. /\ types' = types /\ rows' = rows /\ dating' = dating /\ mixed' = mixed
      /\ last' = last /\ arrival' = arrival /\ undated' = undated
  BY DEF Reading
<1>2. /\ Len(rows) \in Nat
      /\ \A i \in 1 .. Len(rows) : rows[i] \in RowOf
  BY DEF IInv, TypeInv, RowsTyped
<1>3. new.how = "form" /\ new.at # 0 => new.held \in RowOf
  BY <1>2
<1>4. EditsTyped' /\ edit'[e] = new /\ \A f \in Edits : f # e => edit'[f] = edit[f]
  <2>1. /\ TypeInv /\ Len(rows) <= Len(rows') /\ Len(rows') \in Nat
        /\ new.at \in 0 .. Len(rows')
    BY <1>1, <1>2 DEF IInv
  <2>2. new.how = "form" => new.asks \in FormAsks /\ (new.at # 0 => new.held \in RowOf)
    BY <1>3
  <2>3. QED
    BY <1>1, <2>1, <2>2, EditReplaced
<1>5. TypeInv'
  BY <1>1, <1>4, Steady, RestSteady DEF IInv, TypeInv, RowsTyped, Reading
<1>6. KeptInv'
  <2>1. SUFFICES ASSUME ~mixed PROVE Kept'
    BY <1>1 DEF KeptInv
  <2>2. Kept
    BY <2>1 DEF IInv, KeptInv
  <2>3. RowAgrees' /\ BlankLast'
    BY <1>1, <2>2 DEF Kept, RowAgrees, BlankLast
  <2>4. FoundNone(e)' /\ FormHolds(e)'
    BY <1>1, <1>2, <1>4, <2>2 DEF Kept, FoundNone, FormHolds
  <2>5. \A f \in Edits : f # e => FoundNone(f)' /\ FormHolds(f)'
    BY <1>1, <1>4, <2>2 DEF Kept, FoundNone, FormHolds, InFlight
  <2>6. QED
    BY <1>1, <2>2, <2>3, <2>4, <2>5 DEF Kept
<1>7. DatesStarted'
  BY <1>1, <1>4 DEF IInv, DatesStarted, Starts
<1>8. DatesInv'
  BY <1>1 DEF IInv, DatesInv, DatesFollow, Coming, OriginNow
<1>9. QED
  BY <1>5, <1>6, <1>7, <1>8 DEF IInv

LEMMA FieldReadKeeps ==
  ASSUME IInv, NEW e \in Edits, FieldRead(e)
  PROVE  IInv'
<1>1. PICK t \in types, sent \in Sent, i \in 0 .. Len(rows) :
        /\ Found(i)
        /\ edit' = [edit EXCEPT ![e] =
             [pc |-> "save", how |-> "field", type |-> t, sent |-> sent, asks |-> <<>>,
              at |-> i, held |-> IF i = 0 THEN <<>> ELSE HeldOf(t, rows[i])]]
  BY DEF FieldRead
<1> DEFINE held == IF i = 0 THEN <<>> ELSE HeldOf(t, rows[i])
           new == [pc |-> "save", how |-> "field", type |-> t, sent |-> sent, asks |-> <<>>,
                   at |-> i, held |-> held]
<1>2. \A c \in DOMAIN held : c = Column(t)
  BY DEF HeldOf
<1>3. i = 0 => rows = <<>>
  BY <1>1 DEF Found, IInv, TypeInv, RowsTyped
<1>4. edit' = [edit EXCEPT ![e] = new] /\ Starts(e) /\ Reading
  BY <1>1 DEF FieldRead, Reading
<1> HIDE DEF held
<1>5. /\ DOMAIN new = Parts /\ new.pc = "save" /\ new.how = "field" /\ new.at = i
      /\ new.type = t /\ new.sent = sent /\ new.held = held
  BY DEF Parts
<1> HIDE DEF new
<1>6. QED
  BY <1>2, <1>3, <1>4, <1>5, ReadKeeps

LEMMA FormReadKeeps ==
  ASSUME IInv, NEW e \in Edits, FormRead(e)
  PROVE  IInv'
<1>1. PICK asks \in FormAsks, i \in 0 .. Len(rows) :
        /\ Found(i)
        /\ edit' = [edit EXCEPT ![e] =
             [pc |-> "save", how |-> "form", type |-> "none", sent |-> "none", asks |-> asks,
              at |-> i, held |-> IF i = 0 THEN <<>> ELSE rows[i]]]
  BY DEF FormRead
<1> DEFINE held == IF i = 0 THEN <<>> ELSE rows[i]
           new == [pc |-> "save", how |-> "form", type |-> "none", sent |-> "none",
                   asks |-> asks, at |-> i, held |-> held]
<1>2. i # 0 => held = rows[i]
  OBVIOUS
<1>3. i = 0 => rows = <<>>
  BY <1>1 DEF Found, IInv, TypeInv, RowsTyped
<1>4. edit' = [edit EXCEPT ![e] = new] /\ Starts(e) /\ Reading
  BY <1>1 DEF FormRead, Reading
<1> HIDE DEF held
<1>5. /\ DOMAIN new = Parts /\ new.pc = "save" /\ new.how = "form" /\ new.at = i
      /\ new.asks = asks /\ new.held = held
  BY DEF Parts
<1> HIDE DEF new
<1>6. QED
  BY <1>2, <1>3, <1>4, <1>5, ReadKeeps

LEMMA ColorReadKeeps ==
  ASSUME IInv, NEW e \in Edits, ColorRead(e)
  PROVE  IInv'
<1>1. PICK sent \in {"1", "2"} :
        edit' = [edit EXCEPT ![e] =
          [NewEdit EXCEPT !.pc = "save", !.how = "color", !.sent = sent, !.held = color]]
  BY DEF ColorRead
<1> DEFINE new == [NewEdit EXCEPT !.pc = "save", !.how = "color", !.sent = sent, !.held = color]
<1>2. edit' = [edit EXCEPT ![e] = new] /\ Starts(e) /\ Reading
  BY <1>1 DEF ColorRead, Reading
<1>3. /\ DOMAIN new = Parts /\ new.pc = "save" /\ new.how = "color" /\ new.at = 0
      /\ new.sent = sent
  BY DEF Parts, NewEdit
<1>4. Len(rows) \in Nat
  BY DEF IInv, TypeInv, RowsTyped
<1>5. new.how # "field" /\ new.how # "form" /\ new.at \in 0 .. Len(rows)
  BY <1>3, <1>4
<1> HIDE DEF new
<1>6. QED
  BY <1>2, <1>3, <1>5, ReadKeeps

-----------------------------------------------------------------------------
\* Saves.

\* An edit that has saved leaves its own record and the rest of the edits as
\* they were made.
LEMMA EditSaved ==
  ASSUME TypeInv, types' = types, Len(rows) <= Len(rows'), Len(rows') \in Nat,
         NEW e \in Edits, NEW pc \in {"clean", "remove", "done"}, NEW new, edit' = [edit EXCEPT ![e] = new],
         DOMAIN new = Parts, new.pc = pc, new.how = edit[e].how, new.at = edit[e].at,
         pc \in {"clean", "remove"} => edit[e].how \in {"field", "color"}
  PROVE  /\ EditsTyped'
         /\ edit'[e].pc = pc /\ \A f \in Edits : f # e => edit'[f] = edit[f]
<1>1. new.pc # "save" /\ new.pc \in {"new", "save", "clean", "remove", "done"}
  OBVIOUS
<1>2. /\ new.how \in {"none", "field", "form", "color"}
      /\ new.at \in 0 .. Len(rows')
      /\ new.pc \in {"clean", "remove"} => new.how \in {"field", "color"}
  BY DEF TypeInv, EditsTyped, RowsTyped
<1>3. QED
  BY <1>1, <1>2, EditReplaced

\* Nobody else is at a form, nor at an edit that found no row either.
LEMMA SaveLeaves ==
  ASSUME TypeInv, Kept, types' = types, NEW e \in Edits, InFlight(e), edit[e].how # "color",
         ~Clashes(e), edit'[e].pc # "save", \A f \in Edits : f # e => edit'[f] = edit[f]
  PROVE  \A f \in Edits : FoundNone(f)' /\ FormHolds(f)'
<1> SUFFICES ASSUME NEW f \in Edits, InFlight(f)' PROVE FoundNone(f)' /\ FormHolds(f)'
  BY DEF FoundNone, FormHolds
<1>1. f # e /\ edit'[f] = edit[f] /\ InFlight(f)
  BY DEF InFlight
<1>2. f \in Others(e)
  BY <1>1 DEF Others
<1>3. edit[f].how # "form"
  BY <1>2 DEF Clashes
<1>4. edit[f].how # "color" => edit[e].at # 0
  BY <1>2 DEF Clashes
<1>5. edit[f].how # "color" /\ edit[f].at = 0 => rows = <<>>
  BY <1>1 DEF Kept, FoundNone
<1>6. rows = <<>> => edit[e].at = 0
  BY DEF TypeInv, EditsTyped, RowsTyped
<1>7. edit[f].how # "color" => edit[f].at # 0
  BY <1>4, <1>5, <1>6
<1>8. QED
  BY <1>1, <1>3, <1>7 DEF FoundNone, FormHolds

\* The dates a save starts are to come, and one that starts none has not
\* changed the origin.
LEMMA SaveDates ==
  ASSUME IInv, types' = types, arrival' = arrival, undated' = undated, mixed => mixed', NEW e \in Edits, InFlight(e),
         NEW d \in {"none", Unread}, dating' = [dating EXCEPT ![e] = d],
         d # "none" => "Origin" \in types,
         edit'[e].pc \notin {"new", "save"}, \A f \in Edits : f # e => edit'[f] = edit[f],
         rows' = <<>> => rows = <<>>,
         d = "none" /\ ~mixed' /\ "Origin" \in types => OriginNow' = OriginNow
  PROVE  DatesStarted' /\ DatesInv'
<1>1. dating[e] = "none" /\ DOMAIN dating = Edits
  BY DEF IInv, DatesStarted, InFlight, TypeInv, RestTyped
<1>2. dating'[e] = d /\ \A f \in Edits : f # e => dating'[f] = dating[f]
  BY <1>1
<1>3. DatesStarted'
  BY <1>2 DEF IInv, DatesStarted
<1>4. DatesInv'
  <2>1. SUFFICES ASSUME ~mixed', "Origin" \in types
                 PROVE  DatesFollow(OriginNow)'
    BY DEF DatesInv
  <2>2. CASE d = Unread
    BY <1>2, <2>2 DEF DatesFollow, Coming
  <2>3. CASE d = "none"
    <3>1. OriginNow' = OriginNow /\ ~mixed
      BY <2>1, <2>3
    <3>2. DatesFollow(OriginNow)
      BY <2>1, <3>1 DEF IInv, DatesInv
    <3>3. \A f \in Edits : dating'[f] = dating[f]
      BY <1>1, <1>2, <2>3
    <3>4. /\ OriginNow = arrival' \/ undated' \/ \E f \in Edits : dating'[f] \in {Unread, OriginNow}
          /\ \A f \in Edits : dating'[f] # "none" /\ dating'[f] \notin {Unread, OriginNow} =>
               \E g \in Edits \ {f} : dating'[g] \in {Unread, OriginNow}
      BY <3>2, <3>3 DEF DatesFollow, Coming
    <3>5. QED
      BY <3>1, <3>4 DEF DatesFollow, Coming
  <2>4. QED
    BY <2>2, <2>3
<1>5. QED
  BY <1>3, <1>4

\* The row that an edit found is the only one.
LEMMA OnlyRow ==
  ASSUME TypeInv, Kept, NEW e \in Edits, edit[e].at # 0
  PROVE  Len(rows) = 1 /\ edit[e].at = 1 /\ rows # <<>> /\ rows[1] \in RowOf
<1>1. edit[e].at \in 0 .. Len(rows) /\ Len(rows) \in Nat /\ Len(rows) <= 1
  BY DEF TypeInv, RowsTyped, EditsTyped, Kept
<1>2. \A at, n : n \in Nat /\ n <= 1 /\ at \in 0 .. n /\ at # 0 => n = 1 /\ at = 1
  OBVIOUS
<1>3. Len(rows) = 1 /\ edit[e].at = 1
  BY <1>1, <1>2
<1>4. rows # <<>>
  BY <1>3
<1>5. \A i \in 1 .. Len(rows) : rows[i] \in RowOf
  BY DEF TypeInv, RowsTyped
<1>6. rows[1] \in RowOf
  BY <1>3, <1>5
<1>7. QED
  BY <1>3, <1>4, <1>6

\* What a save makes of the one row there is, or of none.
LEMMA SaveKept ==
  ASSUME TypeInv, Kept, types' = types, NEW e \in Edits, InFlight(e), edit[e].how # "color",
         ~Clashes(e), edit'[e].pc # "save", \A f \in Edits : f # e => edit'[f] = edit[f],
         NEW over, \A c \in Columns : c \in DOMAIN over => over[c] \in ValuesOf(TypeOf(c)),
         rows' = Saved(edit[e].at, over),
         \A t \in types :
           last'[t] = IF Column(t) \in DOMAIN over THEN over[Column(t)] ELSE last[t]
  PROVE  Kept'
<1>1. types \in Plays /\ rows \in Seq(RowOf) /\ edit[e].at \in 0 .. Len(rows)
  BY DEF TypeInv, RowsTyped, EditsTyped
<1>2. \A f \in Edits : FoundNone(f)' /\ FormHolds(f)'
  BY SaveLeaves
<1>3. Len(rows') = 1 /\ RowAgrees'
  <2>1. CASE edit[e].at = 0
    <3>1. rows = <<>>
      BY <2>1 DEF Kept, FoundNone
    <3>2. rows' = <<On(BlankRow, over)>>
      BY <1>1, <2>1, <3>1, SavedRows
    <3>3. \A t \in types : On(BlankRow, over)[Column(t)] = last'[t]
      BY <1>1, <3>1, BlankRowIs, OnTyped DEF Kept, BlankLast
    <3>4. QED
      BY <3>2, <3>3 DEF RowAgrees
  <2>2. CASE edit[e].at # 0
    <3>1. Len(rows) = 1 /\ edit[e].at = 1 /\ rows[1] \in RowOf /\ rows # <<>>
      BY <2>2, OnlyRow
    <3>2. Len(rows') = 1 /\ rows'[1] = On(rows[1], over)
      BY <1>1, <3>1, SavedRows
    <3>3. \A t \in types : On(rows[1], over)[Column(t)] = last'[t]
      BY <1>1, <3>1, OnTyped DEF Kept, RowAgrees
    <3>4. QED
      BY <3>2, <3>3 DEF RowAgrees
  <2>3. QED
    BY <2>1, <2>2
<1>4. QED
  BY <1>2, <1>3 DEF Kept, BlankLast

LEMMA FieldSaveKeeps ==
  ASSUME IInv, NEW e \in Edits, FieldSave(e)
  PROVE  IInv'
<1> DEFINE t == edit[e].type
           held == edit[e].held
           value == Stored(t, edit[e].sent)
           saves == /\ value # "error"
                    /\ ~(Kind(t) = "catalog" /\ held # <<>> /\ held[Column(t)] = value)
           over == [c \in DOMAIN held \cup {Column(t)} |-> IF c = Column(t) THEN value ELSE held[c]]
           pc == IF saves /\ FieldCleans(t, held, value) THEN "clean" ELSE "done"
           new == [edit[e] EXCEPT !.pc = pc, !.held = <<>>]
           d == DatesStart(t, held)
<1>1. /\ InFlight(e) /\ edit[e].how = "field"
      /\ rows' = IF saves THEN Saved(edit[e].at, over) ELSE rows
      /\ last' = IF saves THEN [last EXCEPT ![t] = value] ELSE last
      /\ edit' = [edit EXCEPT ![e] = new]
      /\ dating' = [dating EXCEPT ![e] = d]
      /\ mixed' = (mixed \/ Clashes(e))
      /\ UNCHANGED <<types, color, skuVars, arrival, formed, undated>>
  BY DEF FieldSave
<1>2. /\ types \in Plays /\ rows \in Seq(RowOf) /\ Len(rows) \in Nat /\ edit[e].at \in 0 .. Len(rows)
      /\ t \in types /\ edit[e].sent \in Sent /\ \A c \in DOMAIN held : c = Column(t)
  BY <1>1 DEF IInv, TypeInv, RowsTyped, EditsTyped, HoldsField
<1>3. t \in DetailsType /\ TypeOf(Column(t)) = t /\ Column(t) \in Columns
  BY <1>2, ColumnsOfTypes, TypeOfColumn
<1>4. saves => value \in ValuesOf(t) /\ value \in Values
  BY <1>2, <1>3, StoredValue, ValueOfType
<1>5. DOMAIN over = {Column(t)} /\ over[Column(t)] = value
  BY <1>2
<1>6. /\ pc \in {"clean", "done"} /\ d \in {"none", Unread}
      /\ "Origin" = t => d = Unread
      /\ d # "none" => t = "Origin"
  BY DEF DatesStart
<1>7. /\ DOMAIN new = Parts /\ new.pc = pc /\ new.how = edit[e].how /\ new.at = edit[e].at
  BY DEF IInv, TypeInv, EditsTyped, Parts
<1> HIDE DEF t, held, value, saves, over, pc, new, d
<1>8. \A c \in Columns : saves /\ c \in DOMAIN over => over[c] \in ValuesOf(TypeOf(c))
  BY <1>3, <1>4, <1>5
<1>9. rows' \in Seq(RowOf) /\ Len(rows) <= Len(rows') /\ Len(rows') \in Nat
  <2>1. CASE saves
    BY <1>1, <1>2, <1>8, <2>1, SavedRows
  <2>2. CASE ~saves
    BY <1>1, <1>2, <2>2
  <2>3. QED
    BY <2>1, <2>2
<1>10. EditsTyped' /\ edit'[e].pc = pc /\ \A f \in Edits : f # e => edit'[f] = edit[f]
  BY <1>1, <1>6, <1>7, <1>9, EditSaved DEF IInv
<1>11. TypeInv'
  <2>1. last' \in [types -> Values]
    BY <1>1, <1>2, <1>4 DEF IInv, TypeInv, RestTyped
  <2>2. dating' \in [Edits -> Values \cup {"none", Unread}] /\ mixed' \in BOOLEAN
    BY <1>1, <1>6 DEF IInv, TypeInv, RestTyped
  <2>3. RestTyped'
    BY <1>1, <2>1, <2>2, Steady DEF IInv, TypeInv, RestTyped, skuVars
  <2>4. RowsTyped'
    BY <1>1, <1>2, <1>9, Steady DEF RowsTyped
  <2>5. QED
    BY <1>10, <2>3, <2>4 DEF TypeInv
<1>12. KeptInv'
  <2>1. SUFFICES ASSUME ~mixed, ~Clashes(e) PROVE Kept'
    BY <1>1 DEF KeptInv
  <2>2. Kept
    BY <2>1 DEF IInv, KeptInv
  <2>3. edit'[e].pc # "save" /\ types' = types
    BY <1>1, <1>6, <1>10
  <2>4. CASE saves
    <3>1. \A u \in types : (Column(u) \in DOMAIN over) <=> u = t
      BY <1>2, <1>3, <1>5, ColumnsOfTypes, TypeOfColumn
    <3>2. \A u \in types : last'[u] = IF Column(u) \in DOMAIN over THEN over[Column(u)] ELSE last[u]
      BY <1>1, <1>2, <1>5, <2>4, <3>1 DEF IInv, TypeInv, RestTyped
    <3>3. /\ rows' = Saved(edit[e].at, over)
          /\ \A c \in Columns : c \in DOMAIN over => over[c] \in ValuesOf(TypeOf(c))
      BY <1>1, <1>8, <2>4
    <3>4. QED
      BY <1>1, <1>10, <2>1, <2>2, <2>3, <3>2, <3>3, SaveKept DEF IInv
  <2>5. CASE ~saves
    <3>1. rows' = rows /\ last' = last
      BY <1>1, <2>5
    <3>2. \A f \in Edits : FoundNone(f)' /\ FormHolds(f)'
      BY <1>1, <1>10, <2>1, <2>2, <2>3, SaveLeaves DEF IInv
    <3>3. QED
      BY <2>2, <2>3, <3>1, <3>2 DEF Kept, RowAgrees, BlankLast
  <2>6. QED
    BY <2>4, <2>5
<1>13. ASSUME d = "none", ~mixed', "Origin" \in types
       PROVE  OriginNow' = OriginNow
  <2>1. ~mixed /\ Kept
    BY <1>1, <1>13 DEF IInv, KeptInv
  <2>2. CASE ~saves
    BY <1>1, <2>2 DEF OriginNow
  <2>3. CASE saves
    <3>1. t # "Origin" /\ Column("Origin") = "origin" /\ "origin" \notin DOMAIN over
      BY <1>3, <1>5, <1>6, <1>13, OriginColumn, TypeOfColumn DEF Unread
    <3>2. \A row \in RowOf : On(row, over)["origin"] = row["origin"]
      BY <1>2, <1>8, <1>13, <2>3, <3>1, OnTyped
    <3>3. CASE edit[e].at = 0
      <4>1. rows = <<>>
        BY <1>1, <2>1, <3>3 DEF Kept, FoundNone
      <4>2. rows' = <<On(BlankRow, over)>>
        BY <1>1, <1>2, <1>8, <2>3, <3>3, <4>1, SavedRows
      <4>3. BlankRow \in RowOf /\ BlankRow["origin"] = "null"
        BY <1>2, <1>13, <3>1, BlankRowIs, OriginValues
      <4>4. QED
        BY <3>2, <4>1, <4>2, <4>3 DEF OriginNow
    <3>4. CASE edit[e].at # 0
      <4>1. Len(rows) = 1 /\ edit[e].at = 1 /\ rows # <<>> /\ rows[1] \in RowOf
        BY <2>1, <3>4, OnlyRow DEF IInv
      <4>2. rows'[1] = On(rows[1], over)
        BY <1>1, <1>2, <1>8, <2>3, <4>1, SavedRows
      <4>3. QED
        BY <1>9, <3>2, <4>1, <4>2 DEF OriginNow
    <3>5. QED
      BY <3>3, <3>4
  <2>4. QED
    BY <2>2, <2>3
<1>14. DatesStarted' /\ DatesInv'
  <2>1. /\ types' = types /\ arrival' = arrival /\ undated' = undated /\ (mixed => mixed')
        /\ edit'[e].pc \notin {"new", "save"}
    BY <1>1, <1>6, <1>10
  <2>2. rows' = <<>> => rows = <<>>
    BY <1>2, <1>9
  <2>3. d # "none" => "Origin" \in types
    BY <1>2, <1>6
  <2>4. QED
    BY <1>1, <1>6, <1>10, <1>13, <2>1, <2>2, <2>3, SaveDates
<1>15. QED
  BY <1>11, <1>12, <1>14 DEF IInv

LEMMA FormSaveKeeps ==
  ASSUME IInv, NEW e \in Edits, FormSave(e)
  PROVE  IInv'
<1> DEFINE asks == edit[e].asks
           held == IF edit[e].at = 0 THEN BlankRow ELSE edit[e].held
           over == [c \in Columns |->
                      IF TypeOf(c) \in types THEN FromForm(TypeOf(c), asks[TypeOf(c)], held[c])
                      ELSE held[c]]
           changed == {t \in types : over[Column(t)] # held[Column(t)]}
           new == [edit[e] EXCEPT !.pc = "done", !.asks = <<>>, !.held = <<>>]
           d == IF "Origin" \in types /\ asks["Origin"] \notin {"absent", held["origin"]}
                THEN Unread ELSE "none"
           reformed == \E t \in changed : InSku(t)
<1>1. /\ InFlight(e) /\ edit[e].how = "form"
      /\ rows' = Saved(edit[e].at, over)
      /\ last' = [t \in types |-> IF t \in changed THEN over[Column(t)] ELSE last[t]]
      /\ edit' = [edit EXCEPT ![e] = new]
      /\ dating' = [dating EXCEPT ![e] = d]
      /\ mixed' = (mixed \/ Clashes(e))
      /\ formed' = (formed \/ reformed)
      /\ UNCHANGED <<types, color, skuVars, arrival, undated>>
  BY DEF FormSave
<1>2. /\ types \in Plays /\ rows \in Seq(RowOf) /\ Len(rows) \in Nat /\ edit[e].at \in 0 .. Len(rows)
      /\ asks \in FormAsks
      /\ edit[e].at # 0 => edit[e].held \in RowOf
  BY <1>1 DEF IInv, TypeInv, RowsTyped, EditsTyped, HoldsForm
<1>3. held \in RowOf
  BY <1>2, BlankRowIs
<1>4. d \in {"none", Unread} /\ (d # "none" => "Origin" \in types)
  OBVIOUS
<1>5. DOMAIN new = Parts /\ new.pc = "done" /\ new.how = edit[e].how /\ new.at = edit[e].at
  BY DEF IInv, TypeInv, EditsTyped, Parts
<1>6. ~mixed => \A t \in types : held[Column(t)] = last[t]
  <2>1. SUFFICES ASSUME ~mixed PROVE \A t \in types : held[Column(t)] = last[t]
    OBVIOUS
  <2>2. Kept
    BY <2>1 DEF IInv, KeptInv
  <2>3. CASE edit[e].at = 0
    BY <1>1, <1>2, <2>2, <2>3, BlankRowIs DEF Kept, FoundNone, BlankLast
  <2>4. CASE edit[e].at # 0
    BY <1>1, <2>2, <2>4, OnlyRow DEF IInv, Kept, FormHolds, RowAgrees
  <2>5. QED
    BY <2>3, <2>4
<1>7. \A t \in types : /\ asks[t] \in MayAsk(t) /\ t \in DetailsType
                       /\ over[Column(t)] = FromForm(t, asks[t], held[Column(t)])
                       /\ held[Column(t)] \in ValuesOf(t)
  BY <1>2, <1>3, ColumnsOfTypes, TypeOfColumn, RowParts DEF FormAsks
<1>8. \A t \in types : over[Column(t)] \in ValuesOf(t)
  BY <1>7, FormValue
<1>9. ~mixed /\ Kept /\ d = "none" /\ "Origin" \in types =>
        /\ over["origin"] = held["origin"]
        /\ edit[e].at = 0 => held["origin"] = "null"
        /\ edit[e].at # 0 => held["origin"] = rows[1]["origin"]
  <2>1. SUFFICES ASSUME ~mixed, Kept, d = "none", "Origin" \in types
                 PROVE  /\ over["origin"] = held["origin"]
                        /\ edit[e].at = 0 => held["origin"] = "null"
                        /\ edit[e].at # 0 => held["origin"] = rows[1]["origin"]
    OBVIOUS
  <2>2. asks["Origin"] \in {"absent", held["origin"]}
    BY <2>1 DEF Unread
  <2>3. /\ over["origin"] = FromForm("Origin", asks["Origin"], held["origin"])
        /\ held["origin"] \in {"null", "1", "2"}
    BY <1>7, <2>1, OriginColumn, OriginValues
  <2>4. over["origin"] = held["origin"]
    BY <2>2, <2>3 DEF FromForm, InForm
  <2>5. edit[e].at = 0 => held["origin"] = "null"
    BY <1>2, <2>1, BlankRowIs, OriginColumn, OriginValues
  <2>6. edit[e].at # 0 => held["origin"] = rows[1]["origin"]
    BY <1>1, <2>1 DEF Kept, FormHolds
  <2>7. QED
    BY <2>4, <2>5, <2>6
<1>10. DOMAIN over = Columns /\ \A c \in Columns : over[c] \in ValuesOf(TypeOf(c))
  BY <1>2, <1>8, ColumnsOfTypes
<1> HIDE DEF asks, held, over, new, d, reformed
<1>11. rows' \in Seq(RowOf) /\ Len(rows) <= Len(rows') /\ Len(rows') \in Nat /\ rows' # <<>>
  BY <1>1, <1>2, <1>10, SavedRows
<1>12. EditsTyped' /\ edit'[e].pc = "done" /\ \A f \in Edits : f # e => edit'[f] = edit[f]
  BY <1>1, <1>5, <1>11, EditSaved DEF IInv
<1>13. TypeInv'
  <2>1. \A t \in types : over[Column(t)] \in Values /\ last[t] \in Values
    BY <1>2, <1>8, ColumnsOfTypes, ValueOfType DEF IInv, TypeInv, RestTyped
  <2>2. last' \in [types -> Values]
    BY <1>1, <2>1
  <2>3. dating' \in [Edits -> Values \cup {"none", Unread}]
    BY <1>1, <1>4 DEF IInv, TypeInv, RestTyped
  <2>4. mixed' \in BOOLEAN /\ formed' \in BOOLEAN
    BY <1>1 DEF IInv, TypeInv, RestTyped
  <2>5. RestTyped'
    BY <1>1, <2>2, <2>3, <2>4, Steady DEF IInv, TypeInv, RestTyped, skuVars
  <2>6. RowsTyped'
    BY <1>1, <1>2, <1>11, Steady DEF RowsTyped
  <2>7. QED
    BY <1>12, <2>5, <2>6 DEF TypeInv
<1>14. KeptInv'
  <2>1. SUFFICES ASSUME ~mixed, ~Clashes(e) PROVE Kept'
    BY <1>1 DEF KeptInv
  <2>2. Kept /\ edit'[e].pc # "save" /\ types' = types /\ edit[e].how # "color"
    BY <1>1, <1>12, <2>1 DEF IInv, KeptInv
  <2>3. \A t \in types : last'[t] = over[Column(t)]
    BY <1>1, <1>6, <2>1
  <2>4. \A t \in types : last'[t] = IF Column(t) \in DOMAIN over THEN over[Column(t)] ELSE last[t]
    BY <1>2, <1>10, <2>3, ColumnsOfTypes
  <2>5. QED
    BY <1>1, <1>10, <1>12, <2>1, <2>2, <2>4, SaveKept DEF IInv
<1>15. ASSUME d = "none", ~mixed', "Origin" \in types
       PROVE  OriginNow' = OriginNow
  <2>1. ~mixed /\ Kept
    BY <1>1, <1>15 DEF IInv, KeptInv
  <2>2. "origin" \in Columns
    BY <1>2, <1>15, ColumnsOfTypes, OriginColumn
  <2>3. \A row \in RowOf : On(row, over)["origin"] = over["origin"]
    BY <1>10, <2>2 DEF On
  <2>4. CASE edit[e].at = 0
    <3>1. rows = <<>>
      BY <1>1, <2>1, <2>4 DEF Kept, FoundNone
    <3>2. rows' = <<On(BlankRow, over)>>
      BY <1>1, <1>2, <1>10, <2>4, <3>1, SavedRows
    <3>3. QED
      BY <1>2, <1>9, <1>15, <2>1, <2>3, <2>4, <3>1, <3>2, BlankRowIs DEF OriginNow
  <2>5. CASE edit[e].at # 0
    <3>1. edit[e].at = 1 /\ rows # <<>> /\ rows[1] \in RowOf
      BY <2>1, <2>5, OnlyRow DEF IInv
    <3>2. rows'[1] = On(rows[1], over)
      BY <1>1, <1>2, <1>10, <3>1, SavedRows
    <3>3. QED
      BY <1>9, <1>11, <1>15, <2>1, <2>3, <2>5, <3>1, <3>2 DEF OriginNow
  <2>6. QED
    BY <2>4, <2>5
<1>16. DatesStarted' /\ DatesInv'
  <2>1. /\ types' = types /\ arrival' = arrival /\ undated' = undated /\ (mixed => mixed')
        /\ edit'[e].pc \notin {"new", "save"}
    BY <1>1, <1>12
  <2>2. QED
    BY <1>1, <1>4, <1>11, <1>12, <1>15, <2>1, SaveDates
<1>17. QED
  BY <1>13, <1>14, <1>16 DEF IInv

\* An edit that only ends, what is stored of the fields being as it was.
LEMMA EndKeeps ==
  ASSUME IInv, TypeInv', NEW e \in Edits, edit'[e].pc \in {"clean", "remove", "done"},
         \A f \in Edits : f # e => edit'[f] = edit[f],
         UNCHANGED <<types, rows, arrival, dating, last, undated>>, mixed => mixed'
  PROVE  IInv'
<1>1. KeptInv'
  <2>1. SUFFICES ASSUME ~mixed PROVE Kept'
    BY DEF KeptInv
  <2>2. Kept
    BY <2>1 DEF IInv, KeptInv
  <2>3. \A f \in Edits : FoundNone(f)' /\ FormHolds(f)'
    BY <2>2 DEF Kept, FoundNone, FormHolds, InFlight
  <2>4. QED
    BY <2>2, <2>3 DEF Kept, RowAgrees, BlankLast
<1>2. DatesStarted'
  BY DEF IInv, DatesStarted
<1>3. DatesInv'
  BY DEF IInv, DatesInv, DatesFollow, Coming, OriginNow
<1>4. QED
  BY <1>1, <1>2, <1>3 DEF IInv

LEMMA ColorSaveKeeps ==
  ASSUME IInv, NEW e \in Edits, ColorSave(e)
  PROVE  IInv'
<1> DEFINE pc == IF edit[e].held = edit[e].sent THEN "done" ELSE "clean"
           new == [edit[e] EXCEPT !.pc = pc, !.held = <<>>]
<1>1. /\ InFlight(e) /\ edit[e].how = "color" /\ color' = edit[e].sent
      /\ edit' = [edit EXCEPT ![e] = new]
      /\ mixed' = (mixed \/ Clashes(e))
      /\ UNCHANGED <<types, rows, skuVars, arrival, dating, last, formed, undated>>
  BY DEF ColorSave
<1>2. DOMAIN new = Parts /\ new.pc = pc /\ new.how = edit[e].how /\ new.at = edit[e].at
  BY DEF IInv, TypeInv, EditsTyped, Parts
<1>3. pc \in {"clean", "done"}
  OBVIOUS
<1> HIDE DEF pc, new
<1>4. Len(rows) <= Len(rows') /\ Len(rows') \in Nat
  BY <1>1 DEF IInv, TypeInv, RowsTyped
<1>5. EditsTyped' /\ edit'[e].pc = pc /\ \A f \in Edits : f # e => edit'[f] = edit[f]
  BY <1>1, <1>2, <1>3, <1>4, EditSaved DEF IInv
<1>6. color' \in {"1", "2"} /\ mixed' \in BOOLEAN
  BY <1>1 DEF IInv, TypeInv, EditsTyped, RestTyped
<1>7. TypeInv'
  BY <1>1, <1>5, <1>6, Steady DEF IInv, TypeInv, RowsTyped, RestTyped, skuVars
<1>8. QED
  BY <1>1, <1>3, <1>5, <1>7, EndKeeps

LEMMA CleanSkusKeeps ==
  ASSUME IInv, NEW e \in Edits, CleanSkus(e)
  PROVE  IInv'
<1>0. PICK pc \in {"remove", "done"} :
        \E held : edit' = [edit EXCEPT ![e] = [@ EXCEPT !.pc = pc, !.held = held]]
  BY DEF CleanSkus, CleanRead, CleanRemove
<1>1. PICK held : edit' = [edit EXCEPT ![e] = [@ EXCEPT !.pc = pc, !.held = held]]
  BY <1>0
<1> DEFINE new == [edit[e] EXCEPT !.pc = pc, !.held = held]
<1>2. /\ edit' = [edit EXCEPT ![e] = new] /\ skus' \subseteq skus
      /\ UNCHANGED <<types, rows, color, creating, arrival, dating, last, mixed, formed, undated>>
  BY <1>1 DEF CleanSkus, CleanRead, CleanRemove, skuVars
<1>3. DOMAIN new = Parts /\ new.pc = pc /\ new.how = edit[e].how /\ new.at = edit[e].at
  BY DEF IInv, TypeInv, EditsTyped, Parts
<1>4. edit[e].how \in {"field", "color"}
  BY DEF CleanSkus, CleanRead, CleanRemove, IInv, TypeInv, EditsTyped
<1> HIDE DEF new
<1>5. Len(rows) <= Len(rows') /\ Len(rows') \in Nat
  BY <1>2 DEF IInv, TypeInv, RowsTyped
<1>6. EditsTyped' /\ edit'[e].pc = pc /\ \A f \in Edits : f # e => edit'[f] = edit[f]
  BY <1>2, <1>3, <1>4, <1>5, EditSaved DEF IInv
<1>7. TypeInv'
  BY <1>2, <1>6, Steady DEF IInv, TypeInv, RowsTyped, RestTyped
<1>8. QED
  BY <1>2, <1>6, <1>7, EndKeeps

\* Making a SKU touches neither the row nor the edits.
LEMMA CreateKeeps ==
  ASSUME IInv, UNCHANGED <<types, rows, color, arrival, edit, dating, last, mixed, formed, undated>>,
         \A s \in skus' : s.made \in SkuOf /\ s.late \in BOOLEAN,
         creating' \in SkuOf \cup {Nothing}
  PROVE  IInv'
<1>1. RestTyped'
  BY Steady DEF IInv, TypeInv, RestTyped
<1>2. EditsTyped'
  BY Steady DEF IInv, TypeInv, EditsTyped, InFlight, HoldsField, HoldsForm
<1>3. TypeInv'
  BY <1>1, <1>2, Steady DEF IInv, TypeInv, RowsTyped
<1>4. KeptInv'
  BY DEF IInv, KeptInv, Kept, RowAgrees, BlankLast, FoundNone, FormHolds, InFlight
<1>5. DatesStarted' /\ DatesInv'
  BY DEF IInv, DatesStarted, DatesInv, DatesFollow, Coming, OriginNow
<1>6. QED
  BY <1>3, <1>4, <1>5 DEF IInv

\* A SKU is made from the columns as they are read.
LEMMA CreateReadKeeps ==
  ASSUME IInv, CreateRead
  PROVE  IInv'
<1>1. types \in Plays /\ rows \in Seq(RowOf) /\ rows # <<>>
  BY DEF CreateRead, IInv, TypeInv, RowsTyped
<1>2. rows[1] \in RowOf
  BY <1>1
<1>3. \A c \in SkuColumns : rows[1][c] \in Values \ {"null"}
  <2>1. SUFFICES ASSUME NEW c \in SkuColumns PROVE rows[1][c] \in Values \ {"null"}
    OBVIOUS
  <2>2. PICK t \in types : c = Column(t)
    BY DEF SkuColumns
  <2>3. t \in DetailsType /\ c \in Columns
    BY <1>1, <2>2, ColumnsOfTypes
  <2>4. rows[1][c] \in Values
    BY <1>2, <2>3 DEF RowOf
  <2>5. QED
    BY <2>4 DEF CreateRead
<1>4. color \in Values \ {"null"}
  BY DEF IInv, TypeInv, RestTyped, Values
<1>5. Present \in SkuOf
  BY <1>3, <1>4 DEF Present, SkuOf
<1>6. QED
  BY <1>5, CreateKeeps DEF CreateRead, IInv, TypeInv, RestTyped

LEMMA CreateStoreKeeps ==
  ASSUME IInv, CreateStore
  PROVE  IInv'
<1>1. creating \in SkuOf
  BY DEF CreateStore, IInv, TypeInv, RestTyped
<1> DEFINE late == creating # Present /\ \A e \in Edits : edit[e].pc # "clean"
           stored == [id |-> NewId, made |-> creating, late |-> late]
<1>2. skus' = skus \/ skus' = skus \cup {stored}
  BY DEF CreateStore
<1>3. stored.made = creating /\ stored.late = late
  OBVIOUS
<1>4. late \in BOOLEAN
  OBVIOUS
<1> HIDE DEF late, stored
<1>5. \A s \in skus' : s.made \in SkuOf /\ s.late \in BOOLEAN
  BY <1>1, <1>2, <1>3, <1>4 DEF IInv, TypeInv, RestTyped
<1>6. QED
  BY <1>5, CreateKeeps DEF CreateStore

-----------------------------------------------------------------------------
\* The arrival dates.

\* The origin of the only row there is.
LEMMA OriginOfRow ==
  ASSUME TypeInv, "Origin" \in types
  PROVE  \A i \in 1 .. Len(rows) : rows[i]["origin"] \in {"null", "1", "2"}
<1> SUFFICES ASSUME NEW i \in 1 .. Len(rows) PROVE rows[i]["origin"] \in {"null", "1", "2"}
  OBVIOUS
<1>1. rows[i] \in RowOf /\ types \in Plays
  BY DEF TypeInv, RowsTyped
<1>2. QED
  BY <1>1, RowParts, OriginColumn, OriginValues

LEMMA OriginNowIs ==
  ASSUME TypeInv, "Origin" \in types
  PROVE  OriginNow \in {"null", "1", "2"}
<1>1. rows # <<>> => 1 \in 1 .. Len(rows)
  BY DEF TypeInv, RowsTyped
<1>2. QED
  BY <1>1, OriginOfRow DEF OriginNow

\* Computing dates touches neither the row nor the edits.
LEMMA DatesTyped ==
  ASSUME TypeInv, UNCHANGED <<types, rows, color, skuVars, edit, last, formed>>,
         dating' \in [Edits -> Values \cup {"none", Unread}],
         arrival' \in Values, mixed' \in BOOLEAN, undated' \in BOOLEAN
  PROVE  TypeInv'
<1>1. RestTyped'
  BY Steady DEF TypeInv, RestTyped, skuVars
<1>2. EditsTyped'
  BY Steady DEF TypeInv, EditsTyped, InFlight, HoldsField, HoldsForm
<1>3. QED
  BY <1>1, <1>2, Steady DEF TypeInv, RowsTyped

\* What the dates of an edit do, all but to the dates.
LEMMA DatesKeep ==
  ASSUME IInv, NEW e \in Edits, NEW d \in Values \cup {"none"}, dating[e] # "none",
         dating' = [dating EXCEPT ![e] = d], rows = <<>> => d = "none",
         UNCHANGED <<types, rows, color, skuVars, edit, last, formed>>,
         arrival' \in Values, mixed' \in BOOLEAN, mixed => mixed', undated' \in BOOLEAN
  PROVE  /\ TypeInv' /\ KeptInv' /\ DatesStarted' /\ "Origin" \in types /\ OriginNow' = OriginNow
         /\ dating'[e] = d /\ \A f \in Edits : f # e => dating'[f] = dating[f]
<1>1. "Origin" \in types /\ edit[e].pc \notin {"new", "save"} /\ DOMAIN dating = Edits
  BY DEF IInv, DatesStarted, TypeInv, RestTyped
<1>2. dating'[e] = d /\ \A f \in Edits : f # e => dating'[f] = dating[f]
  BY <1>1
<1>3. TypeInv'
  <2>1. dating' \in [Edits -> Values \cup {"none", Unread}]
    BY DEF IInv, TypeInv, RestTyped
  <2>2. QED
    BY <2>1, DatesTyped DEF IInv
<1>4. KeptInv'
  BY DEF IInv, KeptInv, Kept, RowAgrees, BlankLast, FoundNone, FormHolds, InFlight
<1>5. DatesStarted'
  BY <1>1, <1>2 DEF IInv, DatesStarted
<1>6. QED
  BY <1>1, <1>2, <1>3, <1>4, <1>5 DEF OriginNow

\* Dates that end, computed or not, were the only ones, or have clashed.
LEMMA DatesEndKeeps ==
  ASSUME IInv, NEW e \in Edits, dating[e] # "none", DatesEnd(e),
         UNCHANGED <<types, rows, color, skuVars, edit, last, formed>>,
         arrival' \in Values, undated' \in BOOLEAN,
         undated' \/ (arrival' = dating[e] /\ dating[e] # Unread)
  PROVE  IInv'
<1>1. /\ dating' = [dating EXCEPT ![e] = "none"]
      /\ mixed' = (mixed \/ \E f \in Edits \ {e} : dating[f] # "none")
  BY DEF DatesEnd
<1>2. mixed' \in BOOLEAN
  BY <1>1 DEF IInv, TypeInv, RestTyped
<1>3. /\ TypeInv' /\ KeptInv' /\ DatesStarted' /\ "Origin" \in types /\ OriginNow' = OriginNow
      /\ dating'[e] = "none" /\ \A f \in Edits : f # e => dating'[f] = dating[f]
  BY <1>1, <1>2, DatesKeep
<1>4. ASSUME ~mixed' PROVE DatesFollow(OriginNow)'
  <2>1. ~mixed /\ \A f \in Edits : f # e => dating[f] = "none"
    BY <1>1, <1>4
  <2>2. DatesFollow(OriginNow)
    BY <1>3, <2>1 DEF IInv, DatesInv
  <2>3. \A f \in Edits : dating'[f] = "none"
    BY <1>3, <2>1
  <2>4. "Origin" \in types => OriginNow # "none"
    BY OriginNowIs DEF IInv
  <2>5. dating[e] \in {Unread, OriginNow}
    BY <1>3, <2>1, <2>2, <2>4 DEF DatesFollow, Coming, Unread
  <2>6. undated' \/ OriginNow' = arrival'
    BY <1>3, <2>5
  <2>7. QED
    BY <2>3, <2>6 DEF DatesFollow
<1>5. QED
  BY <1>3, <1>4 DEF IInv, DatesInv

LEMMA DatesReadKeeps ==
  ASSUME IInv, NEW e \in Edits, DatesRead(e)
  PROVE  IInv'
<1>1. PICK i \in 0 .. Len(rows) :
        /\ Found(i)
        /\ \/ /\ i # 0 /\ rows[i]["origin"] # "null"
              /\ dating' = [dating EXCEPT ![e] = rows[i]["origin"]]
              /\ UNCHANGED <<mixed, undated>>
           \/ DatesEnd(e) /\ undated' = TRUE
  BY DEF DatesRead
<1>2. /\ dating[e] = Unread /\ dating[e] # "none"
      /\ UNCHANGED <<types, rows, color, skuVars, arrival, edit, last, formed>>
  BY DEF DatesRead, Unread
<1>3. arrival' \in Values
  BY <1>2 DEF IInv, TypeInv, RestTyped
<1>4. CASE DatesEnd(e) /\ undated' = TRUE
  BY <1>2, <1>3, <1>4, DatesEndKeeps
<1>5. CASE /\ i # 0 /\ rows[i]["origin"] # "null"
           /\ dating' = [dating EXCEPT ![e] = rows[i]["origin"]]
           /\ UNCHANGED <<mixed, undated>>
  <2> DEFINE d == rows[i]["origin"]
  <2>1. i \in 1 .. Len(rows) /\ rows # <<>> /\ "Origin" \in types
    BY <1>2, <1>5 DEF IInv, DatesStarted, TypeInv, RowsTyped
  <2>2. d \in {"null", "1", "2"}
    BY <2>1, OriginOfRow DEF IInv
  <2>3. d \in Values \cup {"none"} /\ mixed' \in BOOLEAN /\ undated' \in BOOLEAN
    BY <1>5, <2>2 DEF IInv, TypeInv, RestTyped, Values
  <2>4. dating' = [dating EXCEPT ![e] = d] /\ mixed' = mixed /\ undated' = undated
    BY <1>5
  <2>5. ~mixed => OriginNow = d
    BY <2>1 DEF IInv, KeptInv, Kept, OriginNow, TypeInv, RowsTyped
  <2> HIDE DEF d
  <2>6. /\ TypeInv' /\ KeptInv' /\ DatesStarted' /\ OriginNow' = OriginNow
        /\ dating'[e] = d /\ \A f \in Edits : f # e => dating'[f] = dating[f]
    BY <1>2, <1>3, <2>1, <2>3, <2>4, DatesKeep
  <2>7. ASSUME ~mixed' PROVE DatesFollow(OriginNow)'
    <3>1. OriginNow = d /\ OriginNow' = d /\ DatesFollow(d) /\ arrival' = arrival
      BY <1>2, <2>1, <2>4, <2>5, <2>6, <2>7 DEF IInv, DatesInv
    <3>2. \A f \in Edits : dating'[f] \in {Unread, d} <=> dating[f] \in {Unread, d}
      BY <1>2, <2>6
    <3>3. \A f \in Edits : dating'[f] \notin {Unread, d} => dating'[f] = dating[f]
      BY <2>6
    <3>4. /\ d = arrival \/ undated \/ \E f \in Edits : dating'[f] \in {Unread, d}
          /\ \A f \in Edits : dating'[f] # "none" /\ dating'[f] \notin {Unread, d} =>
               \E g \in Edits \ {f} : dating'[g] \in {Unread, d}
      BY <3>1, <3>2, <3>3 DEF DatesFollow, Coming
    <3>5. QED
      BY <2>4, <3>1, <3>4 DEF DatesFollow, Coming
  <2>8. QED
    BY <2>6, <2>7 DEF IInv, DatesInv
<1>6. QED
  BY <1>1, <1>4, <1>5

LEMMA DatesSaveKeeps ==
  ASSUME IInv, NEW e \in Edits, DatesSave(e)
  PROVE  IInv'
<1>1. /\ dating[e] \in {"1", "2"} /\ DatesEnd(e)
      /\ (arrival' = dating[e] /\ undated' = FALSE) \/ (arrival' = arrival /\ undated' = TRUE)
      /\ UNCHANGED <<types, rows, color, skuVars, edit, last, formed>>
  BY DEF DatesSave
<1>2. arrival' \in Values /\ undated' \in BOOLEAN
  BY <1>1 DEF Values, IInv, TypeInv, RestTyped
<1>3. dating[e] # "none" /\ dating[e] # Unread
  BY <1>1 DEF Unread
<1>4. QED
  BY <1>1, <1>2, <1>3, DatesEndKeeps

-----------------------------------------------------------------------------
\* The theorems.

LEMMA StartsKept ==
  ASSUME Init
  PROVE  IInv
<1>1. types \in Plays /\ (rows = <<>> \/ rows = <<BlankRow>> \/ rows = <<FullRow>>)
  BY DEF Init
<1>2. /\ \A e \in Edits : edit[e] = NewEdit
      /\ DOMAIN edit = Edits /\ dating = [e \in Edits |-> "none"]
      /\ last = [t \in types |-> IF rows = <<FullRow>> THEN "1" ELSE Blank(t)]
      /\ arrival = (IF rows = <<FullRow>> THEN "1" ELSE "null")
      /\ color = "1" /\ skus = {} /\ creating = Nothing
      /\ mixed = FALSE /\ formed = FALSE /\ undated = FALSE
  BY DEF Init
<1>3. BlankRow \in RowOf /\ FullRow \in RowOf
  BY <1>1, BlankRowIs, FullRowIs
<1>4. rows \in Seq(RowOf) /\ Len(rows) \in Nat /\ Len(rows) <= 1
  <2>1. CASE rows = <<>>
    BY <2>1
  <2>2. CASE rows = <<BlankRow>>
    BY <1>3, <2>2
  <2>3. CASE rows = <<FullRow>>
    BY <1>3, <2>3
  <2>4. QED
    BY <1>1, <2>1, <2>2, <2>3
<1>5. \A e \in Edits : /\ edit[e].pc = "new" /\ edit[e].how = "none" /\ edit[e].at = 0
                       /\ DOMAIN edit[e] = Parts
  BY <1>2 DEF NewEdit, Parts
<1>6. EditsTyped
  BY <1>2, <1>4, <1>5 DEF EditsTyped, InFlight
<1>7. RestTyped
  <2>1. \A t \in types : (IF rows = <<FullRow>> THEN "1" ELSE Blank(t)) \in Values
    BY <1>1, ColumnsOfTypes, ValueOfType
  <2>2. last \in [types -> Values]
    BY <1>2, <2>1
  <2>3. arrival \in Values
    BY <1>2 DEF Values
  <2>4. QED
    BY <1>2, <2>2, <2>3 DEF RestTyped
<1>8. KeptInv
  <2>1. \A e \in Edits : FoundNone(e) /\ FormHolds(e)
    BY <1>5 DEF FoundNone, FormHolds, InFlight
  <2>2. RowAgrees
    <3>1. CASE rows = <<FullRow>>
      BY <1>1, <1>2, <3>1, FullRowIs DEF RowAgrees
    <3>2. CASE rows # <<FullRow>>
      BY <1>1, <1>2, <3>2, BlankRowIs DEF RowAgrees
    <3>3. QED
      BY <3>1, <3>2
  <2>3. BlankLast
    BY <1>1, <1>2 DEF BlankLast
  <2>4. Len(rows) <= 1
    BY <1>4
  <2>5. QED
    BY <2>1, <2>2, <2>3, <2>4 DEF KeptInv, Kept
<1>9. DatesStarted
  BY <1>2 DEF DatesStarted
<1>10. DatesInv
  <2>1. SUFFICES ASSUME "Origin" \in types PROVE OriginNow = arrival
    BY <1>2 DEF DatesInv, DatesFollow
  <2>2. CASE rows = <<FullRow>>
    BY <1>1, <1>2, <2>1, <2>2, FullRowIs, OriginColumn DEF OriginNow
  <2>3. CASE rows # <<FullRow>>
    <3>1. rows = <<BlankRow>> => rows[1]["origin"] = "null"
      BY <1>1, <2>1, BlankRowIs, OriginColumn, OriginValues
    <3>2. QED
      BY <1>1, <1>2, <2>3, <3>1 DEF OriginNow
  <2>4. QED
    BY <2>2, <2>3
<1>11. QED
  BY <1>1, <1>4, <1>6, <1>7, <1>8, <1>9, <1>10 DEF IInv, TypeInv, RowsTyped

\* One step.
LEMMA NextKeeps ==
  ASSUME IInv, [Next]_vars
  PROVE  IInv'
<1>1. CASE UNCHANGED vars
  <2>1. UNCHANGED <<types, rows, color, skuVars, arrival, edit, dating, last, mixed, formed, undated>>
    BY <1>1 DEF vars
  <2>2. TypeInv'
    <3>1. dating' \in [Edits -> Values \cup {"none", Unread}] /\ arrival' \in Values
           /\ mixed' \in BOOLEAN /\ undated' \in BOOLEAN
      BY <2>1 DEF IInv, TypeInv, RestTyped
    <3>2. QED
      BY <2>1, <3>1, DatesTyped DEF IInv
  <2>3. KeptInv'
    BY <2>1 DEF IInv, KeptInv, Kept, RowAgrees, BlankLast, FoundNone, FormHolds, InFlight
  <2>4. DatesStarted' /\ DatesInv'
    BY <2>1 DEF IInv, DatesStarted, DatesInv, DatesFollow, Coming, OriginNow
  <2>5. QED
    BY <2>2, <2>3, <2>4 DEF IInv
<1>2. CASE Next
  BY <1>2, FieldReadKeeps, FieldSaveKeeps, FormReadKeeps, FormSaveKeeps, ColorReadKeeps,
     ColorSaveKeeps, CleanSkusKeeps, DatesReadKeeps, DatesSaveKeeps,
     CreateReadKeeps, CreateStoreKeeps DEF Next
<1>3. QED
  BY <1>1, <1>2

\* The inductive invariant, for any sets of types that behaviours may be
\* about, whatever texts and forms are sent, and any number of edits.
THEOREM Invariance == Spec => []IInv
<1>1. Init => IInv
  BY StartsKept
<1>2. IInv /\ [Next]_vars => IInv'
  BY NextKeeps
<1>3. QED
  BY <1>1, <1>2, PTL DEF Spec

LEMMA TypesHold ==
  ASSUME TypeInv
  PROVE  TypeOK
<1>1. types \in Plays /\ rows \in Seq(RowOf)
  BY DEF TypeInv, RowsTyped
<1>2. \A i \in DOMAIN rows : rows[i] \in RowOf
  BY <1>1
<1>3. \A i \in DOMAIN rows : /\ DOMAIN rows[i] = Columns
                             /\ \A c \in Columns : rows[i][c] \in ValuesOf(TypeOf(c))
  BY <1>1, <1>2, RowParts
<1>4. \A e \in Edits :
        /\ edit[e].pc \in {"new", "save", "clean", "remove", "done"}
        /\ edit[e].how \in {"none", "field", "form", "color"}
        /\ edit[e].at \in 0 .. Len(rows)
        /\ edit[e].pc \in {"clean", "remove"} => edit[e].how \in {"field", "color"}
  BY DEF TypeInv, EditsTyped
<1>5. QED
  BY <1>1, <1>3, <1>4 DEF TypeOK, TypeInv, RestTyped

\* The types hold, a style has one row of details, and an edit of a field
\* undoes no edit of another, as long as no edits clash: what an edit shows of
\* each type is what was last stored of it.
THEOREM EditsAreKept == Spec => []EditsKept
<1>1. IInv => EditsKept
  <2>1. SUFFICES ASSUME IInv PROVE EditsKept
    OBVIOUS
  <2>2. types \in Plays /\ TypeOK
    BY <2>1, TypesHold DEF IInv, TypeInv, RowsTyped
  <2>3. \A t \in types : ShownAs[t] = Column(t)
    BY <2>2, ColumnsOfTypes
  <2>4. QED
    BY <2>1, <2>2, <2>3 DEF IInv, KeptInv, Kept, RowAgrees, EditsKept
<1>2. QED
  BY <1>1, Invariance, PTL

\* When nothing runs the arrival dates are those of the origin, if the dates of
\* one edit did not overlap those of another.
THEOREM DatesFollowOrigin == Spec => []QuietDates
<1>1. IInv => QuietDates
  <2>1. SUFFICES ASSUME IInv, Quiet, ~mixed, ~undated, rows # <<>>, "Origin" \in types
                 PROVE  rows[1]["origin"] = arrival
    BY DEF QuietDates
  <2>2. DatesFollow(rows[1]["origin"])
    BY <2>1 DEF IInv, DatesInv, OriginNow
  <2>3. 1 \in 1 .. Len(rows)
    BY <2>1 DEF IInv, TypeInv, RowsTyped
  <2>4. rows[1]["origin"] \in {"null", "1", "2"}
    BY <2>1, <2>3, OriginOfRow DEF IInv
  <2>5. QED
    BY <2>1, <2>2, <2>4 DEF Quiet, DatesFollow, Coming, Unread
<1>2. QED
  BY <1>1, Invariance, PTL
=============================================================================
