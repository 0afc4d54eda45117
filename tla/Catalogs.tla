------------------------------- MODULE Catalogs -------------------------------
(***************************************************************************)
(* The catalogs a style's details choose from, which clients list, edit    *)
(* and put aside.  One record of one of them, with its flag active and one *)
(* other column for the rest, under requests that overlap: each looks for  *)
(* the record, and then writes it.                                         *)
(***************************************************************************)
EXTENDS Integers

CONSTANTS
  Clients,    \* requests that may overlap
  Names,      \* values of the other columns
  MaxEdits    \* bound on the requests of a behaviour

EditsAssumption == MaxEdits \in Nat

\* What the edit of a catalog writes, and what putting a record aside does:
\* saves what the client (s)ends, or the (f)ound row with another flag.
Whole == [edits |-> {"name", "active"}, saves |-> "sent"]
ByFlag == [edits |-> {"name"}, saves |-> "found"]

Cso == Whole
Category == Whole
Rse == Whole
SeasonSticker == Whole
Segment == Whole
Packaging == ByFlag
Shipmethod == ByFlag
ExitPort == ByFlag
Provider == [ByFlag EXCEPT !.edits = {"name", "active"}]
\* A size is edited, put aside and made by one operation, which saves the row.
Size == [edits |-> {}, saves |-> "found"]

Shapes == {Cso, Category, Rse, SeasonSticker, Segment, Packaging, Shipmethod,
           ExitPort, Provider, Size}

VARIABLES
  shape,    \* the catalog of the behaviour
  record,   \* the record, or none yet
  client,   \* what each request does, sends and has found
  asked,    \* what was last asked of each column
  edits,    \* requests begun
  stale     \* a row was saved that had changed since it was found

catalogVars == <<shape, record, client, asked, edits, stale>>

NoRecord == <<>>
Record == [name : Names, active : BOOLEAN]
Resting == [pc |-> "idle", sent |-> <<>>, found |-> <<>>]

CatalogTypeOK ==
  /\ shape \in Shapes
  /\ record = NoRecord \/ record \in Record
  /\ \A c \in Clients :
       /\ client[c].pc \in {"idle", "edit", "put_aside"}
       /\ client[c].pc # "idle" => client[c].sent \in Record
       /\ client[c].found = NoRecord \/ client[c].found \in Record
  /\ asked = record \/ asked \in Record
  /\ edits \in 0 .. MaxEdits

CatalogInit ==
  /\ shape \in Shapes
  /\ record = NoRecord
  /\ client = [c \in Clients |-> Resting]
  /\ asked = NoRecord
  /\ edits = 0
  /\ stale = FALSE

-----------------------------------------------------------------------------
Begins == edits < MaxEdits /\ edits' = edits + 1

\* The record is made active; where the client's whole object is assigned over
\* it, as the client says.
Create ==
  /\ record = NoRecord /\ Begins
  /\ shape.saves = "sent" \/ shape = Size
  /\ record' \in {r \in Record : shape = Size => r.active}
  /\ asked' = record'
  /\ UNCHANGED <<shape, client, stale>>

\* The records of the other catalogs are there from the migrations.
Seeded ==
  /\ record = NoRecord /\ shape.saves = "found" /\ shape # Size
  /\ record' \in {r \in Record : r.active}
  /\ asked' = record'
  /\ UNCHANGED <<shape, client, edits, stale>>

\* A request looks for the record, to edit it or to put it aside or back.
Find(c, pc) ==
  /\ record # NoRecord /\ client[c].pc = "idle" /\ Begins
  /\ pc = "edit" => shape # Size
  /\ \E sent \in Record :
       client' = [client EXCEPT ![c] = [pc |-> pc, sent |-> sent, found |-> record]]
  /\ UNCHANGED <<shape, record, asked, stale>>

\* Mutant: the edit saves the row it found.
WrittenFound(c) == [client[c].sent EXCEPT !.active =
                      IF "active" \in shape.edits THEN @ ELSE client[c].found.active]

\* An edit writes the columns the client names.
Written(c) == [client[c].sent EXCEPT !.active =
                 IF "active" \in shape.edits THEN @ ELSE record.active]

Edit(c) ==
  /\ client[c].pc = "edit"
  /\ record' = Written(c)
  /\ asked' = [asked EXCEPT !.name = client[c].sent.name,
                 !.active = IF "active" \in shape.edits THEN client[c].sent.active ELSE @]
  /\ client' = [client EXCEPT ![c] = Resting]
  /\ UNCHANGED <<shape, edits, stale>>

\* deleteById saves what the client sent, without looking at what it found;
\* updateById the row it found, all of it, with the client's flag, and so does
\* createOrUpdate, which takes the other columns for an active size.
PutAside(c) ==
  LET sent == client[c].sent
      found == client[c].found
      saved == IF shape.saves = "sent" THEN [sent EXCEPT !.active = FALSE]
               ELSE IF shape = Size /\ sent.active THEN sent
               ELSE [found EXCEPT !.active = sent.active]
  IN
  /\ client[c].pc = "put_aside"
  /\ record' = saved
  /\ asked' = [asked EXCEPT !.active = saved.active,
                 !.name = IF shape.saves = "sent" \/ (shape = Size /\ sent.active)
                            THEN sent.name ELSE @]
  /\ stale' = (stale \/ (shape.saves = "found" /\ found # record))
  /\ client' = [client EXCEPT ![c] = Resting]
  /\ UNCHANGED <<shape, edits>>

CatalogNext ==
  \/ Create \/ Seeded
  \/ \E c \in Clients : Find(c, "edit") \/ Find(c, "put_aside") \/ Edit(c) \/ PutAside(c)

CatalogSpec == CatalogInit /\ [][CatalogNext]_catalogVars

-----------------------------------------------------------------------------
\* A record is put aside or back as was last asked, whatever edits overlap:
\* they write their own columns only.  The other columns are those last asked
\* unless a row found before an edit was saved after it (packaging.service.ts:
\* 72-90, cso.service.ts:78-96, provider.service.ts:32-105).
AskedKept ==
  /\ CatalogTypeOK
  /\ record # NoRecord =>
       /\ record.active = asked.active
       /\ ~stale => record.name = asked.name
=============================================================================
