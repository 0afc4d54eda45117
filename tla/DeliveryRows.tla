----------------------------- MODULE DeliveryRows -----------------------------
(***************************************************************************)
(* The rows of one delivery of a colour, E1 to E6, and the two services    *)
(* that save its units: by colour, which leaves the delivery one row, and  *)
(* the older by column, which saves the row the client names.  A row that  *)
(* is gone when it is saved is inserted again with its number, and with    *)
(* its colour only if the request knows it.                                *)
(***************************************************************************)
EXTENDS Integers, FiniteSets

CONSTANTS
  Savers,      \* the requests that may save at the same time
  Units,       \* the units a client may send
  MaxSaves,    \* a bound: the requests served in all
  MaxFailures  \* a bound: the queries that fail

UnitsAssumption == Units \subseteq Nat /\ 0 \in Units

VARIABLES
  rows,       \* the units of each row there is, by its number
  next,       \* the number of the next row
  save,       \* what each request does next and has read
  saves,      \* how many requests have begun
  failures,   \* how many queries have failed
  had,        \* whether the delivery has ever had a row
  ended,      \* the last request that ended well, and what it was sent
  mixed,      \* whether a request ever began while another was served
  taken       \* whether one ever deleted the row another was to keep

rowVars == <<rows, next, save, saves, failures, had, ended, mixed, taken>>

\* What was sent: nothing, or units; and the row the client names, 0 for none.
Absent == {}
Sent == {Absent} \cup {{u} : u \in Units}
NotSaving == [pc |-> "idle", units |-> Absent, id |-> 0, few |-> FALSE, full |-> FALSE,
              sent |-> TRUE, first |-> 0, others |-> {}]

RowsTypeOK ==
  /\ DOMAIN rows \subseteq 1 .. next - 1
  /\ \A i \in DOMAIN rows : rows[i] \in Units
  /\ \A r \in Savers : save[r].others \subseteq 1 .. next - 1

RowsInit ==
  /\ rows \in {<<>>, <<0>>, <<0, 0>>}
  /\ next = Cardinality(DOMAIN rows) + 1
  /\ save = [r \in Savers |-> NotSaving]
  /\ saves = 0 /\ failures = 0
  /\ had = (rows # <<>>)
  /\ ended = [op |-> "none", units |-> Absent, id |-> 0]
  /\ mixed = FALSE /\ taken = FALSE

-----------------------------------------------------------------------------
Saving == {r \in Savers : save[r].pc # "idle"}

BeginSave(r, request) ==
  /\ save[r].pc = "idle" /\ saves < MaxSaves
  /\ saves' = saves + 1
  /\ save' = [save EXCEPT ![r] = request]
  /\ mixed' = (mixed \/ Saving # {})
  /\ UNCHANGED <<rows, next, failures, had, ended, taken>>

EndSave(r, op) ==
  /\ save' = [save EXCEPT ![r] = NotSaving]
  /\ ended' = [op |-> op, units |-> save[r].units, id |-> save[r].id]
  /\ UNCHANGED <<saves, mixed, taken>>

Put(i, units) == [j \in DOMAIN rows \cup {i} |-> IF j = i THEN units ELSE rows[j]]

\* Mutant: the row that is kept is deleted with the rest.
RepeatedAll(first) == DOMAIN rows

\* The rows of the delivery besides the one it keeps.
Repeated(first) == DOMAIN rows \ {first}

\* saveShippingUnits: the rows in the order the database gives them.
SaveRead(r) ==
  \E units \in Sent : \E first \in (IF DOMAIN rows = {} THEN {0} ELSE DOMAIN rows) :
    BeginSave(r, [NotSaving EXCEPT !.pc = "delete", !.units = units, !.first = first,
                                   !.others = Repeated(first)])

\* A row that another request is to keep is deleted under it.
Takes(r) ==
  \E s \in Savers \ {r} : save[s].pc \in {"delete", "save"} /\ save[s].first \in save[r].others

SaveDelete(r) ==
  /\ save[r].pc = "delete"
  /\ rows' = [i \in DOMAIN rows \ save[r].others |-> rows[i]]
  /\ save' = [save EXCEPT ![r].pc = "save"]
  /\ taken' = (taken \/ Takes(r))
  /\ UNCHANGED <<next, saves, failures, had, ended, mixed>>

\* What an insert stores.
UnitsOf(units) == IF units = Absent THEN 0 ELSE CHOOSE u \in Units : units = {u}

\* save of a row: an update, which ignores what is undefined, or an insert.
StoredRow(i, units) ==
  Put(i, IF i \in DOMAIN rows /\ units = Absent THEN rows[i] ELSE UnitsOf(units))

\* The row kept, or a new one, is saved.  If the row is gone it is inserted
\* again without its colour, which was not read with it, and so is no row of
\* the delivery; or refused, for want of units or with another delivery.
SaveSave(r) ==
  LET i == IF save[r].first = 0 THEN next ELSE save[r].first
      gone == i # next /\ i \notin DOMAIN rows
  IN
  /\ save[r].pc = "save"
  /\ \/ /\ ~gone
        /\ rows' = StoredRow(i, save[r].units)
        /\ next' = IF i = next THEN next + 1 ELSE next
        /\ had' = TRUE
        /\ EndSave(r, "saved")
     \/ /\ gone
        /\ \E op \in {"saved", "failed"} : EndSave(r, op)
        /\ UNCHANGED <<rows, next, had>>
  /\ UNCHANGED failures

\* A query fails: saveShippingUnits answers [], the older service an error.
SaveFails(r) ==
  /\ save[r].pc # "idle" /\ failures < MaxFailures
  /\ failures' = failures + 1
  /\ EndSave(r, "failed")
  /\ UNCHANGED <<rows, next, had>>

-----------------------------------------------------------------------------
\* updateShippingsUnits: rows are read when fewer than six deliveries of the
\* colour are sent; "full" says that the colour has six rows.
ColumnRead(r) ==
  \E units \in Sent \ {Absent} : \E id \in 0 .. next - 1 : \E few, full, sent \in BOOLEAN :
    /\ ~few => (sent /\ ~full)
    /\ \E first \in (IF DOMAIN rows = {} \/ ~few THEN {0} ELSE DOMAIN rows) :
         BeginSave(r, [NotSaving EXCEPT !.pc = "column", !.units = units, !.id = id,
            !.few = few, !.full = full, !.sent = sent, !.first = first])

\* The row the client names is saved, unless the colour was full and had the
\* delivery, whose first row is then saved; one not sent of a colour that was
\* not full and did not have it is inserted empty.
ColumnRow(r) ==
  LET q == save[r] IN
  IF q.sent THEN (IF q.full /\ q.first # 0 THEN {q.first} ELSE {IF q.id = 0 THEN next ELSE q.id})
  ELSE IF q.few /\ ~q.full /\ q.first = 0 THEN {next} ELSE {}

ColumnSave(r) ==
  /\ save[r].pc = "column"
  /\ IF ColumnRow(r) = {} THEN UNCHANGED <<rows, next, had>>
     ELSE \E i \in ColumnRow(r) :
            /\ rows' = StoredRow(i, IF save[r].sent THEN save[r].units ELSE Absent)
            /\ next' = IF i = next THEN next + 1 ELSE next
            /\ had' = TRUE
  /\ EndSave(r, IF save[r].sent THEN "column" ELSE "others")
  /\ UNCHANGED failures

RowsNext ==
  \E r \in Savers : \/ SaveRead(r) \/ SaveDelete(r) \/ SaveSave(r) \/ SaveFails(r)
                    \/ ColumnRead(r) \/ ColumnSave(r)

RowsSpec == RowsInit /\ [][RowsNext]_rowVars

-----------------------------------------------------------------------------
\* A save by colour that nothing overlapped leaves the delivery one row, with
\* the units sent, whatever repeated rows it had (purchase.service.ts:853-873);
\* one by column leaves the units sent in some row of it.
SavedAsSent ==
  (~mixed /\ Saving = {} /\ ended.units # Absent) =>
    /\ ended.op = "saved" =>
         /\ Cardinality(DOMAIN rows) = 1
         /\ \A i \in DOMAIN rows : ended.units = {rows[i]}
    /\ ended.op = "column" => \E i \in DOMAIN rows : ended.units = {rows[i]}

\* A delivery that had a row has one at every moment, whatever overlaps or
\* fails between the deletion of the repeated rows and the save, unless one
\* save deletes the row that another in flight is to keep
\* (purchase.service.ts:853-897).
DeliveryKept == had /\ ~taken => rows # <<>>

\* A delivery and its units survive the saves.
UnitsSaved == RowsTypeOK /\ SavedAsSent /\ DeliveryKept

=============================================================================
