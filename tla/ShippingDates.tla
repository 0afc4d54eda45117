---------------------------- MODULE ShippingDates ----------------------------
(***************************************************************************)
(* The shipping dates of a division and season: the dates of each origin's *)
(* deliveries, and the children, origins whose dates are those of China    *)
(* and some days more.  The table keeps one row of an origin and delivery, *)
(* and one child of an origin, by unique indexes; the requests find before *)
(* they write, a bulk one all its rows in parallel.                        *)
(***************************************************************************)
EXTENDS Integers, FiniteSets

CONSTANTS
  Clients,     \* requests that may overlap
  Origins,     \* origins with dates of their own; the others may be children
  Shippings,   \* the deliveries, E1 to E6
  FirstDates,  \* bound on the dates a creation asks for; an update asks any
  MaxRows,     \* bound on the rows inserted
  MaxCalls,    \* bound on the requests of a behaviour
  MaxLapses    \* bound on the queries that fail

DatesAssumption ==
  /\ FirstDates \subseteq {"early", "late"}
  /\ "CN" \in Origins /\ MaxRows \in Nat /\ MaxCalls \in Nat /\ MaxLapses \in Nat

Dates == {"early", "late"}
Child == "BD"

VARIABLES
  dates,      \* the rows of ShippingDates
  children,   \* the ids of the rows of ShippingDatesChild; they are of one origin
  ids,        \* the last id given, in either table
  call,       \* what each request does
  calls,      \* requests begun
  lapses,     \* queries failed
  answer,     \* what the last step answered: a request that succeeded, or nothing
  met,        \* two requests have overlapped, or one has failed
  trimmed     \* rows have been deleted or moved one at a time

dateVars == <<dates, children, ids, call, calls, lapses, answer, met, trimmed>>

Row == [id : 1 .. MaxRows, origin : Origins, shipping : Shippings, date : Dates]

\* A request: what it does next; the origin, the deliveries and the date asked;
\* its rows, each with its delivery, the id found, 0 for none, and what is next
\* of it; whether one of them failed; whether an update or a deletion has run
\* alone; and whether a creation has had no row taken away, or moved.
Resting == [pc |-> "idle", origin |-> "CN", asks |-> {}, date |-> "early",
            tasks |-> {}, failed |-> FALSE, alone |-> TRUE, whole |-> TRUE]
NoAnswer == <<>>

\* The requests that run tasks in parallel, and those that ask to be alone.
Parallel == {"create", "update", "delete_rows"}
Jealous == {"update", "delete_rows", "remove"}

DatesTypeOK ==
  /\ dates \subseteq Row /\ children \subseteq 1 .. MaxRows
  /\ ids \in 0 .. MaxRows
  /\ \A r, s \in dates : r.id = s.id \/ (r.origin = s.origin /\ r.shipping = s.shipping) => r = s
  /\ \A c \in Clients :
       /\ call[c].pc \in {"idle", "create", "update", "delete_rows", "remove",
                          "child", "add_child", "drop_child"}
       /\ call[c].asks \subseteq Shippings
       /\ \A t \in call[c].tasks : t.pc \in {"find", "write", "done"}
  /\ Cardinality(children) <= 1

DatesInit ==
  /\ dates \in {{}} \cup {{row} : row \in {r \in Row : r.id = 1 /\ r.date \in FirstDates}}
  /\ children = {} /\ ids = IF dates = {} THEN 0 ELSE 1
  /\ call = [c \in Clients |-> Resting]
  /\ calls = 0 /\ lapses = 0
  /\ answer = NoAnswer
  /\ met = FALSE /\ trimmed = FALSE

-----------------------------------------------------------------------------
Under(c) == \E d \in Clients \ {c} : call[d].pc # "idle"

\* A request begins; the ones under way are alone no longer.
BeginAs(c, new) ==
  /\ call[c].pc = "idle" /\ calls < MaxCalls
  /\ calls' = calls + 1
  /\ call' = [d \in Clients |->
       IF d = c THEN [new EXCEPT !.alone = new.pc \in Jealous => ~Under(c)]
       ELSE [call[d] EXCEPT !.alone = @ /\ call[d].pc \notin Jealous]]
  /\ met' = (met \/ Under(c))
  /\ answer' = NoAnswer

\* A step of a request, its last one with its answer, or without when it fails;
\* and one that takes rows away from those the other requests count on.
Goes(c, to) == call' = [call EXCEPT ![c] = to] /\ answer' = NoAnswer
Ends(c) == call' = [call EXCEPT ![c] = Resting] /\ answer' = call[c]
EndsBadly(c) == call' = [call EXCEPT ![c] = Resting] /\ answer' = NoAnswer
Loses(c, to, end) ==
  /\ call' = [d \in Clients |->
       IF d = c THEN to ELSE [call[d] EXCEPT !.whole = @ /\ call[d].pc # "create"]]
  /\ answer' = end

\* A request of one statement.
Once(c) ==
  /\ call[c].pc = "idle" /\ calls < MaxCalls
  /\ calls' = calls + 1
  /\ call' = [d \in Clients |->
       [call[d] EXCEPT !.whole = @ /\ call[d].pc # "create",
                       !.alone = @ /\ call[d].pc \notin Jealous]]
  /\ met' = (met \/ Under(c))
  /\ answer' = NoAnswer
  /\ trimmed' = TRUE

InCN == {r \in dates : r.origin = "CN"}
At(origin, shipping) == {r \in dates : r.origin = origin /\ r.shipping = shipping}

-----------------------------------------------------------------------------
\* create, createBulk and updateBulk: a task for each delivery.
Bulk(c, pc) ==
  /\ \E origin \in Origins, asks \in SUBSET Shippings \ {{}},
        date \in IF pc = "create" THEN FirstDates ELSE Dates :
       BeginAs(c, [Resting EXCEPT !.pc = pc, !.origin = origin, !.asks = asks, !.date = date,
          !.tasks = {[shipping |-> s, id |-> 0, pc |-> "find"] : s \in asks}])
  /\ UNCHANGED <<dates, children, ids, lapses, trimmed>>

\* A task finds the row of its delivery.  A creation that has found one and an
\* update that has not are done with it.
TaskFind(c) ==
  /\ call[c].pc \in {"create", "update"}
  /\ \E t \in {u \in call[c].tasks : u.pc = "find"} :
       LET found == At(call[c].origin, t.shipping)
           writes == (found = {}) <=> (call[c].pc = "create")
           now == [t EXCEPT !.pc = IF writes THEN "write" ELSE "done",
                     !.id = IF writes /\ found # {} THEN (CHOOSE r \in found : TRUE).id ELSE 0]
       IN Goes(c, [call[c] EXCEPT !.tasks = (@ \ {t}) \cup {now}])
  /\ UNCHANGED <<dates, children, ids, calls, lapses, met, trimmed>>

\* The row a creation inserts, unless the index has one by now.
Created(c, t) ==
  IF At(call[c].origin, t.shipping) # {} THEN {}
  ELSE {[id |-> ids + 1, origin |-> call[c].origin, shipping |-> t.shipping, date |-> call[c].date]}

\* Mutant: a row that is there is left as it is.
UpdatedKeeping(c, t) == dates

\* An update writes the row with the id it found, its delivery too, unless that
\* has been moved and another row has its delivery.
Taken(c, t) == At(call[c].origin, t.shipping) \ {r \in dates : r.id = t.id} # {}
Updated(c, t) ==
  IF Taken(c, t) THEN dates
  ELSE {IF r.id # t.id THEN r
        ELSE [id |-> r.id, origin |-> call[c].origin, shipping |-> t.shipping,
              date |-> call[c].date] : r \in dates}

\* An update moves the row it found back, if it has been moved meanwhile.
Moves(c, t) ==
  /\ ~Taken(c, t)
  /\ \E r \in dates : r.id = t.id /\ (r.origin # call[c].origin \/ r.shipping # t.shipping)

Task(c, t, failed) ==
  [call[c] EXCEPT !.tasks = (@ \ {t}) \cup {[t EXCEPT !.pc = "done", !.id = 0]}, !.failed = @ \/ failed]

AllDone(c) == \A t \in call[c].tasks : t.pc = "done"

TaskWrite(c) ==
  /\ \E t \in {u \in call[c].tasks : u.pc = "write"} :
       \/ /\ call[c].pc = "create" /\ ids < MaxRows
          /\ dates' = dates \cup Created(c, t)
          /\ ids' = IF Created(c, t) = {} THEN ids ELSE ids + 1
          /\ Goes(c, Task(c, t, Created(c, t) = {}))
          /\ met' = (met \/ Created(c, t) = {})
       \/ /\ call[c].pc = "update"
          /\ dates' = Updated(c, t)
          /\ IF Moves(c, t) THEN Loses(c, Task(c, t, Taken(c, t)), NoAnswer)
             ELSE Goes(c, Task(c, t, Taken(c, t)))
          /\ UNCHANGED <<ids, met>>
  /\ UNCHANGED <<children, calls, lapses, trimmed>>

\* The client has its answer at the first task that fails, but the others go on.
BulkEnds(c) ==
  /\ call[c].pc \in {"create", "update"} \/ (call[c].pc = "delete_rows" /\ call[c].failed)
  /\ AllDone(c)
  /\ IF call[c].failed THEN EndsBadly(c) ELSE Ends(c)
  /\ UNCHANGED <<dates, children, ids, calls, lapses, met, trimmed>>

-----------------------------------------------------------------------------
\* deleteById, and update, which may move a row to another delivery, though not
\* to one with a row.
DeleteOne(c) ==
  /\ Once(c)
  /\ \E r \in dates : dates' = dates \ {r}
  /\ UNCHANGED <<children, ids, lapses>>

UpdateOne(c) ==
  /\ Once(c)
  /\ \E r \in dates, origin \in Origins, s \in Shippings, date \in Dates :
       /\ At(origin, s) \subseteq {r}
       /\ dates' = (dates \ {r}) \cup
            {[r EXCEPT !.origin = origin, !.shipping = s, !.date = date]}
  /\ UNCHANGED <<children, ids, lapses>>

-----------------------------------------------------------------------------
\* deleteByDivisionIdSeasonId: the rows of China, then the children.
DeleteAll(c) ==
  /\ BeginAs(c, [Resting EXCEPT !.pc = "delete_rows",
       !.tasks = {[shipping |-> r.shipping, id |-> r.id, pc |-> "write"] : r \in InCN}])
  /\ UNCHANGED <<dates, children, ids, lapses, trimmed>>

DeleteRow(c) ==
  /\ call[c].pc = "delete_rows"
  /\ \E t \in {u \in call[c].tasks : u.pc = "write"} :
       /\ dates' = {r \in dates : r.id # t.id}
       /\ Loses(c, Task(c, t, FALSE), NoAnswer)
  /\ UNCHANGED <<children, ids, calls, lapses, met, trimmed>>

\* Mutant: the children stay.
FindChildrenNone(c) ==
  /\ call[c].pc = "delete_rows" /\ AllDone(c) /\ ~call[c].failed
  /\ Goes(c, [call[c] EXCEPT !.pc = "remove", !.tasks = {}])
  /\ UNCHANGED <<dates, children, ids, calls, lapses, met, trimmed>>

FindChildren(c) ==
  /\ call[c].pc = "delete_rows" /\ AllDone(c) /\ ~call[c].failed
  /\ Goes(c, [call[c] EXCEPT !.pc = "remove",
       !.tasks = {[shipping |-> "none", id |-> i, pc |-> "write"] : i \in children}])
  /\ UNCHANGED <<dates, children, ids, calls, lapses, met, trimmed>>

RemoveChildren(c) ==
  /\ call[c].pc = "remove"
  /\ children' = children \ {t.id : t \in call[c].tasks}
  /\ Loses(c, Resting, call[c])
  /\ UNCHANGED <<dates, ids, calls, lapses, met, trimmed>>

-----------------------------------------------------------------------------
\* createChild looks for a row of China, then for the child, then inserts it.
CreateChild(c) ==
  /\ InCN # {}
  /\ BeginAs(c, [Resting EXCEPT !.pc = "child"])
  /\ UNCHANGED <<dates, children, ids, lapses, trimmed>>

ChildFind(c) ==
  /\ call[c].pc = "child"
  /\ IF children # {} THEN Ends(c) ELSE Goes(c, [call[c] EXCEPT !.pc = "add_child"])
  /\ UNCHANGED <<dates, children, ids, calls, lapses, met, trimmed>>

ChildInsert(c) ==
  /\ call[c].pc = "add_child" /\ ids < MaxRows
  /\ IF children # {}
       THEN EndsBadly(c) /\ met' = TRUE /\ UNCHANGED <<children, ids>>
       ELSE Ends(c) /\ ids' = ids + 1 /\ children' = {ids'} /\ UNCHANGED met
  /\ UNCHANGED <<dates, calls, lapses, trimmed>>

\* deleteChild finds it, then deletes it.
DeleteChild(c) ==
  /\ children # {}
  /\ BeginAs(c, [Resting EXCEPT !.pc = "drop_child",
       !.tasks = {[shipping |-> "none", id |-> i, pc |-> "write"] : i \in children}])
  /\ UNCHANGED <<dates, children, ids, lapses, trimmed>>

ChildDrop(c) ==
  /\ call[c].pc = "drop_child"
  /\ children' = children \ {t.id : t \in call[c].tasks}
  /\ Loses(c, Resting, call[c])
  /\ UNCHANGED <<dates, ids, calls, lapses, met, trimmed>>

\* A query fails, and with it the request, though the tasks beside it go on.
Lapse(c) ==
  /\ call[c].pc # "idle" /\ lapses < MaxLapses
  /\ lapses' = lapses + 1 /\ met' = TRUE
  /\ \/ \E t \in {u \in call[c].tasks : u.pc # "done"} :
          call[c].pc \in Parallel /\ Goes(c, Task(c, t, TRUE))
     \/ (call[c].pc \in Parallel => AllDone(c)) /\ EndsBadly(c)
  /\ UNCHANGED <<dates, children, ids, calls, trimmed>>

DatesNext == \E c \in Clients :
  \/ Bulk(c, "create") \/ Bulk(c, "update")
  \/ TaskFind(c) \/ TaskWrite(c) \/ BulkEnds(c)
  \/ DeleteOne(c) \/ UpdateOne(c)
  \/ DeleteAll(c) \/ DeleteRow(c) \/ FindChildren(c) \/ RemoveChildren(c)
  \/ CreateChild(c) \/ ChildFind(c) \/ ChildInsert(c) \/ DeleteChild(c) \/ ChildDrop(c)
  \/ Lapse(c)

DatesSpec == DatesInit /\ [][DatesNext]_dateVars

-----------------------------------------------------------------------------
\* A creation of dates that succeeded leaves each delivery asked for a row,
\* whoever overlapped, unless rows were taken away or moved meanwhile, be it by
\* an update that moves back the row it had found; an update, and a
\* deletion of all, that ran alone leave the date asked in every row there was,
\* and neither dates of China nor children, whatever was left by requests that
\* failed or overlapped before (shipping-dates.service.ts:68-144).
DatesAsAsked ==
  /\ answer # NoAnswer /\ answer.pc = "create" /\ answer.whole =>
       \A s \in answer.asks : At(answer.origin, s) # {}
  /\ answer # NoAnswer /\ answer.pc = "update" /\ answer.alone =>
       \A r \in dates : r.origin = answer.origin /\ r.shipping \in answer.asks
                          => r.date = answer.date
  /\ answer # NoAnswer /\ answer.pc = "remove" /\ answer.alone => InCN = {} /\ children = {}

\* Without overlaps and failures there is no child without dates of China, as
\* long as rows are not deleted one by one: "China no está configurado"
\* (shipping-dates.service.ts:130-203).
ChildrenDated ==
  /\ DatesTypeOK
  /\ (\A c \in Clients : call[c].pc = "idle") /\ ~met /\ ~trimmed /\ children # {} => InCN # {}
=============================================================================
