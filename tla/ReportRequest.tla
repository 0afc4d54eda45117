---------------------------- MODULE ReportRequest ----------------------------
(***************************************************************************)
(* One request for a report, of any kind.  The controller starts it and    *)
(* answers at once; the report selects purchases, leaves one row of        *)
(* RequestReport for each file it makes, and gives the file to S3, most    *)
(* often with a callback that nobody awaits.  The client polls the rows.   *)
(***************************************************************************)
EXTENDS Integers

CONSTANTS
  MaxGroups,  \* bound on the files of one request
  MaxFaults   \* bound on the queries, services and uploads that fail

ASSUME GroupsAssumption == MaxGroups \in Nat \ {0}
ASSUME FaultsAssumption == MaxFaults \in Nat

Slots == 1 .. MaxGroups

(***************************************************************************)
(* The kinds of report, by what they do differently.                       *)
(*   pending  when a row says Pending: before the selection, before each   *)
(*            file, or never                                               *)
(*   select   the selection it uses                                        *)
(*   none     what its row may say when that finds nothing                 *)
(*   split    a file for each group of what was found, or one file         *)
(*   failed   what becomes of the row when S3 refuses the file             *)
(***************************************************************************)
Sku == [pending |-> "first", select |-> "filter", none |-> {"No Data"},
        split |-> FALSE, failed |-> "Pending"]

Approvement == [pending |-> "first", select |-> "V1", none |-> {"No Data"},
                split |-> FALSE, failed |-> "Pending"]

OrderRecap == [pending |-> "each", select |-> "filter", none |-> {"No Data"},
               split |-> TRUE, failed |-> "Error"]

ProformPI == [pending |-> "each", select |-> "filter", none |-> {"No Data"},
              split |-> TRUE, failed |-> "Pending"]

PurchaseOrder == [pending |-> "each", select |-> "filter", none |-> {"No Data"},
                  split |-> TRUE, failed |-> "Complete"]

ProductEnhancement == [pending |-> "never", select |-> "enhancement", none |-> {"No Data"},
                       split |-> FALSE, failed |-> "Complete"]

JdaOcRelease == [pending |-> "first", select |-> "query", none |-> {"No Data"},
                 split |-> FALSE, failed |-> "Pending"]

Sustainability == [pending |-> "never", select |-> "query", none |-> {"No Data", "no row"},
                   split |-> FALSE, failed |-> "Complete"]

Kinds == {Sku, Approvement, OrderRecap, ProformPI, PurchaseOrder, ProductEnhancement,
          JdaOcRelease, Sustainability}

VARIABLES
  kind,    \* the kind of the request
  step,    \* what it does next
  found,   \* what its selection gave
  left,    \* the files it has still to make
  rows,    \* the status of its rows in RequestReport
  files,   \* the rows whose file is in S3
  flying,  \* the rows whose file is on its way
  saving,  \* and those whose answer is about to be saved
  faults

request == <<kind, step, found, left, rows, files, flying, saving, faults>>

Promise == INSTANCE ReportPromise WITH answer <- rows

\* No answer is about to be saved.
NoSave == "none"

Found == {"not yet", "nothing", "broken", "filtered out", "some", "abandoned"}

RequestTypeOK ==
  /\ kind \in Kinds
  /\ step \in {"idle", "select", "write", "done", "dead"}
  /\ found \in Found
  /\ left \in 0 .. MaxGroups
  /\ rows \in [Slots -> Promise!Answers \cup {"Pending", Promise!NoRow}]
  /\ files \subseteq Slots
  /\ flying \subseteq Slots
  /\ saving \in [Slots -> {NoSave, "Complete", "Error"}]
  /\ faults \in 0 .. MaxFaults
  \* What is under way is under way once.
  /\ \A k \in Slots : saving[k] # NoSave => k \notin flying

RequestInit ==
  /\ kind \in Kinds
  /\ step = "idle"
  /\ found = "not yet"
  /\ left = 0
  /\ rows = [k \in Slots |-> Promise!NoRow]
  /\ files = {}
  /\ flying = {}
  /\ saving = [k \in Slots |-> NoSave]
  /\ faults = 0

\* The rows of a request, none of them left unanswered.
Used == {k \in Slots : rows[k] # Promise!NoRow}
Answered == Used # {} /\ \A k \in Used : rows[k] \in Promise!Answers

-----------------------------------------------------------------------------
\* The controller starts the report.
Begin ==
  /\ step = "idle"
  /\ step' = "select"
  /\ rows' = IF kind.pending = "first" THEN [rows EXCEPT ![1] = "Pending"] ELSE rows
  /\ UNCHANGED <<kind, found, left, files, flying, saving, faults>>

\* Mutant: what was found is exported all the same.
SelectNothingGoesOn ==
  /\ step = "select"
  /\ found' = "nothing"
  /\ \E answer \in kind.none : rows' = [rows EXCEPT ![1] = answer]
  /\ step' = "write"
  /\ left' = 1
  /\ UNCHANGED <<kind, files, flying, saving, faults>>

\* Nothing is found, or nothing of it is to be listed, or the query fails and
\* the selection catches it.
SelectNothing ==
  /\ step = "select"
  /\ found' = "nothing"
  /\ \E answer \in kind.none : rows' = [rows EXCEPT ![1] = answer]
  /\ step' = "done"
  /\ UNCHANGED <<kind, left, files, flying, saving, faults>>

\* The styles of what was found cannot be had: the selection gives null,
\* which the report takes apart and fails.  The queries of its own fail too.
SelectBroken ==
  /\ step = "select"
  /\ found' = "broken"
  /\ step' = "dead"
  /\ UNCHANGED <<kind, left, rows, files, flying, saving, faults>>

\* Brands or departments filter everything out: both lists are empty, which
\* is not taken for no data.
SelectFilteredOut ==
  /\ step = "select" /\ kind.select # "query"
  /\ found' = "filtered out"
  /\ left' = IF kind.split THEN 0 ELSE 1
  /\ step' = "write"
  /\ UNCHANGED <<kind, rows, files, flying, saving, faults>>

SelectSome ==
  /\ step = "select"
  /\ found' = "some"
  /\ left' \in IF kind.split THEN 1 .. MaxGroups ELSE {1}
  /\ step' = "write"
  /\ UNCHANGED <<kind, rows, files, flying, saving, faults>>

\* The report of approvals without the dollar of its seasons, or at a level
\* it does not know, ends without a word.
Abandon ==
  /\ step = "write" /\ kind = Approvement
  /\ found' = "abandoned"
  /\ step' = "dead"
  /\ UNCHANGED <<kind, left, rows, files, flying, saving, faults>>

\* The next file is made and given to S3.
Write ==
  /\ step = "write" /\ left > 0
  /\ left' = left - 1
  /\ rows' = IF kind.pending = "each" THEN [rows EXCEPT ![left] = "Pending"] ELSE rows
  /\ flying' = flying \cup {left}
  /\ UNCHANGED <<kind, step, found, files, saving, faults>>

WriteEnd ==
  /\ step = "write" /\ left = 0
  /\ step' = "done"
  /\ UNCHANGED <<kind, found, left, rows, files, flying, saving, faults>>

\* S3 has the file.
Upload == \E k \in flying :
  /\ flying' = flying \ {k}
  /\ files' = files \cup {k}
  /\ saving' = [saving EXCEPT ![k] = "Complete"]
  /\ UNCHANGED <<kind, step, found, left, rows, faults>>

\* S3 refuses it, which some kinds do not look at, and some log.
UploadFails == \E k \in flying :
  /\ faults < MaxFaults
  /\ faults' = faults + 1
  /\ flying' = flying \ {k}
  /\ saving' = [saving EXCEPT ![k] = IF kind.failed = "Pending" THEN NoSave ELSE kind.failed]
  /\ UNCHANGED <<kind, step, found, left, rows, files>>

\* Mutant: only the first file is answered.
SaveFirst == \E k \in Slots :
  /\ saving[k] # NoSave
  /\ rows' = IF k = 1 THEN [rows EXCEPT ![k] = saving[k]] ELSE rows
  /\ saving' = [saving EXCEPT ![k] = NoSave]
  /\ UNCHANGED <<kind, step, found, left, files, flying, faults>>

\* The answer is saved.
Save == \E k \in Slots :
  /\ saving[k] # NoSave
  /\ rows' = [rows EXCEPT ![k] = saving[k]]
  /\ saving' = [saving EXCEPT ![k] = NoSave]
  /\ UNCHANGED <<kind, step, found, left, files, flying, faults>>

\* A query or a service fails, a row misses what is read of it, or the
\* process stops: the report ends where it is, and some of what it did not
\* await is lost.
Break ==
  /\ faults < MaxFaults
  /\ faults' = faults + 1
  /\ step \in {"select", "write"} \/ flying # {} \/ \E k \in Slots : saving[k] # NoSave
  /\ step' = IF step = "done" THEN "done" ELSE "dead"
  /\ flying' \in SUBSET flying
  /\ \E lost \in SUBSET Slots : saving' = [k \in Slots |-> IF k \in lost THEN NoSave ELSE saving[k]]
  /\ UNCHANGED <<kind, found, left, rows, files>>

RequestStep ==
  \/ SelectNothing \/ SelectBroken \/ SelectFilteredOut \/ SelectSome
  \/ Abandon \/ Write \/ WriteEnd \/ Upload \/ Save

RequestNext == Begin \/ RequestStep \/ UploadFails \/ Break

-----------------------------------------------------------------------------
\* A row that says No Data is of a request that has selected nothing
\* (report.service 118-124 and the like), and where the callback looks at the
\* error of S3, one that says Complete has its file (206-227, 345-378,
\* 1438-1469, 1947-1952).
TrueAnswers ==
  \A k \in Slots :
    /\ rows[k] = "No Data" => found = "nothing" /\ files \cup flying = {}
    /\ rows[k] = "Complete" /\ kind.failed # "Complete" => k \in files

\* Every row keeps the promise of ReportPromise: it is answered once, however
\* the request, its uploads and their callbacks interleave, and truly.
KeepsPromise == Promise!Spec /\ [](RequestTypeOK /\ TrueAnswers)

\* A request that found purchases and met no failure ends with an answer in
\* every row it has left, and leaves one at least.
RequestAnswered ==
  found = "some" ~> (Answered /\ step = "done") \/ faults > 0 \/ found = "abandoned"
=============================================================================
