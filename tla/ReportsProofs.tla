---------------------------- MODULE ReportsProofs ----------------------------
(***************************************************************************)
(* For any number of files, failures, connections and ids: a request for   *)
(* a report and the streams beside it keep the promise of ReportPromise,   *)
(* and no row is answered with what is not so.                             *)
(***************************************************************************)
EXTENDS Reports, TLAPS

USE GroupsAssumption, FaultsAssumption DEF NoSave

Unanswered(k) == rows[k] \in {Promise!NoRow, "Pending"}

\* Its file is on its way, or its answer is about to be saved.
Under(k) == k \in flying \/ saving[k] # NoSave

\* Its file has still to be made, if it is one of the request.
ToMake(k) == step \in {"idle", "select"} \/ (step = "write" /\ k <= left)

\* What an answer about to come needs: a row with anything under way, or to be
\* made, has no answer yet; nothing is under way of a file to be made; and the
\* row is not there, or says Pending, when its kind makes it say so.
OpenInv ==
  /\ \A k \in Slots : Under(k) \/ ToMake(k) => Unanswered(k)
  /\ \A k \in Slots : ToMake(k) => ~Under(k) /\ k \notin files
  /\ step = "idle" => \A k \in Slots : rows[k] = Promise!NoRow
  /\ step = "select" /\ kind.pending = "never" => rows[1] = Promise!NoRow
  /\ step = "write" /\ kind.pending = "each" =>
       \A k \in 1 .. left : rows[k] = Promise!NoRow
  /\ step = "select" /\ kind.pending = "each" => \A k \in Slots : rows[k] = Promise!NoRow

\* What makes an answer true: nothing goes on after a selection of nothing, and
\* an answer about to be saved is as true as one that is.
TrueInv ==
  /\ found = "nothing" =>
       step = "done" /\ files \cup flying = {} /\ \A k \in Slots : saving[k] = NoSave
  /\ \A k \in Slots : rows[k] = "No Data" => found = "nothing"
  /\ kind.failed # "Complete" =>
       \A k \in Slots : rows[k] = "Complete" \/ saving[k] = "Complete" => k \in files

RequestInv == RequestTypeOK /\ OpenInv /\ TrueInv

\* What the kinds of report have in common (report.service: one method each).
LEMMA KindsOf ==
  ASSUME NEW k \in Kinds
  PROVE  /\ k.pending \in {"first", "each", "never"}
         /\ k.failed \in {"Pending", "Complete", "Error"}
         /\ k.none \subseteq {"No Data", Promise!NoRow}
         /\ Promise!NoRow \in k.none => k.pending = "never"
<1> USE DEF Promise!NoRow
<1>1. CASE k = Sku
  BY <1>1 DEF Sku
<1>2. CASE k = Approvement
  BY <1>2 DEF Approvement
<1>3. CASE k = OrderRecap
  BY <1>3 DEF OrderRecap
<1>4. CASE k = ProformPI
  BY <1>4 DEF ProformPI
<1>5. CASE k = PurchaseOrder
  BY <1>5 DEF PurchaseOrder
<1>6. CASE k = ProductEnhancement
  BY <1>6 DEF ProductEnhancement
<1>7. CASE k = JdaOcRelease
  BY <1>7 DEF JdaOcRelease
<1>8. CASE k = Sustainability
  BY <1>8 DEF Sustainability
<1>9. QED
  BY <1>1, <1>2, <1>3, <1>4, <1>5, <1>6, <1>7, <1>8 DEF Kinds

LEMMA RequestStarts ==
  RequestInit => RequestInv /\ Promise!Init
<1> SUFFICES ASSUME RequestInit PROVE RequestInv /\ Promise!Init
  OBVIOUS
<1>1. RequestTypeOK
  <2>1. found \in Found /\ step \in {"idle", "select", "write", "done", "dead"}
    BY DEF RequestInit, Found
  <2>2. rows \in [Slots -> Promise!Answers \cup {"Pending", Promise!NoRow}]
    BY DEF RequestInit
  <2>3. saving \in [Slots -> {NoSave, "Complete", "Error"}]
    BY DEF RequestInit
  <2>4. left = 0 /\ faults = 0 /\ kind \in Kinds /\ files = {} /\ flying = {}
    BY DEF RequestInit
  <2>5. left \in 0 .. MaxGroups /\ faults \in 0 .. MaxFaults
    BY <2>4
  <2>6. QED
    BY <2>1, <2>2, <2>3, <2>4, <2>5 DEF RequestTypeOK
<1>2. OpenInv
  BY DEF RequestInit, OpenInv, Unanswered, Under, ToMake, Slots
<1>3. TrueInv
  BY DEF RequestInit, TrueInv, Promise!NoRow
<1>4. QED
  BY <1>1, <1>2, <1>3 DEF RequestInit, RequestInv, Promise!Init

\* The row the controller leaves opens what the client polls.
LEMMA BeginKeeps ==
  ASSUME RequestInv, Begin
  PROVE  RequestInv' /\ [Promise!Next]_rows
<1> USE DEF Begin, RequestInv
<1>1. RequestTypeOK'
  BY DEF RequestTypeOK, Slots
<1>2. \A k \in Slots : rows[k] = Promise!NoRow /\ rows'[k] \in {Promise!NoRow, "Pending"}
  BY DEF OpenInv, RequestTypeOK
<1>3. OpenInv'
  <2>1. \A k \in Slots : ~Under(k)' /\ Unanswered(k)' /\ k \notin files'
    BY <1>2 DEF OpenInv, Unanswered, Under, ToMake
  <2>2. kind.pending # "first" => \A k \in Slots : rows'[k] = Promise!NoRow
    BY <1>2
  <2>3. QED
    BY <2>1, <2>2 DEF OpenInv, Slots
<1>4. TrueInv'
  BY <1>2 DEF TrueInv, Promise!NoRow
<1>5. [Promise!Next]_rows
  BY <1>2 DEF Promise!Next, Promise!Open, Slots
<1>6. QED
  BY <1>1, <1>3, <1>4, <1>5

\* A selection of nothing answers its row at once, or leaves none.
LEMMA SelectNothingKeeps ==
  ASSUME RequestInv, SelectNothing
  PROVE  RequestInv' /\ [Promise!Next]_rows
<1> USE DEF SelectNothing, RequestInv
<1>1. PICK answer \in kind.none : rows' = [rows EXCEPT ![1] = answer]
  OBVIOUS
<1>2. answer \in {"No Data", Promise!NoRow} /\ (answer = Promise!NoRow => kind.pending = "never")
  BY KindsOf DEF RequestTypeOK
<1>3. RequestTypeOK'
  BY <1>1, <1>2 DEF RequestTypeOK, Slots, Found, Promise!Answers
<1>4. \A k \in Slots : ~Under(k) /\ Unanswered(k) /\ k \notin files
  BY DEF OpenInv, ToMake
<1>5. OpenInv'
  BY <1>4 DEF OpenInv, Unanswered, Under, ToMake
<1>6. TrueInv'
  BY <1>1, <1>2, <1>4 DEF TrueInv, RequestTypeOK, Under, Slots, Unanswered, Promise!NoRow
<1>7. [Promise!Next]_rows
  <2>1. CASE answer = "No Data"
    <3>1. 1 \in Slots /\ rows[1] \in {Promise!NoRow, "Pending"} /\ answer \in Promise!Answers
      <4>1. 1 \in Slots
        BY DEF Slots
      <4>2. QED
        BY <1>4, <2>1, <4>1 DEF Unanswered, Promise!Answers
    <3>2. Promise!Answer(1)
      BY <1>1, <3>1 DEF Promise!Answer
    <3>3. QED
      BY <3>1, <3>2 DEF Promise!Next
  <2>2. CASE answer = Promise!NoRow
    BY <1>1, <1>2, <2>2 DEF OpenInv, RequestTypeOK, Slots
  <2>3. QED
    BY <1>2, <2>1, <2>2
<1>8. QED
  BY <1>3, <1>5, <1>6, <1>7

\* A selection of something, or a failure, leaves the rows alone.
LEMMA SelectKeeps ==
  ASSUME RequestInv,
         SelectBroken \/ SelectFilteredOut \/ SelectSome \/ Abandon \/ WriteEnd
  PROVE  RequestInv' /\ [Promise!Next]_rows
<1> USE DEF SelectBroken, SelectFilteredOut, SelectSome, Abandon, WriteEnd, RequestInv
<1>1. RequestTypeOK'
  <2>1. left' \in 0 .. MaxGroups
    <3>1. left' \in {left, 0, 1} \/ left' \in 1 .. MaxGroups
      OBVIOUS
    <3>2. left \in 0 .. MaxGroups
      BY DEF RequestTypeOK
    <3> HIDE DEF SelectBroken, SelectFilteredOut, SelectSome, Abandon, WriteEnd, RequestInv
    <3>3. QED
      BY <3>1, <3>2
  <2>2. step' \in {"write", "done", "dead"} /\ found' \in Found
    BY DEF RequestTypeOK, Found
  <2>3. QED
    BY <2>1, <2>2 DEF RequestTypeOK
<1>2. OpenInv'
  <2>1. \A k \in Slots : (Under(k)' => Under(k)) /\ (ToMake(k)' => ToMake(k))
    BY DEF Under, ToMake
  <2>2. step' = "write" => step = "select"
    OBVIOUS
  <2>3. step = "select" /\ kind.pending = "each" => \A k \in 1 .. left' : rows[k] = Promise!NoRow
    <3>1. left' \in 0 .. MaxGroups
      BY <1>1 DEF RequestTypeOK
    <3> HIDE DEF SelectBroken, SelectFilteredOut, SelectSome, Abandon, WriteEnd, RequestInv
    <3>2. \A k \in 1 .. left' : k \in Slots
      BY <3>1 DEF Slots
    <3>3. QED
      BY <3>2 DEF RequestInv, OpenInv
  <2>4. QED
    BY <2>1, <2>2, <2>3 DEF OpenInv, Unanswered
<1>3. TrueInv'
  BY DEF OpenInv, TrueInv, Unanswered, Under, ToMake, Promise!NoRow
<1>4. QED
  BY <1>1, <1>2, <1>3

\* A file is given to S3, its row opened first by the kinds that do so.
LEMMA WriteKeeps ==
  ASSUME RequestInv, Write
  PROVE  RequestInv' /\ [Promise!Next]_rows
<1> USE DEF Write, RequestInv
<1>0. left \in Slots /\ ToMake(left) /\ Unanswered(left) /\ ~Under(left)
  <2>1. left \in Slots
    BY DEF RequestTypeOK, Slots
  <2>2. QED
    BY <2>1 DEF RequestTypeOK, OpenInv, ToMake
<1>1. RequestTypeOK'
  <2>1. left' \in 0 .. MaxGroups
    BY DEF RequestTypeOK
  <2>2. rows' \in [Slots -> Promise!Answers \cup {"Pending", Promise!NoRow}]
    BY DEF RequestTypeOK
  <2>3. \A k \in Slots : saving'[k] # NoSave => k \notin flying'
    BY <1>0 DEF RequestTypeOK, Under
  <2>4. QED
    BY <1>0, <2>1, <2>2, <2>3 DEF RequestTypeOK
<1>2. \A k \in Slots : rows'[k] = IF k = left /\ kind.pending = "each" THEN "Pending" ELSE rows[k]
  BY <1>0 DEF RequestTypeOK
<1>3. OpenInv'
  <2>1. \A k \in Slots : Under(k)' \/ ToMake(k)' => Unanswered(k)'
    <3>1. \A k \in Slots : Under(k)' \/ ToMake(k)' => k = left \/ Under(k) \/ ToMake(k)
      <4>1. \A k \in Slots : ToMake(k)' => ToMake(k)
        BY DEF ToMake, RequestTypeOK, Slots
      <4>2. QED
        BY <4>1 DEF Under
    <3>2. QED
      BY <1>0, <1>2, <3>1 DEF OpenInv, Unanswered
  <2>2. \A k \in Slots : ToMake(k)' => ~Under(k)' /\ k \notin files'
    <3>1. \A k \in Slots : ToMake(k)' => ToMake(k) /\ k # left
      BY DEF ToMake, RequestTypeOK, Slots
    <3>2. QED
      BY <3>1 DEF OpenInv, Under
  <2>3. kind.pending = "each" => \A k \in 1 .. left' : rows'[k] = Promise!NoRow
    <3>1. \A k \in 1 .. left' : k \in 1 .. left /\ k \in Slots /\ k # left
      BY DEF RequestTypeOK, Slots
    <3>2. QED
      BY <1>2, <3>1 DEF OpenInv
  <2>4. QED
    BY <2>1, <2>2, <2>3 DEF OpenInv
<1>4. TrueInv'
  <2>1. found # "nothing"
    BY DEF TrueInv
  <2> HIDE DEF Write, RequestInv
  <2>2. \A k \in Slots : rows'[k] \in {"No Data", "Complete"} => rows'[k] = rows[k]
    BY <1>2
  <2> USE DEF Write, RequestInv
  <2>3. QED
    BY <2>1, <2>2 DEF TrueInv
<1>5. [Promise!Next]_rows
  <2>1. kind.pending = "each" => rows[left] = Promise!NoRow
    BY <1>0 DEF OpenInv, RequestTypeOK, Slots
  <2>2. QED
    BY <1>0, <2>1 DEF Promise!Next, Promise!Open
<1>6. QED
  BY <1>1, <1>3, <1>4, <1>5

\* S3 has a file, or refuses it: its answer is about to be saved.
LEMMA UploadKeeps ==
  ASSUME RequestInv, Upload \/ UploadFails
  PROVE  RequestInv' /\ [Promise!Next]_rows
<1> USE DEF Upload, UploadFails, RequestInv
<1>1. RequestTypeOK'
  <2>1. kind.failed \in {"Pending", "Complete", "Error"}
    BY KindsOf DEF RequestTypeOK
  <2>2. PICK k \in flying, answer \in {NoSave, "Complete", "Error"} :
          flying' = flying \ {k} /\ saving' = [saving EXCEPT ![k] = answer]
    BY <2>1
  <2>3. /\ saving' \in [Slots -> {NoSave, "Complete", "Error"}]
        /\ flying' \subseteq Slots /\ files' \subseteq Slots
    BY <2>2 DEF RequestTypeOK
  <2>4. \A j \in Slots : saving'[j] # NoSave => j \notin flying'
    <3> HIDE DEF Upload, UploadFails
    <3>1. QED
      BY <2>2 DEF RequestTypeOK
  <2>5. faults' \in 0 .. MaxFaults
    BY DEF RequestTypeOK
  <2>6. QED
    BY <2>3, <2>4, <2>5 DEF RequestTypeOK
<1>2. OpenInv'
  BY DEF OpenInv, RequestTypeOK, Unanswered, Under, ToMake
<1>3. TrueInv'
  BY KindsOf DEF TrueInv, RequestTypeOK
<1>4. QED
  BY <1>1, <1>2, <1>3

\* An answer is saved in a row that has none yet.
LEMMA SaveKeeps ==
  ASSUME RequestInv, Save
  PROVE  RequestInv' /\ [Promise!Next]_rows
<1>1. PICK k \in Slots :
        /\ saving[k] # NoSave
        /\ rows' = [rows EXCEPT ![k] = saving[k]]
        /\ saving' = [saving EXCEPT ![k] = NoSave]
        /\ UNCHANGED <<kind, step, found, left, files, flying, faults>>
  BY DEF Save
<1>2. saving[k] \in {"Complete", "Error"} /\ Unanswered(k) /\ ~ToMake(k) /\ k \notin flying
  BY <1>1 DEF RequestInv, RequestTypeOK, OpenInv, Under
<1>3. RequestTypeOK'
  BY <1>1, <1>2 DEF RequestInv, RequestTypeOK, Promise!Answers
<1>4. OpenInv'
  <2>1. \A j \in Slots : Under(j)' \/ ToMake(j)' => j # k /\ (Under(j) \/ ToMake(j))
    BY <1>1, <1>2 DEF Under, ToMake, RequestInv, RequestTypeOK
  <2>2. \A j \in Slots : j # k => rows'[j] = rows[j]
    BY <1>1
  <2>3. step \notin {"idle", "select"} /\ (step = "write" => k \notin 1 .. left)
    BY <1>2 DEF ToMake
  <2>4. \A j \in Slots : Under(j)' => Under(j)
    BY <1>1 DEF Under, RequestInv, RequestTypeOK
  <2>5. \A j \in 1 .. left : j \in Slots
    BY DEF RequestInv, RequestTypeOK, Slots
  <2>6. \A j \in Slots : ToMake(j)' = ToMake(j)
    BY <1>1 DEF ToMake
  <2>7. \A j \in Slots : Under(j)' \/ ToMake(j)' => Unanswered(j)'
    BY <2>1, <2>2 DEF RequestInv, OpenInv, Unanswered
  <2>8. QED
    BY <1>1, <2>2, <2>3, <2>4, <2>5, <2>6, <2>7 DEF RequestInv, OpenInv
<1>5. TrueInv'
  BY <1>1, <1>2 DEF RequestInv, TrueInv, RequestTypeOK
<1>6. [Promise!Next]_rows
  BY <1>1, <1>2 DEF Promise!Next, Promise!Answer, Promise!Answers, Unanswered
<1>7. RequestInv'
  BY <1>3, <1>4, <1>5 DEF RequestInv
<1>8. QED
  BY <1>6, <1>7

\* What is lost is answered no more.
LEMMA BreakKeeps ==
  ASSUME RequestInv, Break
  PROVE  RequestInv' /\ [Promise!Next]_rows
<1> USE DEF Break, RequestInv
<1>1. RequestTypeOK'
  <2>1. /\ saving' \in [Slots -> {NoSave, "Complete", "Error"}]
        /\ \A k \in Slots : saving'[k] # NoSave => saving[k] # NoSave
    BY DEF RequestTypeOK
  <2>2. flying' \subseteq flying /\ faults' \in 0 .. MaxFaults
    BY DEF RequestTypeOK
  <2>3. QED
    BY <2>1, <2>2 DEF RequestTypeOK
<1>2. OpenInv'
  BY DEF OpenInv, Unanswered, Under, ToMake
<1>3. TrueInv'
  BY DEF TrueInv
<1>4. QED
  BY <1>1, <1>2, <1>3

LEMMA RequestKeeps ==
  ASSUME RequestInv, RequestNext
  PROVE  RequestInv' /\ [Promise!Next]_rows
  BY BeginKeeps, SelectNothingKeeps, SelectKeeps, WriteKeeps, UploadKeeps, SaveKeeps, BreakKeeps
     DEF RequestNext, RequestStep

\* The streams read the rows and change none of them.
LEMMA StreamsKeep ==
  ASSUME RequestInv, UNCHANGED request
  PROVE  RequestInv' /\ [Promise!Next]_rows
  BY DEF request, RequestInv, RequestTypeOK, OpenInv, TrueInv, Unanswered, Under, ToMake

\* Every row of a request is answered once, however the report, its uploads,
\* their callbacks and the streams interleave (report.controller,
\* report.service), and truly: No Data is said of a selection of nothing only,
\* and Complete of a file in S3 where the callback looks at the error.
THEOREM PromiseKept == Spec => KeepsPromise
<1>1. Init => RequestInv /\ Promise!Init
  BY RequestStarts DEF Init
<1>2. RequestInv /\ [Next]_vars => RequestInv' /\ [Promise!Next]_rows
  <2> SUFFICES ASSUME RequestInv, [Next]_vars
               PROVE  RequestInv' /\ [Promise!Next]_rows
    OBVIOUS
  <2>1. CASE Request
    BY <2>1, RequestKeeps DEF Request
  <2>2. CASE \E c \in Connections : Open(c) \/ Poll(c)
    BY <2>2, StreamsKeep DEF Open, Poll
  <2>3. CASE StopStream
    BY <2>3, StreamsKeep DEF StopStream
  <2>4. CASE UNCHANGED vars
    BY <2>4, StreamsKeep DEF vars
  <2>5. QED
    BY <2>1, <2>2, <2>3, <2>4 DEF Next
<1>3. RequestInv => RequestTypeOK /\ TrueAnswers
  BY DEF RequestInv, TrueInv, TrueAnswers
<1>4. QED
  BY <1>1, <1>2, <1>3, PTL DEF Spec, KeepsPromise, Promise!Spec
=============================================================================
