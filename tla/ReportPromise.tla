---------------------------- MODULE ReportPromise ----------------------------
(***************************************************************************)
(* What a row of RequestReport promises to the client that polls it: it    *)
(* may appear as Pending, it is answered once, and the answer stays.       *)
(***************************************************************************)
CONSTANT Slots   \* the rows a request may leave

VARIABLE answer

Answers == {"No Data", "Complete", "Error"}
NoRow == "no row"

Init == answer = [s \in Slots |-> NoRow]

Open(s) ==
  /\ answer[s] = NoRow
  /\ answer' = [answer EXCEPT ![s] = "Pending"]

Answer(s) ==
  /\ answer[s] \in {NoRow, "Pending"}
  /\ \E a \in Answers : answer' = [answer EXCEPT ![s] = a]

Next == \E s \in Slots : Open(s) \/ Answer(s)

Spec == Init /\ [][Next]_answer
=============================================================================
