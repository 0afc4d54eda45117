------------------------------- MODULE Reports -------------------------------
(***************************************************************************)
(* A request for a report and the streams that poll its rows.  They meet   *)
(* in the table RequestReport: an iteration reads it, and a request to     *)
(* stop deletes the rows of its subscription, softly, while the report may *)
(* be saving them still.                                                   *)
(***************************************************************************)
EXTENDS ReportRequest, ReportStream

CONSTANT RequestId   \* the subscription id sent with the request

ASSUME IdAssumption == RequestId \in Ids

VARIABLES
  deleted,  \* rows of the request have been deleted, whatever came back since
  told      \* an iteration of a connection has sent all the answers

vars == <<request, stream, deleted, told>>

Init ==
  /\ RequestInit /\ StreamInit
  /\ deleted = FALSE
  /\ told = [c \in Connections |-> FALSE]

Complete == step = "done" /\ Answered /\ ~deleted

\* A step of the report.
Request == RequestNext /\ UNCHANGED <<stream, deleted, told>>

\* Mutant: only the rows of the types with a map are sent.
PollMapped(c) ==
  /\ Tick(c)
  /\ told' = [told EXCEPT ![c] =
       @ \/ (Sends(c) /\ sub[c].type \in MappedTypes /\ sub[c].id = RequestId /\ Complete)]
  /\ UNCHANGED <<request, deleted>>

\* An iteration of a stream reads the rows of its id, of whatever type.
Poll(c) ==
  /\ Tick(c)
  /\ told' = [told EXCEPT ![c] = @ \/ (Sends(c) /\ sub[c].id = RequestId /\ Complete)]
  /\ UNCHANGED <<request, deleted>>

Open(c) == Connect(c) /\ UNCHANGED <<request, deleted, told>>

\* The rows are deleted whether or not the stream is found.
StopStream ==
  /\ \E i \in Ids, t \in Types :
       /\ \/ Stop(i, t)
          \/ ~(t \in MappedTypes /\ entry[t][i] # NoConnection) /\ UNCHANGED stream
       /\ deleted' = (deleted \/ (i = RequestId /\ Used # {}))
  /\ UNCHANGED <<request, told>>

Next ==
  \/ Request
  \/ \E c \in Connections : Open(c) \/ Poll(c)
  \/ StopStream

Spec == Init /\ [][Next]_vars

\* Queries, services and S3 answer, and timers fire.
FairSpec ==
  /\ Spec
  /\ WF_vars(Request /\ RequestStep)
  /\ \A c \in Connections : WF_vars(Poll(c))

-----------------------------------------------------------------------------
\* The answers of a request are sent to a connection of its id that has
\* still an iteration to come when they are all there, unless the rows or
\* the stream are ended first (report.controller 51-90).
AnswerSent ==
  \A c \in Connections :
    Complete /\ running[c] /\ sub[c].id = RequestId /\ ticks[c] < Limit
      ~> told[c] \/ deleted \/ ~running[c]
=============================================================================
