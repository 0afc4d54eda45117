----------------------------- MODULE ReportStream -----------------------------
(***************************************************************************)
(* The event streams by which clients poll the rows of their requests: a   *)
(* timer of each connection, kept in a map of its type of report by the    *)
(* subscription id, until its last iteration or a request to stop it.      *)
(***************************************************************************)
EXTENDS Integers

CONSTANTS
  Connections,  \* the connections clients may open to this instance
  Ids,          \* subscription ids
  Limit         \* the iteration at which a timer ends itself (20)

ASSUME LimitAssumption == Limit \in Nat \ {0}

\* The types with a map, and those without: Sku and JdaOcRelease.
MappedTypes == {"mapped"}
Types == MappedTypes \cup {"other"}
NoConnection == "none"

VARIABLES
  sub,       \* the id and type a connection was opened with
  running,   \* its timer goes on
  ticks,     \* its iterations so far
  entry      \* the maps: the timer of an id, of each type

stream == <<sub, running, ticks, entry>>

NoSub == [id |-> "none", type |-> "other"]

StreamTypeOK ==
  /\ sub \in [Connections -> [id: Ids, type: Types] \cup {NoSub}]
  /\ running \in [Connections -> BOOLEAN]
  /\ ticks \in [Connections -> 0 .. Limit + 1]
  /\ entry \in [MappedTypes -> [Ids -> Connections \cup {NoConnection}]]

StreamInit ==
  /\ sub = [c \in Connections |-> NoSub]
  /\ running = [c \in Connections |-> FALSE]
  /\ ticks = [c \in Connections |-> 0]
  /\ entry = [t \in MappedTypes |-> [i \in Ids |-> NoConnection]]

\* The timer of a connection replaces the entry of another of the same id.
Connect(c) ==
  /\ sub[c] = NoSub
  /\ \E i \in Ids, t \in Types :
       /\ sub' = [sub EXCEPT ![c] = [id |-> i, type |-> t]]
       /\ entry' = IF t \in MappedTypes THEN [entry EXCEPT ![t][i] = c] ELSE entry
  /\ running' = [running EXCEPT ![c] = TRUE]
  /\ UNCHANGED ticks

\* Ends the timer in the entry, whosever it is.
Unsubscribe(i, t) ==
  /\ running' = [running EXCEPT ![entry[t][i]] = FALSE]
  /\ entry' = [entry EXCEPT ![t][i] = NoConnection]

\* Mutant: the last iteration is not looked for.
TickLate(c) ==
  /\ running[c]
  /\ ticks' = [ticks EXCEPT ![c] = IF @ > Limit THEN @ ELSE @ + 1]
  /\ UNCHANGED <<running, entry, sub>>

\* An iteration.  At the last one the timer in the entry is ended; without
\* an entry the iteration fails and the timer goes on, as it does after it.
Tick(c) ==
  /\ running[c]
  /\ ticks' = [ticks EXCEPT ![c] = IF @ > Limit THEN @ ELSE @ + 1]
  /\ IF ticks[c] = Limit /\ sub[c].type \in MappedTypes
          /\ entry[sub[c].type][sub[c].id] # NoConnection
       THEN Unsubscribe(sub[c].id, sub[c].type)
       ELSE UNCHANGED <<running, entry>>
  /\ UNCHANGED sub

\* stopGetReportUrl, of the instance that serves the stream.
Stop(i, t) ==
  /\ t \in MappedTypes /\ entry[t][i] # NoConnection
  /\ Unsubscribe(i, t)
  /\ UNCHANGED <<sub, ticks>>

\* The iteration sends the rows unless it failed before it read them.
Sends(c) ==
  ~(ticks[c] = Limit /\ sub[c].type \in MappedTypes
      /\ entry[sub[c].type][sub[c].id] = NoConnection)

\* The id of a connection is of no other.
Own(c) == \A d \in Connections : d # c => sub[d].id # sub[c].id

-----------------------------------------------------------------------------
\* A stream of a type with a map, whose id no other connection has used,
\* ends: after its last iteration nothing goes on.
StreamsEnd ==
  \A c \in Connections :
    running[c] ~> ~running[c] \/ ~Own(c) \/ sub[c].type \notin MappedTypes
=============================================================================
