----------------------------- MODULE OcLifecycle -----------------------------
(***************************************************************************)
(* The purchase orders (OC) of JDA as this service keeps them: released    *)
(* through jdaOcRelease, which marks them with a member of a workfile and  *)
(* lets a program of JDA release what the member lists; matched to a PI by *)
(* jdasync, which a cron job and an endpoint start; and cleaned by         *)
(* jdaOcResync.  A row is read, changed in memory and saved whole, so that *)
(* a release and a synchronisation overwrite each other's columns.         *)
(***************************************************************************)
EXTENDS Integers, FiniteSets

CONSTANTS
  Ocs,         \* the numbers JDA gives to OCs
  Pis,         \* the piNames of deliveries
  PiOf,        \* the piName in the note of an OC
  Releasers, Syncs,  \* requests of each kind at the same time
  Jobs,        \* connections of the pool, each a job of JDA
  MaxMembers,  \* bound on the releases
  MaxFaults    \* bound on the requests that fail or stop

ASSUME PiOfAssumption == PiOf \in [Ocs -> Pis]
ASSUME BoundsAssumption == MaxMembers \in Nat /\ MaxFaults \in Nat

Members == 1 .. MaxMembers
NoMember == 0
NoPi == "no pi"
\* OcJda: one row, or several, of an OC.
Row == [id: Nat, oc: Ocs, pi: Pis \cup {NoPi}, mbr: Members \cup {NoMember}]
\* The state of an OC in JDA (POSTAT, POMCAN).
JdaStates == {"none", "waiting", "active", "cancelled"}
NewRow == 0

VARIABLES
  jda,       \* the OCs of JDA
  approved,  \* the PIs of approved deliveries with units
  rows,      \* OcJda
  lastRow,   \* the last id given
  seq, names,  \* the sequence of oc_jda_mbr, and its members
  pc,        \* of a release: its next step,
  asks,      \* the numbers it was sent,
  name,      \* its member,
  toFind,    \* the OCs it has still to look for
  toSave,    \* and the rows it holds, to be saved
  syncFind,  \* of a synchronisation: the OCs it has still to look for,
  syncSave,  \* and the rows it holds
  doomed,    \* rows a resynchronisation deletes without awaiting it
  override, file,  \* the workfile of JDA: the member each job writes to, and
             \* what each member lists
  sent,      \* history: what the release of each member was sent
  strayed,   \* history: members whose numbers were sent to another
  alone,     \* history: no two requests have overlapped
  faults

db == <<approved, rows, lastRow, seq, names>>
release == <<pc, asks, name, toFind, toSave>>
sync == <<syncFind, syncSave>>
workfile == <<override, file, strayed>>
vars == <<jda, db, release, sync, doomed, workfile, sent, alone, faults>>

TypeOK ==
  /\ jda \in [Ocs -> JdaStates]
  /\ approved \subseteq Pis
  /\ rows \subseteq Row /\ lastRow \in Nat
  /\ seq \in Nat /\ names \subseteq Members
  /\ pc \in [Releasers -> {"idle", "sequence", "member", "rows",
                           "failed", "insert", "program"}]
  /\ asks \in [Releasers -> SUBSET Ocs]
  /\ name \in [Releasers -> Members \cup {NoMember}]
  /\ toFind \in [Releasers -> SUBSET Ocs]
  /\ toSave \in [Releasers -> SUBSET Row]
  /\ syncFind \in [Syncs -> SUBSET Ocs]
  /\ syncSave \in [Syncs -> SUBSET Row]
  /\ doomed \subseteq 1 .. lastRow
  /\ override \in [Jobs -> Members \cup {NoMember}]
  /\ strayed \subseteq Members
  /\ file \in [Members \cup {NoMember} -> SUBSET Ocs]
  /\ sent \in [Members -> SUBSET Ocs]
  /\ alone \in BOOLEAN
  /\ faults \in 0 .. MaxFaults
  \* The unique index of piname and ponumb, and the key.
  /\ \A x, y \in rows : x # y =>
       x.id # y.id /\ ~(x.oc = y.oc /\ x.pi = y.pi /\ x.pi # NoPi)

Init ==
  /\ jda = [o \in Ocs |-> "none"]
  /\ approved = {}
  /\ rows = {} /\ lastRow = 0
  /\ seq = 0 /\ names = {}
  /\ pc = [r \in Releasers |-> "idle"]
  /\ asks = [r \in Releasers |-> {}]
  /\ name = [r \in Releasers |-> NoMember]
  /\ toFind = [r \in Releasers |-> {}]
  /\ toSave = [r \in Releasers |-> {}]
  /\ syncFind = [y \in Syncs |-> {}]
  /\ syncSave = [y \in Syncs |-> {}]
  /\ doomed = {}
  /\ override = [j \in Jobs |-> NoMember]
  /\ strayed = {}
  /\ file = [m \in Members \cup {NoMember} |-> {}]
  /\ sent = [m \in Members |-> {}]
  /\ alone = TRUE
  /\ faults = 0

SyncIdle(y) == syncFind[y] = {} /\ syncSave[y] = {}
Settled == /\ \A r \in Releasers : pc[r] = "idle"
           /\ \A y \in Syncs : SyncIdle(y)
           /\ doomed = {}
Registered(o) == \E x \in rows : x.oc = o /\ x.pi = PiOf[o]
\* The rows of an OC as they are saved over: the held row takes the place of
\* the stored one of its id, and is stored again if that is gone.
Over(x) == {y \in rows : y.id # x.id} \cup {x}

\* The unique index of piname and ponumb.
Refused(x) == x.pi # NoPi /\ \E y \in rows : y.id # x.id /\ y.oc = x.oc /\ y.pi = x.pi

-----------------------------------------------------------------------------
\* JDA raises an OC, which waits for its release, and may cancel it.
JdaRaise ==
  /\ \E o \in Ocs : \/ jda[o] = "none" /\ jda' = [jda EXCEPT ![o] = "waiting"]
                    \/ jda[o] \in {"waiting", "active"} /\ jda' = [jda EXCEPT ![o] = "cancelled"]
  /\ UNCHANGED <<db, release, sync, doomed, workfile, sent, alone, faults>>

\* Other services approve deliveries, and revert them.
Approve ==
  /\ \E p \in Pis : approved' = IF p \in approved THEN approved \ {p} ELSE approved \cup {p}
  /\ UNCHANGED <<jda, rows, lastRow, seq, names, release, sync, doomed, workfile,
                 sent, alone, faults>>

-----------------------------------------------------------------------------
\* jdaOcRelease of some numbers, if JDA knows one of them.
ReleaseRead(r) ==
  /\ pc[r] = "idle" /\ seq < MaxMembers
  /\ \E numbers \in SUBSET Ocs :
       /\ \E o \in numbers : jda[o] # "none"
       /\ asks' = [asks EXCEPT ![r] = numbers]
       /\ toFind' = [toFind EXCEPT ![r] = {o \in numbers : jda[o] # "none"}]
  /\ pc' = [pc EXCEPT ![r] = "sequence"]
  /\ alone' = (alone /\ Settled)
  /\ UNCHANGED <<jda, db, name, toSave, sync, doomed, workfile, sent, faults>>

\* The name of the member is the next value of the sequence, as read.
SequenceRead(r) ==
  /\ pc[r] = "sequence" /\ seq < MaxMembers
  /\ name' = [name EXCEPT ![r] = seq + 1]
  /\ pc' = [pc EXCEPT ![r] = "member"]
  /\ UNCHANGED <<jda, db, asks, toFind, toSave, sync, doomed, workfile, sent,
                 alone, faults>>

Finish(r) ==
  /\ pc' = [pc EXCEPT ![r] = "idle"]
  /\ asks' = [asks EXCEPT ![r] = {}]
  /\ name' = [name EXCEPT ![r] = NoMember]
  /\ toFind' = [toFind EXCEPT ![r] = {}]
  /\ toSave' = [toSave EXCEPT ![r] = {}]

\* Mutant: the names are not unique.
MemberSaveAny(r) ==
  /\ pc[r] = "member"
  /\ seq' = seq + 1
  /\ names' = names \cup {name[r]}
  /\ sent' = [sent EXCEPT ![name[r]] = asks[r]]
  /\ pc' = [pc EXCEPT ![r] = "rows"]
  /\ UNCHANGED <<jda, approved, rows, lastRow, asks, name, toFind, toSave, sync,
                 doomed, workfile, alone, faults>>

\* The unique index refuses a name that another release took, and the
\* release with it.
MemberSave(r) ==
  /\ pc[r] = "member"
  /\ seq' = seq + 1
  /\ \/ /\ name[r] \in names
        /\ Finish(r)
        /\ UNCHANGED <<names, sent>>
     \/ /\ name[r] \notin names
        /\ names' = names \cup {name[r]}
        /\ sent' = [sent EXCEPT ![name[r]] = asks[r]]
        /\ pc' = [pc EXCEPT ![r] = "rows"]
        /\ UNCHANGED <<asks, name, toFind, toSave>>
  /\ UNCHANGED <<jda, approved, rows, lastRow, sync, doomed, workfile, alone,
                 faults>>

\* All of them together, each OC is looked for by its number and marked in
\* memory, or prepared as a row without a PI.
ReleaseFind(r) ==
  /\ pc[r] \in {"rows", "failed"}
  /\ \E o \in toFind[r] :
       LET found == {x \in rows : x.oc = o} IN
       /\ toFind' = [toFind EXCEPT ![r] = @ \ {o}]
       /\ \/ /\ found = {}
             /\ toSave' = [toSave EXCEPT ![r] = @ \cup
                  {[id |-> NewRow, oc |-> o, pi |-> NoPi, mbr |-> name[r]]}]
          \/ \E x \in found :
               toSave' = [toSave EXCEPT ![r] = @ \cup {[x EXCEPT !.mbr = name[r]]}]
  /\ UNCHANGED <<jda, db, pc, asks, name, sync, doomed, workfile, sent, alone,
                 faults>>

\* Stores the row x that a request holds, under an id of its own if new.
Store(x) ==
  \/ x.id = NewRow /\ rows' = rows \cup {[x EXCEPT !.id = lastRow + 1]} /\ lastRow' = lastRow + 1
  \/ x.id # NewRow /\ rows' = Over(x) /\ UNCHANGED lastRow

\* A row deleted meanwhile, whose OC and PI have a new row, would break the
\* unique index: the release fails, and its other rows are saved all the same.
ReleaseSave(r) ==
  /\ pc[r] \in {"rows", "failed"}
  /\ \E x \in toSave[r] :
       /\ toSave' = [toSave EXCEPT ![r] = @ \ {x}]
       /\ \/ /\ Refused(x)
             /\ pc' = [pc EXCEPT ![r] = "failed"]
             /\ UNCHANGED <<rows, lastRow>>
          \/ ~Refused(x) /\ Store(x) /\ UNCHANGED pc
  /\ UNCHANGED <<jda, approved, seq, names, asks, name, toFind, sync, doomed,
                 workfile, sent, alone, faults>>

ReleaseFailed(r) ==
  /\ pc[r] = "failed" /\ toFind[r] = {} /\ toSave[r] = {}
  /\ Finish(r)
  /\ UNCHANGED <<jda, db, sync, doomed, workfile, sent, alone, faults>>

\* When all are stored, the member is added and the workfile overridden, for
\* the job of the connection that serves the call.
Override(r) ==
  /\ pc[r] = "rows" /\ toFind[r] = {} /\ toSave[r] = {}
  /\ \E j \in Jobs : override' = [override EXCEPT ![j] = name[r]]
  /\ pc' = [pc EXCEPT ![r] = "insert"]
  /\ UNCHANGED <<jda, db, asks, name, toFind, toSave, sync, doomed, file, strayed, sent,
                 alone, faults>>

\* The numbers sent, those JDA does not know included, go to the member the
\* workfile is overridden with, for the job of the connection of this call.
Insert(r) ==
  /\ pc[r] = "insert"
  /\ \E j \in Jobs :
       /\ file' = [file EXCEPT ![override[j]] = @ \cup asks[r]]
       /\ strayed' = strayed \cup ({name[r]} \ {override[j]})
  /\ pc' = [pc EXCEPT ![r] = "program"]
  /\ UNCHANGED <<jda, db, asks, name, toFind, toSave, sync, doomed, override, sent,
                 alone, faults>>

\* Mutant: the program is started with no member.
ProgramNone(r) ==
  /\ pc[r] = "program"
  /\ Finish(r)
  /\ UNCHANGED <<jda, db, sync, doomed, workfile, sent, alone, faults>>

\* The program releases what the member lists.
Program(r) ==
  /\ pc[r] = "program"
  /\ jda' = [o \in Ocs |-> IF o \in file[name[r]] /\ jda[o] = "waiting"
                             THEN "active" ELSE jda[o]]
  /\ Finish(r)
  /\ UNCHANGED <<db, sync, doomed, workfile, sent, alone, faults>>

-----------------------------------------------------------------------------
\* Mutant: the OCs that wait for their release are matched too.
SyncReadWaiting(y) ==
  /\ SyncIdle(y)
  /\ LET pending == {p \in approved : \A x \in rows : x.pi # p} IN
     syncFind' = [syncFind EXCEPT ![y] = {o \in Ocs : jda[o] = "waiting" /\ PiOf[o] \in pending}]
  /\ syncFind'[y] # {}
  /\ alone' = (alone /\ Settled)
  /\ UNCHANGED <<jda, db, release, syncSave, doomed, workfile, sent, faults>>

\* jdasync: the PIs approved of which no OC is registered, and the OCs of
\* JDA with their name.
SyncRead(y) ==
  /\ SyncIdle(y)
  /\ LET pending == {p \in approved : \A x \in rows : x.pi # p} IN
     syncFind' = [syncFind EXCEPT ![y] = {o \in Ocs : jda[o] = "active" /\ PiOf[o] \in pending}]
  /\ syncFind'[y] # {}
  /\ alone' = (alone /\ Settled)
  /\ UNCHANGED <<jda, db, release, syncSave, doomed, workfile, sent, faults>>

\* Mutant: a row a release stored without a PI is not looked for.
SyncFindOwn(y) ==
  /\ \E o \in syncFind[y] :
       LET found == {x \in rows : x.oc = o /\ x.pi = PiOf[o]} IN
       /\ syncFind' = [syncFind EXCEPT ![y] = @ \ {o}]
       /\ \/ /\ found = {}
             /\ syncSave' = [syncSave EXCEPT ![y] = @ \cup
                  {[id |-> NewRow, oc |-> o, pi |-> PiOf[o], mbr |-> NoMember]}]
          \/ \E x \in found : syncSave' = [syncSave EXCEPT ![y] = @ \cup {x}]
  /\ UNCHANGED <<jda, db, release, doomed, workfile, sent, alone, faults>>

\* Each is looked for with its PI or with none, and given the PI in memory.
SyncFind(y) ==
  /\ \E o \in syncFind[y] :
       LET found == {x \in rows : x.oc = o /\ x.pi \in {PiOf[o], NoPi}} IN
       /\ syncFind' = [syncFind EXCEPT ![y] = @ \ {o}]
       /\ \/ /\ found = {}
             /\ syncSave' = [syncSave EXCEPT ![y] = @ \cup
                  {[id |-> NewRow, oc |-> o, pi |-> PiOf[o], mbr |-> NoMember]}]
          \/ \E x \in found :
               syncSave' = [syncSave EXCEPT ![y] = @ \cup {[x EXCEPT !.pi = PiOf[o]]}]
  /\ UNCHANGED <<jda, db, release, doomed, workfile, sent, alone, faults>>

\* A second row of the same OC and PI is refused; the others are saved all
\* the same, since nothing stops them.
SyncSave(y) ==
  /\ \E x \in syncSave[y] :
       /\ syncSave' = [syncSave EXCEPT ![y] = @ \ {x}]
       /\ \/ Refused(x) /\ UNCHANGED <<rows, lastRow>>
          \/ ~Refused(x) /\ Store(x)
  /\ UNCHANGED <<jda, approved, seq, names, release, syncFind, doomed, workfile, sent,
                 alone, faults>>

-----------------------------------------------------------------------------
\* jdaOcResync of one approved PI.  With an OC active in JDA it calls find on
\* the raw row and fails.  Otherwise it goes through OcJda rows of the
\* provider, the PI being filtered by a property that does not exist; at the
\* first one cancelled it starts its deletion and fails at an array that was
\* never made.
Resync ==
  /\ \E p \in approved :
       LET active == {o \in Ocs : PiOf[o] = p /\ jda[o] = "active"} IN
       /\ \/ active # {} /\ UNCHANGED doomed
          \/ /\ active = {}
             /\ \/ \E x \in rows : jda[x.oc] = "cancelled" /\ doomed' = doomed \cup {x.id}
                \/ UNCHANGED doomed
  /\ alone' = (alone /\ Settled)
  /\ UNCHANGED <<jda, db, release, sync, workfile, sent, faults>>

ResyncDelete ==
  /\ \E i \in doomed : /\ rows' = {x \in rows : x.id # i}
                       /\ doomed' = doomed \ {i}
  /\ UNCHANGED <<jda, approved, lastRow, seq, names, release, sync, workfile, sent,
                 alone, faults>>

-----------------------------------------------------------------------------
\* A query or a call to JDA fails, or the process stops.
Lose ==
  /\ faults < MaxFaults
  /\ faults' = faults + 1
  /\ \/ \E r \in Releasers : pc[r] # "idle" /\ Finish(r) /\ UNCHANGED <<sync, doomed>>
     \/ \E y \in Syncs :
          /\ ~SyncIdle(y)
          /\ syncFind' = [syncFind EXCEPT ![y] = {}]
          /\ syncSave' = [syncSave EXCEPT ![y] = {}]
          /\ UNCHANGED <<release, doomed>>
     \/ \E i \in doomed : doomed' = doomed \ {i} /\ UNCHANGED <<release, sync>>
  /\ UNCHANGED <<jda, db, workfile, sent, alone>>

ReleaseStep(r) ==
  \/ SequenceRead(r) \/ MemberSave(r) \/ ReleaseFind(r) \/ ReleaseSave(r)
  \/ ReleaseFailed(r) \/ Override(r) \/ Insert(r) \/ Program(r)

SyncStep(y) == SyncRead(y) \/ SyncFind(y) \/ SyncSave(y)

Next ==
  \/ JdaRaise \/ Approve \/ Resync \/ ResyncDelete \/ Lose
  \/ \E r \in Releasers : ReleaseRead(r) \/ ReleaseStep(r)
  \/ \E y \in Syncs : SyncStep(y)

Spec == Init /\ [][Next]_vars

\* Queries are answered, and the synchronisation is started again and again
\* by its cron job.
FairSpec ==
  /\ Spec
  /\ WF_vars(ResyncDelete)
  /\ \A r \in Releasers : WF_vars(ReleaseStep(r))
  /\ \A y \in Syncs : WF_vars(SyncStep(y))

-----------------------------------------------------------------------------
\* An OC is marked as released with the member of a request that was sent
\* its number, and no other request under way has that member, however the
\* requests for members interleave and whatever a synchronisation saves over
\* the row (jdaoc.service 75-104).
MarkedBySender ==
  /\ \A x \in rows : x.mbr # NoMember => x.oc \in sent[x.mbr]
  /\ \A r, q \in Releasers :
       {pc[r], pc[q]} \subseteq {"rows", "insert", "program"} /\ name[r] = name[q]
         => r = q

\* The types hold, and while no two requests have overlapped an OC has one
\* row, though it is stored by releases without a PI and by synchronisations
\* with one (jdaoc.service 79-99, jdaocsync.service 111-127).
OneRowPerOc ==
  /\ TypeOK
  /\ alone => \A x, y \in rows : x.oc = y.oc => x = y

\* What the program of a release could do without overlapping requests and
\* failures: JDA has released an OC marked with its member, if the connection
\* that sent the numbers was one whose job writes to that member (jdaoc.service
\* 79-104).  A PI is only ever matched with OCs that JDA has released or
\* cancelled since (jdaocsync.service 73-79).
MarkedIsReleased ==
  \A x \in rows :
    (x.mbr \notin strayed \cup {NoMember} /\ alone /\ faults = 0 /\ Settled) \/ x.pi # NoPi
      => jda[x.oc] \in {"active", "cancelled"}

\* A PI that stays approved, with OCs that stay active, has one of them
\* registered in the end and for good, though releases save rows read
\* earlier over its registration (jdaocsync.service 34-130).
PiRegistered ==
  \A p \in Pis :
    <>[](p \in approved /\ \E o \in Ocs : PiOf[o] = p /\ jda[o] = "active")
      => <>[](\E x \in rows : x.pi = p)
=============================================================================
