-------------------------- MODULE OcLifecycleProofs --------------------------
(***************************************************************************)
(* For any OCs, PIs, requests, members and failures: an OC is marked with  *)
(* the member of a release that was sent it; no two requests hold the same *)
(* member; an OC has one row while requests do not overlap; and it is      *)
(* marked, or given a PI, only when JDA releases it.                       *)
(***************************************************************************)
EXTENDS OcLifecycle, TLAPS

USE PiOfAssumption, BoundsAssumption DEF db, release, sync, workfile, NewRow, NoMember

\* A release that has stored its member.
Holds(r) == pc[r] \in {"rows", "failed", "insert", "program"}

\* The ids of the rows stored have been given, those of the rows held too, and
\* a release that stores its member, or has, has one.
TypeInv ==
  /\ TypeOK
  /\ \A x \in rows : x.id \in 1 .. lastRow
  /\ \A r \in Releasers : \A x \in toSave[r] : x.id \in 0 .. lastRow
  /\ \A y \in Syncs : \A x \in syncSave[y] : x.id \in 0 .. lastRow
  /\ \A r \in Releasers : pc[r] = "member" \/ Holds(r) => name[r] \in Members

Marked(x) == x.mbr # NoMember => x.mbr \in names /\ x.oc \in sent[x.mbr]

\* A member belongs to the release that stored its name, whose numbers alone
\* are marked with it, in the rows stored and in those held.
NameInv ==
  /\ \A r \in Releasers : Holds(r) => name[r] \in names /\ sent[name[r]] = asks[r]
  /\ \A r, q \in Releasers : Holds(r) /\ Holds(q) /\ name[r] = name[q] => r = q
  /\ \A r \in Releasers : toFind[r] \subseteq asks[r]
  /\ \A r \in Releasers : \A x \in toSave[r] :
       Holds(r) /\ x.mbr = name[r] /\ x.oc \in asks[r]
  /\ \A x \in rows : Marked(x)
  /\ \A y \in Syncs : \A x \in syncSave[y] : Marked(x)

\* JDA has released the OC, or cancelled it since.
Given(o) == jda[o] \in {"active", "cancelled"}
Matched(x) == x.pi # NoPi => x.pi = PiOf[x.oc] /\ Given(x.oc)

\* Only OCs that JDA has released are given a PI, and that of their note; a
\* release holds only OCs that JDA knows.
MatchInv ==
  /\ \A x \in rows : Matched(x)
  /\ \A r \in Releasers : \A x \in toSave[r] : Matched(x) /\ jda[x.oc] # "none"
  /\ \A r \in Releasers : \A o \in toFind[r] : jda[o] # "none"
  /\ \A y \in Syncs : \A o \in syncFind[y] : Given(o)
  /\ \A y \in Syncs : \A x \in syncSave[y] : x.pi = PiOf[x.oc] /\ Given(x.oc)

OneRow == \A x, y \in rows : x.oc = y.oc => x = y

\* At most one request is under way.
Exclusive ==
  /\ \A r, q \in Releasers : pc[r] # "idle" /\ pc[q] # "idle" => r = q
  /\ \A y, z \in Syncs : ~SyncIdle(y) /\ ~SyncIdle(z) => y = z
  /\ \A r \in Releasers, y \in Syncs : pc[r] = "idle" \/ SyncIdle(y)
  /\ doomed # {} => (\A r \in Releasers : pc[r] = "idle") /\ (\A y \in Syncs : SyncIdle(y))

\* A row that is held is the first of its OC, or is still stored.
Fresh(x) ==
  \/ x.id = NewRow /\ \A z \in rows : z.oc # x.oc
  \/ x.id # NewRow /\ \E z \in rows : z.id = x.id /\ z.oc = x.oc

\* The OCs a request has to look for, and the rows it holds, one of each OC.
HeldWell(find, save) ==
  /\ \A x \in save : x.oc \notin find /\ Fresh(x)
  /\ \A x, z \in save : x.oc = z.oc => x = z

AloneInv ==
  alone =>
    /\ OneRow
    /\ Exclusive
    /\ \A r \in Releasers : HeldWell(toFind[r], toSave[r])
    /\ \A y \in Syncs : HeldWell(syncFind[y], syncSave[y])

\* JDA has released what the row is marked with, or the numbers of its member
\* went to another, or the release of its member is on its way.
Accounted(x) ==
  x.mbr # NoMember =>
    \/ Given(x.oc) \/ x.mbr \in strayed
    \/ jda[x.oc] # "none" /\ \E r \in Releasers : Holds(r) /\ name[r] = x.mbr

\* Nothing fails, and a release has its numbers in its member before it starts
\* the program, unless they went to another.
ReleaseInv ==
  alone /\ faults = 0 =>
    /\ \A r \in Releasers : pc[r] # "failed"
    /\ \A r \in Releasers :
         pc[r] = "program" => asks[r] \subseteq file[name[r]] \/ name[r] \in strayed
    /\ \A x \in rows : Accounted(x)

IInv == TypeInv /\ NameInv /\ MatchInv /\ AloneInv /\ ReleaseInv

-----------------------------------------------------------------------------
\* What the proofs need of the rows.

\* A row with another member, another PI or another id.
LEMMA RowChanges ==
  ASSUME NEW x \in Row
  PROVE  /\ \A m \in Members \cup {NoMember} : \A z \in {[x EXCEPT !.mbr = m]} :
              z \in Row /\ z.id = x.id /\ z.oc = x.oc /\ z.pi = x.pi /\ z.mbr = m
         /\ \A p \in Pis : \A z \in {[x EXCEPT !.pi = p]} :
              z \in Row /\ z.id = x.id /\ z.oc = x.oc /\ z.pi = p /\ z.mbr = x.mbr
         /\ \A i \in Nat : \A z \in {[x EXCEPT !.id = i]} :
              z \in Row /\ z.id = i /\ z.oc = x.oc /\ z.pi = x.pi /\ z.mbr = x.mbr
  BY DEF Row

\* The row z is stored for the row x that a request held: in place of the row
\* of its id, or under a new id.
Written(x, z) ==
  /\ z \in Row /\ z.oc = x.oc /\ z.pi = x.pi /\ z.mbr = x.mbr
  /\ rows' = {y \in rows : y.id # z.id} \cup {z}
  /\ \/ x.id = NewRow /\ z.id = lastRow + 1 /\ lastRow' = lastRow + 1
     \/ x.id # NewRow /\ z.id = x.id /\ lastRow' = lastRow

LEMMA StoreWrites ==
  ASSUME TypeInv, NEW x \in Row, Store(x)
  PROVE  \E z \in Row : Written(x, z)
<1>1. lastRow \in Nat /\ \A y \in rows : y.id \in 1 .. lastRow
  BY DEF TypeInv, TypeOK
<1>2. CASE x.id = NewRow
  <2> DEFINE z == [x EXCEPT !.id = lastRow + 1]
  <2>1. z \in Row /\ z.id = lastRow + 1 /\ z.oc = x.oc /\ z.pi = x.pi /\ z.mbr = x.mbr
    <3>1. lastRow + 1 \in Nat
      BY <1>1
    <3>2. QED
      BY <3>1, RowChanges
  <2>2. rows' = rows \cup {z} /\ lastRow' = lastRow + 1
    BY <1>2 DEF Store
  <2> HIDE DEF z
  <2>3. rows = {y \in rows : y.id # z.id}
    BY <1>1, <2>1
  <2>4. QED
    BY <1>2, <2>1, <2>2, <2>3 DEF Written
<1>3. CASE x.id # NewRow
  BY <1>3 DEF Store, Over, Written
<1>4. QED
  BY <1>2, <1>3

\* What a release has found of the OC o, and holds as z.
Found(r, o, z) ==
  /\ z \in Row /\ z.oc = o /\ z.mbr = name[r]
  /\ \/ z.id = NewRow /\ z.pi = NoPi /\ \A x \in rows : x.oc # o
     \/ \E x \in rows : x.oc = o /\ z.id = x.id /\ z.pi = x.pi

LEMMA ReleaseFinds ==
  ASSUME TypeInv, NEW r \in Releasers, ReleaseFind(r)
  PROVE  \E o \in toFind[r], z \in Row :
           /\ Found(r, o, z)
           /\ toFind' = [toFind EXCEPT ![r] = @ \ {o}]
           /\ toSave' = [toSave EXCEPT ![r] = @ \cup {z}]
<1>1. PICK o \in toFind[r] :
        /\ toFind' = [toFind EXCEPT ![r] = @ \ {o}]
        /\ \/ /\ {x \in rows : x.oc = o} = {}
              /\ toSave' = [toSave EXCEPT ![r] = @ \cup
                   {[id |-> NewRow, oc |-> o, pi |-> NoPi, mbr |-> name[r]]}]
           \/ \E x \in {y \in rows : y.oc = o} :
                toSave' = [toSave EXCEPT ![r] = @ \cup {[x EXCEPT !.mbr = name[r]]}]
  BY DEF ReleaseFind
<1>2. o \in Ocs /\ name[r] \in Members \cup {NoMember} /\ rows \subseteq Row
  BY DEF TypeInv, TypeOK
<1>3. CASE /\ {x \in rows : x.oc = o} = {}
           /\ toSave' = [toSave EXCEPT ![r] = @ \cup
                {[id |-> NewRow, oc |-> o, pi |-> NoPi, mbr |-> name[r]]}]
  <2> DEFINE z == [id |-> NewRow, oc |-> o, pi |-> NoPi, mbr |-> name[r]]
  <2>1. z \in Row /\ z.oc = o /\ z.mbr = name[r] /\ z.id = NewRow /\ z.pi = NoPi
    BY <1>2 DEF Row
  <2>2. toSave' = [toSave EXCEPT ![r] = @ \cup {z}] /\ \A x \in rows : x.oc # o
    BY <1>3
  <2> HIDE DEF z
  <2>3. QED
    BY <1>1, <2>1, <2>2 DEF Found
<1>4. ASSUME NEW x \in rows, x.oc = o,
             toSave' = [toSave EXCEPT ![r] = @ \cup {[x EXCEPT !.mbr = name[r]]}]
      PROVE  \E z \in Row : Found(r, o, z) /\ toSave' = [toSave EXCEPT ![r] = @ \cup {z}]
  <2> DEFINE z == [x EXCEPT !.mbr = name[r]]
  <2>1. z \in Row /\ z.id = x.id /\ z.oc = o /\ z.pi = x.pi /\ z.mbr = name[r]
    BY <1>2, <1>4, RowChanges
  <2>2. toSave' = [toSave EXCEPT ![r] = @ \cup {z}]
    BY <1>4
  <2> HIDE DEF z
  <2>3. QED
    BY <1>4, <2>1, <2>2 DEF Found
<1>5. QED
  BY <1>1, <1>3, <1>4

\* And a synchronisation, which looks for the OC with its PI or with none.
Matches(o, z) ==
  /\ z \in Row /\ z.oc = o /\ z.pi = PiOf[o]
  /\ \/ z.id = NewRow /\ z.mbr = NoMember /\ \A x \in rows : x.oc = o => x.pi \notin {PiOf[o], NoPi}
     \/ \E x \in rows : x.oc = o /\ z.id = x.id /\ z.mbr = x.mbr

LEMMA SyncFinds ==
  ASSUME TypeInv, NEW y \in Syncs, SyncFind(y)
  PROVE  \E o \in syncFind[y], z \in Row :
           /\ Matches(o, z)
           /\ syncFind' = [syncFind EXCEPT ![y] = @ \ {o}]
           /\ syncSave' = [syncSave EXCEPT ![y] = @ \cup {z}]
<1>1. PICK o \in syncFind[y] :
        /\ syncFind' = [syncFind EXCEPT ![y] = @ \ {o}]
        /\ \/ /\ {x \in rows : x.oc = o /\ x.pi \in {PiOf[o], NoPi}} = {}
              /\ syncSave' = [syncSave EXCEPT ![y] = @ \cup
                   {[id |-> NewRow, oc |-> o, pi |-> PiOf[o], mbr |-> NoMember]}]
           \/ \E x \in {w \in rows : w.oc = o /\ w.pi \in {PiOf[o], NoPi}} :
                syncSave' = [syncSave EXCEPT ![y] = @ \cup {[x EXCEPT !.pi = PiOf[o]]}]
  BY DEF SyncFind
<1>2. o \in Ocs /\ PiOf[o] \in Pis /\ rows \subseteq Row
  BY DEF TypeInv, TypeOK
<1>3. CASE /\ {x \in rows : x.oc = o /\ x.pi \in {PiOf[o], NoPi}} = {}
           /\ syncSave' = [syncSave EXCEPT ![y] = @ \cup
                {[id |-> NewRow, oc |-> o, pi |-> PiOf[o], mbr |-> NoMember]}]
  <2> DEFINE z == [id |-> NewRow, oc |-> o, pi |-> PiOf[o], mbr |-> NoMember]
  <2>1. z \in Row /\ z.oc = o /\ z.mbr = NoMember /\ z.id = NewRow /\ z.pi = PiOf[o]
    BY <1>2 DEF Row
  <2>2. /\ syncSave' = [syncSave EXCEPT ![y] = @ \cup {z}]
        /\ \A x \in rows : x.oc = o => x.pi \notin {PiOf[o], NoPi}
    BY <1>3
  <2> HIDE DEF z
  <2>3. QED
    BY <1>1, <2>1, <2>2 DEF Matches
<1>4. ASSUME NEW x \in rows, x.oc = o,
             syncSave' = [syncSave EXCEPT ![y] = @ \cup {[x EXCEPT !.pi = PiOf[o]]}]
      PROVE  \E z \in Row : Matches(o, z) /\ syncSave' = [syncSave EXCEPT ![y] = @ \cup {z}]
  <2> DEFINE z == [x EXCEPT !.pi = PiOf[o]]
  <2>1. z \in Row /\ z.id = x.id /\ z.oc = o /\ z.mbr = x.mbr /\ z.pi = PiOf[o]
    BY <1>2, <1>4, RowChanges
  <2>2. syncSave' = [syncSave EXCEPT ![y] = @ \cup {z}]
    BY <1>4
  <2> HIDE DEF z
  <2>3. QED
    BY <1>4, <2>1, <2>2 DEF Matches
<1>5. QED
  BY <1>1, <1>3, <1>4

\* A release, or a synchronisation, that saves a row it holds stores it, or is
\* refused by the unique index and stores nothing.
LEMMA ReleaseSaves ==
  ASSUME TypeInv, NEW r \in Releasers, ReleaseSave(r)
  PROVE  \E x \in toSave[r] :
           /\ x \in Row /\ x.id \in 0 .. lastRow
           /\ toSave' = [toSave EXCEPT ![r] = @ \ {x}]
           /\ \/ /\ Refused(x) /\ pc' = [pc EXCEPT ![r] = "failed"]
                 /\ UNCHANGED <<rows, lastRow>>
              \/ ~Refused(x) /\ UNCHANGED pc /\ \E z \in Row : Written(x, z)
<1>1. \A x \in toSave[r] : x \in Row /\ x.id \in 0 .. lastRow
  BY DEF TypeInv, TypeOK
<1>2. QED
  BY <1>1, StoreWrites DEF ReleaseSave

LEMMA SyncSaves ==
  ASSUME TypeInv, NEW y \in Syncs, SyncSave(y)
  PROVE  \E x \in syncSave[y] :
           /\ x \in Row /\ x.id \in 0 .. lastRow
           /\ syncSave' = [syncSave EXCEPT ![y] = @ \ {x}]
           /\ \/ UNCHANGED <<rows, lastRow>>
              \/ ~Refused(x) /\ \E z \in Row : Written(x, z)
<1>1. \A x \in syncSave[y] : x \in Row /\ x.id \in 0 .. lastRow
  BY DEF TypeInv, TypeOK
<1>2. QED
  BY <1>1, StoreWrites DEF SyncSave

-----------------------------------------------------------------------------
\* The types.

LEMMA TypeInit == Init => TypeInv
<1> SUFFICES ASSUME Init PROVE TypeInv
  OBVIOUS
<1>1. /\ jda \in [Ocs -> JdaStates] /\ approved \subseteq Pis /\ names \subseteq Members
      /\ pc \in [Releasers -> {"idle", "sequence", "member", "rows", "failed", "insert", "program"}]
  BY DEF Init, JdaStates
<1>2. /\ asks \in [Releasers -> SUBSET Ocs] /\ toFind \in [Releasers -> SUBSET Ocs]
      /\ name \in [Releasers -> Members \cup {NoMember}]
      /\ toSave = [r \in Releasers |-> {}] /\ toSave \in [Releasers -> SUBSET Row]
  BY DEF Init
<1>3. /\ syncFind \in [Syncs -> SUBSET Ocs]
      /\ syncSave = [y \in Syncs |-> {}] /\ syncSave \in [Syncs -> SUBSET Row]
  BY DEF Init
<1>4. /\ override \in [Jobs -> Members \cup {NoMember}] /\ alone \in BOOLEAN /\ strayed = {}
      /\ file \in [Members \cup {NoMember} -> SUBSET Ocs]
      /\ sent \in [Members -> SUBSET Ocs]
  BY DEF Init
<1>5. rows = {} /\ lastRow = 0 /\ seq = 0 /\ doomed = {} /\ faults = 0
  BY DEF Init
<1>6. faults \in 0 .. MaxFaults /\ \A r \in Releasers : pc[r] = "idle"
  BY <1>5 DEF Init
<1>7. TypeOK
  BY <1>1, <1>2, <1>3, <1>4, <1>5, <1>6 DEF TypeOK
<1>8. QED
  BY <1>2, <1>3, <1>5, <1>6, <1>7 DEF TypeInv, Holds

\* A row stored has an id that was given and is of no other row, nor are its
\* OC and PI.
LEMMA TypeWritten ==
  ASSUME TypeInv, NEW x \in Row, ~Refused(x), NEW z \in Row, Written(x, z),
         x.id \in 0 .. lastRow
  PROVE  /\ rows' \subseteq Row /\ lastRow' \in Nat /\ lastRow <= lastRow'
         /\ \A w \in rows' : w.id \in 1 .. lastRow'
         /\ \A v, w \in rows' : v # w =>
              v.id # w.id /\ ~(v.oc = w.oc /\ v.pi = w.pi /\ v.pi # NoPi)
<1>1. /\ lastRow \in Nat /\ rows \subseteq Row /\ \A y \in rows : y.id \in 1 .. lastRow
      /\ \A v, w \in rows : v # w =>
           v.id # w.id /\ ~(v.oc = w.oc /\ v.pi = w.pi /\ v.pi # NoPi)
  BY DEF TypeInv, TypeOK
<1>2. lastRow' \in Nat /\ lastRow <= lastRow' /\ z.id \in 1 .. lastRow'
  BY <1>1 DEF Written
<1>3. rows' = {y \in rows : y.id # z.id} \cup {z}
  BY DEF Written
<1>4. \A y \in rows : y.id # z.id => ~(y.oc = z.oc /\ y.pi = z.pi /\ y.pi # NoPi)
  <2>1. \A y \in rows : y.id # x.id => ~(y.oc = x.oc /\ y.pi = x.pi /\ y.pi # NoPi)
    BY DEF Refused
  <2>2. \A y \in rows : y.id # z.id => y.id # x.id
    BY <1>1 DEF Written
  <2>3. QED
    BY <2>1, <2>2 DEF Written
<1>5. \A w \in rows' : w.id \in 1 .. lastRow'
  <2>1. \A w \in rows : w.id \in 1 .. lastRow'
    BY <1>1, <1>2
  <2>2. QED
    BY <1>2, <1>3, <2>1
<1>6. \A v, w \in rows' : v # w =>
        v.id # w.id /\ ~(v.oc = w.oc /\ v.pi = w.pi /\ v.pi # NoPi)
  BY <1>1, <1>3, <1>4
<1>7. QED
  BY <1>1, <1>2, <1>3, <1>5, <1>6

\* Settled is Boolean, as alone is where it meets it.
LEMMA SettledType == Settled \in BOOLEAN
  BY DEF Settled

LEMMA FinishType ==
  ASSUME TypeInv, NEW r \in Releasers, Finish(r)
  PROVE  /\ pc' \in [Releasers -> {"idle", "sequence", "member", "rows", "failed",
                                   "insert", "program"}]
         /\ asks' \in [Releasers -> SUBSET Ocs] /\ toFind' \in [Releasers -> SUBSET Ocs]
         /\ name' \in [Releasers -> Members \cup {NoMember}]
         /\ toSave' \in [Releasers -> SUBSET Row]
         /\ \A q \in Releasers : toSave'[q] \subseteq toSave[q]
         /\ \A q \in Releasers : pc'[q] = "member" \/ Holds(q)' => name'[q] \in Members
  BY DEF TypeInv, TypeOK, Finish, Holds

LEMMA TypeNext == TypeInv /\ [Next]_vars => TypeInv'
<1> SUFFICES ASSUME TypeInv, [Next]_vars PROVE TypeInv'
  OBVIOUS
<1> USE SettledType
<1>1. CASE JdaRaise
  <2>1. jda' \in [Ocs -> JdaStates]
    BY <1>1 DEF JdaRaise, TypeInv, TypeOK, JdaStates
  <2>2. QED
    BY <1>1, <2>1 DEF JdaRaise, TypeInv, TypeOK, Holds
<1>2. CASE Approve
  BY <1>2 DEF Approve, TypeInv, TypeOK, Holds
<1>3. CASE Resync
  <2>1. doomed' \subseteq 1 .. lastRow /\ alone' \in BOOLEAN
    BY <1>3 DEF Resync, TypeInv, TypeOK, Holds
  <2>2. QED
    BY <1>3, <2>1 DEF Resync, TypeInv, TypeOK, Holds
<1>4. CASE ResyncDelete
  <2>1. doomed' \subseteq doomed /\ rows' \subseteq rows
    BY <1>4 DEF ResyncDelete
  <2>2. QED
    BY <1>4, <2>1 DEF ResyncDelete, TypeInv, TypeOK, Holds
<1>5. CASE Lose
  <2>1. faults' \in 0 .. MaxFaults
    BY <1>5 DEF Lose, TypeInv, TypeOK, Holds
  <2>2. CASE \E r \in Releasers : pc[r] # "idle" /\ Finish(r) /\ UNCHANGED <<sync, doomed>>
    BY <1>5, <2>1, <2>2, FinishType DEF Lose, TypeInv, TypeOK, Holds
  <2>3. CASE \E y \in Syncs :
               /\ syncFind' = [syncFind EXCEPT ![y] = {}]
               /\ syncSave' = [syncSave EXCEPT ![y] = {}]
               /\ UNCHANGED <<release, doomed>>
    BY <1>5, <2>1, <2>3 DEF Lose, TypeInv, TypeOK, Holds
  <2>4. CASE doomed' \subseteq doomed /\ UNCHANGED <<release, sync>>
    BY <1>5, <2>1, <2>4 DEF Lose, TypeInv, TypeOK, Holds
  <2>5. QED
    BY <1>5, <2>2, <2>3, <2>4 DEF Lose
<1>6. ASSUME NEW r \in Releasers, ReleaseRead(r) PROVE TypeInv'
  BY <1>6 DEF ReleaseRead, TypeInv, TypeOK, Holds
<1>7. ASSUME NEW r \in Releasers, SequenceRead(r) PROVE TypeInv'
  <2>1. seq + 1 \in Members
    BY <1>7 DEF SequenceRead, TypeInv, TypeOK, Members
  <2>2. QED
    BY <1>7, <2>1 DEF SequenceRead, TypeInv, TypeOK, Holds
<1>8. ASSUME NEW r \in Releasers, MemberSave(r) PROVE TypeInv'
  <2>1. seq' \in Nat /\ name[r] \in Members
    BY <1>8 DEF MemberSave, TypeInv, TypeOK, Holds
  <2>2. CASE Finish(r) /\ UNCHANGED <<names, sent>>
    BY <1>8, <2>1, <2>2, FinishType DEF MemberSave, TypeInv, TypeOK, Holds
  <2>3. CASE /\ names' = names \cup {name[r]}
             /\ sent' = [sent EXCEPT ![name[r]] = asks[r]]
             /\ pc' = [pc EXCEPT ![r] = "rows"]
             /\ UNCHANGED <<asks, name, toFind, toSave>>
    BY <1>8, <2>1, <2>3 DEF MemberSave, TypeInv, TypeOK, Holds
  <2>4. QED
    BY <1>8, <2>2, <2>3 DEF MemberSave
<1>9. ASSUME NEW r \in Releasers, ReleaseFind(r) PROVE TypeInv'
  <2>1. PICK o \in toFind[r], z \in Row :
          /\ Found(r, o, z)
          /\ toFind' = [toFind EXCEPT ![r] = @ \ {o}]
          /\ toSave' = [toSave EXCEPT ![r] = @ \cup {z}]
    BY <1>9, ReleaseFinds
  <2>2. z.id \in 0 .. lastRow
    BY <2>1 DEF Found, TypeInv, TypeOK
  <2>3. QED
    BY <1>9, <2>1, <2>2 DEF ReleaseFind, TypeInv, TypeOK, Holds
<1>10. ASSUME NEW r \in Releasers, ReleaseSave(r) PROVE TypeInv'
  <2>1. PICK x \in toSave[r] :
          /\ x \in Row /\ x.id \in 0 .. lastRow
          /\ toSave' = [toSave EXCEPT ![r] = @ \ {x}]
          /\ \/ /\ pc' = [pc EXCEPT ![r] = "failed"]
                /\ UNCHANGED <<rows, lastRow>>
             \/ ~Refused(x) /\ UNCHANGED pc /\ \E z \in Row : Written(x, z)
    BY <1>10, ReleaseSaves
  <2>2. /\ toSave' \in [Releasers -> SUBSET Row]
        /\ \A q \in Releasers : toSave'[q] \subseteq toSave[q]
    BY <2>1 DEF TypeInv, TypeOK
  <2>3. CASE pc' = [pc EXCEPT ![r] = "failed"] /\ UNCHANGED <<rows, lastRow>>
    BY <1>10, <2>2, <2>3 DEF ReleaseSave, TypeInv, TypeOK, Holds
  <2>4. ASSUME NEW z \in Row, ~Refused(x), UNCHANGED pc, Written(x, z) PROVE TypeInv'
    <3>1. /\ rows' \subseteq Row /\ lastRow' \in Nat /\ lastRow <= lastRow'
          /\ \A w \in rows' : w.id \in 1 .. lastRow'
          /\ \A v, w \in rows' : v # w =>
               v.id # w.id /\ ~(v.oc = w.oc /\ v.pi = w.pi /\ v.pi # NoPi)
      BY <2>1, <2>4, TypeWritten
    <3>2. doomed \subseteq 1 .. lastRow'
      BY <3>1 DEF TypeInv, TypeOK
    <3>3. /\ \A q \in Releasers : \A w \in toSave'[q] : w.id \in 0 .. lastRow'
          /\ \A y \in Syncs : \A w \in syncSave[y] : w.id \in 0 .. lastRow'
      BY <2>2, <3>1 DEF TypeInv, TypeOK
    <3>4. QED
      BY <1>10, <2>2, <2>4, <3>1, <3>2, <3>3 DEF ReleaseSave, TypeInv, TypeOK, Holds
  <2>5. QED
    BY <2>1, <2>3, <2>4
<1>11. ASSUME NEW r \in Releasers, ReleaseFailed(r) \/ Program(r) PROVE TypeInv'
  <2>1. jda' \in [Ocs -> JdaStates]
    BY <1>11 DEF ReleaseFailed, Program, TypeInv, TypeOK, JdaStates
  <2>2. QED
    BY <1>11, <2>1, FinishType DEF ReleaseFailed, Program, TypeInv, TypeOK
<1>12. ASSUME NEW r \in Releasers, Override(r) \/ Insert(r) PROVE TypeInv'
  <2>1. override' \in [Jobs -> Members \cup {NoMember}] /\ strayed' \subseteq Members
    BY <1>12 DEF Override, Insert, TypeInv, TypeOK, Holds
  <2>2. file' \in [Members \cup {NoMember} -> SUBSET Ocs]
    BY <1>12 DEF Override, Insert, TypeInv, TypeOK
  <2>3. CASE Override(r)
    BY <2>1, <2>2, <2>3 DEF Override, TypeInv, TypeOK, Holds
  <2>4. CASE Insert(r)
    BY <2>1, <2>2, <2>4 DEF Insert, TypeInv, TypeOK, Holds
  <2>5. QED
    BY <1>12, <2>3, <2>4
<1>13. ASSUME NEW y \in Syncs, SyncRead(y) PROVE TypeInv'
  BY <1>13 DEF SyncRead, TypeInv, TypeOK, Holds
<1>14. ASSUME NEW y \in Syncs, SyncFind(y) PROVE TypeInv'
  <2>1. PICK o \in syncFind[y], z \in Row :
          /\ Matches(o, z)
          /\ syncFind' = [syncFind EXCEPT ![y] = @ \ {o}]
          /\ syncSave' = [syncSave EXCEPT ![y] = @ \cup {z}]
    BY <1>14, SyncFinds
  <2>2. z.id \in 0 .. lastRow
    BY <2>1 DEF Matches, TypeInv, TypeOK
  <2>3. QED
    BY <1>14, <2>1, <2>2 DEF SyncFind, TypeInv, TypeOK, Holds
<1>15. ASSUME NEW y \in Syncs, SyncSave(y) PROVE TypeInv'
  <2>1. PICK x \in syncSave[y] :
          /\ x \in Row /\ x.id \in 0 .. lastRow
          /\ syncSave' = [syncSave EXCEPT ![y] = @ \ {x}]
          /\ \/ UNCHANGED <<rows, lastRow>>
             \/ ~Refused(x) /\ \E z \in Row : Written(x, z)
    BY <1>15, SyncSaves
  <2>2. /\ syncSave' \in [Syncs -> SUBSET Row]
        /\ \A q \in Syncs : syncSave'[q] \subseteq syncSave[q]
    BY <2>1 DEF TypeInv, TypeOK
  <2>3. CASE UNCHANGED <<rows, lastRow>>
    BY <1>15, <2>2, <2>3 DEF SyncSave, TypeInv, TypeOK, Holds
  <2>4. ASSUME NEW z \in Row, ~Refused(x), Written(x, z) PROVE TypeInv'
    <3>1. /\ rows' \subseteq Row /\ lastRow' \in Nat /\ lastRow <= lastRow'
          /\ \A w \in rows' : w.id \in 1 .. lastRow'
          /\ \A v, w \in rows' : v # w =>
               v.id # w.id /\ ~(v.oc = w.oc /\ v.pi = w.pi /\ v.pi # NoPi)
      BY <2>1, <2>4, TypeWritten
    <3>2. doomed \subseteq 1 .. lastRow'
      BY <3>1 DEF TypeInv, TypeOK
    <3>3. /\ \A q \in Releasers : \A w \in toSave[q] : w.id \in 0 .. lastRow'
          /\ \A q \in Syncs : \A w \in syncSave'[q] : w.id \in 0 .. lastRow'
      BY <2>2, <3>1 DEF TypeInv, TypeOK
    <3>4. QED
      BY <1>15, <2>2, <2>4, <3>1, <3>2, <3>3 DEF SyncSave, TypeInv, TypeOK, Holds
  <2>5. QED
    BY <2>1, <2>3, <2>4
<1>16. CASE UNCHANGED vars
  BY <1>16 DEF vars, TypeInv, TypeOK, Holds
<1>17. QED
  BY <1>1, <1>2, <1>3, <1>4, <1>5, <1>6, <1>7, <1>8, <1>9, <1>10, <1>11, <1>12,
     <1>13, <1>14, <1>15, <1>16 DEF Next, ReleaseStep, SyncStep

-----------------------------------------------------------------------------
\* The members and the marks.

LEMMA NameInit == Init => NameInv
  BY DEF Init, NameInv, Holds

\* A release that ends, whatever the end, leaves no member in use.
LEMMA NameFinish ==
  ASSUME TypeInv, NameInv, NEW r \in Releasers, Finish(r),
         UNCHANGED <<rows, names, sent, syncSave>>
  PROVE  NameInv'
<1>1. \A q \in Releasers : Holds(q)' => q # r /\ Holds(q)
  BY DEF Finish, Holds, TypeInv, TypeOK
<1>2. \A q \in Releasers : q # r => /\ name'[q] = name[q] /\ asks'[q] = asks[q]
                                    /\ toFind'[q] = toFind[q] /\ toSave'[q] = toSave[q]
                                    /\ pc'[q] = pc[q]
  BY DEF Finish
<1>3. toFind'[r] = {} /\ toSave'[r] = {}
  BY DEF Finish, TypeInv, TypeOK
<1>4. \A x : Marked(x)' = Marked(x)
  BY DEF Marked
<1>5. QED
  BY <1>1, <1>2, <1>3, <1>4 DEF NameInv, Holds

\* The name that a release stores is of no other: the unique index has
\* refused it otherwise.
LEMMA NameMemberSave ==
  ASSUME TypeInv, NameInv, NEW r \in Releasers, MemberSave(r)
  PROVE  NameInv'
<1>1. CASE Finish(r) /\ UNCHANGED <<names, sent>>
  BY <1>1, NameFinish DEF MemberSave
<1>2. CASE /\ name[r] \notin names
           /\ names' = names \cup {name[r]}
           /\ sent' = [sent EXCEPT ![name[r]] = asks[r]]
           /\ pc' = [pc EXCEPT ![r] = "rows"]
           /\ UNCHANGED <<asks, name, toFind, toSave>>
  <2>1. name[r] \in Members /\ sent \in [Members -> SUBSET Ocs] /\ names \subseteq Members
    BY DEF MemberSave, TypeInv, TypeOK
  <2>2. sent'[name[r]] = asks[r] /\ \A m \in names : sent'[m] = sent[m]
    BY <1>2, <2>1
  <2>3. \A q \in Releasers : Holds(q)' => q = r \/ Holds(q)
    BY <1>2 DEF Holds
  <2>4. \A q \in Releasers : Holds(q) => Holds(q)' /\ name[q] # name[r] /\ q # r
    BY <1>2 DEF Holds, NameInv, MemberSave, TypeInv, TypeOK
  <2>5. \A x : Marked(x) => Marked(x)'
    BY <1>2, <2>2 DEF Marked
  <2>6. rows' = rows /\ syncSave' = syncSave
    BY DEF MemberSave
  <2>7. \A q \in Releasers : Holds(q)' => name'[q] \in names' /\ sent'[name'[q]] = asks'[q]
    BY <1>2, <2>2, <2>3 DEF NameInv
  <2>8. \A p, q \in Releasers : Holds(p)' /\ Holds(q)' /\ name'[p] = name'[q] => p = q
    BY <1>2, <2>3, <2>4 DEF NameInv
  <2>9. \A q \in Releasers : \A x \in toSave'[q] :
          Holds(q)' /\ x.mbr = name'[q] /\ x.oc \in asks'[q]
    BY <1>2, <2>4 DEF NameInv
  <2>10. QED
    BY <1>2, <2>5, <2>6, <2>7, <2>8, <2>9 DEF NameInv
<1>3. QED
  BY <1>1, <1>2 DEF MemberSave

\* A row stored for one that was held well is marked well.
LEMMA MarkWritten ==
  ASSUME NameInv, UNCHANGED <<names, sent>>,
         NEW x, Marked(x), NEW z, Written(x, z)
  PROVE  \A w \in rows' : Marked(w)'
<1>1. \A w : Marked(w)' = Marked(w)
  BY DEF Marked
<1>2. Marked(z)
  BY DEF Written, Marked
<1>3. \A w \in rows' : w \in rows \/ w = z
  BY DEF Written
<1>4. QED
  BY <1>1, <1>2, <1>3 DEF NameInv

LEMMA NameNext == TypeInv /\ NameInv /\ [Next]_vars => NameInv'
<1> SUFFICES ASSUME TypeInv, NameInv, [Next]_vars PROVE NameInv'
  OBVIOUS
<1>1. CASE JdaRaise \/ Approve \/ Resync \/ UNCHANGED vars
  BY <1>1 DEF JdaRaise, Approve, Resync, vars, NameInv, Holds, Marked
<1>2. CASE ResyncDelete
  <2>1. rows' \subseteq rows
    BY <1>2 DEF ResyncDelete
  <2>2. QED
    BY <1>2, <2>1 DEF ResyncDelete, NameInv, Holds, Marked
<1>3. CASE Lose
  <2>1. CASE \E r \in Releasers : Finish(r) /\ UNCHANGED <<sync, doomed>>
    BY <1>3, <2>1, NameFinish DEF Lose
  <2>2. CASE \E y \in Syncs : /\ syncSave' = [syncSave EXCEPT ![y] = {}]
                              /\ UNCHANGED release
    <3>1. \A y \in Syncs : syncSave'[y] \subseteq syncSave[y]
      BY <2>2 DEF TypeInv, TypeOK
    <3>2. QED
      BY <1>3, <2>2, <3>1 DEF Lose, NameInv, Holds, Marked
  <2>3. CASE UNCHANGED <<release, sync>>
    BY <1>3, <2>3 DEF Lose, NameInv, Holds, Marked
  <2>4. QED
    BY <1>3, <2>1, <2>2, <2>3 DEF Lose
<1>4. ASSUME NEW r \in Releasers, ReleaseRead(r) PROVE NameInv'
  <2>1. PICK numbers \in SUBSET Ocs :
          /\ asks' = [asks EXCEPT ![r] = numbers]
          /\ toFind' = [toFind EXCEPT ![r] = {o \in numbers : jda[o] # "none"}]
    BY <1>4 DEF ReleaseRead
  <2>2. /\ \A q \in Releasers : toFind'[q] \subseteq asks'[q]
        /\ \A q \in Releasers : q # r => asks'[q] = asks[q]
    BY <2>1 DEF NameInv, TypeInv, TypeOK
  <2>3. ~Holds(r) /\ \A q \in Releasers : Holds(q)' = Holds(q)
    BY <1>4 DEF ReleaseRead, Holds, TypeInv, TypeOK
  <2>4. QED
    BY <1>4, <2>2, <2>3 DEF ReleaseRead, NameInv, Marked
<1>5. ASSUME NEW r \in Releasers, SequenceRead(r) PROVE NameInv'
  <2>1. /\ \A q \in Releasers : Holds(q)' = Holds(q) /\ (q # r => name'[q] = name[q])
        /\ ~Holds(r)
    BY <1>5 DEF SequenceRead, Holds, TypeInv, TypeOK
  <2>2. QED
    BY <1>5, <2>1 DEF SequenceRead, NameInv, Marked
<1>6. ASSUME NEW r \in Releasers, ReleaseFind(r) PROVE NameInv'
  <2>1. PICK o \in toFind[r], z \in Row :
          /\ Found(r, o, z)
          /\ toFind' = [toFind EXCEPT ![r] = @ \ {o}]
          /\ toSave' = [toSave EXCEPT ![r] = @ \cup {z}]
    BY <1>6, ReleaseFinds
  <2>2. /\ \A q \in Releasers : toFind'[q] \subseteq toFind[q]
        /\ \A q \in Releasers : \A x \in toSave'[q] : x \in toSave[q] \/ (q = r /\ x = z)
    BY <2>1 DEF TypeInv, TypeOK
  <2>3. Holds(r) /\ z.mbr = name[r] /\ z.oc \in asks[r]
    BY <1>6, <2>1 DEF ReleaseFind, Holds, Found, NameInv
  <2>4. QED
    BY <1>6, <2>2, <2>3 DEF ReleaseFind, NameInv, Holds, Marked
<1>7. ASSUME NEW r \in Releasers, ReleaseSave(r) PROVE NameInv'
  <2>1. PICK x \in toSave[r] :
          /\ toSave' = [toSave EXCEPT ![r] = @ \ {x}]
          /\ \/ pc' = [pc EXCEPT ![r] = "failed"] /\ UNCHANGED <<rows, lastRow>>
             \/ UNCHANGED pc /\ \E z \in Row : Written(x, z)
    BY <1>7, ReleaseSaves
  <2>2. \A q \in Releasers : toSave'[q] \subseteq toSave[q] /\ Holds(q)' = Holds(q)
    BY <1>7, <2>1 DEF ReleaseSave, Holds, TypeInv, TypeOK
  <2>3. UNCHANGED <<names, sent, asks, name, toFind, syncSave>>
    BY <1>7 DEF ReleaseSave
  <2>4. \A w \in rows' : Marked(w)'
    <3>1. Marked(x)
      BY <2>1 DEF NameInv, Marked
    <3>2. QED
      BY <2>1, <2>3, <3>1, MarkWritten DEF NameInv, Marked
  <2>5. QED
    BY <2>2, <2>3, <2>4 DEF NameInv, Marked
<1>8. ASSUME NEW r \in Releasers, ReleaseFailed(r) \/ Program(r) PROVE NameInv'
  BY <1>8, NameFinish DEF ReleaseFailed, Program
<1>9. ASSUME NEW r \in Releasers, Override(r) \/ Insert(r) PROVE NameInv'
  <2>1. \A q \in Releasers : Holds(q)' = Holds(q)
    BY <1>9 DEF Override, Insert, Holds, TypeInv, TypeOK
  <2>2. QED
    BY <1>9, <2>1 DEF Override, Insert, NameInv, Marked
<1>10. ASSUME NEW y \in Syncs, SyncRead(y) PROVE NameInv'
  BY <1>10 DEF SyncRead, NameInv, Holds, Marked
<1>11. ASSUME NEW y \in Syncs, SyncFind(y) PROVE NameInv'
  <2>1. PICK o \in syncFind[y], z \in Row :
          Matches(o, z) /\ syncSave' = [syncSave EXCEPT ![y] = @ \cup {z}]
    BY <1>11, SyncFinds
  <2>2. Marked(z)
    BY <2>1 DEF Matches, NameInv, Marked
  <2>3. \A q \in Syncs : \A x \in syncSave'[q] : Marked(x)
    BY <2>1, <2>2 DEF NameInv, TypeInv, TypeOK
  <2>4. QED
    BY <1>11, <2>3 DEF SyncFind, NameInv, Holds, Marked
<1>12. ASSUME NEW y \in Syncs, SyncSave(y) PROVE NameInv'
  <2>1. PICK x \in syncSave[y] :
          /\ syncSave' = [syncSave EXCEPT ![y] = @ \ {x}]
          /\ UNCHANGED rows \/ \E z \in Row : Written(x, z)
    BY <1>12, SyncSaves
  <2>2. \A q \in Syncs : syncSave'[q] \subseteq syncSave[q]
    BY <2>1 DEF TypeInv, TypeOK
  <2>3. UNCHANGED <<names, sent, release>>
    BY <1>12 DEF SyncSave
  <2>4. \A w \in rows' : Marked(w)'
    BY <2>1, <2>3, MarkWritten DEF NameInv, Marked
  <2>5. QED
    BY <2>2, <2>3, <2>4 DEF NameInv, Holds, Marked
<1>13. QED
  BY <1>1, <1>2, <1>3, <1>4, <1>5, <1>6, <1>7, <1>8, <1>9, <1>10, <1>11, <1>12,
     NameMemberSave DEF Next, ReleaseStep, SyncStep

-----------------------------------------------------------------------------
\* The matches of OCs and PIs.

LEMMA MatchInit == Init => MatchInv
  BY DEF Init, MatchInv

\* JDA knows an OC for good, and one released is not waiting again.
JdaMoves ==
  \A o \in Ocs : /\ jda[o] # "none" => jda'[o] # "none"
                 /\ Given(o) => Given(o)'

LEMMA JdaNext ==
  ASSUME TypeInv, [Next]_vars
  PROVE  JdaMoves
<1>1. CASE JdaRaise
  BY <1>1 DEF JdaRaise, JdaMoves, Given, TypeInv, TypeOK
<1>2. ASSUME NEW r \in Releasers, Program(r) PROVE JdaMoves
  BY <1>2 DEF Program, JdaMoves, Given
<1>3. CASE UNCHANGED jda
  BY <1>3 DEF JdaMoves, Given
<1>4. CASE \E r \in Releasers : ReleaseRead(r) \/ ReleaseStep(r)
  BY <1>2, <1>3, <1>4 DEF ReleaseRead, ReleaseStep, SequenceRead, MemberSave, ReleaseFind,
     ReleaseSave, ReleaseFailed, Override, Insert
<1>5. CASE \E y \in Syncs : SyncStep(y)
  BY <1>3, <1>5 DEF SyncStep, SyncRead, SyncFind, SyncSave
<1>6. CASE Approve \/ Resync \/ ResyncDelete \/ Lose \/ UNCHANGED vars
  BY <1>3, <1>6 DEF Approve, Resync, ResyncDelete, Lose, vars
<1>7. QED
  BY <1>1, <1>4, <1>5, <1>6 DEF Next

\* A row that was matched stays so, and so does one that is stored for it.
LEMMA MatchStays ==
  ASSUME TypeInv, JdaMoves
  PROVE  \A x \in Row : Matched(x) => Matched(x)'
  BY DEF JdaMoves, Matched, Row

LEMMA MatchWritten ==
  ASSUME TypeInv, MatchInv, JdaMoves,
         NEW x \in Row, Matched(x), NEW z \in Row, Written(x, z)
  PROVE  \A w \in rows' : Matched(w)'
<1>1. Matched(z)
  BY DEF Written, Matched
<1>2. \A w \in rows' : w \in Row /\ Matched(w)
  BY <1>1 DEF Written, MatchInv, TypeInv, TypeOK
<1>3. QED
  BY <1>2, MatchStays

\* Nothing is found or read, and rows are stored that are matched.
LEMMA MatchShrinks ==
  ASSUME TypeInv, MatchInv, JdaMoves,
         \A w \in rows' : Matched(w)',
         \A r \in Releasers : toFind'[r] \subseteq toFind[r] /\ toSave'[r] \subseteq toSave[r],
         \A y \in Syncs : syncFind'[y] \subseteq syncFind[y] /\ syncSave'[y] \subseteq syncSave[y]
  PROVE  MatchInv'
<1>1. \A r \in Releasers : toFind[r] \subseteq Ocs /\ toSave[r] \subseteq Row
  BY DEF TypeInv, TypeOK
<1>2. \A y \in Syncs : syncFind[y] \subseteq Ocs /\ syncSave[y] \subseteq Row
  BY DEF TypeInv, TypeOK
<1>3. \A r \in Releasers : \A x \in toSave'[r] : Matched(x)' /\ jda'[x.oc] # "none"
  <2>1. \A r \in Releasers : \A x \in toSave'[r] :
          x \in Row /\ x.oc \in Ocs /\ Matched(x) /\ jda[x.oc] # "none"
    BY <1>1 DEF MatchInv, Row
  <2>2. QED
    BY <2>1, MatchStays DEF JdaMoves
<1>4. \A r \in Releasers : \A o \in toFind'[r] : jda'[o] # "none"
  BY <1>1 DEF MatchInv, JdaMoves
<1>5. \A y \in Syncs : \A o \in syncFind'[y] : Given(o)'
  BY <1>2 DEF MatchInv, JdaMoves
<1>6. \A y \in Syncs : \A x \in syncSave'[y] : x.pi = PiOf[x.oc] /\ Given(x.oc)'
  BY <1>2 DEF MatchInv, JdaMoves, Row
<1>7. QED
  BY <1>3, <1>4, <1>5, <1>6 DEF MatchInv

LEMMA MatchNext == TypeInv /\ MatchInv /\ [Next]_vars => MatchInv'
<1> SUFFICES ASSUME TypeInv, MatchInv, [Next]_vars PROVE MatchInv'
  OBVIOUS
<1>1. JdaMoves
  BY JdaNext
<1>2. ASSUME rows' \subseteq rows PROVE \A w \in rows' : Matched(w)'
  BY <1>1, <1>2, MatchStays DEF MatchInv, TypeInv, TypeOK
<1>3. CASE JdaRaise \/ Approve \/ Resync \/ UNCHANGED vars
  BY <1>1, <1>2, <1>3, MatchShrinks DEF JdaRaise, Approve, Resync, vars
<1>4. CASE ResyncDelete
  <2>1. rows' \subseteq rows
    BY <1>4 DEF ResyncDelete
  <2>2. QED
    BY <1>1, <1>2, <1>4, <2>1, MatchShrinks DEF ResyncDelete
<1>5. CASE Lose
  <2>1. /\ \A r \in Releasers : toFind'[r] \subseteq toFind[r] /\ toSave'[r] \subseteq toSave[r]
        /\ \A y \in Syncs : syncFind'[y] \subseteq syncFind[y] /\ syncSave'[y] \subseteq syncSave[y]
    BY <1>5 DEF Lose, Finish, TypeInv, TypeOK
  <2>2. rows' = rows
    BY <1>5 DEF Lose
  <2>3. QED
    BY <1>1, <1>2, <2>1, <2>2, MatchShrinks
<1>6. ASSUME NEW r \in Releasers, ReleaseRead(r) PROVE MatchInv'
  <2>1. /\ \A q \in Releasers : \A o \in toFind'[q] : jda'[o] # "none"
        /\ UNCHANGED <<jda, rows, toSave, syncFind, syncSave>>
    BY <1>6 DEF ReleaseRead, MatchInv, TypeInv, TypeOK
  <2>2. QED
    BY <2>1 DEF MatchInv, Matched, Given
<1>7. ASSUME NEW r \in Releasers,
             SequenceRead(r) \/ MemberSave(r) \/ ReleaseFailed(r) \/ Override(r) \/ Insert(r)
               \/ Program(r)
      PROVE MatchInv'
  <2>1. /\ \A q \in Releasers : toFind'[q] \subseteq toFind[q] /\ toSave'[q] \subseteq toSave[q]
        /\ UNCHANGED <<rows, syncFind, syncSave>>
    BY <1>7 DEF SequenceRead, MemberSave, ReleaseFailed, Override, Insert, Program, Finish,
       TypeInv, TypeOK
  <2>2. QED
    BY <1>1, <1>2, <2>1, MatchShrinks
<1>8. ASSUME NEW r \in Releasers, ReleaseFind(r) PROVE MatchInv'
  <2>1. PICK o \in toFind[r], z \in Row :
          /\ Found(r, o, z)
          /\ toFind' = [toFind EXCEPT ![r] = @ \ {o}]
          /\ toSave' = [toSave EXCEPT ![r] = @ \cup {z}]
    BY <1>8, ReleaseFinds
  <2>2. Matched(z) /\ jda[z.oc] # "none"
    BY <2>1 DEF Found, MatchInv, Matched
  <2>3. /\ \A q \in Releasers : toFind'[q] \subseteq toFind[q]
        /\ \A q \in Releasers : \A x \in toSave'[q] : x \in toSave[q] \/ x = z
    BY <2>1 DEF TypeInv, TypeOK
  <2>4. UNCHANGED <<jda, rows, syncFind, syncSave>>
    BY <1>8 DEF ReleaseFind
  <2>5. QED
    BY <2>2, <2>3, <2>4 DEF MatchInv, Matched, Given
<1>9. ASSUME NEW r \in Releasers, ReleaseSave(r) PROVE MatchInv'
  <2>1. PICK x \in toSave[r] :
          /\ x \in Row
          /\ toSave' = [toSave EXCEPT ![r] = @ \ {x}]
          /\ UNCHANGED rows \/ \E z \in Row : Written(x, z)
    BY <1>9, ReleaseSaves
  <2>2. \A w \in rows' : Matched(w)'
    BY <1>1, <1>2, <2>1, MatchWritten DEF MatchInv
  <2>3. /\ \A q \in Releasers : toSave'[q] \subseteq toSave[q]
        /\ UNCHANGED <<toFind, syncFind, syncSave>>
    BY <1>9, <2>1 DEF ReleaseSave, TypeInv, TypeOK
  <2>4. QED
    BY <1>1, <2>2, <2>3, MatchShrinks
<1>10. ASSUME NEW y \in Syncs, SyncRead(y) PROVE MatchInv'
  <2>1. /\ \A q \in Syncs : \A o \in syncFind'[q] : Given(o)
        /\ UNCHANGED <<jda, rows, toFind, toSave, syncSave>>
    BY <1>10 DEF SyncRead, MatchInv, Given, TypeInv, TypeOK
  <2>2. QED
    BY <2>1 DEF MatchInv, Matched, Given
<1>11. ASSUME NEW y \in Syncs, SyncFind(y) PROVE MatchInv'
  <2>1. PICK o \in syncFind[y], z \in Row :
          /\ Matches(o, z)
          /\ syncFind' = [syncFind EXCEPT ![y] = @ \ {o}]
          /\ syncSave' = [syncSave EXCEPT ![y] = @ \cup {z}]
    BY <1>11, SyncFinds
  <2>2. z.pi = PiOf[z.oc] /\ Given(z.oc)
    BY <2>1 DEF Matches, MatchInv
  <2>3. /\ \A q \in Syncs : syncFind'[q] \subseteq syncFind[q]
        /\ \A q \in Syncs : \A x \in syncSave'[q] : x \in syncSave[q] \/ x = z
    BY <2>1 DEF TypeInv, TypeOK
  <2>4. UNCHANGED <<jda, rows, toFind, toSave>>
    BY <1>11 DEF SyncFind
  <2>5. QED
    BY <2>2, <2>3, <2>4 DEF MatchInv, Matched, Given
<1>12. ASSUME NEW y \in Syncs, SyncSave(y) PROVE MatchInv'
  <2>1. PICK x \in syncSave[y] :
          /\ x \in Row
          /\ syncSave' = [syncSave EXCEPT ![y] = @ \ {x}]
          /\ UNCHANGED rows \/ \E z \in Row : Written(x, z)
    BY <1>12, SyncSaves
  <2>2. Matched(x)
    BY <2>1 DEF MatchInv, Matched
  <2>3. \A w \in rows' : Matched(w)'
    BY <1>1, <1>2, <2>1, <2>2, MatchWritten
  <2>4. /\ \A q \in Syncs : syncSave'[q] \subseteq syncSave[q]
        /\ UNCHANGED <<toFind, toSave, syncFind>>
    BY <1>12, <2>1 DEF SyncSave, TypeInv, TypeOK
  <2>5. QED
    BY <1>1, <2>3, <2>4, MatchShrinks
<1>13. QED
  BY <1>3, <1>4, <1>5, <1>6, <1>7, <1>8, <1>9, <1>10, <1>11, <1>12
     DEF Next, ReleaseStep, SyncStep

-----------------------------------------------------------------------------
\* One row of an OC while no two requests overlap.

LEMMA AloneInit == Init => AloneInv
  BY DEF Init, AloneInv, OneRow, Exclusive, HeldWell, SyncIdle

\* A row that was held well is stored as the only one of its OC, and what is
\* held of other OCs is not disturbed.
LEMMA OneWritten ==
  ASSUME TypeInv, OneRow, NEW x \in Row, Fresh(x), NEW z \in Row, Written(x, z)
  PROVE  /\ OneRow'
         /\ \A v \in Row : v.oc # x.oc /\ Fresh(v) => Fresh(v)'
<1>1. /\ rows' = {y \in rows : y.id # z.id} \cup {z}
      /\ z.oc = x.oc
  BY DEF Written
<1>2. /\ rows \subseteq Row /\ lastRow \in Nat
      /\ \A w \in rows : w.id \in 1 .. lastRow
      /\ \A u, w \in rows : u.id = w.id => u = w
  BY DEF TypeInv, TypeOK
<1>3. \A w \in rows : w.oc = x.oc => w.id = z.id
  BY <1>2 DEF Written, Fresh, OneRow
<1>4. \A w \in rows : w.oc # x.oc => w.id # z.id
  BY <1>2 DEF Written, Fresh
<1>5. OneRow'
  BY <1>1, <1>3 DEF OneRow
<1>6. \A v \in Row : v.oc # x.oc /\ Fresh(v) => Fresh(v)'
  BY <1>1, <1>4 DEF Fresh
<1>7. QED
  BY <1>5, <1>6

\* A release that is idle holds nothing, nor does a synchronisation.
LEMMA IdleHoldsNothing ==
  ASSUME TypeInv, NameInv
  PROVE  /\ \A r \in Releasers : pc[r] = "idle" => toSave[r] = {}
         /\ \A y \in Syncs : SyncIdle(y) => syncSave[y] = {}
  BY DEF NameInv, Holds, SyncIdle

\* Nothing is begun, found or stored.
LEMMA AloneShrinks ==
  ASSUME AloneInv, alone' => alone, rows' = rows, doomed' \subseteq doomed,
         \A r \in Releasers : /\ pc'[r] # "idle" => pc[r] # "idle"
                              /\ toFind'[r] \subseteq toFind[r]
                              /\ toSave'[r] \subseteq toSave[r],
         \A y \in Syncs : /\ syncFind'[y] \subseteq syncFind[y]
                          /\ syncSave'[y] \subseteq syncSave[y]
  PROVE  AloneInv'
<1> SUFFICES ASSUME alone' PROVE AloneInv'
  BY DEF AloneInv
<1>1. \A y \in Syncs : SyncIdle(y) => SyncIdle(y)'
  BY DEF SyncIdle
<1>2. OneRow' /\ Exclusive'
  BY <1>1 DEF AloneInv, OneRow, Exclusive
<1>3. \A x : Fresh(x)' = Fresh(x)
  BY DEF Fresh
<1>4. /\ \A r \in Releasers : HeldWell(toFind[r], toSave[r])'
      /\ \A y \in Syncs : HeldWell(syncFind[y], syncSave[y])'
  BY <1>3 DEF AloneInv, HeldWell
<1>5. QED
  BY <1>2, <1>4 DEF AloneInv

\* A request begins where no other is under way.
LEMMA AloneBegins ==
  ASSUME TypeInv, NameInv, AloneInv, rows' = rows, alone' => alone /\ Settled,
         UNCHANGED <<toSave, syncSave>>,
         \/ \E r \in Releasers : /\ \A q \in Releasers : q # r => pc'[q] = pc[q]
                                 /\ UNCHANGED <<syncFind, doomed>>
         \/ \E y \in Syncs : /\ \A q \in Syncs : q # y => syncFind'[q] = syncFind[q]
                             /\ UNCHANGED <<pc, doomed>>
         \/ UNCHANGED <<pc, syncFind>>
  PROVE  AloneInv'
<1> SUFFICES ASSUME alone' PROVE AloneInv'
  BY DEF AloneInv
<1>1. /\ \A r \in Releasers : pc[r] = "idle" /\ toSave[r] = {}
      /\ \A y \in Syncs : SyncIdle(y) /\ syncSave[y] = {}
      /\ doomed = {}
  BY IdleHoldsNothing DEF Settled
<1>2. Exclusive'
  BY <1>1 DEF Exclusive, SyncIdle
<1>3. OneRow'
  BY DEF AloneInv, OneRow
<1>4. /\ \A r \in Releasers : HeldWell(toFind[r], toSave[r])'
      /\ \A y \in Syncs : HeldWell(syncFind[y], syncSave[y])'
  BY <1>1 DEF HeldWell
<1>5. QED
  BY <1>2, <1>3, <1>4 DEF AloneInv

\* A release finds a row, or stores one.
LEMMA AloneFind ==
  ASSUME TypeInv, NameInv, AloneInv, NEW r \in Releasers, ReleaseFind(r)
  PROVE  AloneInv'
<1> SUFFICES ASSUME alone' PROVE AloneInv'
  BY DEF AloneInv
<1>1. PICK o \in toFind[r], z \in Row :
        /\ Found(r, o, z)
        /\ toFind' = [toFind EXCEPT ![r] = @ \ {o}]
        /\ toSave' = [toSave EXCEPT ![r] = @ \cup {z}]
  BY ReleaseFinds
<1>2. UNCHANGED <<rows, pc, syncFind, syncSave, doomed, alone>>
  BY DEF ReleaseFind
<1>3. alone /\ OneRow' /\ Exclusive'
  BY <1>2 DEF AloneInv, OneRow, Exclusive, SyncIdle
<1>4. \A x : Fresh(x)' = Fresh(x)
  BY <1>2 DEF Fresh
<1>5. Fresh(z)
  BY <1>1 DEF Found, Fresh, TypeInv, TypeOK
<1>6. HeldWell(toFind[r], toSave[r])'
  <2>1. toFind'[r] = toFind[r] \ {o} /\ toSave'[r] = toSave[r] \cup {z} /\ z.oc = o
    BY <1>1 DEF TypeInv, TypeOK, Found
  <2>2. HeldWell(toFind[r], toSave[r])
    BY <1>3 DEF AloneInv
  <2>3. QED
    BY <1>1, <1>4, <1>5, <2>1, <2>2 DEF HeldWell
<1>7. \A q \in Releasers : q # r => HeldWell(toFind[q], toSave[q])'
  BY <1>1, <1>3, <1>4 DEF AloneInv, HeldWell
<1>8. \A y \in Syncs : HeldWell(syncFind[y], syncSave[y])'
  BY <1>2, <1>3, <1>4 DEF AloneInv, HeldWell
<1>9. QED
  BY <1>3, <1>6, <1>7, <1>8 DEF AloneInv

LEMMA AloneSave ==
  ASSUME TypeInv, NameInv, AloneInv, NEW r \in Releasers, ReleaseSave(r)
  PROVE  AloneInv'
<1> SUFFICES ASSUME alone' PROVE AloneInv'
  BY DEF AloneInv
<1>1. PICK x \in toSave[r] :
        /\ x \in Row
        /\ toSave' = [toSave EXCEPT ![r] = @ \ {x}]
        /\ \/ pc' = [pc EXCEPT ![r] = "failed"] /\ UNCHANGED rows
           \/ UNCHANGED pc /\ \E z \in Row : Written(x, z)
  BY ReleaseSaves
<1>2. UNCHANGED <<toFind, syncFind, syncSave, doomed, alone>> /\ pc[r] # "idle" /\ alone
  BY DEF ReleaseSave
<1>3. Exclusive /\ Exclusive'
  BY <1>1, <1>2 DEF AloneInv, Exclusive, SyncIdle, TypeInv, TypeOK
<1>4. HeldWell(toFind[r], toSave[r]) /\ OneRow
  BY <1>2 DEF AloneInv
<1>5. OneRow' /\ \A v \in toSave'[r] : Fresh(v)'
  <2>1. \A v \in toSave'[r] : v \in Row /\ v.oc # x.oc /\ Fresh(v)
    BY <1>1, <1>4 DEF HeldWell, TypeInv, TypeOK
  <2>2. CASE UNCHANGED rows
    BY <1>4, <2>1, <2>2 DEF OneRow, Fresh
  <2>3. ASSUME NEW z \in Row, Written(x, z) PROVE OneRow' /\ \A v \in toSave'[r] : Fresh(v)'
    <3>1. Fresh(x)
      BY <1>4 DEF HeldWell
    <3>2. QED
      BY <1>1, <1>4, <2>1, <2>3, <3>1, OneWritten
  <2>4. QED
    BY <1>1, <2>2, <2>3
<1>6. HeldWell(toFind[r], toSave[r])'
  BY <1>1, <1>2, <1>4, <1>5 DEF HeldWell, TypeInv, TypeOK
<1>7. \A q \in Releasers : q # r => HeldWell(toFind[q], toSave[q])'
  BY <1>1, <1>2, <1>3, IdleHoldsNothing DEF Exclusive, HeldWell
<1>8. \A y \in Syncs : HeldWell(syncFind[y], syncSave[y])'
  BY <1>2, <1>3, IdleHoldsNothing DEF Exclusive, HeldWell
<1>9. QED
  BY <1>3, <1>5, <1>6, <1>7, <1>8 DEF AloneInv

\* And a synchronisation does.
LEMMA AloneSyncFind ==
  ASSUME TypeInv, NameInv, MatchInv, AloneInv, NEW y \in Syncs, SyncFind(y)
  PROVE  AloneInv'
<1> SUFFICES ASSUME alone' PROVE AloneInv'
  BY DEF AloneInv
<1>1. PICK o \in syncFind[y], z \in Row :
        /\ Matches(o, z)
        /\ syncFind' = [syncFind EXCEPT ![y] = @ \ {o}]
        /\ syncSave' = [syncSave EXCEPT ![y] = @ \cup {z}]
  BY SyncFinds
<1>2. UNCHANGED <<rows, pc, toFind, toSave, doomed, alone>> /\ alone
  BY DEF SyncFind
<1>3. ~SyncIdle(y) /\ \A q \in Syncs : SyncIdle(q) => SyncIdle(q)'
  BY <1>1 DEF SyncIdle, TypeInv, TypeOK
<1>4. OneRow' /\ Exclusive'
  BY <1>2, <1>3 DEF AloneInv, OneRow, Exclusive
<1>5. \A x : Fresh(x)' = Fresh(x)
  BY <1>2 DEF Fresh
<1>6. Fresh(z)
  <2>1. \A x \in rows : x.pi \in {PiOf[x.oc], NoPi} /\ x.id # NewRow
    BY DEF MatchInv, Matched, TypeInv, TypeOK
  <2>2. QED
    BY <1>1, <2>1 DEF Matches, Fresh
<1>7. HeldWell(syncFind[y], syncSave[y])'
  <2>1. syncFind'[y] = syncFind[y] \ {o} /\ syncSave'[y] = syncSave[y] \cup {z} /\ z.oc = o
    BY <1>1 DEF TypeInv, TypeOK, Matches
  <2>2. HeldWell(syncFind[y], syncSave[y])
    BY <1>2 DEF AloneInv
  <2>3. QED
    BY <1>1, <1>5, <1>6, <2>1, <2>2 DEF HeldWell
<1>8. \A q \in Syncs : q # y => HeldWell(syncFind[q], syncSave[q])'
  BY <1>1, <1>2, <1>5 DEF AloneInv, HeldWell
<1>9. \A r \in Releasers : HeldWell(toFind[r], toSave[r])'
  BY <1>2, <1>5 DEF AloneInv, HeldWell
<1>10. QED
  BY <1>4, <1>7, <1>8, <1>9 DEF AloneInv

LEMMA AloneSyncSave ==
  ASSUME TypeInv, NameInv, AloneInv, NEW y \in Syncs, SyncSave(y)
  PROVE  AloneInv'
<1> SUFFICES ASSUME alone' PROVE AloneInv'
  BY DEF AloneInv
<1>1. PICK x \in syncSave[y] :
        /\ x \in Row
        /\ syncSave' = [syncSave EXCEPT ![y] = @ \ {x}]
        /\ UNCHANGED rows \/ \E z \in Row : Written(x, z)
  BY SyncSaves
<1>2. UNCHANGED <<pc, toFind, toSave, syncFind, doomed, alone>> /\ ~SyncIdle(y) /\ alone
  BY <1>1 DEF SyncSave, SyncIdle
<1>3. Exclusive /\ Exclusive'
  <2>1. \A q \in Syncs : SyncIdle(q) => SyncIdle(q)'
    BY <1>1, <1>2 DEF SyncIdle, TypeInv, TypeOK
  <2>2. QED
    BY <1>2, <2>1 DEF AloneInv, Exclusive
<1>4. HeldWell(syncFind[y], syncSave[y]) /\ OneRow
  BY <1>2 DEF AloneInv
<1>5. OneRow' /\ \A v \in syncSave'[y] : Fresh(v)'
  <2>1. \A v \in syncSave'[y] : v \in Row /\ v.oc # x.oc /\ Fresh(v)
    BY <1>1, <1>4 DEF HeldWell, TypeInv, TypeOK
  <2>2. CASE UNCHANGED rows
    BY <1>4, <2>1, <2>2 DEF OneRow, Fresh
  <2>3. ASSUME NEW z \in Row, Written(x, z) PROVE OneRow' /\ \A v \in syncSave'[y] : Fresh(v)'
    <3>1. Fresh(x)
      BY <1>4 DEF HeldWell
    <3>2. QED
      BY <1>1, <1>4, <2>1, <2>3, <3>1, OneWritten
  <2>4. QED
    BY <1>1, <2>2, <2>3
<1>6. HeldWell(syncFind[y], syncSave[y])'
  BY <1>1, <1>2, <1>4, <1>5 DEF HeldWell, TypeInv, TypeOK
<1>7. \A q \in Syncs : q # y => HeldWell(syncFind[q], syncSave[q])'
  BY <1>1, <1>2, <1>3, IdleHoldsNothing DEF Exclusive, HeldWell
<1>8. \A r \in Releasers : HeldWell(toFind[r], toSave[r])'
  BY <1>2, <1>3, IdleHoldsNothing DEF Exclusive, HeldWell
<1>9. QED
  BY <1>3, <1>5, <1>6, <1>7, <1>8 DEF AloneInv

LEMMA AloneNext == TypeInv /\ NameInv /\ MatchInv /\ AloneInv /\ [Next]_vars => AloneInv'
<1> SUFFICES ASSUME TypeInv, NameInv, MatchInv, AloneInv, [Next]_vars PROVE AloneInv'
  OBVIOUS
<1>1. CASE JdaRaise \/ Approve \/ UNCHANGED vars
  BY <1>1, AloneShrinks DEF JdaRaise, Approve, vars
<1>2. CASE Lose
  <2>1. /\ \A r \in Releasers : /\ pc'[r] # "idle" => pc[r] # "idle"
                                /\ toFind'[r] \subseteq toFind[r] /\ toSave'[r] \subseteq toSave[r]
        /\ \A y \in Syncs : syncFind'[y] \subseteq syncFind[y] /\ syncSave'[y] \subseteq syncSave[y]
        /\ doomed' \subseteq doomed
    BY <1>2 DEF Lose, Finish, TypeInv, TypeOK
  <2>2. rows' = rows /\ alone' = alone
    BY <1>2 DEF Lose
  <2>3. QED
    BY <2>1, <2>2, AloneShrinks
<1>3. CASE Resync
  BY <1>3, AloneBegins DEF Resync
<1>4. CASE ResyncDelete
  <2>1. rows' \subseteq rows /\ doomed' \subseteq doomed /\ doomed # {}
    BY <1>4 DEF ResyncDelete
  <2>2. UNCHANGED <<pc, toFind, toSave, syncFind, syncSave, alone>>
    BY <1>4 DEF ResyncDelete
  <2>3. alone => /\ \A r \in Releasers : toSave[r] = {}
                 /\ \A y \in Syncs : syncSave[y] = {}
    BY <2>1, IdleHoldsNothing DEF AloneInv, Exclusive
  <2>4. alone => OneRow' /\ Exclusive'
    BY <2>1, <2>2 DEF AloneInv, OneRow, Exclusive, SyncIdle
  <2>5. QED
    BY <2>2, <2>3, <2>4 DEF AloneInv, HeldWell
<1>5. ASSUME NEW r \in Releasers, ReleaseRead(r) PROVE AloneInv'
  <2>1. \A q \in Releasers : q # r => pc'[q] = pc[q]
    BY <1>5 DEF ReleaseRead
  <2>2. QED
    BY <1>5, <2>1, AloneBegins DEF ReleaseRead
<1>6. ASSUME NEW r \in Releasers,
             SequenceRead(r) \/ MemberSave(r) \/ ReleaseFailed(r) \/ Override(r) \/ Insert(r)
               \/ Program(r)
      PROVE AloneInv'
  <2>1. /\ \A q \in Releasers : /\ pc'[q] # "idle" => pc[q] # "idle"
                                /\ toFind'[q] \subseteq toFind[q] /\ toSave'[q] \subseteq toSave[q]
        /\ UNCHANGED <<rows, syncFind, syncSave, doomed, alone>>
    BY <1>6 DEF SequenceRead, MemberSave, ReleaseFailed, Override, Insert, Program, Finish,
       TypeInv, TypeOK
  <2>2. QED
    BY <2>1, AloneShrinks
<1>7. ASSUME NEW y \in Syncs, SyncRead(y) PROVE AloneInv'
  <2>1. \A q \in Syncs : q # y => syncFind'[q] = syncFind[q]
    BY <1>7 DEF SyncRead
  <2>2. QED
    BY <1>7, <2>1, AloneBegins DEF SyncRead
<1>8. QED
  BY <1>1, <1>2, <1>3, <1>4, <1>5, <1>6, <1>7, AloneFind, AloneSave, AloneSyncFind,
     AloneSyncSave DEF Next, ReleaseStep, SyncStep

-----------------------------------------------------------------------------
\* The marks are true when the requests end, if nothing overlaps or fails.

LEMMA ReleaseInit == Init => ReleaseInv
  BY DEF Init, ReleaseInv

\* A release goes no further than its rows, and no row is stored.
LEMMA ReleaseWaits ==
  ASSUME TypeInv, ReleaseInv, JdaMoves, alone' => alone, faults' = faults,
         rows' \subseteq rows, UNCHANGED <<file, strayed>>,
         \A r \in Releasers : Holds(r) => Holds(r)' /\ name'[r] = name[r],
         \A r \in Releasers : pc'[r] \in {"failed", "insert", "program"} =>
           pc'[r] = pc[r] /\ asks'[r] = asks[r] /\ name'[r] = name[r]
  PROVE  ReleaseInv'
<1> SUFFICES ASSUME alone', faults' = 0 PROVE ReleaseInv'
  BY DEF ReleaseInv
<1>1. /\ \A r \in Releasers : pc'[r] # "failed"
      /\ \A r \in Releasers :
           pc'[r] = "program" => asks'[r] \subseteq file'[name'[r]] \/ name'[r] \in strayed'
  BY DEF ReleaseInv
<1>2. ASSUME NEW x \in rows' PROVE Accounted(x)'
  <2>1. x \in Row /\ x.oc \in Ocs /\ Accounted(x)
    BY DEF ReleaseInv, TypeInv, TypeOK, Row
  <2>2. QED
    BY <2>1 DEF Accounted, JdaMoves
<1>3. QED
  BY <1>1, <1>2 DEF ReleaseInv

\* A release that saves a row it holds is not refused, and stores it with its
\* own mark.
LEMMA ReleaseSaved ==
  ASSUME TypeInv, NameInv, MatchInv, AloneInv, ReleaseInv,
         NEW r \in Releasers, ReleaseSave(r)
  PROVE  ReleaseInv'
<1> SUFFICES ASSUME alone', faults' = 0 PROVE ReleaseInv'
  BY DEF ReleaseInv
<1>1. alone /\ faults = 0 /\ UNCHANGED <<jda, asks, name, file, strayed>>
  BY DEF ReleaseSave
<1>2. PICK x \in toSave[r] :
        /\ x \in Row
        /\ \/ Refused(x)
           \/ UNCHANGED pc /\ \E z \in Row : Written(x, z)
  BY ReleaseSaves
<1>3. ~Refused(x)
  <2>1. Fresh(x) /\ OneRow
    BY <1>1 DEF AloneInv, HeldWell
  <2>2. QED
    BY <2>1 DEF Refused, Fresh, OneRow
<1>4. PICK z \in Row : Written(x, z)
  BY <1>2, <1>3
<1>5. UNCHANGED pc
  BY <1>2, <1>3
<1>6. \A w \in rows' : w \in rows \/ w = z
  BY <1>4 DEF Written
<1>7. Accounted(z)
  <2>1. Holds(r) /\ z.mbr = name[r] /\ jda[z.oc] # "none"
    BY <1>4 DEF NameInv, MatchInv, Written
  <2>2. QED
    BY <2>1 DEF Accounted
<1>8. \A w \in rows' : Accounted(w)'
  BY <1>1, <1>5, <1>6, <1>7 DEF ReleaseInv, Accounted, Given, Holds
<1>9. QED
  BY <1>1, <1>5, <1>8 DEF ReleaseInv

\* A synchronisation stores only rows of OCs that JDA has released.
LEMMA SyncSaved ==
  ASSUME TypeInv, MatchInv, ReleaseInv, NEW y \in Syncs, SyncSave(y)
  PROVE  ReleaseInv'
<1> SUFFICES ASSUME alone', faults' = 0 PROVE ReleaseInv'
  BY DEF ReleaseInv
<1>1. alone /\ faults = 0 /\ UNCHANGED <<jda, pc, asks, name, file, strayed>>
  BY DEF SyncSave
<1>2. PICK x \in syncSave[y] :
        x \in Row /\ (UNCHANGED rows \/ \E z \in Row : Written(x, z))
  BY SyncSaves
<1>3. \A w \in rows' : w \in rows \/ Given(w.oc)
  BY <1>2 DEF MatchInv, Written
<1>4. \A w \in rows' : Accounted(w)'
  BY <1>1, <1>3 DEF ReleaseInv, Accounted, Given, Holds
<1>5. QED
  BY <1>1, <1>4 DEF ReleaseInv

\* The only release lists its numbers in its member, or they go to another.
LEMMA WorkfileWritten ==
  ASSUME TypeInv, AloneInv, ReleaseInv, JdaMoves,
         NEW r \in Releasers, Override(r) \/ Insert(r)
  PROVE  ReleaseInv'
<1> SUFFICES ASSUME alone', faults' = 0 PROVE ReleaseInv'
  BY DEF ReleaseInv
<1>1. /\ alone /\ faults = 0 /\ pc[r] # "idle"
      /\ UNCHANGED <<jda, rows, asks, name>> /\ strayed \subseteq strayed'
  BY DEF Override, Insert
<1>2. \A q \in Releasers : q # r => pc[q] = "idle" /\ pc'[q] = "idle"
  BY <1>1 DEF AloneInv, Exclusive, Override, Insert, TypeInv, TypeOK
<1>3. /\ pc'[r] # "failed"
      /\ pc'[r] = "program" => asks[r] \subseteq file'[name[r]] \/ name[r] \in strayed'
  <2>1. CASE Override(r)
    BY <2>1 DEF Override, TypeInv, TypeOK
  <2>2. CASE Insert(r)
    <3>1. PICK j \in Jobs :
            /\ file' = [file EXCEPT ![override[j]] = @ \cup asks[r]]
            /\ strayed' = strayed \cup ({name[r]} \ {override[j]})
      BY <2>2 DEF Insert
    <3>2. override[j] \in Members \cup {NoMember} /\ DOMAIN file = Members \cup {NoMember}
      BY DEF TypeInv, TypeOK
    <3>3. pc' = [pc EXCEPT ![r] = "program"] /\ DOMAIN pc = Releasers
      BY <2>2 DEF Insert, TypeInv, TypeOK
    <3>4. CASE override[j] = name[r]
      BY <3>1, <3>2, <3>3, <3>4
    <3>5. CASE override[j] # name[r]
      BY <3>1, <3>3, <3>5
    <3>6. QED
      BY <3>4, <3>5
  <2>3. QED
    BY <2>1, <2>2
<1>4. Holds(r) /\ Holds(r)'
  BY DEF Override, Insert, Holds, TypeInv, TypeOK
<1>5. \A x \in rows' : Accounted(x)'
  BY <1>1, <1>2, <1>4 DEF ReleaseInv, Accounted, Given, Holds
<1>6. QED
  BY <1>1, <1>2, <1>3, <1>5 DEF ReleaseInv

\* The program releases the OCs marked with the member of the only release.
LEMMA ProgramReleases ==
  ASSUME TypeInv, NameInv, AloneInv, ReleaseInv, JdaMoves,
         NEW r \in Releasers, Program(r)
  PROVE  ReleaseInv'
<1> SUFFICES ASSUME alone', faults' = 0 PROVE ReleaseInv'
  BY DEF ReleaseInv
<1>1. /\ alone /\ faults = 0 /\ pc[r] = "program" /\ UNCHANGED <<rows, strayed>>
      /\ jda' = [o \in Ocs |-> IF o \in file[name[r]] /\ jda[o] = "waiting"
                                 THEN "active" ELSE jda[o]]
  BY DEF Program
<1>2. \A q \in Releasers : pc'[q] = "idle" /\ (q # r => pc[q] = "idle")
  BY <1>1 DEF AloneInv, Exclusive, Program, Finish, TypeInv, TypeOK
<1>3. ASSUME NEW x \in rows, x.mbr # NoMember, x.mbr \notin strayed PROVE Given(x.oc)'
  <2>1. x.oc \in Ocs /\ jda[x.oc] \in JdaStates
    BY DEF TypeInv, TypeOK, Row
  <2>2. CASE Given(x.oc)
    BY <2>1, <2>2 DEF JdaMoves
  <2>3. CASE /\ jda[x.oc] # "none"
             /\ \E q \in Releasers : Holds(q) /\ name[q] = x.mbr
    <3>1. Holds(r) /\ name[r] = x.mbr
      BY <1>2, <2>3 DEF Holds
    <3>2. x.oc \in asks[r]
      BY <1>3, <3>1 DEF NameInv, Marked
    <3>3. x.oc \in file[name[r]]
      BY <1>1, <1>3, <3>1, <3>2 DEF ReleaseInv
    <3>4. QED
      BY <1>1, <2>1, <2>3, <3>3 DEF Given, JdaStates
  <2>4. QED
    BY <1>1, <1>3, <2>2, <2>3 DEF ReleaseInv, Accounted
<1>4. QED
  BY <1>1, <1>2, <1>3 DEF ReleaseInv, Accounted

LEMMA ReleaseNext ==
  TypeInv /\ NameInv /\ MatchInv /\ AloneInv /\ ReleaseInv /\ [Next]_vars => ReleaseInv'
<1> SUFFICES ASSUME TypeInv, NameInv, MatchInv, AloneInv, ReleaseInv, [Next]_vars
             PROVE  ReleaseInv'
  OBVIOUS
<1>1. JdaMoves
  BY JdaNext
<1>2. CASE JdaRaise \/ Approve \/ Resync \/ ResyncDelete \/ UNCHANGED vars
  <2>1. /\ rows' \subseteq rows
        /\ UNCHANGED <<pc, asks, name, file, strayed, faults>>
    BY <1>2 DEF JdaRaise, Approve, Resync, ResyncDelete, vars
  <2>2. alone' => alone
    BY <1>2 DEF JdaRaise, Approve, Resync, ResyncDelete, vars
  <2>3. \A q \in Releasers : Holds(q) => Holds(q)'
    BY <2>1 DEF Holds
  <2>4. QED
    BY <1>1, <2>1, <2>2, <2>3, ReleaseWaits
<1>3. CASE Lose
  BY <1>3 DEF Lose, ReleaseInv, TypeInv, TypeOK
<1>4. ASSUME NEW r \in Releasers,
             ReleaseRead(r) \/ SequenceRead(r) \/ MemberSave(r) \/ ReleaseFind(r)
      PROVE ReleaseInv'
  <2>1. /\ \A q \in Releasers : Holds(q) => Holds(q)' /\ name'[q] = name[q]
        /\ \A q \in Releasers : pc'[q] \in {"failed", "insert", "program"} =>
             pc'[q] = pc[q] /\ asks'[q] = asks[q] /\ name'[q] = name[q]
    BY <1>4 DEF ReleaseRead, SequenceRead, MemberSave, ReleaseFind, Finish, Holds, TypeInv, TypeOK
  <2>2. UNCHANGED <<rows, file, strayed, faults>>
    BY <1>4 DEF ReleaseRead, SequenceRead, MemberSave, ReleaseFind
  <2>3. alone' => alone
    BY <1>4 DEF ReleaseRead, SequenceRead, MemberSave, ReleaseFind
  <2>4. QED
    BY <1>1, <2>1, <2>2, <2>3, ReleaseWaits
<1>5. ASSUME NEW r \in Releasers, ReleaseFailed(r) PROVE ReleaseInv'
  BY <1>5 DEF ReleaseFailed, ReleaseInv
<1>6. ASSUME NEW y \in Syncs, SyncRead(y) \/ SyncFind(y) PROVE ReleaseInv'
  <2>1. UNCHANGED <<rows, pc, asks, name, file, strayed, faults>>
    BY <1>6 DEF SyncRead, SyncFind
  <2>2. alone' => alone
    BY <1>6 DEF SyncRead, SyncFind
  <2>3. QED
    BY <1>1, <2>1, <2>2, ReleaseWaits DEF Holds
<1>7. QED
  BY <1>1, <1>2, <1>3, <1>4, <1>5, <1>6, ReleaseSaved, SyncSaved, WorkfileWritten,
     ProgramReleases DEF Next, ReleaseStep, SyncStep

-----------------------------------------------------------------------------
\* The invariant holds, and what it says of the properties.

\* Ids, members, PIs and marks are as IInv says in every state, for any OCs,
\* requests and bounds (jdaoc.service 60-105, jdaocsync.service 34-130).
THEOREM Invariance == Spec => []IInv
<1>1. Init => IInv
  BY TypeInit, NameInit, MatchInit, AloneInit, ReleaseInit DEF IInv
<1>2. IInv /\ [Next]_vars => IInv'
  BY TypeNext, NameNext, MatchNext, AloneNext, ReleaseNext DEF IInv
<1>3. QED
  BY <1>1, <1>2, PTL DEF Spec

\* An OC is marked with the member of a release that was sent its number, and
\* no two requests that have stored their member have the same
\* (jdaoc.service 75-104).
THEOREM SendersMark == Spec => []MarkedBySender
<1>1. IInv => MarkedBySender
  BY DEF IInv, NameInv, Marked, MarkedBySender, Holds
<1>2. QED
  BY <1>1, Invariance, PTL

\* While no two requests have overlapped, an OC has one row (jdaoc.service
\* 79-99, jdaocsync.service 111-127).
THEOREM RowsAreOne == Spec => []OneRowPerOc
<1>1. IInv => OneRowPerOc
  BY DEF IInv, TypeInv, AloneInv, OneRow, OneRowPerOc
<1>2. QED
  BY <1>1, Invariance, PTL

\* An OC with a PI is released or cancelled; and one with a mark too, when
\* the requests neither overlapped nor failed and have ended, and the numbers
\* of its member were not sent to another (jdaoc.service
\* 101-104, jdaocsync.service 73-79).
THEOREM MarksAreTrue == Spec => []MarkedIsReleased
<1>1. IInv => MarkedIsReleased
  BY DEF IInv, MatchInv, Matched, ReleaseInv, Accounted, Given, Holds, Settled, MarkedIsReleased
<1>2. QED
  BY <1>1, Invariance, PTL
=============================================================================
