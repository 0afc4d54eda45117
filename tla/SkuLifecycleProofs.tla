------------------------- MODULE SkuLifecycleProofs -------------------------
(***************************************************************************)
(* For any styles, colours, requests, jobs, members and failures: no two   *)
(* creations have the same member, and a colour has the number of an item  *)
(* only if JDA has it.  With one creation at a time and one connection,    *)
(* what a creation stored has its entry in JDA when it is over.            *)
(***************************************************************************)
EXTENDS SkuLifecycle, TLAPS

\* A creation that has stored its member.
Holds(r) == pc[r] \in {"rows", "override", "insert", "program"} \cup Keys

\* A creation that stores its member, or has, has one.
TypeInv ==
  /\ TypeOK
  /\ \A r \in Creators : pc[r] = "member" \/ Holds(r) => name[r] \in Members

\* A member belongs to the creation that stored its name, and only that has
\* SKUs to store.
NameInv ==
  /\ \A r \in Creators : Holds(r) => name[r] \in names
  /\ \A r1, r2 \in Creators : Holds(r1) /\ Holds(r2) /\ name[r1] = name[r2] => r1 = r2
  /\ \A r \in Creators : left[r] # {} => Holds(r)

\* The row of the key has its entry in JDA.
Entered(k) ==
  \E e \in entries : e.mbr = sku[k].mbr /\ e.key = k /\ sku[k].colors \subseteq e.colors

\* Or the creation r, which stored it, is to enter it.
Entering(r, k) ==
  Holds(r) /\ sku[k].mbr = name[r] /\ sku[k].colors = want[r][k] /\ k \in Wanted(r)

\* A row is entered, or is to be: the only creation does not find a row where
\* it stores one, writes to its own member, and has all its records there when
\* the program starts.
EnterInv ==
  faults = 0 =>
    /\ \A k \in Keys : Exists(k) => Entered(k) \/ \E r \in Creators : Entering(r, k)
    /\ \A r \in Creators : left[r] \subseteq Wanted(r)
    /\ \A r \in Creators : \A k \in Keys : pc[r] = k => k \in left[r] /\ ~Exists(k)
    /\ \A r \in Creators : pc[r] = "insert" => \A j \in Jobs : override[j] = name[r]
    /\ \A r \in Creators : pc[r] = "program" =>
         \A k \in Wanted(r) : [key |-> k, colors |-> want[r][k]] \in file[name[r]]

\* One creation at a time, and one connection.
OneAtATime == (\A r, q \in Creators : r = q) /\ (\A i, j \in Jobs : i = j)

IInv == TypeInv /\ NameInv /\ SyncedInJda

-----------------------------------------------------------------------------
\* Rows.

LEMMA SkuRows ==
  /\ NoSku \notin SkuRow
  /\ NoSku.mbr = NoMember /\ NoSku.colors = {} /\ NoSku.synced = {}
  /\ \A s \in SkuRow \cup {NoSku} :
       /\ s.colors \subseteq Colors /\ s.synced \subseteq Colors
       /\ s # NoSku <=> s.mbr # NoMember
       /\ s # NoSku <=> s.mbr \in Members
<1>1. NoMember \notin Members
  BY DEF NoMember, Members
<1>2. NoSku.mbr = NoMember /\ NoSku.colors = {} /\ NoSku.synced = {}
  BY DEF NoSku
<1>3. \A s \in SkuRow : s.mbr \in Members /\ s.colors \subseteq Colors /\ s.synced \subseteq Colors
  BY DEF SkuRow
<1>4. QED
  BY <1>1, <1>2, <1>3

\* The row is completed with some of its numbers.
LEMMA SkuSynced ==
  ASSUME NEW s \in SkuRow, NEW found \in SUBSET Colors
  PROVE  \A z \in {[s EXCEPT !.synced = @ \cup found]} :
           /\ z \in SkuRow /\ z.mbr = s.mbr
           /\ z.colors = s.colors /\ z.synced = s.synced \cup found
  BY DEF SkuRow

\* The rows of Without are those stored, or none.
LEMMA WithoutRows ==
  ASSUME NEW rows, sku \in [Keys -> SkuRow \cup {NoSku}]
  PROVE  /\ Without(rows) \in [Keys -> SkuRow \cup {NoSku}]
         /\ \A k \in Keys : Without(rows)[k] \in {sku[k], NoSku}
  BY DEF Without

LEMMA RowIds == \A id \in RowId : id[1] \in Keys /\ id[2] \in Members
  BY DEF RowId

LEMMA RowsType ==
  ASSUME sku \in [Keys -> SkuRow \cup {NoSku}]
  PROVE  \A keys \in SUBSET Keys : Rows(keys) \subseteq RowId
<1>1. \A k \in Keys : Exists(k) => sku[k].mbr \in Members
  BY SkuRows DEF Exists
<1>2. QED
  BY <1>1 DEF Rows, RowId

-----------------------------------------------------------------------------
\* The types.

LEMMA TypeInit == Init => TypeInv
<1> SUFFICES ASSUME Init PROVE TypeInv
  OBVIOUS
<1>1. /\ approved \in [Keys -> SUBSET Colors] /\ items \in [Keys -> SUBSET Colors]
      /\ sku \in [Keys -> SkuRow \cup {NoSku}] /\ seq \in Nat /\ names \subseteq Members
      /\ faults \in 0 .. MaxFaults
  BY BoundsAssumption DEF Init, NothingWanted
<1>2. /\ pc \in [Creators -> Steps \cup Keys] /\ left \in [Creators -> SUBSET Keys]
      /\ want \in [Creators -> [Keys -> SUBSET Colors]]
      /\ name \in [Creators -> Members \cup {NoMember}]
  BY DEF Init, NothingWanted, Steps
<1>3. /\ sync \in [Syncs -> {"idle", "query", "by code", "remove"}]
      /\ query \in [Syncs -> SUBSET RowId] /\ unknown \in [Syncs -> SUBSET RowId]
      /\ badMbrs \in [Syncs -> SUBSET Members] /\ badCodes \in [Syncs -> SUBSET Codes]
      /\ doomed \in [Syncs -> SUBSET RowId]
  BY DEF Init
<1>4. /\ clean \in [Cleaners -> SUBSET RowId]
      /\ override \in [Jobs -> Members \cup {NoMember}]
      /\ file \in [Members \cup {NoMember} -> SUBSET Record]
      /\ entries \subseteq Entry
  BY DEF Init
<1>5. \A r \in Creators : pc[r] = "idle"
  BY DEF Init
<1>6. \A r \in Creators : ~(pc[r] = "member" \/ Holds(r))
  BY <1>5, KeysAssumption DEF Holds, Steps
<1>7. QED
  BY <1>1, <1>2, <1>3, <1>4, <1>6 DEF TypeInv, TypeOK

\* The types by whose variables they are.
DbType ==
  /\ approved \in [Keys -> SUBSET Colors] /\ sku \in [Keys -> SkuRow \cup {NoSku}]
  /\ seq \in Nat /\ names \subseteq Members
CreatorType ==
  /\ pc \in [Creators -> Steps \cup Keys]
  /\ want \in [Creators -> [Keys -> SUBSET Colors]]
  /\ left \in [Creators -> SUBSET Keys]
  /\ name \in [Creators -> Members \cup {NoMember}]
  /\ \A r \in Creators : pc[r] = "member" \/ Holds(r) => name[r] \in Members
SyncerType ==
  /\ sync \in [Syncs -> {"idle", "query", "by code", "remove"}]
  /\ query \in [Syncs -> SUBSET RowId] /\ unknown \in [Syncs -> SUBSET RowId]
  /\ badMbrs \in [Syncs -> SUBSET Members] /\ badCodes \in [Syncs -> SUBSET Codes]
  /\ doomed \in [Syncs -> SUBSET RowId]
CleanerType == clean \in [Cleaners -> SUBSET RowId]
JdaType ==
  /\ override \in [Jobs -> Members \cup {NoMember}]
  /\ file \in [Members \cup {NoMember} -> SUBSET Record]
  /\ entries \subseteq Entry
  /\ items \in [Keys -> SUBSET Colors]
FaultsType == faults \in 0 .. MaxFaults

LEMMA TypeParts ==
  /\ TypeInv <=>
       DbType /\ CreatorType /\ SyncerType /\ CleanerType /\ JdaType /\ FaultsType
  /\ DbType /\ UNCHANGED db => DbType'
  /\ CreatorType /\ UNCHANGED creator => CreatorType'
  /\ SyncerType /\ UNCHANGED syncer => SyncerType'
  /\ CleanerType /\ UNCHANGED clean => CleanerType'
  /\ JdaType /\ UNCHANGED jda => JdaType'
  /\ FaultsType /\ UNCHANGED faults => FaultsType'
<1>1. TypeInv <=>
        DbType /\ CreatorType /\ SyncerType /\ CleanerType /\ JdaType /\ FaultsType
  BY DEF TypeInv, TypeOK, DbType, CreatorType, SyncerType, CleanerType, JdaType, FaultsType
<1>2. CreatorType /\ UNCHANGED creator => CreatorType'
  BY DEF CreatorType, creator, Holds
<1>3. QED
  BY <1>1, <1>2 DEF DbType, SyncerType, CleanerType, JdaType, FaultsType, db, syncer, jda

LEMMA FinishType ==
  ASSUME CreatorType, NEW r \in Creators, Finish(r)
  PROVE  CreatorType'
<1>1. "idle" \in Steps /\ "idle" \notin {"member", "rows", "override", "insert", "program"} \cup Keys
  BY KeysAssumption DEF Steps
<1>2. NothingWanted \in [Keys -> SUBSET Colors]
  BY DEF NothingWanted
<1>3. /\ pc' \in [Creators -> Steps \cup Keys]
      /\ want' \in [Creators -> [Keys -> SUBSET Colors]]
      /\ left' \in [Creators -> SUBSET Keys]
      /\ name' \in [Creators -> Members \cup {NoMember}]
  BY <1>1, <1>2 DEF CreatorType, Finish
<1>4. /\ pc'[r] = "idle"
      /\ \A q \in Creators : q # r => pc'[q] = pc[q] /\ name'[q] = name[q]
  BY DEF CreatorType, Finish
<1>5. \A q \in Creators : pc'[q] = "member" \/ Holds(q)' => name'[q] \in Members
  BY <1>1, <1>4 DEF CreatorType, Holds
<1>6. QED
  BY <1>3, <1>5 DEF CreatorType

\* A creation goes to another step, as far as the types tell.
LEMMA StepType ==
  ASSUME CreatorType, NEW r \in Creators, NEW step \in Steps \cup Keys,
         pc' = [pc EXCEPT ![r] = step],
         step \in {"idle", "sequence"} \/ name'[r] \in Members,
         \A q \in Creators : q # r => name'[q] = name[q],
         name' \in [Creators -> Members \cup {NoMember}],
         want' \in [Creators -> [Keys -> SUBSET Colors]],
         left' \in [Creators -> SUBSET Keys]
  PROVE  CreatorType'
<1>1. pc' \in [Creators -> Steps \cup Keys]
  BY DEF CreatorType
<1>2. {"idle", "sequence"} \cap ({"member", "rows", "override", "insert", "program"} \cup Keys) = {}
  BY KeysAssumption DEF Steps
<1>3. \A q \in Creators : pc'[q] = "member" \/ Holds(q)' => name'[q] \in Members
  BY <1>2 DEF CreatorType, Holds
<1>4. QED
  BY <1>1, <1>3 DEF CreatorType

LEMMA CreatorNext ==
  ASSUME DbType, CreatorType, NEW r \in Creators, CreateRead(r) \/ CreateStep(r)
  PROVE  CreatorType' /\ DbType'
<1>0. /\ {"idle", "sequence", "member", "rows", "override", "insert", "program"} \subseteq Steps
      /\ seq \in Nat
  BY DEF Steps, DbType
<1>1. CASE CreateRead(r)
  <2>1. PICK keys \in SUBSET Keys :
          want' = [want EXCEPT ![r] = [k \in Keys |->
            IF k \notin keys THEN {}
            ELSE IF k \in Atc THEN approved[k] \ sku[k].colors ELSE approved[k]]]
    BY <1>1 DEF CreateRead
  <2>2. [k \in Keys |-> IF k \notin keys THEN {}
            ELSE IF k \in Atc THEN approved[k] \ sku[k].colors ELSE approved[k]]
          \in [Keys -> SUBSET Colors]
    BY DEF DbType
  <2>3. want' \in [Creators -> [Keys -> SUBSET Colors]]
    BY <2>1, <2>2 DEF CreatorType
  <2>4. pc' = [pc EXCEPT ![r] = "sequence"] /\ UNCHANGED <<db, left, name>>
    BY <1>1 DEF CreateRead
  <2>5. CreatorType'
    BY <1>0, <2>3, <2>4, StepType DEF CreatorType
  <2>6. QED
    BY <2>4, <2>5, TypeParts
<1>2. CASE SequenceRead(r)
  <2>1. /\ seq + 1 \in Members
        /\ name' = [name EXCEPT ![r] = seq + 1] /\ pc' = [pc EXCEPT ![r] = "member"]
        /\ UNCHANGED <<db, want, left>>
    BY <1>0, <1>2, BoundsAssumption DEF SequenceRead, Members
  <2>2. CreatorType'
    <3>1. name'[r] \in Members /\ name' \in [Creators -> Members \cup {NoMember}]
      BY <2>1 DEF CreatorType
    <3>2. QED
      BY <1>0, <2>1, <3>1, StepType DEF CreatorType
  <2>3. QED
    BY <2>1, <2>2, TypeParts
<1>3. CASE MemberSave(r)
  <2>1. pc[r] = "member" /\ name[r] \in Members /\ seq' = seq + 1 /\ UNCHANGED <<approved, sku>>
    BY <1>3 DEF MemberSave, CreatorType
  <2>2. CASE Finish(r) /\ UNCHANGED names
    BY <1>0, <2>1, <2>2, FinishType DEF DbType
  <2>3. CASE /\ names' = names \cup {name[r]}
             /\ left' = [left EXCEPT ![r] = Wanted(r)]
             /\ pc' = [pc EXCEPT ![r] = "rows"]
             /\ UNCHANGED <<want, name>>
    <3>1. left' \in [Creators -> SUBSET Keys]
      BY <2>3 DEF CreatorType, Wanted
    <3>2. CreatorType'
      BY <1>0, <2>1, <2>3, <3>1, StepType DEF CreatorType
    <3>3. QED
      BY <1>0, <2>1, <2>3, <3>2 DEF DbType
  <2>4. QED
    BY <1>3, <2>2, <2>3 DEF MemberSave
<1>4. CASE RowFind(r)
  <2>1. pc[r] = "rows" /\ name[r] \in Members
    BY <1>4 DEF RowFind, CreatorType, Holds
  <2>2. /\ left' \in [Creators -> SUBSET Keys] /\ UNCHANGED <<db, want, name>>
        /\ \/ \E k \in Keys : pc' = [pc EXCEPT ![r] = k]
           \/ UNCHANGED pc
           \/ pc' = [pc EXCEPT ![r] = "override"]
    BY <1>4 DEF RowFind, CreatorType
  <2>3. CASE UNCHANGED pc
    BY <2>2, <2>3, TypeParts DEF CreatorType, Holds
  <2>4. ASSUME NEW step \in Steps \cup Keys, pc' = [pc EXCEPT ![r] = step]
        PROVE CreatorType'
    BY <2>1, <2>2, <2>4, StepType DEF CreatorType
  <2>5. QED
    BY <1>0, <2>2, <2>3, <2>4, TypeParts
<1>5. CASE RowSave(r)
  <2>1. PICK k \in Keys :
          /\ pc[r] = k
          /\ \/ Finish(r) /\ UNCHANGED sku
             \/ /\ sku' = [sku EXCEPT ![k] =
                     [mbr |-> name[r], colors |-> want[r][k], synced |-> {}]]
                /\ left' = [left EXCEPT ![r] = @ \ {k}]
                /\ pc' = [pc EXCEPT ![r] = "rows"]
                /\ UNCHANGED <<want, name>>
    BY <1>5 DEF RowSave
  <2>2. name[r] \in Members /\ want[r][k] \subseteq Colors
    BY <2>1 DEF CreatorType, Holds
  <2>3. UNCHANGED <<approved, seq, names>>
    BY <1>5 DEF RowSave
  <2>4. CASE Finish(r) /\ UNCHANGED sku
    BY <2>3, <2>4, FinishType DEF DbType
  <2>5. CASE /\ sku' = [sku EXCEPT ![k] =
                     [mbr |-> name[r], colors |-> want[r][k], synced |-> {}]]
             /\ left' = [left EXCEPT ![r] = @ \ {k}]
             /\ pc' = [pc EXCEPT ![r] = "rows"]
             /\ UNCHANGED <<want, name>>
    <3>1. [mbr |-> name[r], colors |-> want[r][k], synced |-> {}] \in SkuRow
      BY <2>2 DEF SkuRow
    <3>2. sku' \in [Keys -> SkuRow \cup {NoSku}]
      BY <2>5, <3>1 DEF DbType
    <3>3. left' \in [Creators -> SUBSET Keys]
      BY <2>5 DEF CreatorType
    <3>4. CreatorType'
      BY <1>0, <2>2, <2>5, <3>3, StepType DEF CreatorType
    <3>5. QED
      BY <2>3, <3>2, <3>4 DEF DbType
  <2>6. QED
    BY <2>1, <2>4, <2>5
<1>6. CASE Override(r) \/ Insert(r)
  <2>1. /\ name[r] \in Members
        /\ pc' = [pc EXCEPT ![r] = "insert"] \/ pc' = [pc EXCEPT ![r] = "program"]
        /\ UNCHANGED <<db, want, left, name>>
    BY <1>6 DEF Override, Insert, CreatorType, Holds
  <2>2. ASSUME NEW step \in Steps, pc' = [pc EXCEPT ![r] = step] PROVE CreatorType'
    BY <2>1, <2>2, StepType DEF CreatorType
  <2>3. QED
    BY <1>0, <2>1, <2>2, TypeParts
<1>7. CASE Program(r)
  BY <1>7, FinishType, TypeParts DEF Program
<1>8. QED
  BY <1>1, <1>2, <1>3, <1>4, <1>5, <1>6, <1>7 DEF CreateStep

\* What the program enters, and what JDA makes of it.
LEMMA JdaNext ==
  ASSUME DbType, CreatorType, JdaType, [Next]_vars
  PROVE  JdaType'
<1>1. CASE Workflow
  <2>1. PICK e \in entries :
          \/ /\ entries' = (entries \ {e}) \cup {[e EXCEPT !.st = "loaded"]}
             /\ items' = [items EXCEPT ![e.key] = @ \cup e.colors]
          \/ /\ entries' = (entries \ {e}) \cup {[e EXCEPT !.st = "E"]}
             /\ UNCHANGED items
    BY <1>1 DEF Workflow
  <2>2. e \in Entry /\ e.key \in Keys /\ e.colors \subseteq Colors
    BY DEF JdaType, Entry
  <2>3. [e EXCEPT !.st = "loaded"] \in Entry /\ [e EXCEPT !.st = "E"] \in Entry
    BY <2>2 DEF Entry
  <2>4. entries' \subseteq Entry
    BY <2>1, <2>3 DEF JdaType
  <2>5. items' \in [Keys -> SUBSET Colors]
    BY <2>1, <2>2 DEF JdaType
  <2>6. QED
    BY <1>1, <2>4, <2>5 DEF JdaType, Workflow
<1>2. ASSUME NEW r \in Creators, Override(r) PROVE JdaType'
  BY <1>2 DEF Override, JdaType, CreatorType
<1>3. ASSUME NEW r \in Creators, Insert(r) PROVE JdaType'
  <2>1. \A k \in Wanted(r) : [key |-> k, colors |-> want[r][k]] \in Record
    BY DEF Wanted, Record, CreatorType
  <2>2. {[key |-> k, colors |-> want[r][k]] : k \in Wanted(r)} \subseteq Record
    BY <2>1
  <2>3. PICK j \in Jobs : file' = [file EXCEPT ![override[j]] =
          @ \cup {[key |-> k, colors |-> want[r][k]] : k \in Wanted(r)}]
    BY <1>3 DEF Insert
  <2>4. file' \in [Members \cup {NoMember} -> SUBSET Record]
    BY <2>2, <2>3 DEF JdaType
  <2>5. QED
    BY <1>3, <2>4 DEF Insert, JdaType
<1>4. ASSUME NEW r \in Creators, Program(r) PROVE JdaType'
  <2>1. name[r] \in Members
    BY <1>4 DEF Program, CreatorType, Holds
  <2>2. \A rec \in file[name[r]] :
          [mbr |-> name[r], key |-> rec.key, colors |-> rec.colors, st |-> "loading"] \in Entry
    BY <2>1 DEF JdaType, Record, Entry
  <2>3. {[mbr |-> name[r], key |-> rec.key, colors |-> rec.colors, st |-> "loading"] :
           rec \in file[name[r]]} \subseteq Entry
    BY <2>2
  <2>4. QED
    BY <1>4, <2>3 DEF Program, JdaType
<1>5. ASSUME UNCHANGED jda PROVE JdaType'
  BY <1>5, TypeParts
<1>6. CASE \E r \in Creators : CreateRead(r) \/ CreateStep(r)
  BY <1>2, <1>3, <1>4, <1>5, <1>6 DEF CreateRead, CreateStep, SequenceRead, MemberSave,
     RowFind, RowSave
<1>7. CASE \E y \in Syncs : Sync(y)
  BY <1>5, <1>7 DEF Sync, SyncRead, SyncItems, SyncEntries, SyncByMember, SyncByCode, SyncRemove
<1>8. CASE \/ Approve \/ Lose \/ UNCHANGED vars
           \/ \E n \in Cleaners : CleanRead(n) \/ CleanRemove(n)
  BY <1>5, <1>8 DEF Approve, Lose, vars, CleanRead, CleanRemove
<1>9. QED
  BY <1>1, <1>6, <1>7, <1>8 DEF Next

\* What a synchronisation reads, and removes.
LEMMA SyncerNext ==
  ASSUME DbType, SyncerType, JdaType, NEW y \in Syncs, Sync(y)
  PROVE  SyncerType' /\ DbType'
<1>1. \A keys \in SUBSET Keys : Rows(keys) \subseteq RowId
  BY RowsType DEF DbType
<1>2. CASE SyncRead(y)
  <2>1. Rows({k \in Keys : sku[k].colors # sku[k].synced}) \subseteq RowId
    BY <1>1
  <2>2. QED
    BY <1>2, <2>1, TypeParts DEF SyncRead, SyncerType
<1>3. CASE SyncItems(y)
  <2>1. PICK id \in query[y] :
          /\ query' = [query EXCEPT ![y] = @ \ {id}]
          /\ \/ /\ unknown' = [unknown EXCEPT ![y] = @ \cup {id}]
                /\ UNCHANGED sku
             \/ /\ sku' = IF id \in Rows(Keys)
                     THEN [sku EXCEPT ![id[1]].synced = @ \cup (items[id[1]] \cap sku[id[1]].colors)]
                     ELSE sku
                /\ UNCHANGED unknown
    BY <1>3 DEF SyncItems
  <2>2. id \in RowId /\ id[1] \in Keys
    BY RowIds DEF SyncerType
  <2>3. query' \in [Syncs -> SUBSET RowId] /\ unknown' \in [Syncs -> SUBSET RowId]
    BY <2>1, <2>2 DEF SyncerType
  <2>4. sku' \in [Keys -> SkuRow \cup {NoSku}]
    <3>1. CASE UNCHANGED sku
      BY <3>1 DEF DbType
    <3>2. CASE /\ id \in Rows(Keys)
               /\ sku' = [sku EXCEPT ![id[1]].synced = @ \cup (items[id[1]] \cap sku[id[1]].colors)]
      <4>1. sku[id[1]] \in SkuRow
        BY <3>2 DEF Rows, Exists, DbType
      <4>2. items[id[1]] \cap sku[id[1]].colors \in SUBSET Colors
        BY <2>2 DEF JdaType
      <4>3. [sku[id[1]] EXCEPT !.synced = @ \cup (items[id[1]] \cap sku[id[1]].colors)] \in SkuRow
        BY <4>1, <4>2, SkuSynced
      <4>4. QED
        BY <2>2, <3>2, <4>3 DEF DbType
    <3>3. QED
      BY <2>1, <3>1, <3>2
  <2>5. QED
    BY <1>3, <2>3, <2>4 DEF SyncItems, SyncerType, DbType
<1>4. CASE SyncEntries(y)
  <2>1. PICK id \in unknown[y] :
          /\ unknown' = [unknown EXCEPT ![y] = @ \ {id}]
          /\ badMbrs' = [badMbrs EXCEPT ![y] = @ \cup {id[2]}] \/ UNCHANGED badMbrs
          /\ badCodes' = [badCodes EXCEPT ![y] = @ \cup {CodeOf[id[1]]}] \/ UNCHANGED badCodes
    BY <1>4 DEF SyncEntries
  <2>2. id[1] \in Keys /\ id[2] \in Members /\ CodeOf[id[1]] \in Codes
    BY RowIds DEF SyncerType, Codes
  <2>3. /\ unknown' \in [Syncs -> SUBSET RowId]
        /\ badMbrs' \in [Syncs -> SUBSET Members] /\ badCodes' \in [Syncs -> SUBSET Codes]
    BY <2>1, <2>2 DEF SyncerType
  <2>4. QED
    BY <1>4, <2>3, TypeParts DEF SyncEntries, SyncerType
<1>5. CASE SyncByMember(y)
  <2>1. {id \in Rows(Keys) : id[2] \in badMbrs[y]} \subseteq RowId
    BY <1>1
  <2>2. SyncerType'
    <3>1. CASE badMbrs[y] = {} /\ SyncOver(y)
      BY <3>1 DEF SyncOver, SyncerType
    <3>2. CASE badMbrs[y] # {}
      BY <1>5, <2>1, <3>2 DEF SyncByMember, SyncerType
    <3>3. QED
      BY <1>5, <3>1, <3>2 DEF SyncByMember
  <2>3. QED
    BY <1>5, <2>2, TypeParts DEF SyncByMember
<1>6. CASE SyncByCode(y)
  <2>1. Rows({k \in Keys : CodeOf[k] \in badCodes[y]}) \subseteq RowId
    BY <1>1
  <2>2. SyncerType'
    <3>1. CASE badCodes[y] = {} /\ SyncOver(y)
      BY <3>1 DEF SyncOver, SyncerType
    <3>2. CASE badCodes[y] # {}
      BY <1>6, <2>1, <3>2 DEF SyncByCode, SyncerType
    <3>3. QED
      BY <1>6, <3>1, <3>2 DEF SyncByCode
  <2>3. QED
    BY <1>6, <2>2, TypeParts DEF SyncByCode
<1>7. CASE SyncRemove(y)
  <2>1. SyncerType'
    BY <1>7 DEF SyncRemove, SyncOver, SyncerType
  <2>2. sku' \in [Keys -> SkuRow \cup {NoSku}]
    BY <1>7, WithoutRows DEF SyncRemove, DbType
  <2>3. QED
    BY <1>7, <2>1, <2>2 DEF SyncRemove, DbType
<1>8. QED
  BY <1>2, <1>3, <1>4, <1>5, <1>6, <1>7 DEF Sync

LEMMA TypeNext == TypeInv /\ [Next]_vars => TypeInv'
<1> SUFFICES ASSUME TypeInv, [Next]_vars PROVE TypeInv'
  OBVIOUS
<1>1. /\ DbType /\ CreatorType /\ SyncerType /\ CleanerType /\ JdaType /\ FaultsType
      /\ JdaType'
      /\ DbType' /\ CreatorType' /\ SyncerType' /\ CleanerType' /\ FaultsType' => TypeInv'
  <2>1. TypeInv' <=> DbType' /\ CreatorType' /\ SyncerType' /\ CleanerType' /\ JdaType' /\ FaultsType'
    BY DEF TypeInv, TypeOK, DbType, CreatorType, SyncerType, CleanerType, JdaType, FaultsType
  <2>2. QED
    BY <2>1, TypeParts, JdaNext
<1> HIDE DEF TypeInv
<1>2. CASE Approve
  <2>1. DbType'
    BY <1>1, <1>2 DEF Approve, DbType
  <2>2. QED
    BY <1>1, <1>2, <2>1, TypeParts DEF Approve
<1>3. CASE Workflow
  BY <1>1, <1>3, TypeParts DEF Workflow
<1>4. CASE Lose
  <2>1. FaultsType'
    BY <1>1, <1>4, BoundsAssumption DEF Lose, FaultsType
  <2>2. CreatorType' /\ SyncerType' /\ CleanerType'
    BY <1>1, <1>4, TypeParts, FinishType DEF Lose, SyncOver, SyncerType, CleanerType
  <2>3. QED
    BY <1>1, <1>4, <2>1, <2>2, TypeParts DEF Lose
<1>5. ASSUME NEW r \in Creators, CreateRead(r) \/ CreateStep(r) PROVE TypeInv'
  <2>1. UNCHANGED <<syncer, clean, faults>>
    BY <1>5 DEF CreateRead, CreateStep, SequenceRead, MemberSave, RowFind, RowSave, Override,
       Insert, Program
  <2>2. QED
    BY <1>1, <1>5, <2>1, CreatorNext, TypeParts
<1>6. ASSUME NEW y \in Syncs, Sync(y) PROVE TypeInv'
  <2>1. UNCHANGED <<creator, clean, faults>>
    BY <1>6 DEF Sync, SyncRead, SyncItems, SyncEntries, SyncByMember, SyncByCode, SyncRemove
  <2>2. QED
    BY <1>1, <1>6, <2>1, SyncerNext, TypeParts
<1>7. ASSUME NEW n \in Cleaners, CleanRead(n) \/ CleanRemove(n) PROVE TypeInv'
  <2>1. CleanerType'
    <3>1. \A keys \in SUBSET Keys : Rows(keys) \subseteq RowId
      BY <1>1, RowsType DEF DbType
    <3>2. ASSUME CleanRead(n) PROVE CleanerType'
      <4>1. PICK code \in Codes :
              clean' = [clean EXCEPT ![n] = Rows({k \in Keys : CodeOf[k] = code})]
        BY <3>2 DEF CleanRead
      <4>2. Rows({k \in Keys : CodeOf[k] = code}) \subseteq RowId
        BY <3>1
      <4>3. QED
        BY <1>1, <4>1, <4>2 DEF CleanerType
    <3>3. QED
      BY <1>1, <1>7, <3>2 DEF CleanRemove, CleanerType
  <2>2. DbType'
    BY <1>1, <1>7, TypeParts, WithoutRows DEF CleanRead, CleanRemove, DbType
  <2>3. QED
    BY <1>1, <1>7, <2>1, <2>2, TypeParts DEF CleanRead, CleanRemove
<1>8. CASE UNCHANGED vars
  BY <1>1, <1>8, TypeParts DEF vars
<1>9. QED
  BY <1>2, <1>3, <1>4, <1>5, <1>6, <1>7, <1>8 DEF Next

-----------------------------------------------------------------------------
\* One creation of each member.

LEMMA NameInit == Init => NameInv
<1> SUFFICES ASSUME Init PROVE NameInv
  OBVIOUS
<1>1. \A r \in Creators : pc[r] = "idle" /\ left[r] = {}
  BY DEF Init
<1>2. \A r \in Creators : ~Holds(r)
  BY <1>1, KeysAssumption DEF Holds, Steps
<1>3. QED
  BY <1>1, <1>2 DEF NameInv

\* No member is stored.
LEMMA NameStays ==
  ASSUME NameInv, names' = names,
         \A r \in Creators : Holds(r)' => Holds(r) /\ name'[r] = name[r],
         \A r \in Creators : left'[r] # {} => Holds(r)'
  PROVE  NameInv'
  BY DEF NameInv

LEMMA NameFinish ==
  ASSUME TypeInv, NameInv, names' = names, NEW r \in Creators, Finish(r)
  PROVE  NameInv'
<1>1. /\ pc'[r] = "idle" /\ left'[r] = {}
      /\ \A q \in Creators : q # r =>
           pc'[q] = pc[q] /\ name'[q] = name[q] /\ left'[q] = left[q]
  BY DEF Finish, TypeInv, TypeOK
<1>2. ~Holds(r)' /\ \A q \in Creators : q # r => Holds(q)' = Holds(q)
  BY <1>1, KeysAssumption DEF Holds, Steps
<1>3. QED
  BY <1>1, <1>2, NameStays DEF NameInv

LEMMA NameMemberSave ==
  ASSUME TypeInv, NameInv, NEW r \in Creators, MemberSave(r)
  PROVE  NameInv'
<1>1. CASE Finish(r) /\ UNCHANGED names
  BY <1>1, NameFinish
<1>2. CASE /\ name[r] \notin names
           /\ names' = names \cup {name[r]}
           /\ left' = [left EXCEPT ![r] = Wanted(r)]
           /\ pc' = [pc EXCEPT ![r] = "rows"]
           /\ UNCHANGED <<want, name>>
  <2>1. /\ pc'[r] = "rows"
        /\ \A q \in Creators : q # r => pc'[q] = pc[q] /\ left'[q] = left[q]
    BY <1>2 DEF TypeInv, TypeOK
  <2>2. Holds(r)' /\ \A q \in Creators : q # r => Holds(q)' = Holds(q)
    BY <2>1 DEF Holds
  <2>3. \A q \in Creators : Holds(q) => name[q] # name[r]
    BY <1>2 DEF NameInv
  <2>4. QED
    BY <1>2, <2>1, <2>2, <2>3 DEF NameInv
<1>3. QED
  BY <1>1, <1>2 DEF MemberSave

LEMMA NameNext == TypeInv /\ NameInv /\ [Next]_vars => NameInv'
<1> SUFFICES ASSUME TypeInv, NameInv, [Next]_vars PROVE NameInv'
  OBVIOUS
<1>0. {"idle", "sequence", "member"} \cap ({"rows", "override", "insert", "program"} \cup Keys) = {}
  BY KeysAssumption DEF Steps
<1>1. ASSUME UNCHANGED <<names, creator>> PROVE NameInv'
  BY <1>1 DEF NameInv, Holds, creator
<1>2. ASSUME NEW r \in Creators, CreateRead(r) PROVE NameInv'
  <2>1. /\ pc[r] = "idle" /\ pc'[r] = "sequence"
        /\ \A q \in Creators : q # r => pc'[q] = pc[q]
        /\ UNCHANGED <<names, left, name>>
    BY <1>2 DEF CreateRead, TypeInv, TypeOK, db
  <2>2. ~Holds(r) /\ ~Holds(r)' /\ \A q \in Creators : q # r => Holds(q)' = Holds(q)
    BY <1>0, <2>1 DEF Holds
  <2>3. QED
    BY <2>1, <2>2, NameStays DEF NameInv
<1>3. ASSUME NEW r \in Creators, SequenceRead(r) PROVE NameInv'
  <2>1. /\ pc[r] = "sequence" /\ pc'[r] = "member"
        /\ \A q \in Creators : q # r => pc'[q] = pc[q] /\ name'[q] = name[q]
        /\ UNCHANGED <<names, left>>
    BY <1>3 DEF SequenceRead, TypeInv, TypeOK, db
  <2>2. ~Holds(r) /\ ~Holds(r)' /\ \A q \in Creators : q # r => Holds(q)' = Holds(q)
    BY <1>0, <2>1 DEF Holds
  <2>3. QED
    BY <2>1, <2>2, NameStays DEF NameInv
<1>4. ASSUME NEW r \in Creators, RowFind(r) \/ Override(r) \/ Insert(r) PROVE NameInv'
  <2>1. /\ pc[r] \in {"rows", "override", "insert"}
        /\ pc'[r] \in {"rows", "override", "insert", "program"} \cup Keys
        /\ \A q \in Creators : q # r => pc'[q] = pc[q] /\ left'[q] = left[q]
        /\ UNCHANGED <<names, name>>
    BY <1>4 DEF RowFind, Override, Insert, TypeInv, TypeOK, db
  <2>2. Holds(r) /\ Holds(r)' /\ \A q \in Creators : q # r => Holds(q)' = Holds(q)
    BY <2>1 DEF Holds
  <2>3. QED
    BY <2>1, <2>2, NameStays DEF NameInv
<1>5. ASSUME NEW r \in Creators, RowSave(r) PROVE NameInv'
  <2>1. pc[r] \in Keys /\ UNCHANGED names
    BY <1>5 DEF RowSave
  <2>2. CASE Finish(r)
    BY <2>1, <2>2, NameFinish
  <2>3. CASE pc' = [pc EXCEPT ![r] = "rows"] /\ UNCHANGED name /\ \A q \in Creators : q # r => left'[q] = left[q]
    <3>1. Holds(r) /\ Holds(r)' /\ \A q \in Creators : q # r => Holds(q)' = Holds(q)
      BY <2>1, <2>3 DEF Holds, TypeInv, TypeOK
    <3>2. QED
      BY <2>1, <2>3, <3>1, NameStays DEF NameInv
  <2>4. QED
    BY <1>5, <2>2, <2>3 DEF RowSave, TypeInv, TypeOK
<1>6. ASSUME NEW r \in Creators, Program(r) PROVE NameInv'
  BY <1>6, NameFinish DEF Program, db
<1>7. CASE \E y \in Syncs : Sync(y)
  BY <1>1, <1>7 DEF Sync, SyncRead, SyncItems, SyncEntries, SyncByMember, SyncByCode, SyncRemove, db
<1>8. CASE Approve \/ Workflow \/ UNCHANGED vars \/ \E n \in Cleaners : CleanRead(n) \/ CleanRemove(n)
  BY <1>1, <1>8 DEF Approve, Workflow, vars, CleanRead, CleanRemove, db
<1>9. CASE Lose
  BY <1>1, <1>9, NameFinish DEF Lose, db
<1>10. QED
  BY <1>2, <1>3, <1>4, <1>5, <1>6, <1>7, <1>8, <1>9, NameMemberSave DEF Next, CreateStep

-----------------------------------------------------------------------------
\* The numbers stored are of items that JDA has.

LEMMA SyncedInit == Init => SyncedInJda
  BY SkuRows DEF Init, SyncedInJda

\* A row found among the items is completed with some of them, and no other
\* row changes.
LEMMA ItemsStored ==
  ASSUME TypeInv, NEW y \in Syncs, SyncItems(y)
  PROVE  \A k \in Keys :
           /\ sku'[k].mbr = sku[k].mbr /\ sku'[k].colors = sku[k].colors
           /\ sku'[k].synced \subseteq sku[k].synced \cup (items[k] \cap sku[k].colors)
<1>1. PICK id \in query[y] :
        \/ UNCHANGED sku
        \/ /\ id \in Rows(Keys)
           /\ sku' = [sku EXCEPT ![id[1]].synced = @ \cup (items[id[1]] \cap sku[id[1]].colors)]
  BY DEF SyncItems
<1>2. CASE UNCHANGED sku
  BY <1>2
<1>3. CASE /\ id \in Rows(Keys)
           /\ sku' = [sku EXCEPT ![id[1]].synced = @ \cup (items[id[1]] \cap sku[id[1]].colors)]
  <2>1. id[1] \in Keys
    BY RowIds DEF TypeInv, TypeOK
  <2> DEFINE found == items[id[1]] \cap sku[id[1]].colors
             z == [sku[id[1]] EXCEPT !.synced = @ \cup found]
  <2>2. sku[id[1]] \in SkuRow /\ sku[id[1]] # NoSku
    <3>1. PICK k \in Keys : id = <<k, sku[k].mbr>> /\ sku[k] # NoSku
      BY <1>3 DEF Rows, Exists
    <3>2. QED
      BY <3>1 DEF TypeInv, TypeOK
  <2>3. found \in SUBSET Colors
    BY <2>1 DEF TypeInv, TypeOK
  <2>4. /\ z \in SkuRow /\ z.mbr = sku[id[1]].mbr
        /\ z.colors = sku[id[1]].colors /\ z.synced = sku[id[1]].synced \cup found
    <3> HIDE DEF found
    <3>1. QED
      BY <2>2, <2>3, SkuSynced
  <2>5. sku' = [sku EXCEPT ![id[1]] = z]
    BY <1>3
  <2> HIDE DEF z
  <2>7. \A k \in Keys : k # id[1] => sku'[k] = sku[k]
    BY <2>5 DEF TypeInv, TypeOK
  <2>8. sku'[id[1]] = z
    BY <2>1, <2>5 DEF TypeInv, TypeOK
  <2>9. ASSUME NEW k \in Keys, k # id[1]
        PROVE  /\ sku'[k].mbr = sku[k].mbr /\ sku'[k].colors = sku[k].colors
               /\ sku'[k].synced \subseteq sku[k].synced \cup (items[k] \cap sku[k].colors)
    BY <2>7, <2>9
  <2>10. QED
    BY <2>4, <2>8, <2>9
<1>4. QED
  BY <1>1, <1>2, <1>3

\* Rows are removed.
LEMMA RowsRemoved ==
  ASSUME TypeInv, NEW rows, sku' = Without(rows)
  PROVE  \A k \in Keys : sku'[k] \in {sku[k], NoSku}
  BY WithoutRows DEF TypeInv, TypeOK

LEMMA SyncedNext == TypeInv /\ SyncedInJda /\ [Next]_vars => SyncedInJda'
<1> SUFFICES ASSUME TypeInv, SyncedInJda, [Next]_vars PROVE SyncedInJda'
  OBVIOUS
<1>1. ASSUME UNCHANGED <<sku, items>> PROVE SyncedInJda'
  BY <1>1 DEF SyncedInJda
<1>2. ASSUME UNCHANGED items, \A k \in Keys : sku'[k] \in {sku[k], NoSku}
      PROVE  SyncedInJda'
  BY <1>2, SkuRows DEF SyncedInJda
<1>3. CASE Workflow
  <2>1. \A k \in Keys : items[k] \subseteq items'[k]
    <3>1. CASE UNCHANGED items
      BY <3>1
    <3>2. ASSUME NEW e \in entries, items' = [items EXCEPT ![e.key] = @ \cup e.colors]
          PROVE  \A k \in Keys : items[k] \subseteq items'[k]
      BY <3>2 DEF TypeInv, TypeOK
    <3>3. QED
      BY <1>3, <3>1, <3>2 DEF Workflow
  <2>2. UNCHANGED sku
    BY <1>3 DEF Workflow, db
  <2>3. QED
    BY <2>1, <2>2 DEF SyncedInJda
<1>4. CASE \E y \in Syncs : SyncItems(y)
  <2>1. UNCHANGED items
    BY <1>4 DEF SyncItems, jda
  <2>2. QED
    BY <1>4, <2>1, ItemsStored DEF SyncedInJda
<1>5. CASE \E y \in Syncs : SyncRemove(y)
  BY <1>2, <1>5, RowsRemoved DEF SyncRemove, jda
<1>6. CASE \E n \in Cleaners : CleanRemove(n)
  BY <1>2, <1>6, RowsRemoved DEF CleanRemove, jda
<1>7. ASSUME NEW r \in Creators, RowSave(r) PROVE SyncedInJda'
  <2>1. UNCHANGED items
    BY <1>7 DEF RowSave, jda
  <2>2. CASE UNCHANGED sku
    BY <1>1, <2>1, <2>2
  <2>3. ASSUME NEW k \in Keys, sku' = [sku EXCEPT ![k] =
                     [mbr |-> name[r], colors |-> want[r][k], synced |-> {}]]
        PROVE  SyncedInJda'
    <3>1. sku'[k].synced = {} /\ \A x \in Keys : x # k => sku'[x] = sku[x]
      BY <2>3 DEF TypeInv, TypeOK
    <3>2. QED
      BY <2>1, <3>1 DEF SyncedInJda
  <2>4. QED
    BY <1>7, <2>2, <2>3 DEF RowSave
<1>8. CASE \E r \in Creators : \/ CreateRead(r) \/ SequenceRead(r) \/ MemberSave(r) \/ RowFind(r)
                               \/ Override(r) \/ Insert(r) \/ Program(r)
  BY <1>1, <1>8 DEF CreateRead, SequenceRead, MemberSave, RowFind, Override, Insert, Program,
     db, jda
<1>9. CASE \E y \in Syncs : SyncRead(y) \/ SyncEntries(y) \/ SyncByMember(y) \/ SyncByCode(y)
  BY <1>1, <1>9 DEF SyncRead, SyncEntries, SyncByMember, SyncByCode, db, jda
<1>10. CASE Approve \/ Lose \/ UNCHANGED vars \/ \E n \in Cleaners : CleanRead(n)
  BY <1>1, <1>10 DEF Approve, Lose, vars, CleanRead, db, jda
<1>11. QED
  BY <1>3, <1>4, <1>5, <1>6, <1>7, <1>8, <1>9, <1>10 DEF Next, CreateStep, Sync

-----------------------------------------------------------------------------
\* With one creation at a time, the rows stored are entered.

LEMMA EnterInit == Init => EnterInv
<1> SUFFICES ASSUME Init PROVE EnterInv
  OBVIOUS
<1>1. /\ \A k \in Keys : ~Exists(k)
      /\ \A r \in Creators : pc[r] = "idle" /\ left[r] = {}
  BY DEF Init, Exists
<1>2. \A r \in Creators : pc[r] \notin Keys
  BY <1>1, KeysAssumption DEF Steps
<1>3. QED
  BY <1>1, <1>2 DEF EnterInv

\* The creations stand still, rows are removed or completed, and no entry is
\* lost.
LEMMA EnterStays ==
  ASSUME EnterInv, faults' = faults, UNCHANGED <<pc, want, left, name, override, file>>,
         \A k \in Keys : Exists(k)' =>
           Exists(k) /\ sku'[k].mbr = sku[k].mbr /\ sku'[k].colors = sku[k].colors,
         \A e \in entries : \E f \in entries' :
           f.mbr = e.mbr /\ f.key = e.key /\ f.colors = e.colors
  PROVE  EnterInv'
<1> SUFFICES ASSUME faults' = 0 PROVE EnterInv'
  BY DEF EnterInv
<1>1. \A k \in Keys : Exists(k)' => (Entered(k) => Entered(k)')
  BY DEF Entered
<1>2. \A r \in Creators, k \in Keys : Exists(k)' => (Entering(r, k) => Entering(r, k)')
  BY DEF Entering, Holds, Wanted
<1>3. \A r \in Creators : Wanted(r)' = Wanted(r)
  BY DEF Wanted
<1>4. QED
  BY <1>1, <1>2, <1>3 DEF EnterInv

\* The creation that begins, or has not stored its member, has stored no row.
LEMMA EnterBegins ==
  ASSUME TypeInv, NameInv, EnterInv, OneAtATime, NEW r \in Creators,
         CreateRead(r) \/ SequenceRead(r) \/ MemberSave(r)
  PROVE  EnterInv'
<1> SUFFICES ASSUME faults' = 0 PROVE EnterInv'
  BY DEF EnterInv
<1>1. faults = 0 /\ UNCHANGED <<sku, entries>>
  BY DEF CreateRead, SequenceRead, MemberSave, db, jda
<1>2. pc[r] \in {"idle", "sequence", "member"} /\ ~Holds(r)
  BY KeysAssumption DEF CreateRead, SequenceRead, MemberSave, Holds, Steps
<1>3. left[r] = {} /\ \A q \in Creators : q = r
  BY <1>2 DEF NameInv, OneAtATime
<1>4. pc'[r] \in {"idle", "sequence", "member", "rows"}
  BY DEF CreateRead, SequenceRead, MemberSave, Finish, TypeInv, TypeOK
<1>5. left'[r] \subseteq Wanted(r)'
  <2>1. CASE left'[r] = {}
    BY <2>1
  <2>2. CASE left'[r] = Wanted(r) /\ UNCHANGED want
    BY <2>2 DEF Wanted
  <2>3. QED
    BY <1>3, <2>1, <2>2 DEF CreateRead, SequenceRead, MemberSave, Finish, TypeInv, TypeOK
<1>6. \A k \in Keys : Exists(k)' => Entered(k)'
  BY <1>1, <1>2, <1>3 DEF EnterInv, Entering, Exists, Entered
<1>7. pc'[r] \notin Keys
  BY <1>4, KeysAssumption DEF Steps
<1>8. QED
  BY <1>3, <1>4, <1>5, <1>6, <1>7 DEF EnterInv

\* It stores the rows it has not found, with its member and what it sends.
LEMMA EnterRows ==
  ASSUME TypeInv, NameInv, EnterInv, OneAtATime, NEW r \in Creators,
         RowFind(r) \/ RowSave(r)
  PROVE  EnterInv'
<1> SUFFICES ASSUME faults' = 0 PROVE EnterInv'
  BY DEF EnterInv
<1>1. faults = 0 /\ UNCHANGED <<entries, override, file>>
  BY DEF RowFind, RowSave, jda
<1>2. /\ \A q \in Creators : q = r
      /\ left[r] \subseteq Wanted(r) /\ left[r] \subseteq Keys
      /\ \A k \in Keys : Exists(k) => Entered(k) \/ Entering(r, k)
      /\ \A k \in Keys : pc[r] = k => k \in left[r] /\ ~Exists(k)
  BY <1>1 DEF EnterInv, OneAtATime, TypeInv, TypeOK
<1>3. CASE RowFind(r)
  <2>1. /\ UNCHANGED <<sku, want, name>> /\ left'[r] \subseteq left[r]
        /\ \/ \E k \in left[r] : pc'[r] = k /\ ~Exists(k) /\ left'[r] = left[r]
           \/ pc'[r] \in {"rows", "override"}
    BY <1>3 DEF RowFind, db, TypeInv, TypeOK
  <2>2. Wanted(r)' = Wanted(r) /\ \A k \in Keys : Exists(k)' = Exists(k)
    BY <2>1 DEF Wanted, Exists
  <2>3. Holds(r)' /\ pc'[r] \notin {"insert", "program"}
    <3>1. {"rows", "override"} \cap {"insert", "program"} = {}
      OBVIOUS
    <3>2. Keys \cap {"insert", "program"} = {}
      BY KeysAssumption DEF Steps
    <3>3. QED
      BY <1>2, <2>1, <3>1, <3>2 DEF Holds
  <2>4. \A k \in Keys : pc'[r] = k => k \in left'[r] /\ ~Exists(k)
    BY <2>1, KeysAssumption DEF Steps
  <2>5. \A k \in Keys : Exists(k) => Entered(k)' \/ Entering(r, k)'
    BY <1>1, <1>2, <2>1, <2>2, <2>3 DEF Entered, Entering
  <2>6. QED
    BY <1>2, <2>1, <2>2, <2>3, <2>4, <2>5 DEF EnterInv
<1>4. CASE RowSave(r)
  <2>1. PICK k \in Keys :
          /\ pc[r] = k
          /\ sku' = [sku EXCEPT ![k] =
               [mbr |-> name[r], colors |-> want[r][k], synced |-> {}]]
          /\ left' = [left EXCEPT ![r] = @ \ {k}]
          /\ pc' = [pc EXCEPT ![r] = "rows"]
          /\ UNCHANGED <<want, name>>
    BY <1>2, <1>4 DEF RowSave
  <2>2. /\ pc'[r] = "rows" /\ left'[r] \subseteq left[r]
        /\ sku'[k].mbr = name[r] /\ sku'[k].colors = want[r][k]
        /\ \A x \in Keys : x # k => sku'[x] = sku[x]
    BY <2>1 DEF TypeInv, TypeOK
  <2>3. Wanted(r)' = Wanted(r) /\ k \in Wanted(r)
    BY <1>2, <2>1 DEF Wanted
  <2>4. Holds(r) /\ Holds(r)'
    BY <2>1, <2>2 DEF Holds
  <2>5. Entering(r, k)'
    BY <2>1, <2>2, <2>3, <2>4 DEF Entering
  <2>6. ASSUME NEW x \in Keys, x # k, Exists(x)' PROVE Entered(x)' \/ Entering(r, x)'
    <3>1. sku'[x] = sku[x] /\ Exists(x)
      BY <2>2, <2>6 DEF Exists
    <3>2. QED
      BY <1>1, <1>2, <2>1, <2>3, <2>4, <3>1 DEF Entered, Entering
  <2>7. pc'[r] \notin Keys
    BY <2>2, KeysAssumption DEF Steps
  <2>8. QED
    BY <1>2, <2>2, <2>3, <2>5, <2>6, <2>7 DEF EnterInv
<1>5. QED
  BY <1>3, <1>4

\* Its records go to its own member, which the only job writes to.
LEMMA EnterFile ==
  ASSUME TypeInv, EnterInv, OneAtATime, NEW r \in Creators, Override(r) \/ Insert(r)
  PROVE  EnterInv'
<1> SUFFICES ASSUME faults' = 0 PROVE EnterInv'
  BY DEF EnterInv
<1>1. faults = 0 /\ UNCHANGED <<sku, want, left, name, entries>>
  BY DEF Override, Insert, db
<1>2. \A q \in Creators : q = r
  BY DEF OneAtATime
<1>3. Holds(r) /\ Holds(r)'
  BY DEF Override, Insert, Holds, TypeInv, TypeOK
<1>4. Wanted(r)' = Wanted(r) /\ \A k \in Keys : Exists(k)' = Exists(k)
  BY <1>1 DEF Wanted, Exists
<1>5. \A k \in Keys : Exists(k)' => Entered(k)' \/ Entering(r, k)'
  BY <1>1, <1>2, <1>3, <1>4 DEF EnterInv, Entered, Entering
<1>6. pc'[r] \in {"insert", "program"} /\ pc'[r] \notin Keys
  BY KeysAssumption DEF Override, Insert, Steps, TypeInv, TypeOK
<1>7. pc'[r] = "insert" => \A j \in Jobs : override'[j] = name[r]
  BY DEF Override, Insert, OneAtATime, TypeInv, TypeOK
<1>8. ASSUME pc'[r] = "program", NEW k \in Wanted(r)
      PROVE  [key |-> k, colors |-> want[r][k]] \in file'[name[r]]
  <2>1. Insert(r) /\ pc[r] = "insert"
    BY <1>8 DEF Override, Insert, TypeInv, TypeOK
  <2>2. PICK j \in Jobs : file' = [file EXCEPT ![override[j]] =
          @ \cup {[key |-> x, colors |-> want[r][x]] : x \in Wanted(r)}]
    BY <2>1 DEF Insert
  <2>3. override[j] = name[r] /\ name[r] \in Members \cup {NoMember}
    BY <1>1, <2>1 DEF EnterInv, TypeInv, TypeOK
  <2>4. [key |-> k, colors |-> want[r][k]]
          \in {[key |-> x, colors |-> want[r][x]] : x \in Wanted(r)}
    OBVIOUS
  <2>5. QED
    BY <2>2, <2>3, <2>4 DEF TypeInv, TypeOK
<1>9. left[r] \subseteq Wanted(r)
  BY <1>1 DEF EnterInv
<1>10. QED
  BY <1>1, <1>2, <1>4, <1>5, <1>6, <1>7, <1>8, <1>9 DEF EnterInv

\* And the program enters them.
LEMMA EnterProgram ==
  ASSUME TypeInv, EnterInv, OneAtATime, NEW r \in Creators, Program(r)
  PROVE  EnterInv'
<1> SUFFICES ASSUME faults' = 0 PROVE EnterInv'
  BY DEF EnterInv
<1>1. faults = 0 /\ UNCHANGED sku /\ pc[r] = "program"
  BY DEF Program, db
<1>2. \A q \in Creators : q = r
  BY DEF OneAtATime
<1>3. pc'[r] = "idle" /\ left'[r] = {}
  BY DEF Program, Finish, TypeInv, TypeOK
<1>4. pc'[r] \notin Keys
  BY <1>3, KeysAssumption DEF Steps
<1>5. entries' = entries \cup {[mbr |-> name[r], key |-> rec.key,
                   colors |-> rec.colors, st |-> "loading"] : rec \in file[name[r]]}
  BY DEF Program
<1>6. ASSUME NEW k \in Keys, Exists(k)' PROVE Entered(k)'
  <2>1. Exists(k) /\ sku'[k] = sku[k]
    BY <1>1, <1>6 DEF Exists
  <2>2. CASE Entered(k)
    BY <1>5, <2>1, <2>2 DEF Entered
  <2>3. CASE Entering(r, k)
    <3> DEFINE rec == [key |-> k, colors |-> want[r][k]]
               e == [mbr |-> name[r], key |-> rec.key, colors |-> rec.colors, st |-> "loading"]
    <3>1. rec \in file[name[r]]
      BY <1>1, <2>3 DEF EnterInv, Entering
    <3>2. e \in entries'
      BY <1>5, <3>1
    <3>3. e.mbr = name[r] /\ e.key = k /\ e.colors = want[r][k]
      OBVIOUS
    <3> HIDE DEF e
    <3>4. sku'[k].mbr = name[r] /\ sku'[k].colors = want[r][k]
      BY <2>1, <2>3 DEF Entering
    <3>5. QED
      BY <3>2, <3>3, <3>4 DEF Entered
  <2>4. QED
    BY <1>1, <1>2, <2>1, <2>2, <2>3 DEF EnterInv
<1>7. QED
  BY <1>2, <1>3, <1>4, <1>6 DEF EnterInv

LEMMA EnterNext ==
  ASSUME OneAtATime
  PROVE  TypeInv /\ NameInv /\ EnterInv /\ [Next]_vars => EnterInv'
<1> SUFFICES ASSUME TypeInv, NameInv, EnterInv, [Next]_vars PROVE EnterInv'
  OBVIOUS
<1>1. ASSUME faults' = faults, UNCHANGED <<sku, creator, jda>> PROVE EnterInv'
  BY <1>1, EnterStays DEF creator, jda, Exists
<1>2. ASSUME faults' = faults, UNCHANGED <<creator, jda>>,
             \A k \in Keys : sku'[k] \in {sku[k], NoSku}
      PROVE  EnterInv'
  <2>1. \A k \in Keys : Exists(k)' => Exists(k) /\ sku'[k] = sku[k]
    BY <1>2 DEF Exists
  <2>2. QED
    BY <1>2, <2>1, EnterStays DEF creator, jda
<1>3. CASE Workflow
  <2>1. PICK e \in entries :
          \/ entries' = (entries \ {e}) \cup {[e EXCEPT !.st = "loaded"]}
          \/ entries' = (entries \ {e}) \cup {[e EXCEPT !.st = "E"]}
    BY <1>3 DEF Workflow
  <2>2. e \in Entry
    BY DEF TypeInv, TypeOK
  <2>3. \A st \in {"loaded", "E"} : \A f \in {[e EXCEPT !.st = st]} :
          f.mbr = e.mbr /\ f.key = e.key /\ f.colors = e.colors
    BY <2>2 DEF Entry
  <2>4. \E f \in entries' : f.mbr = e.mbr /\ f.key = e.key /\ f.colors = e.colors
    BY <2>1, <2>3
  <2>5. \A d \in entries : d # e => d \in entries'
    BY <2>1
  <2>6. \A d \in entries : \E f \in entries' :
          f.mbr = d.mbr /\ f.key = d.key /\ f.colors = d.colors
    BY <2>4, <2>5
  <2>7. UNCHANGED <<pc, want, left, name, override, file, sku, faults>>
    BY <1>3 DEF Workflow, creator, db
  <2>8. QED
    BY <2>6, <2>7, EnterStays DEF Exists
<1>4. CASE Lose
  <2>1. faults \in Nat /\ faults' = faults + 1
    BY <1>4, BoundsAssumption, TypeParts DEF Lose, FaultsType
  <2>2. QED
    BY <2>1 DEF EnterInv
<1>5. ASSUME NEW y \in Syncs, SyncItems(y) PROVE EnterInv'
  <2>1. \A k \in Keys : sku'[k].mbr = sku[k].mbr /\ sku'[k].colors = sku[k].colors
    BY <1>5, ItemsStored
  <2>2. sku' \in [Keys -> SkuRow \cup {NoSku}]
    BY TypeNext DEF TypeInv, TypeOK
  <2>3. \A k \in Keys : Exists(k)' => Exists(k)
    BY <2>1, <2>2, SkuRows DEF Exists, TypeInv, TypeOK
  <2>4. UNCHANGED <<creator, jda, faults>>
    BY <1>5 DEF SyncItems
  <2>5. QED
    BY <2>1, <2>3, <2>4, EnterStays DEF creator, jda
<1>6. CASE \E y \in Syncs : SyncRemove(y)
  BY <1>2, <1>6, RowsRemoved DEF SyncRemove
<1>7. CASE \E n \in Cleaners : CleanRemove(n)
  BY <1>2, <1>7, RowsRemoved DEF CleanRemove
<1>8. CASE \E y \in Syncs : SyncRead(y) \/ SyncEntries(y) \/ SyncByMember(y) \/ SyncByCode(y)
  BY <1>1, <1>8 DEF SyncRead, SyncEntries, SyncByMember, SyncByCode, db
<1>9. CASE Approve \/ UNCHANGED vars \/ \E n \in Cleaners : CleanRead(n)
  BY <1>1, <1>9 DEF Approve, vars, CleanRead, db
<1>10. QED
  BY <1>3, <1>4, <1>5, <1>6, <1>7, <1>8, <1>9, EnterBegins, EnterRows, EnterFile,
     EnterProgram DEF Next, CreateStep, Sync

-----------------------------------------------------------------------------
\* The invariants hold, and what they say of the properties.

\* The types, the members and the numbers are as IInv says in every state, for
\* any styles, requests and bounds (jdasku.service 306-326, jdaskusync.service
\* 60-165).
THEOREM Invariance == Spec => []IInv
<1>1. Init => IInv
  BY TypeInit, NameInit, SyncedInit DEF IInv
<1>2. IInv /\ [Next]_vars => IInv'
  BY TypeNext, NameNext, SyncedNext DEF IInv
<1>3. QED
  BY <1>1, <1>2, PTL DEF Spec

\* No two creations that store SKUs have the same member, and theirs is stored
\* (jdasku.service 310-311).
THEOREM CreationsOwnMembers == Spec => []OwnMember
<1>1. IInv => OwnMember
  BY DEF IInv, TypeInv, NameInv, OwnMember
<1>2. QED
  BY <1>1, Invariance, PTL

\* The number of an item is stored only with a colour of a SKU that JDA has as
\* an item, also when the SKU is removed or created again while the
\* synchronisation runs (jdaskusync.service 84-105).
THEOREM NumbersAreItems == Spec => []SyncedInJda
<1>1. IInv => SyncedInJda
  BY DEF IInv
<1>2. QED
  BY <1>1, Invariance, PTL

\* With one creation at a time, one connection and no failure, the SKUs of the
\* creations that are over have their entry in JDA, however synchronisations
\* and cleaners remove them meanwhile (jdasku.service 306-326).
THEOREM CreationsEnterRows ==
  ASSUME OneAtATime
  PROVE  Spec => []EveryRowEntered
<1>1. Init => IInv /\ EnterInv
  BY TypeInit, NameInit, SyncedInit, EnterInit DEF IInv
<1>2. IInv /\ EnterInv /\ [Next]_vars => (IInv /\ EnterInv)'
  BY TypeNext, NameNext, SyncedNext, EnterNext DEF IInv
<1>3. EnterInv => EveryRowEntered
  <2> SUFFICES ASSUME EnterInv, faults = 0, \A r \in Creators : pc[r] = "idle",
                      NEW k \in Keys, Exists(k)
               PROVE  Entered(k)
    BY DEF EveryRowEntered, Entered
  <2>1. \A r \in Creators : ~Holds(r)
    BY KeysAssumption DEF Holds, Steps
  <2>2. QED
    BY <2>1 DEF EnterInv, Entering
<1>4. QED
  BY <1>1, <1>2, <1>3, PTL DEF Spec
=============================================================================
