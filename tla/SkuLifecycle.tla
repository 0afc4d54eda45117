---------------------------- MODULE SkuLifecycle ----------------------------
(***************************************************************************)
(* The SKUs of styles: created here and sent to JDA (an AS/400) by         *)
(* createsku, completed or deleted by the synchronisation that a cron job, *)
(* a queue and an endpoint start, and cleaned when a style changes.        *)
(* JDA is external: its workfile has a member per request, chosen by an    *)
(* override of the job that serves a connection of the pool; a program     *)
(* turns the records of a member into entries of MSTXCM, and a workflow    *)
(* turns an entry into items (INVMST) or marks it in error.                *)
(***************************************************************************)
EXTENDS Integers, FiniteSets

CONSTANTS
  Keys,        \* a style and a provider, the key of Sku
  CodeOf,      \* the code of its style
  Atc,         \* those of which only the missing sizes are sent
  Colors,      \* the colours a style may have
  Creators, Syncs, Cleaners,  \* requests of each kind at the same time
  Jobs,        \* connections of the pool, each a job of JDA
  MaxMembers,  \* bound on the members created
  MaxFaults    \* bound on the requests that fail or stop

\* The steps of a creator besides the keys, which are none of them: at a key
\* it stores the row of it.
Steps == {"idle", "sequence", "member", "rows", "override", "insert", "program"}

ASSUME KeysAssumption == Keys \cap Steps = {}
ASSUME AtcAssumption == Atc \subseteq Keys
ASSUME BoundsAssumption == MaxMembers \in Nat /\ MaxFaults \in Nat

Members == 1 .. MaxMembers
NoMember == 0
\* A Sku with its colours and those that have the number of their item; it
\* is another row, of another member, when it is created again.
SkuRow == [mbr: Members, colors: SUBSET Colors, synced: SUBSET Colors]
NoSku == [mbr |-> NoMember, colors |-> {}, synced |-> {}]
RowId == Keys \X Members
\* What is sent of a style, and its entry in MSTXCM.
Record == [key: Keys, colors: SUBSET Colors]
Entry == [mbr: Members, key: Keys, colors: SUBSET Colors, st: {"loading", "E", "loaded"}]

VARIABLES
  approved,  \* the approved colours with units
  sku,       \* Sku, SkuColor and SkuColorSize
  seq,       \* the sequence of sku_jda_mbr
  names,     \* SkuJdaMbr.jdaMember
  pc,        \* of a creator: its next step,
  want,      \* the colours it sends,
  left,      \* the keys it has still to store,
  name,      \* its member
  sync,      \* of a synchronisation: its next step,
  query,     \* the rows it has still to look for among the items,
  unknown,   \* and among the entries of their member,
  badMbrs,   \* mbrsToDelete,
  badCodes,  \* codesToDelete,
  doomed,    \* the rows it is about to remove
  clean,     \* the rows a cleaner is about to remove
  override, file, entries, items,  \* JDA
  faults

db == <<approved, sku, seq, names>>
creator == <<pc, want, left, name>>
syncer == <<sync, query, unknown, badMbrs, badCodes, doomed>>
jda == <<override, file, entries, items>>
vars == <<db, creator, syncer, clean, jda, faults>>

Exists(k) == sku[k] # NoSku
Codes == {CodeOf[k] : k \in Keys}
\* Rows as they are read: their key and their member.
Rows(keys) == {<<k, sku[k].mbr>> : k \in {x \in keys : Exists(x)}}
NothingWanted == [k \in Keys |-> {}]
Wanted(r) == {k \in Keys : want[r][k] # {}}

TypeOK ==
  /\ approved \in [Keys -> SUBSET Colors]
  /\ sku \in [Keys -> SkuRow \cup {NoSku}]
  /\ seq \in Nat
  /\ names \subseteq Members
  /\ pc \in [Creators -> Steps \cup Keys]
  /\ want \in [Creators -> [Keys -> SUBSET Colors]]
  /\ left \in [Creators -> SUBSET Keys]
  /\ name \in [Creators -> Members \cup {NoMember}]
  /\ sync \in [Syncs -> {"idle", "query", "by code", "remove"}]
  /\ query \in [Syncs -> SUBSET RowId]
  /\ unknown \in [Syncs -> SUBSET RowId]
  /\ badMbrs \in [Syncs -> SUBSET Members]
  /\ badCodes \in [Syncs -> SUBSET Codes]
  /\ doomed \in [Syncs -> SUBSET RowId]
  /\ clean \in [Cleaners -> SUBSET RowId]
  /\ override \in [Jobs -> Members \cup {NoMember}]
  /\ file \in [Members \cup {NoMember} -> SUBSET Record]
  /\ entries \subseteq Entry
  /\ items \in [Keys -> SUBSET Colors]
  /\ faults \in 0 .. MaxFaults

Init ==
  /\ approved = NothingWanted
  /\ sku = [k \in Keys |-> NoSku]
  /\ seq = 0 /\ names = {}
  /\ pc = [r \in Creators |-> "idle"]
  /\ want = [r \in Creators |-> NothingWanted]
  /\ left = [r \in Creators |-> {}]
  /\ name = [r \in Creators |-> NoMember]
  /\ sync = [y \in Syncs |-> "idle"]
  /\ query = [y \in Syncs |-> {}] /\ unknown = [y \in Syncs |-> {}]
  /\ badMbrs = [y \in Syncs |-> {}] /\ badCodes = [y \in Syncs |-> {}]
  /\ doomed = [y \in Syncs |-> {}]
  /\ clean = [n \in Cleaners |-> {}]
  /\ override = [j \in Jobs |-> NoMember]
  /\ file = [m \in Members \cup {NoMember} |-> {}]
  /\ entries = {} /\ items = NothingWanted
  /\ faults = 0

\* Other services approve colours, and revert them.
Approve ==
  /\ \E k \in Keys, colors \in SUBSET Colors : approved' = [approved EXCEPT ![k] = colors]
  /\ UNCHANGED <<sku, seq, names, creator, syncer, clean, jda, faults>>

-----------------------------------------------------------------------------
\* createsku of some styles, one provider each.  A style that is not ATC is
\* sent whole again; of the others, only what has no SKU.
CreateRead(r) ==
  /\ pc[r] = "idle" /\ seq < MaxMembers
  /\ \E keys \in SUBSET Keys :
       /\ \A k1, k2 \in keys : CodeOf[k1] = CodeOf[k2] => k1 = k2
       /\ want' = [want EXCEPT ![r] = [k \in Keys |->
            IF k \notin keys THEN {}
            ELSE IF k \in Atc THEN approved[k] \ sku[k].colors ELSE approved[k]]]
  /\ want'[r] # NothingWanted
  /\ pc' = [pc EXCEPT ![r] = "sequence"]
  /\ UNCHANGED <<db, left, name, syncer, clean, jda, faults>>

\* The name of the member is the next value of the sequence, as read.
SequenceRead(r) ==
  /\ pc[r] = "sequence" /\ seq < MaxMembers
  /\ name' = [name EXCEPT ![r] = seq + 1]
  /\ pc' = [pc EXCEPT ![r] = "member"]
  /\ UNCHANGED <<db, want, left, syncer, clean, jda, faults>>

Finish(r) ==
  /\ pc' = [pc EXCEPT ![r] = "idle"]
  /\ want' = [want EXCEPT ![r] = NothingWanted]
  /\ left' = [left EXCEPT ![r] = {}]
  /\ name' = [name EXCEPT ![r] = NoMember]

\* Mutant: the names are not unique.
MemberSaveAny(r) ==
  /\ pc[r] = "member"
  /\ seq' = seq + 1
  /\ names' = names \cup {name[r]}
  /\ left' = [left EXCEPT ![r] = Wanted(r)]
  /\ pc' = [pc EXCEPT ![r] = "rows"]
  /\ UNCHANGED <<approved, sku, want, name, syncer, clean, jda, faults>>

\* The member is inserted, unless another request took the name: the unique
\* index refuses it, and the request.
MemberSave(r) ==
  /\ pc[r] = "member"
  /\ seq' = seq + 1
  /\ \/ /\ name[r] \in names
        /\ Finish(r)
        /\ UNCHANGED names
     \/ /\ name[r] \notin names
        /\ names' = names \cup {name[r]}
        /\ left' = [left EXCEPT ![r] = Wanted(r)]
        /\ pc' = [pc EXCEPT ![r] = "rows"]
        /\ UNCHANGED <<want, name>>
  /\ UNCHANGED <<approved, sku, syncer, clean, jda, faults>>

\* Each style: looked for, and passed over when it has a SKU.
RowFind(r) ==
  /\ pc[r] = "rows"
  /\ \/ \E k \in left[r] :
          \/ ~Exists(k) /\ pc' = [pc EXCEPT ![r] = k] /\ UNCHANGED left
          \/ Exists(k) /\ left' = [left EXCEPT ![r] = @ \ {k}] /\ UNCHANGED pc
     \/ /\ left[r] = {}
        /\ pc' = [pc EXCEPT ![r] = "override"] /\ UNCHANGED left
  /\ UNCHANGED <<db, want, name, syncer, clean, jda, faults>>

\* Stored, unless it has been meanwhile: the unique index of style and
\* provider refuses it and ends the request.
RowSave(r) ==
  /\ \E k \in Keys :
       /\ pc[r] = k
       /\ \/ Exists(k) /\ Finish(r) /\ UNCHANGED sku
          \/ /\ ~Exists(k)
             /\ sku' = [sku EXCEPT ![k] =
                  [mbr |-> name[r], colors |-> want[r][k], synced |-> {}]]
             /\ left' = [left EXCEPT ![r] = @ \ {k}]
             /\ pc' = [pc EXCEPT ![r] = "rows"]
             /\ UNCHANGED <<want, name>>
  /\ UNCHANGED <<approved, seq, names, syncer, clean, jda, faults>>

\* Mutant: the override is forgotten.
OverrideNone(r) ==
  /\ pc[r] = "override"
  /\ pc' = [pc EXCEPT ![r] = "insert"]
  /\ UNCHANGED <<db, want, left, name, syncer, clean, jda, faults>>

\* The member is added to the workfile, and a job overridden to write to it.
Override(r) ==
  /\ pc[r] = "override"
  /\ \E j \in Jobs : override' = [override EXCEPT ![j] = name[r]]
  /\ pc' = [pc EXCEPT ![r] = "insert"]
  /\ UNCHANGED <<db, want, left, name, syncer, clean, file, entries, items, faults>>

\* The records are inserted where the job that serves the insert writes.
Insert(r) ==
  /\ pc[r] = "insert"
  /\ \E j \in Jobs : file' = [file EXCEPT ![override[j]] =
       @ \cup {[key |-> k, colors |-> want[r][k]] : k \in Wanted(r)}]
  /\ pc' = [pc EXCEPT ![r] = "program"]
  /\ UNCHANGED <<db, want, left, name, syncer, clean, override, entries, items, faults>>

\* The program enters the records of the member.
Program(r) ==
  /\ pc[r] = "program"
  /\ entries' = entries \cup {[mbr |-> name[r], key |-> rec.key,
                   colors |-> rec.colors, st |-> "loading"] : rec \in file[name[r]]}
  /\ Finish(r)
  /\ UNCHANGED <<db, syncer, clean, override, file, items, faults>>

\* JDA loads an entry, or marks it in error.
Workflow ==
  /\ \E e \in entries :
       /\ e.st = "loading"
       /\ \/ /\ entries' = (entries \ {e}) \cup {[e EXCEPT !.st = "loaded"]}
             /\ items' = [items EXCEPT ![e.key] = @ \cup e.colors]
          \/ /\ entries' = (entries \ {e}) \cup {[e EXCEPT !.st = "E"]}
             /\ UNCHANGED items
  /\ UNCHANGED <<db, creator, syncer, clean, override, file, faults>>

-----------------------------------------------------------------------------
\* jdasync reads the SKUs with a size that has no number.
SyncRead(y) ==
  /\ sync[y] = "idle"
  /\ LET pending == Rows({k \in Keys : sku[k].colors # sku[k].synced}) IN
       /\ pending # {}
       /\ query' = [query EXCEPT ![y] = pending]
  /\ sync' = [sync EXCEPT ![y] = "query"]
  /\ UNCHANGED <<db, creator, unknown, badMbrs, badCodes, doomed, clean, jda, faults>>

\* Mutant: the numbers are stored whatever has become of the row read.
SyncItemsGone(y) ==
  /\ \E id \in query[y] : LET k == id[1] IN
       /\ query' = [query EXCEPT ![y] = @ \ {id}]
       /\ \/ /\ items[k] = {}
             /\ unknown' = [unknown EXCEPT ![y] = @ \cup {id}]
             /\ UNCHANGED sku
          \/ /\ items[k] # {}
             /\ sku' = [sku EXCEPT ![k].synced = @ \cup items[k]]
             /\ UNCHANGED unknown
  /\ UNCHANGED <<approved, seq, names, creator, sync, badMbrs, badCodes, doomed,
                 clean, jda, faults>>

\* For each, in any order, the items of its code and provider: their numbers
\* are stored in the row read, if it is still there.
SyncItems(y) ==
  /\ \E id \in query[y] : LET k == id[1] IN
       /\ query' = [query EXCEPT ![y] = @ \ {id}]
       /\ \/ /\ items[k] = {}
             /\ unknown' = [unknown EXCEPT ![y] = @ \cup {id}]
             /\ UNCHANGED sku
          \/ /\ items[k] # {}
             /\ sku' = IF id \in Rows(Keys)
                  THEN [sku EXCEPT ![k].synced = @ \cup (items[k] \cap sku[k].colors)]
                  ELSE sku
             /\ UNCHANGED unknown
  /\ UNCHANGED <<approved, seq, names, creator, sync, badMbrs, badCodes, doomed,
                 clean, jda, faults>>

\* Without items, the entries of its member and code: none condemns the
\* member, one in error condemns the code.
SyncEntries(y) ==
  /\ \E id \in unknown[y] :
       LET own == {e \in entries : e.mbr = id[2] /\ CodeOf[e.key] = CodeOf[id[1]]} IN
       /\ unknown' = [unknown EXCEPT ![y] = @ \ {id}]
       /\ badMbrs' = IF own = {}
            THEN [badMbrs EXCEPT ![y] = @ \cup {id[2]}] ELSE badMbrs
       /\ badCodes' = IF \E e \in own : e.st = "E"
            THEN [badCodes EXCEPT ![y] = @ \cup {CodeOf[id[1]]}] ELSE badCodes
  /\ UNCHANGED <<db, creator, sync, query, doomed, clean, jda, faults>>


SyncOver(y) ==
  /\ sync' = [sync EXCEPT ![y] = "idle"]
  /\ query' = [query EXCEPT ![y] = {}]
  /\ unknown' = [unknown EXCEPT ![y] = {}]
  /\ badMbrs' = [badMbrs EXCEPT ![y] = {}]
  /\ badCodes' = [badCodes EXCEPT ![y] = {}]
  /\ doomed' = [doomed EXCEPT ![y] = {}]

\* "Delete SKUs with errors": every SKU of the members, and of the codes.  To
\* look for none, IN (), is an error of the database that ends the
\* synchronisation before it removes anything.
SyncByMember(y) ==
  /\ sync[y] = "query" /\ query[y] = {} /\ unknown[y] = {}
  /\ \/ badMbrs[y] = {} /\ SyncOver(y)
     \/ /\ badMbrs[y] # {}
        /\ doomed' = [doomed EXCEPT ![y] = {id \in Rows(Keys) : id[2] \in badMbrs[y]}]
        /\ sync' = [sync EXCEPT ![y] = "by code"]
        /\ UNCHANGED <<query, unknown, badMbrs, badCodes>>
  /\ UNCHANGED <<db, creator, clean, jda, faults>>

SyncByCode(y) ==
  /\ sync[y] = "by code"
  /\ \/ badCodes[y] = {} /\ SyncOver(y)
     \/ /\ badCodes[y] # {}
        /\ doomed' = [doomed EXCEPT ![y] = @ \cup
                        Rows({k \in Keys : CodeOf[k] \in badCodes[y]})]
        /\ sync' = [sync EXCEPT ![y] = "remove"]
        /\ UNCHANGED <<query, unknown, badMbrs, badCodes>>
  /\ UNCHANGED <<db, creator, clean, jda, faults>>

\* The rows removed are those read, whatever they have become; a row created
\* again meanwhile is another one.
Without(rows) == [k \in Keys |-> IF <<k, sku[k].mbr>> \in rows THEN NoSku ELSE sku[k]]

SyncRemove(y) ==
  /\ sync[y] = "remove"
  /\ sku' = Without(doomed[y])
  /\ SyncOver(y)
  /\ UNCHANGED <<approved, seq, names, creator, clean, jda, faults>>

-----------------------------------------------------------------------------
\* cleanSkus and deleteSkusByStyleIds: the SKUs of a style, of any provider,
\* are read and then removed.
CleanRead(n) ==
  /\ clean[n] = {}
  /\ \E code \in Codes : clean' = [clean EXCEPT ![n] = Rows({k \in Keys : CodeOf[k] = code})]
  /\ clean'[n] # {}
  /\ UNCHANGED <<db, creator, syncer, jda, faults>>

CleanRemove(n) ==
  /\ clean[n] # {}
  /\ sku' = Without(clean[n])
  /\ clean' = [clean EXCEPT ![n] = {}]
  /\ UNCHANGED <<approved, seq, names, creator, syncer, jda, faults>>

-----------------------------------------------------------------------------
\* A query or a call to JDA fails, or the process stops.
Lose ==
  /\ faults < MaxFaults
  /\ faults' = faults + 1
  /\ \/ \E r \in Creators : pc[r] # "idle" /\ Finish(r) /\ UNCHANGED <<syncer, clean>>
     \/ \E y \in Syncs : sync[y] # "idle" /\ SyncOver(y) /\ UNCHANGED <<creator, clean>>
     \/ \E n \in Cleaners : /\ clean[n] # {} /\ clean' = [clean EXCEPT ![n] = {}]
                            /\ UNCHANGED <<creator, syncer>>
  /\ UNCHANGED <<db, jda>>

CreateStep(r) ==
  \/ SequenceRead(r) \/ MemberSave(r) \/ RowFind(r) \/ RowSave(r)
  \/ Override(r) \/ Insert(r) \/ Program(r)

Sync(y) ==
  \/ SyncRead(y) \/ SyncItems(y) \/ SyncEntries(y)
  \/ SyncByMember(y) \/ SyncByCode(y) \/ SyncRemove(y)

Next ==
  \/ Approve \/ Workflow \/ Lose
  \/ \E r \in Creators : CreateRead(r) \/ CreateStep(r)
  \/ \E y \in Syncs : Sync(y)
  \/ \E n \in Cleaners : CleanRead(n) \/ CleanRemove(n)

Spec == Init /\ [][Next]_vars

\* Queries are answered, the synchronisation is started again and again by
\* its cron job, and JDA works off its entries.
FairSpec ==
  /\ Spec
  /\ WF_vars(Workflow)
  /\ \A r \in Creators : WF_vars(CreateStep(r))
  /\ \A y \in Syncs : WF_vars(Sync(y))
  /\ \A n \in Cleaners : WF_vars(CleanRemove(n))

-----------------------------------------------------------------------------
\* A colour has the number of an item only if JDA has the item: a number is
\* never stored in a row created again (jdaskusync.service 84-105).
SyncedInJda == \A k \in Keys : sku[k].synced \subseteq items[k] \cap sku[k].colors

\* The types hold, and two requests never work with the same member, though each reads the
\* sequence before it inserts (jdasku.service 310-311).
OwnMember ==
  /\ TypeOK
  /\ \A r1, r2 \in Creators :
       /\ r1 # r2 /\ left[r1] # {} /\ left[r2] # {} => name[r1] # name[r2]
       /\ left[r1] # {} => name[r1] \in names

\* With one creation at a time, one connection and no failure: a SKU of a
\* creation that is over has its entry in JDA, under its own member, so that
\* the synchronisation finds it (jdasku.service 306-326).
EveryRowEntered ==
  faults = 0 /\ (\A r \in Creators : pc[r] = "idle") =>
    \A k \in Keys : Exists(k) =>
      \E e \in entries : e.mbr = sku[k].mbr /\ e.key = k /\ sku[k].colors \subseteq e.colors

\* A SKU JDA does not know by its member, and one it has refused.
OwnEntries(k) == {e \in entries : e.mbr = sku[k].mbr /\ CodeOf[e.key] = CodeOf[k]}
Lost(k) == Exists(k) /\ items[k] = {} /\ OwnEntries(k) = {}
InError(k) == Exists(k) /\ items[k] = {} /\ \E e \in OwnEntries(k) : e.st = "E"

=============================================================================
