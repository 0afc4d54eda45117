----------------------------- MODULE WizardProofs -----------------------------
(***************************************************************************)
(* Proofs about the entry of a purchase, for any requests, stores, styles  *)
(* and colours: what requests that are served one by one, each of many     *)
(* queries, were sent is what is stored.                                   *)
(***************************************************************************)
EXTENDS PurchaseWizard, FiniteSetTheorems, SequenceTheorems, TLAPS

\* A request has read rows that are there.
LineSteps == {"insert", "insert colors", "add colors", "remove colors"}
WizardSteps ==
  {"idle", "create", "create stores", "edit", "edit add", "edit remove",
   "associate", "associate styles", "line"} \cup LineSteps

WizardWork ==
  [pc : WizardSteps, dto : Seq(SentLine), lines : Seq(SentLine),
   asked : SUBSET StoreIds, stores : SUBSET Nat, styles : SUBSET Nat,
   found : Nat, colors : SUBSET ColorIds]

EntryRows ==
  /\ purchases \in Nat /\ stores \in Seq(StoreRow) /\ styles \in Seq(StyleRow)
  /\ \A s \in DOMAIN styles : styles[s].at \in DOMAIN stores
  /\ deletion \in [begun : BOOLEAN, stores : SUBSET Nat, styles : SUBSET Nat,
                   writes : SUBSET Kinds]
  /\ deletion.stores \subseteq DOMAIN stores /\ deletion.styles \subseteq DOMAIN styles
  /\ \A s \in deletion.styles : styles[s].at \in deletion.stores
  /\ purchases = 0 => stores = <<>>

EntryTyped == EntryRows /\ served \in 0 .. MaxServed /\ overlapped \in BOOLEAN

Read(q) ==
  /\ q.stores \subseteq DOMAIN stores /\ q.styles \subseteq DOMAIN styles
  /\ q.found \in 0 .. Len(styles)
  /\ q.pc \in LineSteps => q.lines # <<>>
  /\ q.pc \in LineSteps \ {"insert"} => q.found \in DOMAIN styles
  /\ q.pc \in {"create stores", "edit", "edit add", "edit remove"} => purchases > 0

WizardTyped == EntryTyped /\ req \in [Requests -> WizardWork] /\ \A r \in Requests : Read(req[r])

\* A purchase more for each request that creates one.
Creating == {r \in Requests : req[r].pc = "create"}
CountInv ==
  /\ IsFiniteSet(Creating)
  /\ purchases + Cardinality(Creating) <= served + 1

\* The active rows, as associateStyles reads them.
ActiveRows == {i \in Rows : stores[i].active /\ ~StoreDeleted(i)}

SameRow(x, y) == x.at = y.at /\ x.style = y.style
LineStored(l) ==
  \E s \in DOMAIN styles : SameRow(styles[s], l) /\ styles[s].colors = Once(l.colors)

\* The lines left are the last of those sent; those before are of active rows, and
\* stored unless one of the first m is of the same row and style.
Past(q) == Len(q.dto) - Len(q.lines)
LinesLeft(q) ==
  /\ Past(q) \in Nat
  /\ \A k \in 1 .. Len(q.lines) : q.lines[k] = q.dto[Past(q) + k]
LinesDone(q, m) ==
  \A k \in 1 .. Past(q) :
    /\ q.dto[k].at \in q.stores
    /\ (\A j \in k + 1 .. m : ~SameRow(q.dto[j], q.dto[k])) => LineStored(q.dto[k])

\* The active rows and styles once they have been put aside or back.
PutAside(q) ==
  /\ ActiveRows = q.stores \cap StoresSent(q.dto)
  /\ \A s \in StylesOf(ActiveRows) :
       styles[s].active <=> styles[s].style \in StylesSent(q.dto)

\* What a request that runs alone has found, step after step.
StepInv(q) ==
  /\ q.pc = "create stores" => stores = <<>>
  /\ q.pc \in {"edit", "edit add"} => q.stores = Rows
  /\ q.pc = "edit remove" =>
       /\ q.stores \subseteq Rows
       /\ \A i \in Rows \ q.stores : stores[i].store \in q.asked
       /\ \A a \in q.asked : \E i \in Rows : stores[i].store = a
  /\ q.pc \in {"associate", "associate styles"} =>
       q.lines = q.dto /\ q.styles = StylesOf(q.stores)
  /\ q.pc = "associate" => q.stores = ActiveRows
  /\ q.pc = "associate styles" =>
       ActiveRows = q.stores \cap StoresSent(q.dto)
  /\ q.pc \in {"associate styles", "line"} \cup LineSteps => q.stores \subseteq Rows
  /\ q.pc \in {"line"} \cup LineSteps => LinesLeft(q) /\ PutAside(q)
  /\ q.pc = "line" => LinesDone(q, Past(q))
  /\ q.pc \in LineSteps => LinesDone(q, Past(q) + 1)
  /\ q.pc = "insert" /\ Head(q.lines).at \in q.stores =>
       \A s \in DOMAIN styles : ~SameRow(styles[s], Head(q.lines))
  /\ q.pc \in LineSteps \ {"insert"} => SameRow(styles[q.found], Head(q.lines))
  /\ q.pc = "insert colors" =>
       Head(q.lines).at \in q.stores /\ styles[q.found].colors = NoColors
  /\ q.pc = "add colors" =>
       q.colors = {c \in ColorIds : styles[q.found].colors[c] > 0}
  /\ q.pc = "remove colors" =>
       styles[q.found].colors = Once(q.colors \cup Head(q.lines).colors)

OneRowPerStore == \A i, j \in Rows : stores[i].store = stores[j].store => i = j
ColorsOnce ==
  \A s \in DOMAIN styles : \A c \in ColorIds : styles[s].colors[c] \in {0, 1}

\* While no two requests have overlapped.
OneByOne ==
  /\ \A r, q \in Running : r = q
  /\ deletion.writes # {} => Running = {} /\ last.op = "deleted"
  /\ OneStylePerStore /\ OneRowPerStore /\ ColorsOnce
  /\ \A r \in Requests : StepInv(req[r])

WizardInv ==
  /\ WizardTyped /\ CountInv
  /\ ~overlapped => OneByOne
  /\ AssociatedAsSent /\ StoresAsAsked

-----------------------------------------------------------------------------
\* Rows.

\* One sequence after another, and the numbers the second then has.
LEMMA AfterOne ==
  ASSUME NEW S, NEW s \in Seq(S), NEW t \in Seq(S)
  PROVE  /\ s \o t \in Seq(S) /\ Len(s \o t) = Len(s) + Len(t)
         /\ \A i \in 1 .. Len(s) : (s \o t)[i] = s[i]
         /\ \A k \in 1 .. Len(t) : (s \o t)[Len(s) + k] = t[k]
  BY ConcatProperties

LEMMA WizardAssumed ==
  ASSUME WizardAssumption
  PROVE  /\ IsFiniteSet(StoreIds) /\ StoreIds # {} /\ Asked \subseteq SUBSET StoreIds
         /\ Associations \subseteq Seq(SentLine)
         /\ StyleIds # {} /\ ColorIds # {} /\ MaxServed \in Nat
  BY DEF WizardAssumption

\* A row for each store of a set.
LEMMA RowsForEach ==
  ASSUME NEW S, IsFiniteSet(S), S \subseteq StoreIds,
         NEW t, t = NewRows(S)
  PROVE  /\ t \in Seq(StoreRow)
         /\ \A i \in 1 .. Len(t) : t[i].active /\ t[i].row = "kept" /\ t[i].store \in S
         /\ \A i, j \in 1 .. Len(t) : t[i].store = t[j].store => i = j
         /\ \A x \in S : \E i \in 1 .. Len(t) : t[i].store = x
<1>1. PICK n \in Nat : n = Cardinality(S)
  BY FS_CardinalityType
<1>2. ExistsBijection(1 .. n, S)
  BY <1>1, FS_CardinalityType
<1>3. PICK g \in [1 .. n -> S] : \A a, b \in 1 .. n : g[a] = g[b] => a = b
  BY <1>2 DEF ExistsBijection, Bijection, Injection, IsInjective
<1>4. IsInjective(g)
  BY <1>3 DEF IsInjective
<1>5. PICK f : f = SetToSeq(S)
  OBVIOUS
<1>6. f \in [1 .. n -> S] /\ IsInjective(f)
  BY <1>1, <1>3, <1>4, <1>5 DEF SetToSeq
<1>7. \A a, b \in 1 .. n : f[a] = f[b] => a = b
  BY <1>6 DEF IsInjective
<1>8. \A x \in S : \E a \in 1 .. n : f[a] = x
  <2>1. f \in Injection(1 .. n, S)
    BY <1>6, <1>7 DEF Injection, IsInjective
  <2>2. Cardinality(1 .. n) = n
    <3>1. Cardinality(1 .. n) = IF 1 > n THEN 0 ELSE n - 1 + 1
      BY FS_Interval
    <3>2. QED
      BY <3>1
  <2>3. f \in Surjection(1 .. n, S)
    BY <1>1, <2>1, <2>2, FS_Injection
  <2>4. QED
    BY <2>3 DEF Surjection
<1>9. t = [i \in 1 .. n |-> NewRow(f[i])]
  BY <1>5, <1>6 DEF NewRows
<1>10. \A i \in 1 .. n : /\ t[i] \in StoreRow /\ t[i].active /\ t[i].row = "kept"
                         /\ t[i].store = f[i]
  BY <1>6, <1>9 DEF NewRow, StoreRow
<1>11. t \in Seq(StoreRow) /\ Len(t) = n
  <2>1. t \in [1 .. n -> StoreRow]
    BY <1>9, <1>10
  <2>2. QED
    BY <2>1
<1>12. \A i \in 1 .. Len(t) : t[i].active /\ t[i].row = "kept" /\ t[i].store \in S
  BY <1>6, <1>10, <1>11
<1>13. \A i, j \in 1 .. Len(t) : t[i].store = t[j].store => i = j
  BY <1>7, <1>10, <1>11
<1>14. \A x \in S : \E i \in 1 .. Len(t) : t[i].store = x
  BY <1>8, <1>10, <1>11
<1>15. QED
  BY <1>11, <1>12, <1>13, <1>14

LEMMA SameLength ==
  ASSUME NEW S, NEW s \in Seq(S), NEW t \in [DOMAIN s -> S]
  PROVE  t \in Seq(S) /\ DOMAIN t = DOMAIN s /\ Len(t) = Len(s)
<1>1. DOMAIN s = 1 .. Len(s) /\ Len(s) \in Nat
  OBVIOUS
<1>2. t \in [1 .. Len(s) -> S]
  BY <1>1
<1>3. QED
  BY <1>1, <1>2

LEMMA OnceIs ==
  ASSUME NEW cs
  PROVE  /\ Once(cs) \in [ColorIds -> Nat]
         /\ \A c \in ColorIds : Once(cs)[c] = IF c \in cs THEN 1 ELSE 0
         /\ NoColors \in [ColorIds -> Nat]
         /\ \A c \in ColorIds : NoColors[c] = 0
  BY DEF Once, NoColors

LEMMA IdleWork ==
  /\ Idle \in WizardWork /\ Read(Idle) /\ StepInv(Idle)
  /\ Idle.pc = "idle"
<1>1. <<>> \in Seq(SentLine)
  OBVIOUS
<1>2. Idle \in WizardWork
  BY <1>1 DEF Idle, WizardWork, WizardSteps
<1>3. QED
  BY <1>2 DEF Idle, Read, StepInv, LineSteps

-----------------------------------------------------------------------------
\* PurchaseWizard, the first states.

LEMMA WizardBegins ==
  ASSUME WizardAssumption, Init
  PROVE  WizardInv
<1>1. PICK all : all = NewRows(StoreIds)
  OBVIOUS
<1>2. /\ all \in Seq(StoreRow) /\ Len(all) \in Nat
      /\ \A i \in 1 .. Len(all) : all[i].active /\ all[i].row = "kept" /\ all[i].store \in StoreIds
      /\ \A i, j \in 1 .. Len(all) : all[i].store = all[j].store => i = j
      /\ \A x \in StoreIds : \E i \in 1 .. Len(all) : all[i].store = x
  <2>1. IsFiniteSet(StoreIds) /\ StoreIds \subseteq StoreIds
    BY WizardAssumed
  <2>2. QED
    BY <1>1, <2>1, RowsForEach
<1>3. Len(all) >= 1
  BY <1>2, WizardAssumed
<1>4. PICK st \in StyleIds, co \in ColorIds :
        st = (CHOOSE s \in StyleIds : TRUE) /\ co = CHOOSE c \in ColorIds : TRUE
  BY WizardAssumed
<1>5. PICK once \in [ColorIds -> Nat] :
        once = Once({co}) /\ \A c \in ColorIds : once[c] \in {0, 1}
  BY OnceIs
<1>6. /\ deletion = NoDeletion /\ req = [r \in Requests |-> Idle] /\ served = 0
      /\ last.op = "none" /\ overlapped = FALSE
      /\ \/ purchases = 0 /\ stores = <<>> /\ styles = <<>>
         \/ purchases = 1 /\ stores = <<all[1]>> /\ styles = <<>>
         \/ /\ purchases = 1
            /\ styles = [i \in DOMAIN all |->
                          [at |-> i, style |-> st, active |-> TRUE, colors |-> once]]
            /\ stores \in {all, [all EXCEPT ![Len(all)].active = FALSE]}
  BY <1>1, <1>4, <1>5 DEF Init
<1>7. /\ stores \in Seq(StoreRow) /\ Len(stores) <= Len(all) /\ Len(stores) \in Nat
      /\ DOMAIN stores = 1 .. Len(stores)
      /\ \A i \in DOMAIN stores : stores[i].store = all[i].store
  <2>1. CASE stores = <<>>
    BY <1>2, <2>1
  <2>2. CASE stores = <<all[1]>>
    <3>1. all[1] \in StoreRow
      BY <1>2, <1>3
    <3>2. QED
      BY <1>2, <1>3, <2>2, <3>1
  <2>3. CASE stores \in {all, [all EXCEPT ![Len(all)].active = FALSE]}
    <3>1. \A i \in 1 .. Len(all) : all[i] \in StoreRow
      BY <1>2
    <3>2. CASE stores = all
      BY <1>2, <3>2
    <3>3. CASE stores = [all EXCEPT ![Len(all)].active = FALSE]
      <4>1. stores = [i \in 1 .. Len(all) |->
                        IF i = Len(all) THEN [all[i] EXCEPT !.active = FALSE] ELSE all[i]]
        <5>1. DOMAIN all = 1 .. Len(all)
          BY <1>2
        <5>2. QED
          BY <3>3, <5>1, Zenon
      <4>2. \A i \in 1 .. Len(all) : /\ stores[i] \in StoreRow
                                     /\ stores[i].store = all[i].store
        BY <3>1, <4>1 DEF StoreRow
      <4>3. stores \in [1 .. Len(all) -> StoreRow]
        BY <4>1, <4>2
      <4>4. QED
        BY <1>2, <4>2, <4>3
    <3>4. QED
      BY <2>3, <3>2, <3>3
  <2>4. QED
    BY <1>6, <2>1, <2>2, <2>3
<1>8. /\ styles \in Seq(StyleRow) /\ DOMAIN styles \subseteq DOMAIN stores
      /\ \A s \in DOMAIN styles :
           styles[s] = [at |-> s, style |-> st, active |-> TRUE, colors |-> once]
  <2>1. CASE styles = <<>>
    BY <2>1
  <2>2. CASE /\ styles = [i \in DOMAIN all |->
                          [at |-> i, style |-> st, active |-> TRUE, colors |-> once]]
             /\ stores \in {all, [all EXCEPT ![Len(all)].active = FALSE]}
    <3>1. styles \in [1 .. Len(all) -> StyleRow]
      BY <1>2, <1>4, <1>5, <2>2 DEF StyleRow
    <3>2. DOMAIN stores = 1 .. Len(all)
      BY <1>2, <1>3, <2>2
    <3>3. QED
      BY <1>2, <2>2, <3>1, <3>2
  <2>3. QED
    BY <1>6, <2>1, <2>2
<1>9. purchases \in {0, 1} /\ (purchases = 0 => stores = <<>>)
  BY <1>6
<1>10. EntryTyped
  <2>1. deletion = [begun |-> FALSE, stores |-> {}, styles |-> {}, writes |-> {}]
    BY <1>6 DEF NoDeletion
  <2>2. deletion \in [begun : BOOLEAN, stores : SUBSET Nat, styles : SUBSET Nat,
                      writes : SUBSET Kinds]
    BY <2>1
  <2>3. served \in 0 .. MaxServed
    BY <1>6, WizardAssumed
  <2>4. \A s \in DOMAIN styles : styles[s].at \in DOMAIN stores
    BY <1>8
  <2>5. QED
    <3>1. deletion.stores = {} /\ deletion.styles = {}
      BY <2>1
    <3>2. purchases \in Nat
      BY <1>9
    <3>3. overlapped \in BOOLEAN
      BY <1>6, Zenon
    <3>4. QED
      BY <1>7, <1>8, <1>9, <2>2, <2>3, <2>4, <3>1, <3>2, <3>3 DEF EntryTyped, EntryRows
<1>11. /\ req \in [Requests -> WizardWork] /\ Running = {}
       /\ \A r \in Requests : Read(req[r]) /\ StepInv(req[r]) /\ req[r].pc = "idle"
  BY <1>6, IdleWork DEF Running
<1>12. CountInv
  <2>1. Creating = {}
    BY <1>11 DEF Creating
  <2>2. QED
    BY <1>6, <1>9, <2>1, FS_EmptySet DEF CountInv
<1>13. OneByOne
  <2>1. deletion.writes = {}
    BY <1>6 DEF NoDeletion
  <2>2. OneStylePerStore
    BY <1>8 DEF OneStylePerStore
  <2>3. OneRowPerStore
    <3>1. \A i, j \in DOMAIN stores : stores[i].store = stores[j].store => i = j
      BY <1>2, <1>7
    <3>2. QED
      BY <3>1 DEF OneRowPerStore, Rows
  <2>4. ColorsOnce
    <3>1. \A s \in DOMAIN styles : styles[s].colors = once
      BY <1>8
    <3>2. QED
      BY <1>5, <3>1 DEF ColorsOnce
  <2>5. QED
    BY <1>11, <2>1, <2>2, <2>3, <2>4 DEF OneByOne
<1>14. AssociatedAsSent /\ StoresAsAsked
  BY <1>6 DEF AssociatedAsSent, StoresAsAsked
<1>15. QED
  BY <1>10, <1>11, <1>12, <1>13, <1>14 DEF WizardInv, WizardTyped

-----------------------------------------------------------------------------
\* PurchaseWizard, the types.

LEMMA ReadStays ==
  ASSUME EntryRows, EntryRows', NEW q, Read(q),
         Len(stores) <= Len(stores'), Len(styles) <= Len(styles'), purchases <= purchases'
  PROVE  Read(q)'
<1>1. /\ DOMAIN stores \subseteq DOMAIN stores' /\ DOMAIN styles \subseteq DOMAIN styles'
      /\ Len(styles) \in Nat /\ Len(styles') \in Nat /\ purchases \in Nat /\ purchases' \in Nat
  BY DEF EntryRows
<1>2. /\ q.stores \subseteq DOMAIN stores' /\ q.styles \subseteq DOMAIN styles'
      /\ q.pc \in LineSteps \ {"insert"} => q.found \in DOMAIN styles'
  BY <1>1 DEF Read
<1>3. q.found \in 0 .. Len(styles')
  <2>1. q.found \in 0 .. Len(styles)
    BY DEF Read
  <2>2. QED
    BY <1>1, <2>1
<1>4. q.pc \in {"create stores", "edit", "edit add", "edit remove"} => purchases' > 0
  <2>1. q.pc \in {"create stores", "edit", "edit add", "edit remove"} => purchases > 0
    BY DEF Read
  <2>2. purchases > 0 => purchases' > 0
    BY <1>1
  <2>3. QED
    BY <2>1, <2>2, Zenon
<1>5. q.pc \in LineSteps => q.lines # <<>>
  BY DEF Read
<1>6. QED
  BY <1>2, <1>3, <1>4, <1>5 DEF Read

LEMMA RequestMoves ==
  ASSUME WizardTyped, EntryTyped', NEW r \in Requests, NEW new \in WizardWork,
         req' = [req EXCEPT ![r] = new], Read(new)',
         Len(stores) <= Len(stores'), Len(styles) <= Len(styles'), purchases <= purchases'
  PROVE  WizardTyped'
<1>1. EntryRows /\ EntryRows'
  BY DEF WizardTyped, EntryTyped
<1>2. ASSUME NEW p \in Requests, p # r
      PROVE  Read(req[p])'
  <2>1. req'[p] = req[p] /\ Read(req[p])
    BY <1>2 DEF WizardTyped
  <2>2. PICK q : q = req[p]
    OBVIOUS
  <2>3. Read(q)
    BY <2>1, <2>2
  <2>4. Read(q)'
    BY <1>1, <2>3, ReadStays
  <2>5. QED
    BY <2>1, <2>2, <2>4
<1>3. req'[r] = new /\ req' \in [Requests -> WizardWork]
  BY DEF WizardTyped
<1>4. \A p \in Requests : Read(req[p])'
  BY <1>2, <1>3
<1>5. QED
  BY <1>3, <1>4 DEF WizardTyped

\* A request begins with what it has read.
LEMMA BeginTyped ==
  ASSUME WizardAssumption, WizardTyped,
         NEW r \in Requests, NEW new \in WizardWork, Begin(r, new),
         Read(new), UNCHANGED store
  PROVE  WizardTyped'
<1>1. /\ UNCHANGED <<purchases, stores, styles, deletion>>
      /\ served < MaxServed /\ served' = served + 1 /\ req' = [req EXCEPT ![r] = new]
      /\ overlapped' \in BOOLEAN
  BY DEF store, Begin
<1>2. served' \in 0 .. MaxServed
  BY <1>1, WizardAssumed DEF WizardTyped, EntryTyped
<1>3. EntryTyped'
  <2>1. EntryRows'
    BY <1>1 DEF WizardTyped, EntryTyped, EntryRows
  <2>2. QED
    BY <1>1, <1>2, <2>1 DEF EntryTyped
<1>4. Read(new)'
  BY <1>1 DEF Read
<1>5. /\ Len(stores) <= Len(stores') /\ Len(styles) <= Len(styles')
      /\ purchases <= purchases'
  BY <1>1 DEF WizardTyped, EntryTyped, EntryRows
<1>6. QED
  BY <1>1, <1>3, <1>4, <1>5, RequestMoves

\* What begins a request reads rows that are there.
LEMMA BeginsRead ==
  ASSUME WizardAssumption, WizardTyped, NEW r \in Requests,
         CreateLook(r) \/ EditRead(r) \/ AssociateRead(r)
  PROVE  \E new \in WizardWork :
           /\ Begin(r, new) /\ Read(new) /\ UNCHANGED store
           /\ \/ new.pc = "create"
              \/ new.pc = "edit" /\ new.stores = Rows
              \/ /\ new.pc = "associate" /\ new.lines = new.dto
                 /\ new.stores = ActiveRows /\ new.styles = StylesOf(new.stores)
<1>1. /\ Idle \in WizardWork /\ 0 \in 0 .. Len(styles)
      /\ Rows \subseteq DOMAIN stores /\ Rows \in SUBSET Nat
  BY IdleWork DEF WizardTyped, EntryTyped, EntryRows, Rows
<1>2. CASE CreateLook(r)
  <2>1. PICK asked0 \in Asked :
          Begin(r, [Idle EXCEPT !.pc = "create", !.asked = asked0])
    BY <1>2 DEF CreateLook
  <2>2. PICK new : new = [Idle EXCEPT !.pc = "create", !.asked = asked0]
    OBVIOUS
  <2>3. new \in WizardWork /\ new.pc = "create" /\ new.stores = {} /\ new.styles = {}
        /\ new.found = 0
    BY <1>1, <2>2, WizardAssumed DEF WizardWork, WizardSteps, Idle
  <2>4. Read(new)
    BY <1>1, <2>3 DEF Read, LineSteps
  <2>5. QED
    BY <1>2, <2>1, <2>2, <2>3, <2>4 DEF CreateLook
<1>3. CASE EditRead(r)
  <2>1. PICK asked0 \in Asked :
          Begin(r, [Idle EXCEPT !.pc = "edit", !.asked = asked0,
                                              !.stores = Rows])
    BY <1>3 DEF EditRead
  <2>2. PICK new : new = [Idle EXCEPT !.pc = "edit", !.asked = asked0,
                                             !.stores = Rows]
    OBVIOUS
  <2>3. new \in WizardWork /\ new.pc = "edit" /\ new.stores = Rows /\ new.styles = {}
        /\ new.found = 0
    BY <1>1, <2>2, WizardAssumed DEF WizardWork, WizardSteps, Idle
  <2>4. purchases > 0
    BY <1>3 DEF EditRead, Present
  <2>5. Read(new)
    BY <1>1, <2>3, <2>4 DEF Read, LineSteps
  <2>6. QED
    BY <1>3, <2>1, <2>2, <2>3, <2>5 DEF EditRead
<1>4. CASE AssociateRead(r)
  <2>1. PICK dto \in Associations :
          Begin(r, [Idle EXCEPT !.pc = "associate", !.dto = dto, !.lines = dto,
                             !.stores = ActiveRows, !.styles = StylesOf(ActiveRows)])
    BY <1>4 DEF AssociateRead, ActiveRows
  <2>2. PICK new : new = [Idle EXCEPT !.pc = "associate", !.dto = dto, !.lines = dto,
                            !.stores = ActiveRows, !.styles = StylesOf(ActiveRows)]
    OBVIOUS
  <2>3. /\ ActiveRows \subseteq DOMAIN stores /\ ActiveRows \in SUBSET Nat
        /\ StylesOf(ActiveRows) \subseteq DOMAIN styles
        /\ StylesOf(ActiveRows) \in SUBSET Nat
    BY <1>1 DEF ActiveRows, StylesOf, WizardTyped, EntryTyped, EntryRows
  <2>4. dto \in Seq(SentLine)
    BY WizardAssumed
  <2>5. /\ new \in WizardWork /\ new.pc = "associate" /\ new.lines = new.dto
        /\ new.stores = ActiveRows /\ new.styles = StylesOf(ActiveRows)
        /\ new.found = 0
    BY <1>1, <2>2, <2>3, <2>4 DEF WizardWork, WizardSteps, Idle
  <2>6. Read(new)
    BY <1>1, <2>3, <2>5 DEF Read, LineSteps
  <2>7. QED
    BY <1>4, <2>1, <2>2, <2>5, <2>6 DEF AssociateRead
<1>5. QED
  BY <1>2, <1>3, <1>4

StoreGrows == /\ Len(stores) <= Len(stores') /\ Len(styles) <= Len(styles')
              /\ purchases <= purchases'

\* What a request takes to its next step.
Takes(new, q) ==
  /\ new.dto = q.dto /\ new.lines = q.lines /\ new.asked = q.asked
  /\ new.stores = q.stores /\ new.styles = q.styles
  /\ new.found = q.found /\ new.colors = q.colors

LEMMA GoIs ==
  ASSUME WizardTyped, NEW r \in Requests, NEW p \in WizardSteps, Go(r, p)
  PROVE  \E new \in WizardWork :
           /\ new.pc = p /\ Takes(new, req[r]) /\ req' = [req EXCEPT ![r] = new]
           /\ UNCHANGED <<served, last, overlapped>>
<1>1. PICK q \in WizardWork : q = req[r]
  BY DEF WizardTyped
<1>2. PICK new : new = [q EXCEPT !.pc = p]
  OBVIOUS
<1>3. new \in WizardWork /\ new.pc = p /\ Takes(new, q)
  BY <1>2 DEF WizardWork, Takes
<1>4. req' = [req EXCEPT ![r] = new]
  BY <1>1, <1>2 DEF Go, WizardTyped
<1>5. QED
  BY <1>1, <1>3, <1>4 DEF Go

NextOf(new, q) ==
  /\ new.dto = q.dto /\ new.lines = Tail(q.lines) /\ new.asked = q.asked
  /\ new.stores = q.stores /\ new.styles = q.styles /\ new.found = 0

LEMMA NextLineIs ==
  ASSUME WizardTyped, NEW r \in Requests, req[r].lines # <<>>, NextLine(r)
  PROVE  \E new \in WizardWork :
           /\ new.pc = "line" /\ NextOf(new, req[r]) /\ Read(new)
           /\ req' = [req EXCEPT ![r] = new] /\ UNCHANGED <<served, last, overlapped>>
<1>1. PICK q \in WizardWork : q = req[r]
  BY DEF WizardTyped
<1>2. Read(q) /\ Tail(q.lines) \in Seq(SentLine)
  BY <1>1 DEF WizardTyped, WizardWork
<1>3. PICK new : new = [q EXCEPT !.pc = "line", !.lines = Tail(@), !.found = 0]
  OBVIOUS
<1>4. new \in WizardWork /\ new.pc = "line" /\ NextOf(new, q)
  BY <1>1, <1>2, <1>3 DEF WizardWork, WizardSteps, NextOf
<1>5. Read(new)
  <2>1. 0 \in 0 .. Len(styles)
    BY DEF WizardTyped, EntryTyped, EntryRows
  <2>2. QED
    BY <1>2, <1>4, <2>1 DEF Read, LineSteps, NextOf
<1>6. req' = [req EXCEPT ![r] = new]
  BY <1>1, <1>3 DEF NextLine, WizardTyped
<1>7. QED
  BY <1>1, <1>4, <1>5, <1>6 DEF NextLine

\* A request that goes on, or ends.
Moved(r) ==
  \E new \in WizardWork :
    /\ new.pc # "create" /\ req' = [req EXCEPT ![r] = new]
    /\ UNCHANGED <<served, overlapped>>

LEMMA MoveTyped ==
  ASSUME WizardTyped, EntryRows', StoreGrows, UNCHANGED <<served, overlapped>>,
         NEW r \in Requests, NEW new \in WizardWork, req' = [req EXCEPT ![r] = new],
         new.pc # "create", Read(new) \/ Read(new)'
  PROVE  WizardTyped' /\ Moved(r)
<1>1. EntryTyped'
  BY DEF WizardTyped, EntryTyped
<1>2. Read(new) => Read(new)'
  BY ReadStays DEF StoreGrows, WizardTyped, EntryTyped
<1>3. WizardTyped'
  BY <1>1, <1>2, RequestMoves DEF StoreGrows
<1>4. QED
  BY <1>3 DEF Moved

LEMMA EndTyped ==
  ASSUME WizardTyped, EntryRows', StoreGrows, NEW r \in Requests, NEW op, End(r, op)
  PROVE  WizardTyped' /\ Moved(r)
<1>1. req' = [req EXCEPT ![r] = Idle] /\ UNCHANGED <<served, overlapped>>
  BY DEF End
<1>2. QED
  BY <1>1, IdleWork, MoveTyped

\* Rows of stores rewritten, or added.
LEMMA StoresTyped ==
  ASSUME WizardTyped, UNCHANGED <<purchases, styles, deletion>>,
         \/ stores' \in [DOMAIN stores -> StoreRow]
         \/ /\ purchases > 0
            /\ \E t \in Seq(StoreRow) : stores' = stores \o t
  PROVE  EntryRows' /\ StoreGrows
<1>1. EntryRows /\ stores \in Seq(StoreRow) /\ purchases \in Nat
      /\ styles \in Seq(StyleRow)
  BY DEF WizardTyped, EntryTyped, EntryRows
<1>2. /\ stores' \in Seq(StoreRow) /\ Len(stores) <= Len(stores')
      /\ purchases > 0 \/ Len(stores') = Len(stores)
  <2>1. CASE stores' \in [DOMAIN stores -> StoreRow]
    <3>1. stores' \in Seq(StoreRow) /\ Len(stores') = Len(stores)
      BY <1>1, <2>1, SameLength
    <3>2. QED
      BY <1>1, <3>1
  <2>2. CASE purchases > 0 /\ \E t \in Seq(StoreRow) : stores' = stores \o t
    <3>1. PICK t \in Seq(StoreRow) : stores' = stores \o t
      BY <2>2
    <3>2. stores' \in Seq(StoreRow) /\ Len(stores') = Len(stores) + Len(t)
      BY <1>1, <3>1, AfterOne
    <3>3. Len(stores) \in Nat /\ Len(t) \in Nat
      BY <1>1
    <3>4. QED
      BY <2>2, <3>2, <3>3
  <2>3. QED
    BY <2>1, <2>2
<1>3. DOMAIN stores \subseteq DOMAIN stores'
  BY <1>1, <1>2
<1>4. purchases' = 0 => stores' = <<>>
  BY <1>1, <1>2 DEF EntryRows
<1>5. EntryRows'
  BY <1>1, <1>2, <1>3, <1>4 DEF EntryRows
<1>6. StoreGrows
  BY <1>1, <1>2 DEF StoreGrows
<1>7. QED
  BY <1>5, <1>6

\* Rows of styles rewritten in place, or one added.
LEMMA StylesTyped ==
  ASSUME WizardTyped, UNCHANGED <<purchases, stores, deletion>>,
         \/ /\ styles' \in [DOMAIN styles -> StyleRow]
            /\ \A s \in DOMAIN styles : styles'[s].at = styles[s].at
         \/ \E x \in StyleRow : x.at \in DOMAIN stores /\ styles' = Append(styles, x)
  PROVE  EntryRows' /\ StoreGrows
<1>1. EntryRows /\ stores \in Seq(StoreRow) /\ purchases \in Nat
      /\ styles \in Seq(StyleRow) /\ \A s \in DOMAIN styles : styles[s].at \in DOMAIN stores
  BY DEF WizardTyped, EntryTyped, EntryRows
<1>2. /\ styles' \in Seq(StyleRow) /\ Len(styles) <= Len(styles')
      /\ \A s \in DOMAIN styles : styles'[s].at = styles[s].at
      /\ \A s \in DOMAIN styles' : styles'[s].at \in DOMAIN stores
  <2>1. CASE /\ styles' \in [DOMAIN styles -> StyleRow]
             /\ \A s \in DOMAIN styles : styles'[s].at = styles[s].at
    <3>1. /\ styles' \in Seq(StyleRow) /\ Len(styles') = Len(styles)
          /\ DOMAIN styles' = DOMAIN styles
      BY <1>1, <2>1, SameLength
    <3>2. Len(styles) <= Len(styles')
      <4>1. Len(styles) \in Nat
        BY <1>1
      <4>2. Len(styles') = Len(styles)
        BY <3>1
      <4>3. QED
        BY <4>1, <4>2
    <3>3. \A s \in DOMAIN styles' : styles'[s].at \in DOMAIN stores
      BY <1>1, <2>1, <3>1
    <3>4. QED
      BY <2>1, <3>1, <3>2, <3>3
  <2>2. CASE \E x \in StyleRow : x.at \in DOMAIN stores /\ styles' = Append(styles, x)
    <3>1. PICK x \in StyleRow : x.at \in DOMAIN stores /\ styles' = Append(styles, x)
      BY <2>2
    <3>2. /\ styles' \in Seq(StyleRow) /\ Len(styles') = Len(styles) + 1
          /\ \A s \in 1 .. Len(styles) : styles'[s] = styles[s]
          /\ styles'[Len(styles) + 1] = x
      BY <1>1, <3>1
    <3>3. QED
      BY <1>1, <3>1, <3>2
  <2>3. QED
    BY <2>1, <2>2
<1>3. DOMAIN styles \subseteq DOMAIN styles'
  BY <1>1, <1>2
<1>4. EntryRows'
  BY <1>1, <1>2, <1>3 DEF EntryRows
<1>5. StoreGrows
  BY <1>1, <1>2 DEF StoreGrows
<1>6. QED
  BY <1>4, <1>5

\* The steps of a line keep the types.
LEMMA LineTyped ==
  ASSUME WizardTyped, NEW r \in Requests,
         \/ LineFind(r) \/ LineInsert(r) \/ LineInsertColors(r)
         \/ LineAddColors(r) \/ LineRemoveColors(r)
  PROVE  WizardTyped' /\ Moved(r)
<1>1. PICK q \in WizardWork : q = req[r]
  BY DEF WizardTyped
<1>2. /\ Read(q) /\ EntryRows /\ styles \in Seq(StyleRow)
      /\ \A s \in DOMAIN styles : styles[s] \in StyleRow
      /\ DOMAIN styles = 1 .. Len(styles) /\ Len(styles) \in Nat
      /\ q.stores \subseteq DOMAIN stores
  <2>1. Read(q) /\ EntryRows /\ styles \in Seq(StyleRow)
    BY <1>1 DEF WizardTyped, EntryTyped, EntryRows
  <2>2. q.stores \subseteq DOMAIN stores
    BY <2>1 DEF Read
  <2>3. QED
    BY <2>1, <2>2
<1>3. UNCHANGED <<purchases, stores, styles, deletion>> => EntryRows' /\ StoreGrows
  BY <1>2 DEF EntryRows, StoreGrows
<1>4. PICK line : line = Line(r)
  OBVIOUS
<1>5. line = Head(q.lines)
  BY <1>1, <1>4 DEF Line
<1>6. q.lines # <<>> => line \in SentLine
  BY <1>1, <1>5 DEF WizardWork
<1>7. CASE LineFind(r)
  <2>1. /\ q.pc = "line" /\ q.lines # <<>> /\ UNCHANGED <<purchases, stores, styles, deletion>>
    BY <1>1, <1>7 DEF LineFind, store
  <2>2. CASE Go(r, "insert")
    <3>1. "insert" \in WizardSteps
      BY DEF WizardSteps, LineSteps
    <3>2. PICK new \in WizardWork :
            /\ new.pc = "insert" /\ Takes(new, q) /\ req' = [req EXCEPT ![r] = new]
            /\ UNCHANGED <<served, last, overlapped>>
      BY <1>1, <2>2, <3>1, GoIs
    <3>3. /\ new \in WizardWork /\ new.pc = "insert" /\ new.found = q.found /\ new.lines = q.lines
          /\ new.stores = q.stores /\ new.styles = q.styles
          /\ req' = [req EXCEPT ![r] = new] /\ UNCHANGED <<served, overlapped>>
      BY <3>2 DEF Takes
    <3>4. Read(new)
      BY <1>2, <2>1, <3>2, <3>3 DEF Read, LineSteps
    <3>5. QED
      BY <1>3, <2>1, <3>3, <3>4, MoveTyped
  <2>3. CASE \E s \in LineFound(Line(r)) :
               /\ req' = [req EXCEPT ![r].pc = "add colors", ![r].found = s,
                    ![r].colors = {c \in ColorIds : styles[s].colors[c] > 0}]
               /\ UNCHANGED <<served, last, overlapped>>
    <3>1. PICK s \in LineFound(Line(r)) :
            /\ req' = [req EXCEPT ![r].pc = "add colors", ![r].found = s,
                    ![r].colors = {c \in ColorIds : styles[s].colors[c] > 0}]
            /\ UNCHANGED <<served, last, overlapped>>
      BY <2>3
    <3>2. s \in DOMAIN styles /\ s \in Nat /\ s \in 0 .. Len(styles)
      BY <1>2 DEF LineFound
    <3>3. PICK cs \in SUBSET ColorIds :
            cs = {c \in ColorIds : styles[s].colors[c] > 0}
      OBVIOUS
    <3>4. PICK new : new = [q EXCEPT !.pc = "add colors", !.found = s, !.colors = cs]
      OBVIOUS
    <3>5. /\ new \in WizardWork /\ new.pc = "add colors" /\ new.found = s /\ new.lines = q.lines
          /\ new.stores = q.stores /\ new.styles = q.styles
          /\ req' = [req EXCEPT ![r] = new]
      <4>1. "add colors" \in WizardSteps
        BY DEF WizardSteps, LineSteps
      <4>2. /\ new \in WizardWork /\ new.pc = "add colors" /\ new.found = s
            /\ new.lines = q.lines /\ new.stores = q.stores /\ new.styles = q.styles
        BY <3>2, <3>4, <4>1 DEF WizardWork
      <4>3. req' = [req EXCEPT ![r] = new]
        BY <1>1, <3>1, <3>3, <3>4 DEF WizardTyped
      <4>4. QED
        BY <4>2, <4>3
    <3>6. Read(new)
      BY <1>2, <2>1, <3>2, <3>5 DEF Read, LineSteps
    <3>7. QED
      BY <1>3, <2>1, <3>1, <3>5, <3>6, MoveTyped
  <2>4. QED
    BY <1>7, <2>2, <2>3 DEF LineFind
<1>8. CASE LineInsert(r)
  <2>1. /\ q.pc = "insert" /\ UNCHANGED <<purchases, stores, deletion>>
        /\ \/ /\ line.at \in q.stores
              /\ styles' = Append(styles, [at |-> line.at, style |-> line.style,
                                           active |-> TRUE, colors |-> NoColors])
              /\ req' = [req EXCEPT ![r].pc = "insert colors", ![r].found = Len(styles) + 1]
              /\ UNCHANGED <<served, last, overlapped>>
           \/ UNCHANGED styles /\ End(r, "failed")
    BY <1>1, <1>4, <1>8 DEF LineInsert
  <2>2. CASE UNCHANGED styles /\ End(r, "failed")
    BY <1>3, <2>1, <2>2, EndTyped
  <2>3. CASE /\ line.at \in q.stores
             /\ styles' = Append(styles, [at |-> line.at, style |-> line.style,
                                          active |-> TRUE, colors |-> NoColors])
             /\ req' = [req EXCEPT ![r].pc = "insert colors", ![r].found = Len(styles) + 1]
             /\ UNCHANGED <<served, last, overlapped>>
    <3>1. q.lines # <<>>
      BY <1>2, <2>1 DEF Read, LineSteps
    <3>2. PICK x : x = [at |-> line.at, style |-> line.style,
                        active |-> TRUE, colors |-> NoColors]
      OBVIOUS
    <3>3. x \in StyleRow /\ x.at \in DOMAIN stores
      BY <1>2, <1>6, <2>3, <3>1, <3>2, OnceIs DEF StyleRow, SentLine
    <3>4. styles' = Append(styles, x)
      BY <2>3, <3>2
    <3>5. EntryRows' /\ StoreGrows
      BY <2>1, <3>3, <3>4, StylesTyped
    <3>6. PICK n \in Nat : n = Len(styles) + 1
      BY <1>2
    <3>7. PICK new : new = [q EXCEPT !.pc = "insert colors", !.found = n]
      OBVIOUS
    <3>8. /\ new \in WizardWork /\ new.pc = "insert colors" /\ new.found = n
          /\ new.lines = q.lines /\ new.stores = q.stores /\ new.styles = q.styles
          /\ req' = [req EXCEPT ![r] = new]
      <4>1. "insert colors" \in WizardSteps
        BY DEF WizardSteps, LineSteps
      <4>2. /\ new \in WizardWork /\ new.pc = "insert colors" /\ new.found = n
            /\ new.lines = q.lines /\ new.stores = q.stores /\ new.styles = q.styles
        BY <3>7, <4>1 DEF WizardWork
      <4>3. req' = [req EXCEPT ![r] = new]
        BY <1>1, <2>3, <3>6, <3>7 DEF WizardTyped
      <4>4. QED
        BY <4>2, <4>3
    <3>9. Len(styles') = n /\ DOMAIN styles' = 1 .. n
      BY <1>2, <3>3, <3>4, <3>6
    <3>10. new.found \in 0 .. Len(styles') /\ new.found \in DOMAIN styles'
      <4>1. n \in 0 .. n /\ n \in 1 .. n
        BY <1>2, <3>6
      <4>2. QED
        BY <3>8, <3>9, <4>1
    <3>11. DOMAIN styles \subseteq DOMAIN styles'
      BY <1>2, <3>6, <3>9
    <3>12. Read(new)'
      BY <1>2, <2>1, <3>1, <3>8, <3>10, <3>11 DEF Read, LineSteps
    <3>13. QED
      BY <2>3, <3>5, <3>8, <3>12, MoveTyped
  <2>4. QED
    BY <2>1, <2>2, <2>3
<1>9. ASSUME NEW p \in WizardSteps, q.pc \in LineSteps, q.pc \in LineSteps \ {"insert"},
             UNCHANGED <<purchases, stores, deletion>>,
             NEW f \in [ColorIds -> Nat],
             UNCHANGED styles \/ styles' = [styles EXCEPT ![q.found].colors = f],
             \/ Go(r, p) /\ p = "remove colors"
             \/ NextLine(r) \/ End(r, "failed")
      PROVE  WizardTyped' /\ Moved(r)
  <2>1. q.lines # <<>> /\ q.found \in DOMAIN styles
    BY <1>2, <1>9 DEF Read
  <2>2. EntryRows' /\ StoreGrows
    <3>1. CASE UNCHANGED styles
      BY <1>3, <1>9, <3>1
    <3>2. CASE styles' = [styles EXCEPT ![q.found].colors = f]
      <4>1. styles' = [s \in DOMAIN styles |-> IF s = q.found THEN [styles[s] EXCEPT !.colors = f]
                                               ELSE styles[s]]
        BY <1>2, <2>1, <3>2
      <4>2. /\ styles' \in [DOMAIN styles -> StyleRow]
            /\ \A s \in DOMAIN styles : styles'[s].at = styles[s].at
        BY <1>2, <1>9, <4>1 DEF StyleRow
      <4>3. QED
        BY <1>9, <4>2, StylesTyped
    <3>3. QED
      BY <1>9, <3>1, <3>2
  <2>3. CASE Go(r, p) /\ p = "remove colors"
    <3>1. PICK new \in WizardWork :
            /\ new.pc = p /\ Takes(new, q) /\ req' = [req EXCEPT ![r] = new]
            /\ UNCHANGED <<served, last, overlapped>>
      BY <1>1, <1>9, <2>3, GoIs
    <3>2. /\ new \in WizardWork /\ new.pc = p /\ new.found = q.found /\ new.lines = q.lines
          /\ new.stores = q.stores /\ new.styles = q.styles
          /\ req' = [req EXCEPT ![r] = new] /\ UNCHANGED <<served, overlapped>>
      BY <3>1 DEF Takes
    <3>3. Read(new)
      BY <1>2, <2>1, <2>3, <3>2 DEF Read, LineSteps
    <3>4. new.pc # "create"
      BY <2>3, <3>2
    <3>5. QED
      BY <2>2, <3>2, <3>3, <3>4, MoveTyped
  <2>4. CASE NextLine(r)
    <3>1. PICK new \in WizardWork :
            /\ new.pc = "line" /\ Read(new) /\ req' = [req EXCEPT ![r] = new]
            /\ UNCHANGED <<served, last, overlapped>>
      BY <1>1, <2>1, <2>4, NextLineIs
    <3>2. QED
      BY <2>2, <3>1, MoveTyped
  <2>5. CASE End(r, "failed")
    BY <2>2, <2>5, EndTyped
  <2>6. QED
    BY <1>9, <2>3, <2>4, <2>5
<1>10. /\ "remove colors" \in WizardSteps /\ "remove colors" \in LineSteps \ {"insert"}
       /\ "insert colors" \in LineSteps \ {"insert"} /\ "add colors" \in LineSteps \ {"insert"}
  BY DEF WizardSteps, LineSteps
<1>11. \A s \in DOMAIN styles : styles[s].colors \in [ColorIds -> Nat]
  BY <1>2 DEF StyleRow
<1>12. CASE LineInsertColors(r)
  <2>1. PICK f : f = [c \in ColorIds |->
                       styles[q.found].colors[c] + Once(line.colors)[c]]
    OBVIOUS
  <2>2. /\ q.pc = "insert colors" /\ UNCHANGED <<purchases, stores, deletion>>
        /\ UNCHANGED styles \/ styles' = [styles EXCEPT ![q.found].colors = f]
        /\ NextLine(r) \/ End(r, "failed")
    <3>1. q.found \in DOMAIN styles
      BY <1>1, <1>2, <1>10, <1>12 DEF Read, LineInsertColors
    <3>2. QED
      BY <1>1, <1>2, <1>4, <1>12, <2>1, <3>1 DEF LineInsertColors
  <2>3. q.found \in DOMAIN styles
    BY <1>2, <1>10, <2>2 DEF Read
  <2>4. f \in [ColorIds -> Nat]
    BY <1>11, <2>1, <2>3, OnceIs
  <2>5. QED
    BY <1>9, <1>10, <2>2, <2>4
<1>13. CASE LineAddColors(r)
  <2>1. PICK f : f = [c \in ColorIds |->
                       styles[q.found].colors[c] + Once(line.colors \ q.colors)[c]]
    OBVIOUS
  <2>2. /\ q.pc = "add colors" /\ UNCHANGED <<purchases, stores, deletion>>
        /\ UNCHANGED styles \/ styles' = [styles EXCEPT ![q.found].colors = f]
        /\ Go(r, "remove colors") \/ End(r, "failed")
    <3>1. q.found \in DOMAIN styles
      BY <1>1, <1>2, <1>10, <1>13 DEF Read, LineAddColors
    <3>2. QED
      BY <1>1, <1>2, <1>4, <1>13, <2>1, <3>1 DEF LineAddColors
  <2>3. q.found \in DOMAIN styles
    BY <1>2, <1>10, <2>2 DEF Read
  <2>4. f \in [ColorIds -> Nat]
    BY <1>11, <2>1, <2>3, OnceIs
  <2>5. QED
    BY <1>9, <1>10, <2>2, <2>4
<1>14. CASE LineRemoveColors(r)
  <2>1. PICK f : f = [c \in ColorIds |->
                       IF c \in q.colors \ line.colors THEN 0 ELSE styles[q.found].colors[c]]
    OBVIOUS
  <2>2. /\ q.pc = "remove colors" /\ UNCHANGED <<purchases, stores, deletion>>
        /\ styles' = [styles EXCEPT ![q.found].colors = f]
        /\ NextLine(r) \/ End(r, "failed")
    <3>1. q.found \in DOMAIN styles
      BY <1>1, <1>2, <1>10, <1>14 DEF Read, LineRemoveColors
    <3>2. QED
      BY <1>1, <1>2, <1>4, <1>14, <2>1, <3>1 DEF LineRemoveColors, EndLine
  <2>3. q.found \in DOMAIN styles
    BY <1>2, <1>10, <2>2 DEF Read
  <2>4. f \in [ColorIds -> Nat]
    BY <1>11, <2>1, <2>3
  <2>5. QED
    BY <1>9, <1>10, <2>2, <2>4
<1>15. QED
  BY <1>7, <1>8, <1>12, <1>13, <1>14

\* The steps of a request keep the types.
LEMMA ServeTyped ==
  ASSUME WizardAssumption, WizardTyped, NEW r \in Requests, Serve(r)
  PROVE  WizardTyped' /\ Moved(r)
<1>1. PICK q \in WizardWork : q = req[r]
  BY DEF WizardTyped
<1>2. /\ Read(q) /\ EntryRows /\ stores \in Seq(StoreRow) /\ styles \in Seq(StyleRow)
      /\ purchases \in Nat
      /\ \A i \in DOMAIN stores : stores[i] \in StoreRow
      /\ \A s \in DOMAIN styles : styles[s] \in StyleRow
  BY <1>1 DEF WizardTyped, EntryTyped, EntryRows
<1>3. UNCHANGED <<purchases, stores, styles, deletion>> => EntryRows' /\ StoreGrows
  BY <1>2 DEF EntryRows, StoreGrows
<1>4. CASE CreateSave(r)
  <2>1. /\ purchases' = purchases + 1 /\ UNCHANGED <<stores, styles, deletion>>
        /\ Go(r, "create stores") \/ End(r, "repeated")
    BY <1>4 DEF CreateSave
  <2>2. EntryRows' /\ StoreGrows
    <3>1. purchases' \in Nat /\ purchases' > 0 /\ purchases' # 0 /\ purchases <= purchases'
      <4>1. purchases \in Nat /\ purchases' = purchases + 1
        BY <1>2, <2>1
      <4>2. QED
        BY <4>1
    <3>2. UNCHANGED <<stores, styles, deletion>>
      BY <2>1
    <3>3. EntryRows'
      BY <1>2, <3>1, <3>2 DEF EntryRows
    <3>4. Len(stores) <= Len(stores') /\ Len(styles) <= Len(styles')
      <4>1. Len(stores) \in Nat /\ Len(styles) \in Nat
        BY <1>2
      <4>2. QED
        BY <3>2, <4>1
    <3>5. QED
      BY <3>1, <3>3, <3>4 DEF StoreGrows
  <2>3. CASE Go(r, "create stores")
    <3>1. "create stores" \in WizardSteps
      BY DEF WizardSteps, LineSteps
    <3>2. PICK new \in WizardWork :
            /\ new.pc = "create stores" /\ Takes(new, q) /\ req' = [req EXCEPT ![r] = new]
            /\ UNCHANGED <<served, last, overlapped>>
      BY <1>1, <2>3, <3>1, GoIs
    <3>3. /\ new \in WizardWork /\ new.pc = "create stores" /\ new.found = q.found /\ new.lines = q.lines
          /\ new.stores = q.stores /\ new.styles = q.styles
          /\ req' = [req EXCEPT ![r] = new] /\ UNCHANGED <<served, overlapped>>
      BY <3>2 DEF Takes
    <3>4. Read(new)'
      <4>1. purchases' > 0
        <5>1. purchases \in Nat /\ purchases' = purchases + 1
          BY <1>2, <2>1
        <5>2. QED
          BY <5>1
      <4>2. /\ q.stores \subseteq DOMAIN stores' /\ q.styles \subseteq DOMAIN styles'
            /\ q.found \in 0 .. Len(styles')
        BY <1>2, <2>1 DEF Read
      <4>3. QED
        BY <3>2, <3>3, <4>1, <4>2 DEF Read, LineSteps
    <3>5. QED
      BY <2>2, <3>3, <3>4, MoveTyped
  <2>4. CASE End(r, "repeated")
    BY <2>2, <2>4, EndTyped
  <2>5. QED
    BY <2>1, <2>3, <2>4
<1>5. CASE CreateStores(r)
  <2>1. PICK t : t = NewRows(q.asked)
    OBVIOUS
  <2>2. t \in Seq(StoreRow)
    <3>1. q.asked \subseteq StoreIds /\ IsFiniteSet(q.asked)
      BY <1>1, WizardAssumed, FS_Subset DEF WizardWork
    <3>2. QED
      BY <2>1, <3>1, RowsForEach
  <2>3. /\ stores' = stores \o t /\ End(r, "stored") /\ UNCHANGED <<purchases, styles, deletion>>
        /\ q.pc = "create stores"
    BY <1>1, <1>5, <2>1 DEF CreateStores
  <2>4. purchases > 0
    BY <1>2, <2>3 DEF Read
  <2>5. EntryRows' /\ StoreGrows
    BY <2>2, <2>3, <2>4, StoresTyped
  <2>6. QED
    BY <2>3, <2>5, EndTyped
<1>6. CASE EditSave(r)
  <2>1. /\ stores' = [i \in DOMAIN stores |->
             IF Removed(i) THEN stores[i]
             ELSE [stores[i] EXCEPT !.row = IF i \in q.stores THEN "kept" ELSE "taken"]]
        /\ Go(r, "edit add") /\ UNCHANGED <<purchases, styles, deletion>> /\ q.pc = "edit"
    BY <1>1, <1>6 DEF EditSave
  <2>2. stores' \in [DOMAIN stores -> StoreRow]
    BY <1>2, <2>1 DEF StoreRow
  <2>3. EntryRows' /\ StoreGrows
    BY <2>1, <2>2, StoresTyped
  <2>4. "edit add" \in WizardSteps
    BY DEF WizardSteps, LineSteps
  <2>5. PICK new \in WizardWork :
          /\ new.pc = "edit add" /\ Takes(new, q) /\ req' = [req EXCEPT ![r] = new]
          /\ UNCHANGED <<served, last, overlapped>>
    BY <1>1, <2>1, <2>4, GoIs
  <2>6. /\ new \in WizardWork /\ new.pc = "edit add" /\ new.found = q.found /\ new.lines = q.lines
        /\ new.stores = q.stores /\ new.styles = q.styles
        /\ req' = [req EXCEPT ![r] = new] /\ UNCHANGED <<served, overlapped>>
    BY <2>5 DEF Takes
  <2>7. Read(new)
    BY <1>2, <2>1, <2>5, <2>6 DEF Read, LineSteps
  <2>8. QED
    BY <2>3, <2>6, <2>7, MoveTyped
<1>7. CASE EditAdd(r)
  <2>1. PICK t : t = NewRows(Missing(r))
    OBVIOUS
  <2>2. t \in Seq(StoreRow)
    <3>1. Missing(r) \subseteq StoreIds
      BY <1>1 DEF WizardWork, Missing
    <3>2. IsFiniteSet(Missing(r))
      BY <3>1, WizardAssumed, FS_Subset
    <3>3. QED
      BY <2>1, <3>1, <3>2, RowsForEach
  <2>3. /\ stores' = stores \o t /\ Go(r, "edit remove")
        /\ UNCHANGED <<purchases, styles, deletion>> /\ q.pc = "edit add"
    BY <1>1, <1>7, <2>1 DEF EditAdd
  <2>4. purchases > 0
    BY <1>2, <2>3 DEF Read
  <2>5. EntryRows' /\ StoreGrows
    BY <2>2, <2>3, <2>4, StoresTyped
  <2>6. "edit remove" \in WizardSteps
    BY DEF WizardSteps, LineSteps
  <2>7. PICK new \in WizardWork :
          /\ new.pc = "edit remove" /\ Takes(new, q) /\ req' = [req EXCEPT ![r] = new]
          /\ UNCHANGED <<served, last, overlapped>>
    BY <1>1, <2>3, <2>6, GoIs
  <2>8. /\ new \in WizardWork /\ new.pc = "edit remove" /\ new.found = q.found /\ new.lines = q.lines
        /\ new.stores = q.stores /\ new.styles = q.styles
        /\ req' = [req EXCEPT ![r] = new] /\ UNCHANGED <<served, overlapped>>
    BY <2>7 DEF Takes
  <2>9. Read(new)
    BY <1>2, <2>4, <2>7, <2>8 DEF Read, LineSteps
  <2>10. QED
    BY <2>5, <2>8, <2>9, MoveTyped
<1>8. CASE EditRemove(r)
  <2>1. /\ stores' = [i \in DOMAIN stores |->
             IF i \in q.stores /\ stores[i].store \notin q.asked
             THEN [stores[i] EXCEPT !.row = "removed"] ELSE stores[i]]
        /\ End(r, "stored") /\ UNCHANGED <<purchases, styles, deletion>>
    BY <1>1, <1>8 DEF EditRemove
  <2>2. stores' \in [DOMAIN stores -> StoreRow]
    BY <1>2, <2>1 DEF StoreRow
  <2>3. EntryRows' /\ StoreGrows
    BY <2>1, <2>2, StoresTyped
  <2>4. QED
    BY <2>1, <2>3, EndTyped
<1>9. CASE AssociateStores(r)
  <2>1. /\ stores' = [i \in DOMAIN stores |->
             IF i \in q.stores \ StoresSent(q.dto)
             THEN [stores[i] EXCEPT !.active = FALSE] ELSE stores[i]]
        /\ Go(r, "associate styles") /\ UNCHANGED <<purchases, styles, deletion>>
    BY <1>1, <1>9 DEF AssociateStores
  <2>2. stores' \in [DOMAIN stores -> StoreRow]
    BY <1>2, <2>1 DEF StoreRow
  <2>3. EntryRows' /\ StoreGrows
    BY <2>1, <2>2, StoresTyped
  <2>4. "associate styles" \in WizardSteps
    BY DEF WizardSteps, LineSteps
  <2>5. PICK new \in WizardWork :
          /\ new.pc = "associate styles" /\ Takes(new, q) /\ req' = [req EXCEPT ![r] = new]
          /\ UNCHANGED <<served, last, overlapped>>
    BY <1>1, <2>1, <2>4, GoIs
  <2>6. /\ new \in WizardWork /\ new.pc = "associate styles" /\ new.found = q.found /\ new.lines = q.lines
        /\ new.stores = q.stores /\ new.styles = q.styles
        /\ req' = [req EXCEPT ![r] = new] /\ UNCHANGED <<served, overlapped>>
    BY <2>5 DEF Takes
  <2>7. Read(new)
    BY <1>2, <2>5, <2>6 DEF Read, LineSteps
  <2>8. QED
    BY <2>3, <2>6, <2>7, MoveTyped
<1>10. CASE AssociateStyles(r)
  <2>1. /\ styles' = [s \in DOMAIN styles |->
             IF s \in q.styles /\ styles[s].at \in StoresSent(q.dto)
             THEN [styles[s] EXCEPT !.active = styles[s].style \in StylesSent(q.dto)]
             ELSE styles[s]]
        /\ Go(r, "line") /\ UNCHANGED <<purchases, stores, deletion>>
    BY <1>1, <1>10 DEF AssociateStyles, ActiveAfter
  <2>2. /\ styles' \in [DOMAIN styles -> StyleRow]
        /\ \A s \in DOMAIN styles : styles'[s].at = styles[s].at
    <3>1. ASSUME NEW x \in StyleRow, NEW b \in BOOLEAN
          PROVE  /\ [x EXCEPT !.active = b] \in StyleRow
                 /\ [x EXCEPT !.active = b].at = x.at
      BY DEF StyleRow
    <3>2. ASSUME NEW s \in DOMAIN styles
          PROVE  styles'[s] \in StyleRow /\ styles'[s].at = styles[s].at
      <4>1. PICK b \in BOOLEAN : b <=> styles[s].style \in StylesSent(q.dto)
        OBVIOUS
      <4>2. b = (styles[s].style \in StylesSent(q.dto))
        BY <4>1, Zenon
      <4>3. styles'[s] \in {styles[s], [styles[s] EXCEPT !.active = b]}
        BY <2>1, <4>2, Zenon
      <4>4. QED
        BY <1>2, <3>1, <4>3
    <3>3. DOMAIN styles' = DOMAIN styles /\ styles' = [s \in DOMAIN styles |-> styles'[s]]
      BY <2>1
    <3>4. QED
      BY <3>2, <3>3
  <2>3. EntryRows' /\ StoreGrows
    BY <2>1, <2>2, StylesTyped
  <2>4. "line" \in WizardSteps
    BY DEF WizardSteps, LineSteps
  <2>5. PICK new \in WizardWork :
          /\ new.pc = "line" /\ Takes(new, q) /\ req' = [req EXCEPT ![r] = new]
          /\ UNCHANGED <<served, last, overlapped>>
    BY <1>1, <2>1, <2>4, GoIs
  <2>6. /\ new \in WizardWork /\ new.pc = "line" /\ new.found = q.found /\ new.lines = q.lines
        /\ new.stores = q.stores /\ new.styles = q.styles
        /\ req' = [req EXCEPT ![r] = new] /\ UNCHANGED <<served, overlapped>>
    BY <2>5 DEF Takes
  <2>7. Read(new)
    BY <1>2, <2>5, <2>6 DEF Read, LineSteps
  <2>8. QED
    BY <2>3, <2>6, <2>7, MoveTyped
<1>11. CASE AssociateEnd(r)
  <2>1. UNCHANGED <<purchases, stores, styles, deletion>> /\ End(r, "associated")
    BY <1>11 DEF AssociateEnd, store
  <2>2. QED
    BY <1>3, <2>1, EndTyped
<1>12. CASE \/ LineFind(r) \/ LineInsert(r) \/ LineInsertColors(r)
            \/ LineAddColors(r) \/ LineRemoveColors(r)
  BY <1>12, LineTyped
<1>13. QED
  BY <1>4, <1>5, <1>6, <1>7, <1>8, <1>9, <1>10, <1>11, <1>12 DEF Serve

-----------------------------------------------------------------------------
\* PurchaseWizard, the number of purchases.

LEMMA Counted ==
  ASSUME IsFiniteSet(Creating), NEW r \in Requests, NEW new \in WizardWork,
         req' = [req EXCEPT ![r] = new], req \in [Requests -> WizardWork]
  PROVE  \E n, m \in Nat :
           /\ IsFiniteSet(Creating') /\ n = Cardinality(Creating) /\ m = Cardinality(Creating')
           /\ m <= n + 1
           /\ new.pc # "create" => m <= n
           /\ (new.pc # "create" /\ req[r].pc = "create") => m = n - 1
<1>1. req'[r] = new /\ \A o \in Requests \ {r} : req'[o] = req[o]
  OBVIOUS
<1>2. PICK n \in Nat : n = Cardinality(Creating)
  BY FS_CardinalityType
<1>3. CASE new.pc = "create" /\ req[r].pc # "create"
  <2>1. Creating' = Creating \cup {r} /\ r \notin Creating
    BY <1>1, <1>3 DEF Creating
  <2>2. IsFiniteSet(Creating') /\ Cardinality(Creating') = n + 1
    BY <1>2, <2>1, FS_AddElement
  <2>3. n + 1 \in Nat /\ n + 1 <= n + 1
    OBVIOUS
  <2>4. QED
    BY <1>2, <1>3, <2>2, <2>3
<1>4. CASE new.pc # "create" /\ req[r].pc = "create"
  <2>1. Creating' = Creating \ {r} /\ r \in Creating
    BY <1>1, <1>4 DEF Creating
  <2>2. IsFiniteSet(Creating') /\ Cardinality(Creating') = n - 1
    BY <1>2, <2>1, FS_RemoveElement
  <2>3. n - 1 \in Nat
    BY <2>2, FS_CardinalityType
  <2>4. n - 1 <= n + 1 /\ n - 1 <= n
    OBVIOUS
  <2>5. QED
    BY <1>2, <1>4, <2>2, <2>3, <2>4
<1>5. CASE (new.pc = "create") <=> (req[r].pc = "create")
  <2>1. Creating' = Creating
    BY <1>1, <1>5 DEF Creating
  <2>2. n <= n + 1 /\ n <= n
    OBVIOUS
  <2>3. QED
    BY <1>2, <1>5, <2>1, <2>2
<1>6. QED
  BY <1>3, <1>4, <1>5

\* The purchases are those that requests have created, and the first.
LEMMA CountKeeps ==
  ASSUME WizardAssumption, WizardTyped, WizardTyped', CountInv, Next
  PROVE  CountInv'
<1>1. /\ req \in [Requests -> WizardWork] /\ purchases \in Nat /\ served \in Nat
      /\ served' \in Nat /\ purchases' \in Nat
  BY WizardAssumed DEF WizardTyped, EntryTyped, EntryRows
<1>2. IsFiniteSet(Creating) /\ purchases + Cardinality(Creating) <= served + 1
  BY DEF CountInv
<1>3. ASSUME NEW r \in Requests, CreateLook(r) \/ EditRead(r) \/ AssociateRead(r)
      PROVE  CountInv'
  <2>1. PICK new \in WizardWork : Begin(r, new) /\ UNCHANGED store
    BY <1>3, BeginsRead
  <2>2. /\ req' = [req EXCEPT ![r] = new] /\ served' = served + 1 /\ purchases' = purchases
    BY <2>1 DEF Begin, store
  <2>3. PICK n \in Nat, m \in Nat :
          /\ IsFiniteSet(Creating') /\ n = Cardinality(Creating) /\ m = Cardinality(Creating')
          /\ m <= n + 1
    BY <1>1, <1>2, <2>2, Counted
  <2>4. purchases' + m <= served' + 1
    BY <1>1, <1>2, <2>2, <2>3
  <2>5. QED
    BY <2>3, <2>4 DEF CountInv
<1>4. ASSUME NEW r \in Requests, Serve(r)
      PROVE  CountInv'
  <2>1. PICK new \in WizardWork :
          new.pc # "create" /\ req' = [req EXCEPT ![r] = new] /\ served' = served
    BY <1>4, ServeTyped DEF Moved
  <2>2. \/ purchases' = purchases
        \/ req[r].pc = "create" /\ purchases' = purchases + 1
    BY <1>4 DEF Serve, CreateSave, CreateStores, EditSave, EditAdd, EditRemove, AssociateStores,
                AssociateStyles, AssociateEnd, LineFind, LineInsert, LineInsertColors,
                LineAddColors, LineRemoveColors, store
  <2>3. PICK n \in Nat, m \in Nat :
          /\ IsFiniteSet(Creating') /\ n = Cardinality(Creating) /\ m = Cardinality(Creating')
          /\ m <= n /\ (req[r].pc = "create" => m = n - 1)
    BY <1>1, <1>2, <2>1, Counted
  <2>4. purchases' + m <= served' + 1
    BY <1>1, <1>2, <2>1, <2>2, <2>3
  <2>5. QED
    BY <2>3, <2>4 DEF CountInv
<1>5. ASSUME NEW r \in Requests, Delete(r)
      PROVE  CountInv'
  <2>1. UNCHANGED <<purchases, req>> /\ served' = served + 1
    BY <1>5 DEF Delete
  <2>2. Creating' = Creating
    BY <2>1 DEF Creating
  <2>3. PICK n \in Nat : n = Cardinality(Creating)
    BY <1>2, FS_CardinalityType
  <2>4. purchases' + n <= served' + 1
    BY <1>1, <1>2, <2>1, <2>3
  <2>5. QED
    BY <1>2, <2>2, <2>3, <2>4 DEF CountInv
<1>6. ASSUME NEW kind \in Kinds, DeleteWrite(kind)
      PROVE  CountInv'
  <2>1. UNCHANGED <<purchases, req, served>>
    BY <1>6 DEF DeleteWrite
  <2>2. Creating' = Creating
    BY <2>1 DEF Creating
  <2>3. QED
    BY <1>2, <2>1, <2>2 DEF CountInv
<1>7. QED
  BY <1>3, <1>4, <1>5, <1>6 DEF Next

-----------------------------------------------------------------------------
\* PurchaseWizard, the steps keep the types.

LEMMA TypesKept ==
  ASSUME WizardAssumption, WizardTyped, Next \/ UNCHANGED vars
  PROVE  WizardTyped'
<1>1. /\ EntryTyped /\ EntryRows /\ req \in [Requests -> WizardWork]
      /\ \A r \in Requests : Read(req[r])
  BY DEF WizardTyped, EntryTyped
<1>2. ASSUME UNCHANGED <<purchases, stores, styles, req>>, EntryTyped'
      PROVE  WizardTyped'
  <2>1. \A r \in Requests : Read(req[r])'
    BY <1>1, <1>2 DEF Read
  <2>2. QED
    BY <1>1, <1>2, <2>1 DEF WizardTyped
<1>3. CASE UNCHANGED vars
  <2>1. UNCHANGED <<purchases, stores, styles, req, deletion, served, overlapped>>
    BY <1>3 DEF vars
  <2>2. QED
    BY <1>1, <1>2, <2>1 DEF EntryTyped, EntryRows
<1>4. ASSUME NEW r \in Requests, CreateLook(r) \/ EditRead(r) \/ AssociateRead(r)
      PROVE  WizardTyped'
  BY <1>4, BeginsRead, BeginTyped
<1>5. ASSUME NEW r \in Requests, Delete(r)
      PROVE  WizardTyped'
  <2>1. /\ UNCHANGED <<purchases, stores, styles, req>>
        /\ served < MaxServed /\ served' = served + 1
        /\ deletion' = [begun |-> TRUE, stores |-> Rows, styles |-> StylesOf(Rows),
                        writes |-> Kinds]
        /\ overlapped' \in BOOLEAN
    BY <1>5 DEF Delete, ToDelete
  <2>2. served' \in 0 .. MaxServed
    BY <1>1, <2>1, WizardAssumed DEF EntryTyped
  <2>3. /\ Rows \subseteq DOMAIN stores /\ Rows \in SUBSET Nat
        /\ StylesOf(Rows) \subseteq DOMAIN styles /\ StylesOf(Rows) \in SUBSET Nat
        /\ \A s \in StylesOf(Rows) : styles[s].at \in Rows
    BY <1>1 DEF Rows, StylesOf, EntryRows
  <2>4. /\ deletion' \in [begun : BOOLEAN, stores : SUBSET Nat, styles : SUBSET Nat,
                          writes : SUBSET Kinds]
        /\ deletion'.stores = Rows /\ deletion'.styles = StylesOf(Rows)
    BY <2>1, <2>3
  <2>5. EntryRows'
    BY <1>1, <2>1, <2>3, <2>4 DEF EntryRows
  <2>6. QED
    BY <1>2, <2>1, <2>2, <2>5 DEF EntryTyped
<1>6. ASSUME NEW kind \in Kinds, DeleteWrite(kind)
      PROVE  WizardTyped'
  <2>1. /\ UNCHANGED <<purchases, stores, styles, req, served, overlapped>>
        /\ deletion' = [deletion EXCEPT !.writes = @ \ {kind}]
    BY <1>6 DEF DeleteWrite
  <2>2. /\ deletion' \in [begun : BOOLEAN, stores : SUBSET Nat, styles : SUBSET Nat,
                          writes : SUBSET Kinds]
        /\ deletion'.stores = deletion.stores /\ deletion'.styles = deletion.styles
    BY <1>1, <2>1 DEF EntryRows
  <2>3. EntryRows'
    BY <1>1, <2>1, <2>2 DEF EntryRows
  <2>4. QED
    BY <1>1, <1>2, <2>1, <2>3 DEF EntryTyped
<1>7. ASSUME NEW r \in Requests, Serve(r)
      PROVE  WizardTyped'
  BY <1>7, ServeTyped
<1>8. QED
  BY <1>3, <1>4, <1>5, <1>6, <1>7 DEF Next

-----------------------------------------------------------------------------
\* PurchaseWizard, one request at a time.

AsSent == AssociatedAsSent /\ StoresAsAsked
Settled == (~overlapped => OneByOne) /\ AsSent

RowsOnce == OneStylePerStore /\ OneRowPerStore /\ ColorsOnce

\* A request goes on, or ends.
LEMMA Goes ==
  ASSUME WizardTyped, OneByOne, NEW r \in Requests, req[r].pc # "idle",
         UNCHANGED <<deletion, overlapped>>,
         \E new \in WizardWork :
           /\ req' = [req EXCEPT ![r] = new] /\ StepInv(new)'
           /\ new.pc # "idle" \/ AsSent',
         RowsOnce'
  PROVE  Settled'
<1>1. PICK new \in WizardWork :
        /\ req' = [req EXCEPT ![r] = new] /\ StepInv(new)'
        /\ new.pc # "idle" \/ AsSent'
  OBVIOUS
<1>2. /\ req'[r] = new /\ \A p \in Requests \ {r} : req'[p] = req[p]
      /\ Running = {r}
  BY <1>1 DEF WizardTyped, OneByOne, Running
<1>3. \A p \in Requests \ {r} : req'[p].pc = "idle"
  BY <1>2 DEF Running
<1>4. Running' \subseteq {r} /\ (new.pc # "idle" => Running' # {})
  BY <1>2, <1>3 DEF Running
<1>5. deletion'.writes = {}
  BY <1>2 DEF OneByOne
<1>6. ASSUME NEW p \in Requests
      PROVE  StepInv(req[p])'
  <2>1. CASE p = r
    BY <1>1, <1>2, <2>1
  <2>2. CASE p # r
    <3>1. req'[p].pc = "idle"
      BY <1>3, <2>2
    <3>2. QED
      BY <3>1 DEF StepInv, LineSteps
  <2>3. QED
    BY <2>1, <2>2
<1>7. OneByOne'
  BY <1>4, <1>5, <1>6 DEF OneByOne, RowsOnce
<1>8. AsSent'
  <2>1. CASE new.pc # "idle"
    <3>1. ~Quiet'
      BY <1>4, <2>1 DEF Quiet
    <3>2. QED
      BY <3>1 DEF AsSent, AssociatedAsSent, StoresAsAsked
  <2>2. QED
    BY <1>1, <2>1
<1>9. QED
  BY <1>7, <1>8 DEF Settled

\* A request that fails, or creates a second purchase, says nothing of the first.
LEMMA Fails ==
  ASSUME WizardTyped, OneByOne, NEW r \in Requests, req[r].pc # "idle",
         NEW op \in {"failed", "repeated"}, End(r, op), UNCHANGED deletion, RowsOnce'
  PROVE  Settled'
<1>1. /\ req' = [req EXCEPT ![r] = Idle] /\ UNCHANGED overlapped
      /\ last'.op \notin {"associated", "stored"}
  BY DEF End
<1>2. AsSent'
  BY <1>1 DEF AsSent, AssociatedAsSent, StoresAsAsked
<1>3. Idle \in WizardWork /\ StepInv(Idle)'
  BY IdleWork DEF StepInv, Idle, LineSteps
<1>4. QED
  BY <1>1, <1>2, <1>3, Goes

LEMMA Succeeds ==
  ASSUME WizardTyped, OneByOne, NEW r \in Requests, req[r].pc # "idle",
         NEW op, End(r, op), UNCHANGED deletion, RowsOnce', AsSent'
  PROVE  Settled'
<1>1. req' = [req EXCEPT ![r] = Idle] /\ UNCHANGED overlapped
  BY DEF End
<1>2. Idle \in WizardWork /\ StepInv(Idle)'
  BY IdleWork DEF StepInv, Idle, LineSteps
<1>3. QED
  BY <1>1, <1>2, Goes

\* What a request that runs alone can use.
LEMMA Alone ==
  ASSUME WizardTyped, OneByOne, NEW r \in Requests, req[r].pc # "idle"
  PROVE  \E q \in WizardWork :
           /\ q = req[r] /\ StepInv(q) /\ Read(q) /\ deletion.writes = {}
           /\ EntryRows /\ stores \in Seq(StoreRow) /\ styles \in Seq(StyleRow)
           /\ RowsOnce
BY DEF WizardTyped, EntryTyped, EntryRows, OneByOne, Running, RowsOnce

LEMMA StylesSame ==
  ASSUME RowsOnce, UNCHANGED <<styles, overlapped>>, OneRowPerStore'
  PROVE  RowsOnce'
BY DEF RowsOnce, OneStylePerStore, ColorsOnce

LEMMA CreateSaveKeeps ==
  ASSUME WizardTyped, OneByOne, NEW r \in Requests, CreateSave(r)
  PROVE  Settled'
<1>1. /\ req[r].pc = "create" /\ UNCHANGED <<stores, styles, deletion>>
      /\ \/ purchases = 0 /\ Go(r, "create stores")
         \/ End(r, "repeated")
  BY DEF CreateSave
<1>2. PICK q \in WizardWork : q = req[r] /\ EntryRows /\ RowsOnce
  BY <1>1, Alone
<1>3. UNCHANGED overlapped
  BY <1>1 DEF Go, End
<1>4. RowsOnce'
  <2>1. OneRowPerStore'
    BY <1>1, <1>2 DEF RowsOnce, OneRowPerStore, Rows
  <2>2. QED
    BY <1>1, <1>2, <1>3, <2>1, StylesSame
<1>5. CASE purchases = 0 /\ Go(r, "create stores")
  <2>1. stores' = <<>>
    BY <1>1, <1>2, <1>5 DEF EntryRows
  <2>2. "create stores" \in WizardSteps
    BY DEF WizardSteps
  <2>3. PICK new \in WizardWork : new.pc = "create stores" /\ req' = [req EXCEPT ![r] = new]
    BY <1>5, <2>2, GoIs
  <2>4. StepInv(new)'
    BY <2>1, <2>3 DEF StepInv, LineSteps
  <2>5. QED
    BY <1>1, <1>3, <1>4, <2>3, <2>4, Goes
<1>6. CASE End(r, "repeated")
  BY <1>1, <1>4, <1>6, Fails
<1>7. QED
  BY <1>1, <1>5, <1>6

LEMMA CreateStoresKeeps ==
  ASSUME WizardAssumption, WizardTyped, OneByOne, NEW r \in Requests, CreateStores(r)
  PROVE  Settled'
<1>1. /\ req[r].pc = "create stores" /\ UNCHANGED <<purchases, styles, deletion>>
      /\ stores' = stores \o NewRows(req[r].asked) /\ End(r, "stored")
  BY DEF CreateStores
<1>2. PICK q \in WizardWork : q = req[r] /\ StepInv(q) /\ RowsOnce
  BY <1>1, Alone
<1>3. UNCHANGED overlapped /\ last'.op = "stored" /\ last'.asked = q.asked
  BY <1>1, <1>2 DEF End
<1>4. stores = <<>>
  BY <1>1, <1>2 DEF StepInv
<1>5. PICK t : t = NewRows(q.asked)
  OBVIOUS
<1>6. /\ t \in Seq(StoreRow)
      /\ \A i \in 1 .. Len(t) : t[i].active /\ t[i].row = "kept" /\ t[i].store \in q.asked
      /\ \A i, j \in 1 .. Len(t) : t[i].store = t[j].store => i = j
      /\ \A x \in q.asked : \E i \in 1 .. Len(t) : t[i].store = x
  <2>1. q.asked \subseteq StoreIds /\ IsFiniteSet(q.asked)
    BY WizardAssumed, FS_Subset DEF WizardWork
  <2>2. QED
    BY <1>5, <2>1, RowsForEach
<1>7. stores' = t
  <2>1. stores' = <<>> \o t
    BY <1>1, <1>2, <1>4, <1>5, Zenon
  <2>2. QED
    BY <1>6, <2>1, ConcatEmptySeq
<1>8. Rows' = 1 .. Len(t)
  BY <1>6, <1>7 DEF Rows
<1>9. OneRowPerStore'
  BY <1>6, <1>7, <1>8 DEF OneRowPerStore
<1>10. StoresAsAsked'
  <2>1. {stores'[i].store : i \in Rows'} = q.asked
    BY <1>6, <1>7, <1>8
  <2>2. QED
    BY <1>3, <1>9, <2>1 DEF StoresAsAsked, OneRowPerStore
<1>11. AsSent'
  BY <1>3, <1>10 DEF AsSent, AssociatedAsSent
<1>12. RowsOnce'
  BY <1>1, <1>2, <1>3, <1>9, StylesSame
<1>13. QED
  BY <1>1, <1>11, <1>12, Succeeds

LEMMA EditSaveKeeps ==
  ASSUME WizardTyped, OneByOne, NEW r \in Requests, EditSave(r)
  PROVE  Settled'
<1>1. /\ req[r].pc = "edit" /\ UNCHANGED <<purchases, styles, deletion>>
      /\ Go(r, "edit add")
  BY DEF EditSave
<1>2. PICK q \in WizardWork :
        /\ q = req[r] /\ StepInv(q) /\ RowsOnce /\ stores \in Seq(StoreRow)
  BY <1>1, Alone
<1>3. UNCHANGED overlapped
  BY <1>1 DEF Go
<1>4. q.stores = Rows
  BY <1>1, <1>2 DEF StepInv
<1>5. stores' = [i \in DOMAIN stores |->
         IF Removed(i) THEN stores[i]
         ELSE [stores[i] EXCEPT !.row = IF i \in Rows THEN "kept" ELSE "taken"]]
  BY <1>2, <1>4 DEF EditSave
<1>6. \A i \in DOMAIN stores : stores[i] \in StoreRow
  BY <1>2
<1>7. /\ DOMAIN stores' = DOMAIN stores
      /\ \A i \in DOMAIN stores :
           stores'[i].store = stores[i].store /\ (stores'[i].row = "kept" <=> i \in Rows)
  BY <1>5, <1>6 DEF StoreRow, Removed, Rows
<1>8. Rows' = Rows
  BY <1>7 DEF Rows
<1>9. OneRowPerStore'
  <2>1. Rows \subseteq DOMAIN stores
    BY DEF Rows
  <2>2. QED
    BY <1>2, <1>7, <1>8, <2>1 DEF RowsOnce, OneRowPerStore
<1>10. RowsOnce'
  BY <1>1, <1>2, <1>3, <1>9, StylesSame
<1>11. "edit add" \in WizardSteps
  BY DEF WizardSteps
<1>12. PICK new \in WizardWork :
         new.pc = "edit add" /\ Takes(new, q) /\ req' = [req EXCEPT ![r] = new]
  BY <1>1, <1>2, <1>11, GoIs
<1>13. StepInv(new)'
  BY <1>4, <1>8, <1>12 DEF StepInv, LineSteps, Takes
<1>14. QED
  BY <1>1, <1>3, <1>10, <1>12, <1>13, Goes

LEMMA EditAddKeeps ==
  ASSUME WizardAssumption, WizardTyped, OneByOne, NEW r \in Requests, EditAdd(r)
  PROVE  Settled'
<1>1. /\ req[r].pc = "edit add" /\ UNCHANGED <<purchases, styles, deletion>>
      /\ stores' = stores \o NewRows(Missing(r)) /\ Go(r, "edit remove")
  BY DEF EditAdd
<1>2. PICK q \in WizardWork :
        /\ q = req[r] /\ StepInv(q) /\ RowsOnce /\ stores \in Seq(StoreRow)
  BY <1>1, Alone
<1>3. UNCHANGED overlapped
  BY <1>1 DEF Go
<1>4. q.stores = Rows
  BY <1>1, <1>2 DEF StepInv
<1>5. PICK more \in SUBSET StoreIds :
        more = Missing(r) /\ more = q.asked \ {stores[i].store : i \in Rows}
  BY <1>2, <1>4 DEF Missing, WizardWork
<1>6. PICK t : t = NewRows(more)
  OBVIOUS
<1>7. /\ t \in Seq(StoreRow)
      /\ \A i \in 1 .. Len(t) : t[i].active /\ t[i].row = "kept" /\ t[i].store \in more
      /\ \A i, j \in 1 .. Len(t) : t[i].store = t[j].store => i = j
      /\ \A x \in more : \E i \in 1 .. Len(t) : t[i].store = x
  <2>1. IsFiniteSet(more)
    BY WizardAssumed, FS_Subset
  <2>2. QED
    BY <1>6, <2>1, RowsForEach
<1>8. PICK n \in Nat, m \in Nat : n = Len(stores) /\ m = Len(t)
  BY <1>2, <1>7
<1>9. /\ DOMAIN stores = 1 .. n /\ DOMAIN stores' = 1 .. n + m
      /\ \A i \in 1 .. n : stores'[i] = stores[i]
      /\ \A k \in 1 .. m : stores'[n + k] = t[k]
  <2>1. stores' = stores \o t
    BY <1>1, <1>5, <1>6
  <2>2. /\ stores' \in Seq(StoreRow) /\ Len(stores') = n + m
        /\ \A i \in 1 .. n : stores'[i] = stores[i]
        /\ \A k \in 1 .. m : stores'[n + k] = t[k]
    BY <1>2, <1>7, <1>8, <2>1, AfterOne
  <2>3. QED
    BY <1>2, <1>8, <2>2
<1>10. ASSUME NEW i \in 1 .. n + m
       PROVE  i \in 1 .. n \/ \E k \in 1 .. m : i = n + k
  <2>1. i > n => i - n \in 1 .. m /\ i = n + (i - n)
    OBVIOUS
  <2>2. QED
    BY <2>1
<1>11. \A i \in Rows' : (i \in Rows /\ stores'[i] = stores[i]) \/ \E k \in 1 .. m : i = n + k
  BY <1>9, <1>10 DEF Rows
<1>12. /\ Rows \subseteq Rows' /\ \A i \in Rows : stores'[i] = stores[i]
       /\ \A k \in 1 .. m : n + k \in Rows'
  <2>1. \A i \in Rows : i \in 1 .. n /\ i \in 1 .. n + m /\ stores'[i] = stores[i]
    BY <1>9 DEF Rows
  <2>2. \A k \in 1 .. m : n + k \in 1 .. n + m /\ stores'[n + k].row = "kept"
    BY <1>7, <1>8, <1>9
  <2>3. QED
    BY <1>9, <2>1, <2>2 DEF Rows
<1>13. \A k \in 1 .. m : stores'[n + k].store \in more
  BY <1>7, <1>8, <1>9
<1>14. OneRowPerStore'
  <2>1. ASSUME NEW i \in Rows', NEW j \in Rows', stores'[i].store = stores'[j].store
        PROVE  i = j
    <3>1. CASE i \in Rows /\ j \in Rows
      BY <1>2, <1>12, <2>1, <3>1 DEF RowsOnce, OneRowPerStore
    <3>2. CASE i \in Rows /\ \E k \in 1 .. m : j = n + k
      BY <1>5, <1>12, <1>13, <2>1, <3>2
    <3>3. CASE j \in Rows /\ \E k \in 1 .. m : i = n + k
      BY <1>5, <1>12, <1>13, <2>1, <3>3
    <3>4. CASE (\E k \in 1 .. m : i = n + k) /\ \E l \in 1 .. m : j = n + l
      BY <1>7, <1>8, <1>9, <2>1, <3>4
    <3>5. QED
      BY <1>11, <3>1, <3>2, <3>3, <3>4
  <2>2. QED
    BY <2>1 DEF OneRowPerStore
<1>15. RowsOnce'
  BY <1>1, <1>2, <1>3, <1>14, StylesSame
<1>16. "edit remove" \in WizardSteps
  BY DEF WizardSteps
<1>17. PICK new \in WizardWork :
         new.pc = "edit remove" /\ Takes(new, q) /\ req' = [req EXCEPT ![r] = new]
  BY <1>1, <1>2, <1>16, GoIs
<1>18. new.stores = Rows /\ new.asked = q.asked
  BY <1>4, <1>17 DEF Takes
<1>19. \A i \in Rows' \ new.stores : stores'[i].store \in new.asked
  BY <1>5, <1>11, <1>13, <1>18
<1>20. ASSUME NEW a \in new.asked
       PROVE  \E i \in Rows' : stores'[i].store = a
  <2>1. CASE a \in more
    BY <1>7, <1>8, <1>9, <1>12, <2>1
  <2>2. CASE a \notin more
    BY <1>5, <1>12, <1>18, <2>2
  <2>3. QED
    BY <2>1, <2>2
<1>21. StepInv(new)'
  BY <1>12, <1>17, <1>18, <1>19, <1>20 DEF StepInv, LineSteps
<1>22. QED
  BY <1>1, <1>3, <1>15, <1>17, <1>21, Goes

LEMMA EditRemoveKeeps ==
  ASSUME WizardTyped, OneByOne, NEW r \in Requests, EditRemove(r)
  PROVE  Settled'
<1>1. /\ req[r].pc = "edit remove" /\ UNCHANGED <<purchases, styles, deletion>>
      /\ End(r, "stored")
  BY DEF EditRemove
<1>2. PICK q \in WizardWork :
        /\ q = req[r] /\ StepInv(q) /\ RowsOnce /\ stores \in Seq(StoreRow)
  BY <1>1, Alone
<1>3. UNCHANGED overlapped /\ last'.op = "stored" /\ last'.asked = q.asked
  BY <1>1, <1>2 DEF End
<1>4. /\ q.stores \subseteq Rows
      /\ \A i \in Rows \ q.stores : stores[i].store \in q.asked
      /\ \A a \in q.asked : \E i \in Rows : stores[i].store = a
  BY <1>1, <1>2 DEF StepInv
<1>5. stores' = [i \in DOMAIN stores |->
         IF i \in q.stores /\ stores[i].store \notin q.asked
         THEN [stores[i] EXCEPT !.row = "removed"] ELSE stores[i]]
  BY <1>2 DEF EditRemove
<1>6. \A i \in DOMAIN stores : stores[i] \in StoreRow
  BY <1>2
<1>7. /\ DOMAIN stores' = DOMAIN stores
      /\ \A i \in DOMAIN stores :
           /\ stores'[i].store = stores[i].store
           /\ i \in q.stores /\ stores[i].store \notin q.asked => stores'[i].row = "removed"
           /\ ~(i \in q.stores /\ stores[i].store \notin q.asked) => stores'[i] = stores[i]
  BY <1>5, <1>6 DEF StoreRow
<1>8. /\ Rows \subseteq DOMAIN stores /\ Rows' \subseteq DOMAIN stores
      /\ \A i \in Rows : i \in Rows' <=> stores[i].store \in q.asked
      /\ Rows' \subseteq Rows
  BY <1>4, <1>7 DEF Rows
<1>9. OneRowPerStore'
  BY <1>2, <1>7, <1>8 DEF RowsOnce, OneRowPerStore
<1>10. StoresAsAsked'
  <2>1. {stores'[i].store : i \in Rows'} = q.asked
    BY <1>4, <1>7, <1>8
  <2>2. QED
    BY <1>3, <1>9, <2>1 DEF StoresAsAsked, OneRowPerStore
<1>11. AsSent'
  BY <1>3, <1>10 DEF AsSent, AssociatedAsSent
<1>12. RowsOnce'
  BY <1>1, <1>2, <1>3, <1>9, StylesSame
<1>13. QED
  BY <1>1, <1>11, <1>12, Succeeds

\* While nothing is being deleted, the styles of a row go when it goes.
LEMMA GoesWithStore ==
  ASSUME WizardTyped, deletion.writes = {}, NEW s \in DOMAIN styles, StyleDeleted(s)
  PROVE  StoreDeleted(styles[s].at)
BY DEF WizardTyped, EntryTyped, EntryRows, StyleDeleted, StoreDeleted, Deleted

LEMMA AssociateStoresKeeps ==
  ASSUME WizardTyped, OneByOne, NEW r \in Requests, AssociateStores(r)
  PROVE  Settled'
<1>1. /\ req[r].pc = "associate" /\ UNCHANGED <<purchases, styles, deletion>>
      /\ Go(r, "associate styles")
  BY DEF AssociateStores
<1>2. PICK q \in WizardWork :
        /\ q = req[r] /\ StepInv(q) /\ RowsOnce /\ stores \in Seq(StoreRow)
  BY <1>1, Alone
<1>3. UNCHANGED overlapped
  BY <1>1 DEF Go
<1>4. q.lines = q.dto /\ q.styles = StylesOf(q.stores) /\ q.stores = ActiveRows
  BY <1>1, <1>2 DEF StepInv
<1>5. stores' = [i \in DOMAIN stores |->
         IF i \in ActiveRows \ StoresSent(q.dto)
         THEN [stores[i] EXCEPT !.active = FALSE] ELSE stores[i]]
  BY <1>2, <1>4 DEF AssociateStores
<1>6. \A i \in DOMAIN stores : stores[i] \in StoreRow
  BY <1>2
<1>7. /\ DOMAIN stores' = DOMAIN stores
      /\ \A i \in DOMAIN stores :
           /\ stores'[i].store = stores[i].store /\ stores'[i].row = stores[i].row
           /\ i \in ActiveRows \ StoresSent(q.dto) => ~stores'[i].active
           /\ ~(i \in ActiveRows \ StoresSent(q.dto)) => stores'[i] = stores[i]
  BY <1>5, <1>6 DEF StoreRow
<1>8. Rows' = Rows /\ Rows \subseteq DOMAIN stores
  BY <1>7 DEF Rows
<1>9. ActiveRows' = ActiveRows \cap StoresSent(q.dto)
  <2>1. \A i \in Rows : StoreDeleted(i)' <=> StoreDeleted(i)
    BY <1>1 DEF StoreDeleted, Deleted
  <2>2. ActiveRows' \subseteq ActiveRows \cap StoresSent(q.dto)
    BY <1>7, <1>8, <2>1 DEF ActiveRows
  <2>3. ActiveRows \cap StoresSent(q.dto) \subseteq ActiveRows'
    BY <1>7, <1>8, <2>1 DEF ActiveRows
  <2>4. QED
    BY <2>2, <2>3
<1>10. OneRowPerStore'
  BY <1>2, <1>7, <1>8 DEF RowsOnce, OneRowPerStore
<1>11. RowsOnce'
  BY <1>1, <1>2, <1>3, <1>10, StylesSame
<1>12. "associate styles" \in WizardSteps
  BY DEF WizardSteps
<1>13. PICK new \in WizardWork :
         new.pc = "associate styles" /\ Takes(new, q) /\ req' = [req EXCEPT ![r] = new]
  BY <1>1, <1>2, <1>12, GoIs
<1>14. /\ new.lines = new.dto /\ new.dto = q.dto /\ new.stores = ActiveRows
       /\ new.styles = StylesOf(new.stores)
  BY <1>4, <1>13 DEF Takes
<1>15. StylesOf(new.stores)' = StylesOf(new.stores)
  BY <1>1 DEF StylesOf
<1>16. new.stores \subseteq Rows
  BY <1>14 DEF ActiveRows
<1>17. StepInv(new)'
  BY <1>8, <1>9, <1>13, <1>14, <1>15, <1>16 DEF StepInv, LineSteps
<1>18. QED
  BY <1>1, <1>3, <1>11, <1>13, <1>17, Goes

LEMMA AssociateStylesKeeps ==
  ASSUME WizardTyped, OneByOne, NEW r \in Requests, AssociateStyles(r)
  PROVE  Settled'
<1>1. /\ req[r].pc = "associate styles" /\ UNCHANGED <<purchases, stores, deletion>>
      /\ Go(r, "line")
  BY DEF AssociateStyles
<1>2. PICK q \in WizardWork :
        /\ q = req[r] /\ StepInv(q) /\ RowsOnce /\ styles \in Seq(StyleRow)
  BY <1>1, Alone
<1>3. UNCHANGED overlapped
  BY <1>1 DEF Go
<1>4. /\ q.lines = q.dto /\ q.styles = StylesOf(q.stores)
      /\ ActiveRows = q.stores \cap StoresSent(q.dto) /\ q.stores \subseteq Rows
  BY <1>1, <1>2 DEF StepInv
<1>5. styles' = [s \in DOMAIN styles |->
         IF s \in q.styles /\ styles[s].at \in StoresSent(q.dto)
         THEN [styles[s] EXCEPT !.active = styles[s].style \in StylesSent(q.dto)]
         ELSE styles[s]]
  BY <1>2 DEF AssociateStyles, ActiveAfter
<1>6. ASSUME NEW x \in StyleRow, NEW b \in BOOLEAN
      PROVE  /\ [x EXCEPT !.active = b].at = x.at /\ [x EXCEPT !.active = b].style = x.style
             /\ [x EXCEPT !.active = b].colors = x.colors /\ [x EXCEPT !.active = b].active = b
  BY DEF StyleRow
<1>7. /\ DOMAIN styles' = DOMAIN styles
      /\ \A s \in DOMAIN styles :
           /\ styles'[s].at = styles[s].at /\ styles'[s].style = styles[s].style
           /\ styles'[s].colors = styles[s].colors
           /\ s \in q.styles /\ styles[s].at \in StoresSent(q.dto) =>
                (styles'[s].active <=> styles[s].style \in StylesSent(q.dto))
  <2>1. ASSUME NEW s \in DOMAIN styles
        PROVE  /\ styles'[s].at = styles[s].at /\ styles'[s].style = styles[s].style
               /\ styles'[s].colors = styles[s].colors
               /\ s \in q.styles /\ styles[s].at \in StoresSent(q.dto) =>
                    (styles'[s].active <=> styles[s].style \in StylesSent(q.dto))
    <3>1. styles[s] \in StyleRow
      BY <1>2
    <3>2. CASE s \in q.styles /\ styles[s].at \in StoresSent(q.dto)
      <4>1. PICK b \in BOOLEAN : b <=> styles[s].style \in StylesSent(q.dto)
        OBVIOUS
      <4>2. b = (styles[s].style \in StylesSent(q.dto))
        BY <4>1, Zenon
      <4>3. styles'[s] = [styles[s] EXCEPT !.active = b]
        BY <1>5, <3>2, <4>2, Zenon
      <4>4. QED
        BY <1>6, <3>1, <4>1, <4>3
    <3>3. CASE ~(s \in q.styles /\ styles[s].at \in StoresSent(q.dto))
      BY <1>5, <3>3
    <3>4. QED
      BY <3>2, <3>3
  <2>2. DOMAIN styles' = DOMAIN styles
    BY <1>5
  <2>3. QED
    BY <2>1, <2>2
<1>8. RowsOnce'
  <2>1. OneStylePerStore'
    BY <1>2, <1>3, <1>7 DEF RowsOnce, OneStylePerStore
  <2>2. OneRowPerStore'
    BY <1>1, <1>2 DEF RowsOnce, OneRowPerStore, Rows
  <2>3. ColorsOnce'
    BY <1>2, <1>7 DEF RowsOnce, ColorsOnce
  <2>4. QED
    BY <2>1, <2>2, <2>3 DEF RowsOnce
<1>9. Rows' = Rows /\ ActiveRows' = ActiveRows
  BY <1>1 DEF Rows, ActiveRows, StoreDeleted, Deleted
<1>10. "line" \in WizardSteps
  BY DEF WizardSteps
<1>11. PICK new \in WizardWork :
         new.pc = "line" /\ Takes(new, q) /\ req' = [req EXCEPT ![r] = new]
  BY <1>1, <1>2, <1>10, GoIs
<1>12. new.lines = new.dto /\ new.dto = q.dto /\ new.stores = q.stores
       /\ new.dto \in Seq(SentLine)
  BY <1>4, <1>11 DEF Takes, WizardWork
<1>13. Past(new) = 0 /\ LinesLeft(new)
  <2>1. Len(new.dto) \in Nat
    BY <1>12
  <2>2. Past(new) = 0
    BY <1>12, <2>1 DEF Past
  <2>3. \A k \in 1 .. Len(new.lines) : new.lines[k] = new.dto[0 + k]
    BY <1>12
  <2>4. QED
    BY <2>2, <2>3 DEF LinesLeft
<1>14. LinesDone(new, Past(new))'
  BY <1>13 DEF LinesDone, Past
<1>15. PutAside(new)'
  <2>1. ASSUME NEW s \in StylesOf(ActiveRows)'
        PROVE  styles'[s].active <=> styles'[s].style \in StylesSent(q.dto)
    <3>1. s \in DOMAIN styles /\ styles[s].at \in ActiveRows
      BY <1>7, <1>9 DEF StylesOf
    <3>2. s \in q.styles /\ styles[s].at \in StoresSent(q.dto)
      BY <1>4, <3>1 DEF StylesOf
    <3>3. QED
      BY <1>7, <3>1, <3>2
  <2>2. QED
    BY <1>4, <1>9, <1>12, <2>1 DEF PutAside, StoresSent, StylesSent
<1>16. StepInv(new)'
  BY <1>4, <1>9, <1>11, <1>12, <1>13, <1>14, <1>15 DEF StepInv, LineSteps, LinesLeft, Past
<1>17. QED
  BY <1>1, <1>3, <1>8, <1>11, <1>16, Goes

\* The line a request is at is the first of those left.
LEMMA LineIs ==
  ASSUME NEW q \in WizardWork, LinesLeft(q), q.lines # <<>>
  PROVE  /\ Past(q) + 1 \in 1 .. Len(q.dto) /\ q.dto[Past(q) + 1] = Head(q.lines)
         /\ q.dto \in Seq(SentLine) /\ Head(q.lines) \in SentLine
         /\ Head(q.lines).at \in StoresSent(q.dto)
         /\ Head(q.lines).style \in StylesSent(q.dto)
<1>1. q.dto \in Seq(SentLine) /\ q.lines \in Seq(SentLine)
  BY DEF WizardWork
<1>2. PICK n \in Nat, m \in Nat : n = Len(q.dto) /\ m = Len(q.lines)
  BY <1>1
<1>3. m > 0 /\ Head(q.lines) = q.lines[1] /\ Head(q.lines) \in SentLine
  BY <1>1, <1>2
<1>4. Past(q) = n - m /\ n - m \in Nat
  BY <1>2 DEF Past, LinesLeft
<1>5. PICK i : i = Past(q) + 1
  OBVIOUS
<1>6. i \in 1 .. n /\ i \in DOMAIN q.dto
  <2>1. i \in 1 .. n
    BY <1>3, <1>4, <1>5
  <2>2. DOMAIN q.dto = 1 .. n
    BY <1>1, <1>2
  <2>3. QED
    BY <2>1, <2>2
<1>7. q.lines[1] = q.dto[i]
  <2>1. 1 \in 1 .. Len(q.lines)
    BY <1>2, <1>3
  <2>2. QED
    BY <1>5, <2>1 DEF LinesLeft
<1>8. q.dto[i].at \in StoresSent(q.dto) /\ q.dto[i].style \in StylesSent(q.dto)
  BY <1>6, Zenon DEF StoresSent, StylesSent
<1>9. QED
  BY <1>1, <1>2, <1>3, <1>5, <1>6, <1>7, <1>8

\* The style of an active row of a request is found, and no other.
LEMMA Found ==
  ASSUME WizardTyped, deletion.writes = {}, NEW line, line.at \in ActiveRows
  PROVE  \A s \in DOMAIN styles : s \in LineFound(line) <=> SameRow(styles[s], line)
<1>1. ~Removed(line.at) /\ ~StoreDeleted(line.at)
  BY DEF ActiveRows, Rows, Removed
<1>2. QED
  BY <1>1, GoesWithStore DEF LineFound, SameRow

\* What a request takes with it to its next step.
LEMMA TakesAlong ==
  ASSUME NEW new, NEW q, new.dto = q.dto, new.lines = q.lines, new.stores = q.stores
  PROVE  /\ Past(new) = Past(q) /\ LinesLeft(new) <=> LinesLeft(q)
         /\ PutAside(new) <=> PutAside(q)
         /\ \A m : LinesDone(new, m) <=> LinesDone(q, m)
BY DEF Past, LinesLeft, PutAside, LinesDone

LEMMA SameSteps ==
  ASSUME NEW new, UNCHANGED <<stores, styles, deletion>>, StepInv(new)
  PROVE  StepInv(new)'
<1>1. /\ Rows' = Rows /\ ActiveRows' = ActiveRows
      /\ \A those : StylesOf(those)' = StylesOf(those)
  BY DEF Rows, ActiveRows, StoreDeleted, Deleted, StylesOf
<1>2. LinesLeft(new)' <=> LinesLeft(new)
  BY DEF LinesLeft, Past
<1>3. PutAside(new)' <=> PutAside(new)
  BY <1>1 DEF PutAside, StylesOf
<1>4. /\ new.pc = "create stores" => stores' = <<>>
      /\ new.pc \in {"edit", "edit add"} => new.stores = Rows'
      /\ new.pc = "edit remove" =>
           /\ new.stores \subseteq Rows'
           /\ \A i \in Rows' \ new.stores : stores'[i].store \in new.asked
           /\ \A a \in new.asked : \E i \in Rows' : stores'[i].store = a
  BY <1>1 DEF StepInv
<1>5. /\ new.pc \in {"associate", "associate styles"} =>
           new.lines = new.dto /\ new.styles = StylesOf(new.stores)'
      /\ new.pc = "associate" => new.stores = ActiveRows'
      /\ new.pc = "associate styles" =>
           ActiveRows' = new.stores \cap StoresSent(new.dto)
      /\ new.pc \in {"associate styles", "line"} \cup LineSteps => new.stores \subseteq Rows'
  BY <1>1 DEF StepInv
<1>6. /\ new.pc \in {"line"} \cup LineSteps => LinesLeft(new)' /\ PutAside(new)'
      /\ new.pc = "line" => LinesDone(new, Past(new))'
      /\ new.pc \in LineSteps => LinesDone(new, Past(new) + 1)'
  <2>1. LinesDone(new, Past(new))' <=> LinesDone(new, Past(new))
    BY DEF LinesDone, Past, LineStored, SameRow
  <2>2. LinesDone(new, Past(new) + 1)' <=> LinesDone(new, Past(new) + 1)
    BY DEF LinesDone, Past, LineStored, SameRow
  <2>3. QED
    BY <1>2, <1>3, <2>1, <2>2 DEF StepInv
<1>7. /\ new.pc = "insert" /\ Head(new.lines).at \in new.stores =>
           \A s \in DOMAIN styles' : ~SameRow(styles'[s], Head(new.lines))
      /\ new.pc \in LineSteps \ {"insert"} => SameRow(styles'[new.found], Head(new.lines))
      /\ new.pc = "insert colors" =>
           Head(new.lines).at \in new.stores /\ styles'[new.found].colors = NoColors
      /\ new.pc = "add colors" =>
           new.colors = {c \in ColorIds : styles'[new.found].colors[c] > 0}
      /\ new.pc = "remove colors" =>
           styles'[new.found].colors = Once(new.colors \cup Head(new.lines).colors)
  BY DEF StepInv, SameRow
<1>8. QED
  BY <1>4, <1>5, <1>6, <1>7, Zenon DEF StepInv, StoresSent, SameRow, LineSteps

LEMMA RowsSame ==
  ASSUME RowsOnce, UNCHANGED <<stores, styles, overlapped>>
  PROVE  RowsOnce'
BY DEF RowsOnce, OneStylePerStore, OneRowPerStore, ColorsOnce, Rows

LEMMA LineFindKeeps ==
  ASSUME WizardTyped, OneByOne, NEW r \in Requests, LineFind(r)
  PROVE  Settled'
<1>1. /\ req[r].pc = "line" /\ req[r].lines # <<>>
      /\ UNCHANGED <<purchases, stores, styles, deletion>>
  BY DEF LineFind, store
<1>2. PICK q \in WizardWork :
        /\ q = req[r] /\ StepInv(q) /\ RowsOnce /\ deletion.writes = {}
  BY <1>1, Alone
<1>3. /\ LinesLeft(q) /\ PutAside(q) /\ LinesDone(q, Past(q)) /\ q.stores \subseteq Rows
  BY <1>1, <1>2 DEF StepInv
<1>4. PICK line : line = Head(q.lines)
  OBVIOUS
<1>5. line = Line(r) /\ line.at \in StoresSent(q.dto) /\ q.lines # <<>>
  BY <1>1, <1>2, <1>3, <1>4, LineIs DEF Line
<1>6. LinesDone(q, Past(q) + 1)
  <2>1. Past(q) \in Nat
    BY <1>3 DEF LinesLeft
  <2>2. ASSUME NEW k \in 1 .. Past(q),
               \A j \in k + 1 .. Past(q) + 1 : ~SameRow(q.dto[j], q.dto[k])
        PROVE  \A j \in k + 1 .. Past(q) : ~SameRow(q.dto[j], q.dto[k])
    <3>1. k + 1 .. Past(q) \subseteq k + 1 .. Past(q) + 1
      BY <2>1
    <3>2. QED
      BY <2>2, <3>1
  <2>3. QED
    BY <1>3, <2>2 DEF LinesDone
<1>7. CASE LineFound(line) = {} /\ Go(r, "insert")
  <2>1. "insert" \in WizardSteps
    BY DEF WizardSteps, LineSteps
  <2>2. PICK new \in WizardWork :
          new.pc = "insert" /\ Takes(new, q) /\ req' = [req EXCEPT ![r] = new]
    BY <1>2, <1>7, <2>1, GoIs
  <2>3. new.dto = q.dto /\ new.lines = q.lines /\ new.stores = q.stores
    BY <2>2 DEF Takes
  <2>4. line.at \in q.stores => \A s \in DOMAIN styles : ~SameRow(styles[s], line)
    <3>1. line.at \in q.stores => line.at \in ActiveRows
      BY <1>3, <1>5 DEF PutAside
    <3>2. QED
      BY <1>2, <1>7, <3>1, Found
  <2>5. StepInv(new)
    <3>1. LinesLeft(new) /\ PutAside(new) /\ LinesDone(new, Past(new) + 1)
      BY <1>3, <1>6, <2>3, TakesAlong
    <3>2. QED
      BY <1>3, <1>4, <2>2, <2>3, <2>4, <3>1 DEF StepInv, LineSteps
  <2>6. StepInv(new)'
    BY <1>1, <2>5, SameSteps
  <2>7. UNCHANGED overlapped
    BY <1>7 DEF Go
  <2>8. QED
    BY <1>1, <1>2, <2>2, <2>6, <2>7, RowsSame, Goes
<1>8. CASE \E s \in LineFound(line) :
             /\ req' = [req EXCEPT ![r].pc = "add colors", ![r].found = s,
                         ![r].colors = {c \in ColorIds : styles[s].colors[c] > 0}]
             /\ UNCHANGED <<served, last, overlapped>>
  <2>1. PICK s \in LineFound(line) :
          /\ req' = [req EXCEPT ![r].pc = "add colors", ![r].found = s,
                         ![r].colors = {c \in ColorIds : styles[s].colors[c] > 0}]
          /\ UNCHANGED <<served, last, overlapped>>
    BY <1>8
  <2>2. s \in DOMAIN styles /\ s \in Nat /\ SameRow(styles[s], line)
    BY DEF LineFound, SameRow, WizardTyped, EntryTyped, EntryRows
  <2>3. PICK cs \in SUBSET ColorIds : cs = {c \in ColorIds : styles[s].colors[c] > 0}
    OBVIOUS
  <2>4. PICK new : new = [q EXCEPT !.pc = "add colors", !.found = s, !.colors = cs]
    OBVIOUS
  <2>5. "add colors" \in WizardSteps
    BY DEF WizardSteps, LineSteps
  <2>6. /\ new \in WizardWork /\ new.pc = "add colors" /\ new.found = s /\ new.colors = cs
        /\ new.dto = q.dto /\ new.lines = q.lines /\ new.stores = q.stores
    BY <2>2, <2>4, <2>5 DEF WizardWork
  <2>7. req' = [req EXCEPT ![r] = new]
    BY <1>2, <2>1, <2>3, <2>4 DEF WizardTyped
  <2>8. StepInv(new)
    <3>1. LinesLeft(new) /\ PutAside(new) /\ LinesDone(new, Past(new) + 1)
      BY <1>3, <1>6, <2>6, TakesAlong
    <3>2. QED
      BY <1>3, <1>4, <2>2, <2>3, <2>6, <3>1 DEF StepInv, LineSteps
  <2>9. StepInv(new)'
    BY <1>1, <2>8, SameSteps
  <2>10. QED
    BY <1>1, <1>2, <2>1, <2>6, <2>7, <2>9, RowsSame, Goes
<1>9. QED
  BY <1>5, <1>7, <1>8 DEF LineFind

\* The colours of a style rewritten.
ColorsAre(n, f) ==
  /\ DOMAIN styles' = DOMAIN styles
  /\ \A s \in DOMAIN styles : /\ styles'[s].at = styles[s].at
                              /\ styles'[s].style = styles[s].style
                              /\ styles'[s].active = styles[s].active
                              /\ s # n => styles'[s].colors = styles[s].colors
  /\ styles'[n].colors = f

LEMMA ColorsRewritten ==
  ASSUME styles \in Seq(StyleRow), NEW n \in DOMAIN styles, NEW f,
         styles' = [styles EXCEPT ![n].colors = f]
  PROVE  ColorsAre(n, f)
<1>1. \A s \in DOMAIN styles : styles[s] \in StyleRow
  OBVIOUS
<1>2. styles' = [s \in DOMAIN styles |-> IF s = n THEN [styles[s] EXCEPT !.colors = f]
                                         ELSE styles[s]]
  OBVIOUS
<1>3. ASSUME NEW x \in StyleRow
      PROVE  /\ [x EXCEPT !.colors = f].at = x.at /\ [x EXCEPT !.colors = f].style = x.style
             /\ [x EXCEPT !.colors = f].active = x.active
             /\ [x EXCEPT !.colors = f].colors = f
  BY DEF StyleRow
<1>4. DOMAIN styles' = DOMAIN styles /\ styles'[n] = [styles[n] EXCEPT !.colors = f]
  BY <1>2
<1>5. \A s \in DOMAIN styles : s # n => styles'[s] = styles[s]
  BY <1>2
<1>6. ASSUME NEW s \in DOMAIN styles
      PROVE  /\ styles'[s].at = styles[s].at /\ styles'[s].style = styles[s].style
             /\ styles'[s].active = styles[s].active
             /\ s # n => styles'[s].colors = styles[s].colors
  <2>1. CASE s = n
    BY <1>1, <1>3, <1>4, <2>1
  <2>2. CASE s # n
    BY <1>5, <2>2
  <2>3. QED
    BY <2>1, <2>2
<1>7. styles'[n].colors = f
  BY <1>1, <1>3, <1>4
<1>8. QED
  BY <1>4, <1>6, <1>7 DEF ColorsAre

\* Rows and what was put aside stay.
LEMMA ColorsKeepRows ==
  ASSUME RowsOnce, UNCHANGED <<stores, deletion, overlapped>>,
         NEW n, NEW f, ColorsAre(n, f), \A c \in ColorIds : f[c] \in {0, 1}
  PROVE  /\ RowsOnce' /\ Rows' = Rows /\ ActiveRows' = ActiveRows
         /\ \A q : PutAside(q) => PutAside(q)'
<1>1. Rows' = Rows /\ ActiveRows' = ActiveRows
  BY DEF Rows, ActiveRows, StoreDeleted, Deleted
<1>2. OneStylePerStore' /\ OneRowPerStore'
  BY <1>1 DEF RowsOnce, OneStylePerStore, OneRowPerStore, ColorsAre
<1>3. ColorsOnce'
  BY DEF RowsOnce, ColorsOnce, ColorsAre
<1>4. \A those : StylesOf(those)' = StylesOf(those)
  BY DEF StylesOf, ColorsAre
<1>5. ASSUME NEW q, PutAside(q)
      PROVE  PutAside(q)'
  <2>1. \A s \in StylesOf(ActiveRows) : s \in DOMAIN styles
    BY DEF StylesOf
  <2>2. StylesOf(ActiveRows)' = StylesOf(ActiveRows)
    BY <1>1 DEF StylesOf, ColorsAre
  <2>3. \A s \in StylesOf(ActiveRows) :
          styles'[s].active = styles[s].active /\ styles'[s].style = styles[s].style
    BY <2>1 DEF ColorsAre
  <2>4. QED
    BY <1>1, <1>5, <2>2, <2>3 DEF PutAside
<1>6. QED
  BY <1>1, <1>2, <1>3, <1>5 DEF RowsOnce

\* A line rewrites the colours of its own style, and no line before it that
\* still counts is of that style.
LEMMA ColorsKeepLines ==
  ASSUME WizardTyped, NEW q \in WizardWork, LinesLeft(q), q.lines # <<>>,
         LinesDone(q, Past(q) + 1),
         NEW n \in DOMAIN styles, NEW f, ColorsAre(n, f), SameRow(styles[n], Head(q.lines))
  PROVE  LinesDone(q, Past(q) + 1)'
<1>1. PICK m : m = Past(q)
  OBVIOUS
<1>2. m \in Nat /\ q.dto[m + 1] = Head(q.lines)
  BY <1>1, LineIs DEF LinesLeft
<1>3. ASSUME NEW k \in 1 .. m, \A j \in k + 1 .. m + 1 : ~SameRow(q.dto[j], q.dto[k])
      PROVE  LineStored(q.dto[k])'
  <2>1. LineStored(q.dto[k]) /\ ~SameRow(q.dto[m + 1], q.dto[k])
    <3>1. m + 1 \in k + 1 .. m + 1
      BY <1>2
    <3>2. QED
      BY <1>1, <1>3, <3>1 DEF LinesDone
  <2>2. PICK s \in DOMAIN styles :
          SameRow(styles[s], q.dto[k]) /\ styles[s].colors = Once(q.dto[k].colors)
    BY <2>1 DEF LineStored
  <2>3. s # n
    BY <1>2, <2>1, <2>2 DEF SameRow
  <2>4. SameRow(styles'[s], q.dto[k]) /\ styles'[s].colors = Once(q.dto[k].colors)
    BY <2>2, <2>3 DEF SameRow, ColorsAre
  <2>5. QED
    BY <2>2, <2>4 DEF LineStored, ColorsAre, SameRow
<1>4. \A k \in 1 .. m : q.dto[k].at \in q.stores
  BY <1>1 DEF LinesDone
<1>5. QED
  BY <1>1, <1>3, <1>4 DEF LinesDone, Past, SameRow

\* A line that has stored its colours is done.
LEMMA LineEnds ==
  ASSUME WizardTyped, NEW q \in WizardWork, LinesLeft(q), q.lines # <<>>,
         LinesDone(q, Past(q) + 1), Head(q.lines).at \in q.stores,
         NEW n \in DOMAIN styles, NEW f, ColorsAre(n, f), SameRow(styles[n], Head(q.lines)),
         f = Once(Head(q.lines).colors),
         NEW new \in WizardWork, NextOf(new, q)
  PROVE  LinesLeft(new) /\ LinesDone(new, Past(new))'
<1>1. PICK m : m = Past(q)
  OBVIOUS
<1>2. m \in Nat /\ q.dto[m + 1] = Head(q.lines)
  BY <1>1, LineIs DEF LinesLeft
<1>3. /\ new.dto = q.dto /\ new.lines = Tail(q.lines) /\ new.stores = q.stores
      /\ q.lines \in Seq(SentLine) /\ q.dto \in Seq(SentLine)
  BY DEF NextOf, WizardWork
<1>4. PICK l \in Nat, d \in Nat : l = Len(q.lines) /\ d = Len(q.dto)
  BY <1>3
<1>5. l > 0 /\ Len(new.lines) = l - 1
  BY <1>3, <1>4
<1>6. m = d - l
  BY <1>1, <1>4 DEF Past
<1>7. Past(new) = m + 1
  <2>1. Past(new) = d - (l - 1)
    BY <1>3, <1>4, <1>5 DEF Past
  <2>2. QED
    BY <1>6, <2>1
<1>8. LinesLeft(new)
  <2>1. ASSUME NEW k \in 1 .. l - 1
        PROVE  new.lines[k] = new.dto[m + 1 + k]
    <3>1. new.lines[k] = q.lines[k + 1]
      BY <1>3, <1>4, <1>5
    <3>2. k + 1 \in 1 .. l
      BY <1>5
    <3>3. q.lines[k + 1] = q.dto[m + (k + 1)]
      BY <1>1, <1>4, <3>2 DEF LinesLeft
    <3>4. m + (k + 1) = m + 1 + k
      BY <1>2
    <3>5. QED
      BY <1>3, <3>1, <3>3, <3>4
  <2>2. QED
    BY <1>2, <1>5, <1>7, <2>1 DEF LinesLeft
<1>9. LinesDone(q, m + 1)'
  BY <1>1, ColorsKeepLines
<1>10. LineStored(q.dto[m + 1])'
  <2>1. SameRow(styles'[n], q.dto[m + 1]) /\ styles'[n].colors = Once(q.dto[m + 1].colors)
    BY <1>2 DEF SameRow, ColorsAre
  <2>2. QED
    BY <2>1 DEF LineStored, SameRow, ColorsAre
<1>11. ASSUME NEW k \in 1 .. m + 1
       PROVE  /\ q.dto[k].at \in q.stores
              /\ (\A j \in k + 1 .. m + 1 : ~SameRow(q.dto[j], q.dto[k])) => LineStored(q.dto[k])'
  <2>1. CASE k = m + 1
    BY <1>2, <1>10, <2>1
  <2>2. CASE k # m + 1
    <3>1. k \in 1 .. m
      BY <1>2, <2>2
    <3>2. QED
      BY <1>1, <1>9, <3>1 DEF LinesDone, Past, SameRow
  <2>3. QED
    BY <2>1, <2>2
<1>12. QED
  BY <1>3, <1>7, <1>8, <1>11 DEF LinesDone, Past, SameRow

\* The last write of a line: its style has its colours, and the next is next.
LEMMA LineMovesOn ==
  ASSUME WizardTyped, OneByOne, NEW r \in Requests, req[r].pc \in LineSteps,
         UNCHANGED <<purchases, stores, deletion>>,
         NEW q \in WizardWork, q = req[r], NEW n \in DOMAIN styles,
         SameRow(styles[n], Head(q.lines)),
         styles' = [styles EXCEPT ![n].colors = Once(Head(q.lines).colors)],
         \/ Head(q.lines).at \in q.stores /\ NextLine(r)
         \/ End(r, "failed")
  PROVE  Settled'
<1>1. /\ req[r].pc # "idle" /\ UNCHANGED overlapped
  BY DEF LineSteps, NextLine, End
<1>2. /\ StepInv(q) /\ Read(q) /\ RowsOnce /\ styles \in Seq(StyleRow)
  BY <1>1, Alone
<1>3. /\ LinesLeft(q) /\ PutAside(q) /\ LinesDone(q, Past(q) + 1) /\ q.stores \subseteq Rows
      /\ q.lines # <<>>
  BY <1>2 DEF StepInv, Read
<1>4. PICK f \in [ColorIds -> Nat] :
        f = Once(Head(q.lines).colors) /\ \A c \in ColorIds : f[c] \in {0, 1}
  BY OnceIs
<1>5. ColorsAre(n, f)
  BY <1>2, <1>4, ColorsRewritten
<1>6. RowsOnce' /\ Rows' = Rows /\ (PutAside(q) => PutAside(q)')
  BY <1>1, <1>2, <1>4, <1>5, ColorsKeepRows
<1>7. CASE End(r, "failed")
  BY <1>1, <1>6, <1>7, Fails
<1>8. CASE Head(q.lines).at \in q.stores /\ NextLine(r)
  <2>1. PICK new \in WizardWork :
          new.pc = "line" /\ NextOf(new, q) /\ req' = [req EXCEPT ![r] = new]
    BY <1>3, <1>8, NextLineIs
  <2>2. LinesLeft(new) /\ LinesDone(new, Past(new))'
    BY <1>3, <1>4, <1>5, <1>8, <2>1, LineEnds
  <2>3. new.dto = q.dto /\ new.stores = q.stores
    BY <2>1 DEF NextOf
  <2>4. PutAside(new)'
    BY <1>3, <1>6, <2>3 DEF PutAside
  <2>5. StepInv(new)'
    BY <1>3, <1>6, <2>1, <2>2, <2>3, <2>4 DEF StepInv, LineSteps, LinesLeft, Past
  <2>6. QED
    BY <1>1, <1>6, <2>1, <2>5, Goes
<1>9. QED
  BY <1>7, <1>8

LEMMA LineInsertColorsKeeps ==
  ASSUME WizardTyped, OneByOne, NEW r \in Requests, LineInsertColors(r)
  PROVE  Settled'
<1>1. /\ req[r].pc = "insert colors" /\ UNCHANGED <<purchases, stores, deletion>>
      /\ req[r].pc # "idle" /\ req[r].pc \in LineSteps
  BY DEF LineInsertColors, LineSteps
<1>2. PICK q \in WizardWork :
        /\ q = req[r] /\ StepInv(q) /\ Read(q) /\ RowsOnce /\ styles \in Seq(StyleRow)
  BY <1>1, Alone
<1>3. PICK n \in DOMAIN styles : n = q.found
  BY <1>1, <1>2 DEF Read, LineSteps
<1>4. PICK cs : cs = Head(q.lines).colors
  OBVIOUS
<1>5. /\ SameRow(styles[n], Head(q.lines)) /\ Head(q.lines).at \in q.stores
      /\ styles[n].colors = NoColors
  BY <1>1, <1>2, <1>3 DEF StepInv, LineSteps
<1>6. CASE UNCHANGED styles /\ End(r, "failed")
  <2>1. RowsOnce'
    BY <1>1, <1>2, <1>6, RowsSame DEF End
  <2>2. QED
    BY <1>1, <1>6, <2>1, Fails
<1>7. CASE /\ styles' = [styles EXCEPT ![n].colors = [c \in ColorIds |-> @[c] + Once(cs)[c]]]
           /\ NextLine(r)
  <2>1. [c \in ColorIds |-> styles[n].colors[c] + Once(cs)[c]] = Once(cs)
    <3>1. \A c \in ColorIds : styles[n].colors[c] + Once(cs)[c] = Once(cs)[c]
      BY <1>5, OnceIs
    <3>2. Once(cs) = [c \in ColorIds |-> Once(cs)[c]]
      BY OnceIs
    <3>3. QED
      BY <3>1, <3>2, Zenon
  <2>2. styles' = [styles EXCEPT ![n].colors = Once(cs)]
    BY <1>7, <2>1, Zenon
  <2>3. QED
    BY <1>1, <1>2, <1>4, <1>5, <1>7, <2>2, LineMovesOn
<1>8. QED
  BY <1>2, <1>3, <1>4, <1>6, <1>7 DEF LineInsertColors, Line

LEMMA LineRemoveColorsKeeps ==
  ASSUME WizardTyped, OneByOne, NEW r \in Requests, LineRemoveColors(r)
  PROVE  Settled'
<1>1. /\ req[r].pc = "remove colors" /\ UNCHANGED <<purchases, stores, deletion>>
      /\ req[r].pc # "idle" /\ req[r].pc \in LineSteps
  BY DEF LineRemoveColors, LineSteps
<1>2. PICK q \in WizardWork :
        /\ q = req[r] /\ StepInv(q) /\ Read(q) /\ RowsOnce /\ styles \in Seq(StyleRow)
  BY <1>1, Alone
<1>3. PICK n \in DOMAIN styles : n = q.found
  BY <1>1, <1>2 DEF Read, LineSteps
<1>4. PICK cs \in SUBSET ColorIds : cs = Head(q.lines).colors
  <2>1. Head(q.lines) \in SentLine
    BY <1>1, <1>2, LineIs DEF StepInv, Read
  <2>2. QED
    BY <2>1 DEF SentLine
<1>5. /\ SameRow(styles[n], Head(q.lines))
      /\ styles[n].colors = Once(q.colors \cup cs)
  BY <1>1, <1>2, <1>3, <1>4 DEF StepInv, LineSteps
<1>6. /\ styles' = [styles EXCEPT ![n].colors =
           [c \in ColorIds |-> IF c \in q.colors \ cs THEN 0 ELSE @[c]]]
      /\ \/ Head(q.lines).at \in q.stores /\ NextLine(r)
         \/ End(r, "failed")
  BY <1>2, <1>3, <1>4 DEF LineRemoveColors, EndLine, Line
<1>7. [c \in ColorIds |-> IF c \in q.colors \ cs THEN 0 ELSE styles[n].colors[c]] = Once(cs)
  <2>1. \A c \in ColorIds : (IF c \in q.colors \ cs THEN 0 ELSE styles[n].colors[c]) = Once(cs)[c]
    BY <1>5, OnceIs
  <2>2. Once(cs) = [c \in ColorIds |-> Once(cs)[c]]
    BY OnceIs
  <2>3. QED
    BY <2>1, <2>2, Zenon
<1>8. styles' = [styles EXCEPT ![n].colors = Once(cs)]
  BY <1>6, <1>7, Zenon
<1>9. QED
  BY <1>1, <1>2, <1>4, <1>5, <1>6, <1>8, LineMovesOn

LEMMA LineAddColorsKeeps ==
  ASSUME WizardTyped, OneByOne, NEW r \in Requests, LineAddColors(r)
  PROVE  Settled'
<1>1. /\ req[r].pc = "add colors" /\ UNCHANGED <<purchases, stores, deletion>>
      /\ req[r].pc # "idle" /\ req[r].pc \in LineSteps
  BY DEF LineAddColors, LineSteps
<1>2. PICK q \in WizardWork :
        /\ q = req[r] /\ StepInv(q) /\ Read(q) /\ RowsOnce /\ styles \in Seq(StyleRow)
  BY <1>1, Alone
<1>3. PICK n \in DOMAIN styles : n = q.found
  BY <1>1, <1>2 DEF Read, LineSteps
<1>4. PICK cs : cs = Head(q.lines).colors
  OBVIOUS
<1>5. /\ LinesLeft(q) /\ PutAside(q) /\ LinesDone(q, Past(q) + 1) /\ q.stores \subseteq Rows
      /\ q.lines # <<>> /\ SameRow(styles[n], Head(q.lines))
      /\ q.colors = {c \in ColorIds : styles[n].colors[c] > 0}
  BY <1>1, <1>2, <1>3 DEF StepInv, Read, LineSteps
<1>6. PICK missing : missing = cs \ q.colors
  OBVIOUS
<1>7. CASE UNCHANGED styles /\ End(r, "failed")
  <2>1. RowsOnce'
    BY <1>1, <1>2, <1>7, RowsSame DEF End
  <2>2. QED
    BY <1>1, <1>7, <2>1, Fails
<1>8. CASE /\ styles' = [styles EXCEPT ![n].colors = [c \in ColorIds |-> @[c] + Once(missing)[c]]]
           /\ Go(r, "remove colors")
  <2>1. PICK f \in [ColorIds -> Nat] :
          f = Once(q.colors \cup cs) /\ \A c \in ColorIds : f[c] \in {0, 1}
    BY OnceIs
  <2>2. [c \in ColorIds |-> styles[n].colors[c] + Once(missing)[c]] = f
    <3>1. \A c \in ColorIds : styles[n].colors[c] \in {0, 1}
      BY <1>2 DEF RowsOnce, ColorsOnce
    <3>2. \A c \in ColorIds : styles[n].colors[c] = IF c \in q.colors THEN 1 ELSE 0
      BY <1>5, <3>1
    <3>3. \A c \in ColorIds : styles[n].colors[c] + Once(missing)[c] = f[c]
      BY <1>6, <2>1, <3>2, OnceIs
    <3>4. f = [c \in ColorIds |-> f[c]]
      BY <2>1
    <3>5. QED
      BY <3>3, <3>4, Zenon
  <2>3. styles' = [styles EXCEPT ![n].colors = f]
    BY <1>8, <2>2, Zenon
  <2>4. ColorsAre(n, f)
    BY <1>2, <2>3, ColorsRewritten
  <2>5. UNCHANGED overlapped
    BY <1>8 DEF Go
  <2>6. RowsOnce' /\ Rows' = Rows /\ PutAside(q)'
    BY <1>1, <1>2, <1>5, <2>1, <2>4, <2>5, ColorsKeepRows
  <2>7. LinesDone(q, Past(q) + 1)'
    BY <1>5, <2>4, ColorsKeepLines
  <2>8. "remove colors" \in WizardSteps
    BY DEF WizardSteps, LineSteps
  <2>9. PICK new \in WizardWork :
          new.pc = "remove colors" /\ Takes(new, q) /\ req' = [req EXCEPT ![r] = new]
    BY <1>2, <1>8, <2>8, GoIs
  <2>10. /\ new.dto = q.dto /\ new.lines = q.lines /\ new.stores = q.stores /\ new.found = n
         /\ new.colors = q.colors
    BY <1>3, <2>9 DEF Takes
  <2>11. LinesLeft(new) /\ PutAside(new)' /\ LinesDone(new, Past(new) + 1)'
    <3>1. LinesLeft(new)
      BY <1>5, <2>10, TakesAlong
    <3>2. PutAside(new)'
      BY <2>6, <2>10 DEF PutAside
    <3>3. LinesDone(new, Past(new) + 1)'
      BY <2>7, <2>10 DEF LinesDone, Past
    <3>4. QED
      BY <3>1, <3>2, <3>3
  <2>12. SameRow(styles'[n], Head(q.lines)) /\ styles'[n].colors = Once(q.colors \cup cs)
    BY <1>5, <2>1, <2>4 DEF ColorsAre, SameRow
  <2>13. StepInv(new)'
    BY <1>4, <1>5, <2>6, <2>9, <2>10, <2>11, <2>12
       DEF StepInv, LineSteps, LinesLeft, Past, SameRow
  <2>14. QED
    BY <1>1, <2>5, <2>6, <2>9, <2>13, Goes
<1>9. QED
  BY <1>2, <1>3, <1>4, <1>6, <1>7, <1>8 DEF LineAddColors, Line

LEMMA LineInsertKeeps ==
  ASSUME WizardTyped, OneByOne, NEW r \in Requests, LineInsert(r)
  PROVE  Settled'
<1>1. /\ req[r].pc = "insert" /\ UNCHANGED <<purchases, stores, deletion>>
      /\ req[r].pc # "idle" /\ req[r].pc \in LineSteps
  BY DEF LineInsert, LineSteps
<1>2. PICK q \in WizardWork :
        /\ q = req[r] /\ StepInv(q) /\ Read(q) /\ RowsOnce /\ styles \in Seq(StyleRow)
  BY <1>1, Alone
<1>3. /\ LinesLeft(q) /\ PutAside(q) /\ LinesDone(q, Past(q) + 1) /\ q.stores \subseteq Rows
      /\ q.lines # <<>>
      /\ Head(q.lines).at \in q.stores =>
           \A s \in DOMAIN styles : ~SameRow(styles[s], Head(q.lines))
  BY <1>1, <1>2 DEF StepInv, Read, LineSteps
<1>4. PICK line \in SentLine :
        /\ line = Head(q.lines)
        /\ line.at \in StoresSent(q.dto) /\ line.style \in StylesSent(q.dto)
  BY <1>3, LineIs
<1>5. CASE UNCHANGED styles /\ End(r, "failed")
  <2>1. RowsOnce'
    BY <1>1, <1>2, <1>5, RowsSame DEF End
  <2>2. QED
    BY <1>1, <1>5, <2>1, Fails
<1>6. CASE /\ line.at \in q.stores
           /\ styles' = Append(styles, [at |-> line.at, style |-> line.style,
                                        active |-> TRUE, colors |-> NoColors])
           /\ req' = [req EXCEPT ![r].pc = "insert colors", ![r].found = Len(styles) + 1]
           /\ UNCHANGED <<served, last, overlapped>>
  <2>1. PICK n \in Nat : n = Len(styles)
    BY <1>2
  <2>2. PICK x : x = [at |-> line.at, style |-> line.style, active |-> TRUE, colors |-> NoColors]
    OBVIOUS
  <2>3. x \in StyleRow /\ SameRow(x, line) /\ x.active /\ x.colors = NoColors
    <3>1. line.at \in Nat /\ line.style \in StyleIds
      BY DEF SentLine
    <3>2. QED
      BY <2>2, <3>1, OnceIs DEF StyleRow, SameRow
  <2>4. /\ DOMAIN styles = 1 .. n /\ DOMAIN styles' = 1 .. n + 1
        /\ \A s \in 1 .. n : styles'[s] = styles[s]
        /\ styles'[n + 1] = x
    <3>1. styles' = Append(styles, x)
      BY <1>6, <2>2
    <3>2. styles' \in Seq(StyleRow) /\ Len(styles') = n + 1
      BY <1>2, <2>1, <2>3, <3>1
    <3>3. \A s \in 1 .. n : styles'[s] = styles[s]
      BY <1>2, <2>1, <2>3, <3>1
    <3>4. styles'[n + 1] = x
      BY <1>2, <2>1, <2>3, <3>1
    <3>5. QED
      BY <1>2, <2>1, <3>2, <3>3, <3>4
  <2>5. \A s \in 1 .. n + 1 : s \in 1 .. n \/ s = n + 1
    OBVIOUS
  <2>6. \A s \in 1 .. n : s \in 1 .. n + 1
    OBVIOUS
  <2>7. n + 1 \in 1 .. n + 1
    OBVIOUS
  <2>8. Rows' = Rows /\ ActiveRows' = ActiveRows
    BY <1>1 DEF Rows, ActiveRows, StoreDeleted, Deleted
  <2>9. RowsOnce'
    <3>1. OneRowPerStore'
      BY <1>1, <1>2, <2>8 DEF RowsOnce, OneRowPerStore
    <3>2. OneStylePerStore'
      <4>1. ASSUME NEW s \in 1 .. n
            PROVE  ~SameRow(styles'[s], x) /\ ~SameRow(x, styles'[s])
        <5>1. styles'[s] = styles[s] /\ ~SameRow(styles[s], line)
          BY <1>3, <1>4, <1>6, <2>4
        <5>2. QED
          BY <2>3, <5>1 DEF SameRow
      <4>2. ASSUME ~overlapped', NEW s \in DOMAIN styles', NEW t \in DOMAIN styles',
                   SameRow(styles'[s], styles'[t])
            PROVE  s = t
        <5>1. CASE s \in 1 .. n /\ t \in 1 .. n
          BY <1>2, <1>6, <2>4, <4>2, <5>1 DEF RowsOnce, OneStylePerStore, SameRow
        <5>2. CASE s \in 1 .. n /\ t = n + 1
          BY <2>4, <4>1, <4>2, <5>2
        <5>3. CASE s = n + 1 /\ t \in 1 .. n
          BY <2>4, <4>1, <4>2, <5>3
        <5>4. QED
          BY <2>4, <2>5, <4>2, <5>1, <5>2, <5>3
      <4>3. QED
        BY <4>2 DEF OneStylePerStore, SameRow
    <3>3. ColorsOnce'
      BY <1>2, <2>3, <2>4, <2>5, OnceIs DEF RowsOnce, ColorsOnce
    <3>4. QED
      BY <3>1, <3>2, <3>3 DEF RowsOnce
  <2>10. PICK new : new = [q EXCEPT !.pc = "insert colors", !.found = n + 1]
    OBVIOUS
  <2>11. "insert colors" \in WizardSteps /\ n + 1 \in Nat
    BY DEF WizardSteps, LineSteps
  <2>12. /\ new \in WizardWork /\ new.pc = "insert colors" /\ new.found = n + 1
         /\ new.dto = q.dto /\ new.lines = q.lines /\ new.stores = q.stores
    BY <2>10, <2>11 DEF WizardWork
  <2>13. req' = [req EXCEPT ![r] = new]
    BY <1>2, <1>6, <2>1, <2>10 DEF WizardTyped
  <2>14. PutAside(new)'
    <3>1. ASSUME NEW s \in StylesOf(ActiveRows)'
          PROVE  styles'[s].active <=> styles'[s].style \in StylesSent(q.dto)
      <4>1. s \in 1 .. n + 1 /\ styles'[s].at \in ActiveRows
        BY <2>4, <2>8 DEF StylesOf
      <4>2. CASE s \in 1 .. n
        BY <1>3, <2>4, <4>1, <4>2 DEF PutAside, StylesOf
      <4>3. CASE s = n + 1
        BY <1>4, <2>3, <2>4, <4>3 DEF SameRow
      <4>4. QED
        BY <2>5, <4>1, <4>2, <4>3
    <3>2. ActiveRows' = q.stores \cap StoresSent(q.dto)
      BY <1>3, <2>8 DEF PutAside
    <3>3. QED
      BY <2>12, <3>1, <3>2 DEF PutAside, StoresSent, StylesSent
  <2>15. LinesLeft(new)
    BY <1>3, <2>12, TakesAlong
  <2>16. LinesDone(new, Past(new) + 1)'
    <3>1. ASSUME NEW l, LineStored(l)
          PROVE  LineStored(l)'
      <4>1. PICK s \in DOMAIN styles : SameRow(styles[s], l) /\ styles[s].colors = Once(l.colors)
        BY <3>1 DEF LineStored
      <4>2. s \in DOMAIN styles' /\ styles'[s] = styles[s]
        BY <2>4, <2>6
      <4>3. SameRow(styles'[s], l) /\ styles'[s].colors = Once(l.colors)
        BY <4>1, <4>2
      <4>4. QED
        BY <4>2, <4>3 DEF LineStored, SameRow
    <3>2. Past(new) = Past(q)
      BY <2>12 DEF Past
    <3>3. ASSUME NEW k \in 1 .. Past(q)
          PROVE  /\ q.dto[k].at \in q.stores
                 /\ (\A j \in k + 1 .. Past(q) + 1 : ~SameRow(q.dto[j], q.dto[k])) =>
                      LineStored(q.dto[k])'
      BY <1>3, <3>1 DEF LinesDone
    <3>4. QED
      BY <2>12, <3>2, <3>3 DEF LinesDone, Past, SameRow
  <2>17. /\ SameRow(styles'[n + 1], line) /\ styles'[n + 1].colors = NoColors
    BY <2>3, <2>4
  <2>18. StepInv(new)'
    BY <1>3, <1>4, <1>6, <2>8, <2>12, <2>14, <2>15, <2>16, <2>17
       DEF StepInv, LineSteps, LinesLeft, Past, SameRow, NoColors
  <2>19. QED
    BY <1>1, <1>6, <2>9, <2>12, <2>13, <2>18, Goes
<1>7. QED
  BY <1>2, <1>4, <1>5, <1>6 DEF LineInsert, Line

\* The last line is done, and every line before it.
LEMMA AssociateEndKeeps ==
  ASSUME WizardTyped, OneByOne, NEW r \in Requests, AssociateEnd(r)
  PROVE  Settled'
<1>1. /\ req[r].pc = "line" /\ UNCHANGED <<purchases, stores, styles, deletion>>
      /\ req[r].lines = <<>> /\ End(r, "associated")
  BY DEF AssociateEnd, store
<1>2. PICK q \in WizardWork :
        /\ q = req[r] /\ StepInv(q) /\ RowsOnce /\ deletion.writes = {}
  BY <1>1, Alone
<1>3. UNCHANGED overlapped /\ last'.op = "associated" /\ last'.dto = q.dto
  BY <1>1, <1>2 DEF End
<1>4. /\ q.lines = <<>> /\ LinesLeft(q) /\ PutAside(q) /\ LinesDone(q, Past(q))
      /\ q.stores \subseteq Rows /\ q.dto \in Seq(SentLine)
  BY <1>1, <1>2 DEF StepInv, WizardWork
<1>5. PICK d \in Nat : d = Len(q.dto) /\ DOMAIN q.dto = 1 .. d
  BY <1>4
<1>6. Past(q) = d
  BY <1>4, <1>5 DEF Past
<1>7. \A k \in 1 .. d : q.dto[k].at \in q.stores
  BY <1>4, <1>6 DEF LinesDone
<1>8. ActiveRows = StoresSent(q.dto)
  BY <1>4, <1>5, <1>7 DEF PutAside, StoresSent
<1>9. ASSUME NEW i \in 1 .. d, \A j \in 1 .. d : j > i => ~SameRow(q.dto[j], q.dto[i])
      PROVE  \E s \in LineFound(q.dto[i]) :
               styles[s].active /\ styles[s].colors = Once(q.dto[i].colors)
  <2>1. \A j \in i + 1 .. d : ~SameRow(q.dto[j], q.dto[i])
    BY <1>9
  <2>2. PICK s \in DOMAIN styles :
          SameRow(styles[s], q.dto[i]) /\ styles[s].colors = Once(q.dto[i].colors)
    BY <1>4, <1>6, <2>1 DEF LinesDone, LineStored
  <2>3. q.dto[i].at \in ActiveRows /\ q.dto[i].style \in StylesSent(q.dto)
    BY <1>5, <1>8 DEF StoresSent, StylesSent
  <2>4. s \in LineFound(q.dto[i])
    BY <1>2, <2>2, <2>3, Found
  <2>5. s \in StylesOf(ActiveRows) /\ styles[s].style \in StylesSent(q.dto)
    BY <2>2, <2>3 DEF StylesOf, SameRow
  <2>6. styles[s].active
    BY <1>4, <2>5 DEF PutAside
  <2>7. QED
    BY <2>2, <2>4, <2>6
<1>10. \A s \in StylesOf(ActiveRows) : styles[s].active => styles[s].style \in StylesSent(q.dto)
  BY <1>4 DEF PutAside
<1>11. AssociatedAsSent'
  <2>1. /\ ActiveRows' = ActiveRows
        /\ \A l : LineFound(l)' = LineFound(l)
        /\ StylesOf(ActiveRows)' = StylesOf(ActiveRows)
    BY <1>1 DEF ActiveRows, Rows, StoreDeleted, Deleted, LineFound, Removed, StyleDeleted, StylesOf
  <2>2. ActiveRows' = StoresSent(q.dto)
    BY <1>8, <2>1
  <2>3. \A s \in StylesOf(ActiveRows)' :
          styles'[s].active => styles'[s].style \in StylesSent(q.dto)
    BY <1>1, <1>10, <2>1
  <2>4. ASSUME NEW i \in DOMAIN q.dto,
               \A j \in DOMAIN q.dto :
                 j > i => q.dto[j].at # q.dto[i].at \/ q.dto[j].style # q.dto[i].style
        PROVE  \E s \in LineFound(q.dto[i])' :
                 styles'[s].active /\ styles'[s].colors = Once(q.dto[i].colors)
    <3>1. \E s \in LineFound(q.dto[i]) :
            styles[s].active /\ styles[s].colors = Once(q.dto[i].colors)
      BY <1>5, <1>9, <2>4 DEF SameRow
    <3>2. QED
      BY <1>1, <2>1, <3>1
  <2>5. QED
    BY <1>3, <2>2, <2>3, <2>4
       DEF AssociatedAsSent, ActiveRows, StylesOf, StoresSent, StylesSent, Once
<1>12. AsSent'
  BY <1>3, <1>11 DEF AsSent, StoresAsAsked
<1>13. RowsOnce'
  BY <1>1, <1>2, <1>3, RowsSame
<1>14. QED
  BY <1>1, <1>12, <1>13, Succeeds

\* The steps of a request.
LEMMA ServeKeeps ==
  ASSUME WizardAssumption, WizardTyped, OneByOne, NEW r \in Requests, Serve(r)
  PROVE  Settled'
BY CreateSaveKeeps, CreateStoresKeeps, EditSaveKeeps, EditAddKeeps, EditRemoveKeeps,
   AssociateStoresKeeps, AssociateStylesKeeps, AssociateEndKeeps, LineFindKeeps,
   LineInsertKeeps, LineInsertColorsKeeps, LineAddColorsKeeps, LineRemoveColorsKeeps
   DEF Serve

\* What overlapped is promised nothing.
LEMMA Overlapped ==
  ASSUME overlapped'
  PROVE  Settled'
BY DEF Settled, AsSent, AssociatedAsSent, StoresAsAsked, Quiet

\* A request that begins alone.
LEMMA BeginKeeps ==
  ASSUME WizardAssumption, WizardTyped, Settled, NEW r \in Requests,
         CreateLook(r) \/ EditRead(r) \/ AssociateRead(r)
  PROVE  Settled'
<1>1. PICK new \in WizardWork :
        /\ Begin(r, new) /\ UNCHANGED store
        /\ \/ new.pc = "create"
           \/ new.pc = "edit" /\ new.stores = Rows
           \/ /\ new.pc = "associate" /\ new.lines = new.dto
              /\ new.stores = ActiveRows /\ new.styles = StylesOf(new.stores)
  BY BeginsRead
<1>2. /\ UNCHANGED <<purchases, stores, styles, deletion>>
      /\ req' = [req EXCEPT ![r] = new]
      /\ overlapped' <=> (overlapped \/ Running # {} \/ deletion.writes # {})
  BY <1>1 DEF Begin, store
<1>3. CASE overlapped'
  BY <1>3, Overlapped
<1>4. CASE ~overlapped'
  <2>1. ~overlapped /\ Running = {} /\ deletion.writes = {} /\ OneByOne
    BY <1>2, <1>4 DEF Settled
  <2>2. OneStylePerStore' /\ OneRowPerStore'
    BY <1>2, <2>1 DEF OneByOne, OneStylePerStore, OneRowPerStore, Rows
  <2>3. RowsOnce'
    BY <1>2, <2>1, <2>2 DEF OneByOne, RowsOnce, ColorsOnce
  <2>4. /\ req'[r] = new /\ \A p \in Requests \ {r} : req'[p] = req[p]
        /\ \A p \in Requests : req[p].pc = "idle"
    BY <1>2, <2>1 DEF WizardTyped, Running
  <2>5. StepInv(new)
    <3>1. ActiveRows \subseteq Rows
      BY DEF ActiveRows
    <3>2. QED
      BY <1>1, <3>1 DEF StepInv, LineSteps
  <2>6. StepInv(new)'
    BY <1>2, <2>5, SameSteps
  <2>7. ASSUME NEW p \in Requests
        PROVE  StepInv(req[p])'
    <3>1. CASE p = r
      BY <2>4, <2>6, <3>1
    <3>2. CASE p # r
      <4>1. req'[p].pc = "idle"
        BY <2>4, <3>2
      <4>2. QED
        BY <4>1 DEF StepInv, LineSteps
    <3>3. QED
      BY <3>1, <3>2
  <2>8. Running' = {r}
    BY <1>1, <2>4 DEF Running
  <2>9. OneByOne'
    BY <1>2, <2>1, <2>3, <2>7, <2>8 DEF OneByOne, RowsOnce
  <2>10. AsSent'
    BY <2>8 DEF AsSent, AssociatedAsSent, StoresAsAsked, Quiet
  <2>11. QED
    BY <2>9, <2>10 DEF Settled
<1>5. QED
  BY <1>3, <1>4

\* A deletion begins, or ends one of its writes.
LEMMA DeletionKeeps ==
  ASSUME WizardTyped, Settled,
         \/ \E r \in Requests : Delete(r)
         \/ \E kind \in Kinds : DeleteWrite(kind)
  PROVE  Settled'
<1>1. CASE overlapped'
  BY <1>1, Overlapped
<1>2. CASE ~overlapped'
  <2>1. /\ UNCHANGED <<purchases, stores, styles, req>>
        /\ ~overlapped /\ Running = {} /\ last'.op = "deleted" /\ OneByOne
    <3>1. ASSUME NEW r \in Requests, Delete(r)
          PROVE  /\ UNCHANGED <<purchases, stores, styles, req>>
                 /\ ~overlapped /\ Running = {} /\ last'.op = "deleted" /\ OneByOne
      <4>1. /\ UNCHANGED <<purchases, stores, styles, req>> /\ last'.op = "deleted"
            /\ overlapped' = (overlapped \/ Running # {})
        BY <3>1 DEF Delete
      <4>2. ~overlapped /\ Running = {}
        BY <1>2, <4>1, Zenon
      <4>3. QED
        BY <4>1, <4>2 DEF Settled
    <3>2. CASE \E kind \in Kinds : DeleteWrite(kind)
      BY <1>2, <3>2 DEF DeleteWrite, Settled, OneByOne
    <3>3. QED
      BY <3>1, <3>2
  <2>2. OneStylePerStore' /\ OneRowPerStore'
    BY <2>1 DEF OneByOne, OneStylePerStore, OneRowPerStore, Rows
  <2>3. RowsOnce'
    BY <2>1, <2>2 DEF OneByOne, RowsOnce, ColorsOnce
  <2>4. \A p \in Requests : req[p].pc = "idle"
    BY <2>1 DEF Running
  <2>5. Running' = {} /\ \A p \in Requests : StepInv(req[p])'
    BY <2>1, <2>4 DEF Running, StepInv, LineSteps
  <2>6. OneByOne'
    BY <2>1, <2>3, <2>5 DEF OneByOne, RowsOnce
  <2>7. AsSent'
    BY <2>1 DEF AsSent, AssociatedAsSent, StoresAsAsked
  <2>8. QED
    BY <2>6, <2>7 DEF Settled
<1>3. QED
  BY <1>1, <1>2

LEMMA StutterKeeps ==
  ASSUME Settled, UNCHANGED vars
  PROVE  Settled'
<1>1. UNCHANGED <<purchases, stores, styles, deletion, req, served, last, overlapped>>
  BY DEF vars
<1>2. ASSUME OneByOne
      PROVE  OneByOne'
  <2>1. RowsOnce'
    BY <1>1, <1>2, RowsSame DEF OneByOne, RowsOnce
  <2>2. ASSUME NEW p \in Requests
        PROVE  StepInv(req[p])'
    <3>1. PICK q : q = req[p]
      OBVIOUS
    <3>2. StepInv(q)
      BY <1>2, <3>1 DEF OneByOne
    <3>3. StepInv(q)'
      BY <1>1, <3>2, SameSteps
    <3>4. req'[p] = q
      BY <1>1, <3>1
    <3>5. QED
      BY <3>3, <3>4
  <2>3. Running' = Running
    BY <1>1 DEF Running
  <2>4. QED
    BY <1>1, <1>2, <2>1, <2>2, <2>3 DEF OneByOne, RowsOnce
<1>3. AssociatedAsSent'
  BY <1>1 DEF Settled, AsSent, AssociatedAsSent, Quiet, Running, Rows, StoreDeleted, Deleted,
              LineFound, Removed, StyleDeleted, StylesOf
<1>4. StoresAsAsked'
  BY <1>1 DEF Settled, AsSent, StoresAsAsked, Quiet, Running, Rows
<1>5. QED
  BY <1>1, <1>2, <1>3, <1>4 DEF Settled, AsSent

-----------------------------------------------------------------------------
LEMMA WizardKept ==
  ASSUME WizardAssumption, WizardInv, Next \/ UNCHANGED vars
  PROVE  WizardInv'
<1>1. WizardTyped /\ CountInv /\ Settled
  BY DEF WizardInv, Settled, AsSent
<1>2. WizardTyped'
  BY <1>1, TypesKept
<1>3. CountInv'
  <2>1. CASE Next
    BY <1>1, <1>2, <2>1, CountKeeps
  <2>2. CASE UNCHANGED vars
    BY <1>1, <2>2 DEF vars, CountInv, Creating
  <2>3. QED
    BY <2>1, <2>2
<1>4. Settled'
  <2>1. ASSUME NEW r \in Requests, CreateLook(r) \/ EditRead(r) \/ AssociateRead(r)
        PROVE  Settled'
    BY <1>1, <2>1, BeginKeeps
  <2>2. ASSUME NEW r \in Requests, Serve(r)
        PROVE  Settled'
    <3>1. PICK new \in WizardWork : UNCHANGED overlapped
      BY <1>1, <2>2, ServeTyped DEF Moved
    <3>2. CASE overlapped
      BY <3>1, <3>2, Overlapped
    <3>3. CASE ~overlapped
      BY <1>1, <2>2, <3>3, ServeKeeps DEF Settled
    <3>4. QED
      BY <3>2, <3>3
  <2>3. CASE UNCHANGED vars
    BY <1>1, <2>3, StutterKeeps
  <2>4. QED
    BY <1>1, <2>1, <2>2, <2>3, DeletionKeeps DEF Next
<1>5. QED
  BY <1>2, <1>3, <1>4 DEF WizardInv, Settled, AsSent

\* What is invariant is what the runs check.
LEMMA WizardShows ==
  ASSUME WizardAssumption, WizardInv
  PROVE  AsAsked
<1>1. /\ WizardTyped /\ CountInv /\ AssociatedAsSent /\ StoresAsAsked
      /\ (~overlapped => OneByOne)
  BY DEF WizardInv
<1>2. EntryRows /\ served \in 0 .. MaxServed /\ overlapped \in BOOLEAN
  BY <1>1 DEF WizardTyped, EntryTyped
<1>3. purchases \in 0 .. MaxServed + 1
  <2>1. PICK n \in Nat : n = Cardinality(Creating)
    BY <1>1, FS_CardinalityType DEF CountInv
  <2>2. purchases \in Nat /\ purchases + n <= served + 1
    BY <1>1, <1>2, <2>1 DEF CountInv, EntryRows
  <2>3. QED
    BY <1>2, <2>1, <2>2, WizardAssumed
<1>4. \A i \in DOMAIN stores : stores[i] \in StoreRow
  BY <1>2 DEF EntryRows
<1>5. \A s \in DOMAIN styles : styles[s] \in StyleRow /\ styles[s].at \in DOMAIN stores
  BY <1>2 DEF EntryRows
<1>6. deletion.writes \subseteq Kinds /\ deletion.stores \subseteq DOMAIN stores
  BY <1>2 DEF EntryRows
<1>7. \A r \in Requests : req[r].found \in 0 .. Len(styles)
  BY <1>1 DEF WizardTyped, Read
<1>8. TypeOK
  BY <1>2, <1>3, <1>4, <1>5, <1>6, <1>7 DEF TypeOK
<1>9. OneStylePerStore
  BY <1>1 DEF OneByOne, OneStylePerStore
<1>10. QED
  BY <1>1, <1>8, <1>9 DEF AsAsked

\* What clients asked for, and were told was stored, is stored once its requests
\* have been served one by one: the stores of a purchase, its styles in each and
\* their colours, whatever is written between a query and the next
\* (purchase.service.ts:149-175, :702-774).
THEOREM RequestsAreKept ==
  ASSUME WizardAssumption
  PROVE  Spec => []AsAsked
<1>1. Init => WizardInv
  BY WizardBegins
<1>2. WizardInv /\ [Next]_vars => WizardInv'
  BY WizardKept
<1>3. WizardInv => AsAsked
  BY WizardShows
<1>4. QED
  BY <1>1, <1>2, <1>3, PTL DEF Spec
=============================================================================
