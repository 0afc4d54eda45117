----------------------------- MODULE Negotiations -----------------------------
(***************************************************************************)
(* The quotations of one style of a purchase in negotiation: saved from    *)
(* the page, imported from the spreadsheet the export gives, and chosen    *)
(* for the details of the style, one row for each store.  Each service     *)
(* reads, and then writes query after query.                               *)
(***************************************************************************)
EXTENDS Integers, Sequences, FiniteSets, SequencesExt

CONSTANTS
  Users,          \* the requests that may be served at the same time
  Providers,
  Details,        \* the rows of details of the style
  MaxRequests,    \* a bound: the requests served in all
  MaxErrors       \* a bound: the queries that fail

None == "none"

ProvidersAssumption == Providers # {} /\ None \notin Providers

VARIABLES
  negotiations,   \* provider, suggestedVendor and deletion of each, by number
  details,        \* the number of the negotiation each row has, and its provider
  purchase,       \* "InNegotiation", or after the choice "CompletePurchase" or
                  \* "StylesUnitsPurchase"
  omitted,        \* whether the purchase went on with a choice that did not name
                  \* the style
  style,          \* the status of the rows of the style
  work,           \* what each request does next and has read
  requests,       \* how many have begun
  errors,         \* how many queries have failed
  final,          \* the last request that ended before any crossed, and what it
                  \* was sent
  crossed         \* whether a request ever began while another was served

negotiationVars ==
  <<negotiations, details, purchase, omitted, style, work, requests, errors, final, crossed>>

Negotiation == [provider: Providers, suggested: BOOLEAN, live: BOOLEAN]
Resting == [pc |-> "idle", sent |-> <<>>, read |-> {}, were |-> {}, page |-> {}, chosen |-> 0,
            provider |-> None, type |-> "save", named |-> FALSE, todo |-> {}]

\* The sheets and pages that are sent: up to two quotations of different
\* providers, one suggested at most.
Entries == [provider: Providers, suggested: BOOLEAN]
Sheets == {s \in SeqOf(Entries, 2) :
             /\ \A i, j \in DOMAIN s : i # j => s[i].provider # s[j].provider
             /\ \A i, j \in DOMAIN s : (s[i].suggested /\ s[j].suggested) => i = j}

Live == {i \in DOMAIN negotiations : negotiations[i].live}

NegotiationsTypeOK ==
  /\ \A i \in DOMAIN negotiations : negotiations[i] \in Negotiation
  \* Details point at a negotiation there was.
  /\ \A d \in Details : /\ details[d].chosen \in 0 .. Len(negotiations)
                        /\ details[d].provider \in Providers \cup {None}
  /\ purchase \in {"InNegotiation", "CompletePurchase", "StylesUnitsPurchase"}
  /\ style \in {"Pending", "Cotizado", "Negotiated"}
  /\ omitted \in BOOLEAN

\* No quotation yet, and the style is pending; or one, that was suggested and
\* perhaps chosen since, and the style is negotiated.
NegotiationsInit ==
  /\ \/ negotiations = <<>> /\ details = [d \in Details |-> [chosen |-> 0, provider |-> None]]
     \/ \E p \in {CHOOSE q \in Providers : TRUE}, choice \in {0, 1} :
          /\ negotiations = <<[provider |-> p, suggested |-> TRUE, live |-> TRUE]>>
          /\ details = [d \in Details |->
               [chosen |-> choice, provider |-> IF choice = 0 THEN None ELSE p]]
  /\ purchase = "InNegotiation" /\ omitted = FALSE
  /\ style = IF negotiations = <<>> THEN "Pending" ELSE "Negotiated"
  /\ work = [u \in Users |-> Resting]
  /\ requests = 0 /\ errors = 0
  /\ final = [op |-> "none", sent |-> <<>>, chosen |-> 0]
  /\ crossed = FALSE

-----------------------------------------------------------------------------
Working == {u \in Users : work[u].pc # "idle"}

Start(u, begun) ==
  /\ work[u].pc = "idle" /\ requests < MaxRequests
  /\ requests' = requests + 1
  /\ work' = [work EXCEPT ![u] = begun]
  /\ crossed' = (crossed \/ Working # {})
  /\ UNCHANGED <<negotiations, details, purchase, omitted, style, errors, final>>
Then(u, pc) == /\ work' = [work EXCEPT ![u].pc = pc]
               /\ UNCHANGED <<requests, final, crossed>>
Finish(u, op) ==
  /\ work' = [work EXCEPT ![u] = Resting]
  /\ final' = IF crossed THEN final
              ELSE [op |-> op, sent |-> work[u].sent, chosen |-> work[u].chosen]
  /\ UNCHANGED <<requests, crossed>>

Fails(u) ==
  /\ work[u].pc # "idle" /\ errors < MaxErrors
  /\ errors' = errors + 1
  /\ Finish(u, "failed")
  /\ UNCHANGED <<negotiations, details, purchase, omitted, style>>

-----------------------------------------------------------------------------
\* The quotations a page has: none, those there are, or also deleted ones that
\* there were when it was opened.
Pages == {{}, Live, DOMAIN negotiations}

\* saveNegotiations: of those the page has, one may be suggested and given
\* another provider, and the page may add one.
SaveStart(u) ==
  \E page \in Pages, added \in {s \in Sheets : Len(s) <= 1} :
  \E suggest \in page \cup {0} : \E provider \in IF suggest = 0 THEN {None} ELSE Providers :
    /\ (suggest # 0) => (\A i \in DOMAIN added : ~added[i].suggested)
    /\ Start(u, [Resting EXCEPT !.pc = "save", !.read = Live, !.sent = added,
          !.were = {i \in Live : negotiations[i].suggested},
          !.page = page, !.chosen = suggest, !.provider = provider])

Suggests(q) == q.chosen # 0 \/ \E i \in DOMAIN q.sent : q.sent[i].suggested

\* Mutant: a suggestion leaves those the page does not have as they were.
SuggestedSent(q, i) == IF i \in q.page THEN i = q.chosen ELSE i \in q.were

\* A suggestion takes that of the others read; the page says that of its own.
SuggestedAfter(q, i) ==
  IF i \in q.page THEN i = q.chosen ELSE ~Suggests(q) /\ i \in q.were

Saved(q, i) ==
  [provider |-> IF i = q.chosen THEN q.provider ELSE negotiations[i].provider,
   suggested |-> SuggestedAfter(q, i), live |-> TRUE]

New(entry) == [provider |-> entry.provider, suggested |-> entry.suggested, live |-> TRUE]
NewOnes(sheet) == [i \in DOMAIN sheet |-> New(sheet[i])]

\* The quotations of the page that were not read are stored anew.
Again(q) ==
  LET gone == SetToSeq(q.page \ q.read) IN [k \in DOMAIN gone |-> Saved(q, gone[k])]

\* The negotiations read are saved whole: one deleted meanwhile is either given
\* back, or inserted again with its number and refused.
Save(u) ==
  LET q == work[u] IN
  /\ q.pc = "save"
  /\ \/ /\ negotiations' =
             [i \in DOMAIN negotiations |->
                IF i \in q.read THEN Saved(q, i) ELSE negotiations[i]]
             \o Again(q) \o NewOnes(q.sent)
        /\ Then(u, "quoted")
     \/ /\ ~(q.read \subseteq Live)
        /\ UNCHANGED negotiations
        /\ Finish(u, "failed")
  /\ UNCHANGED <<details, purchase, omitted, style, errors>>

\* The style is quoted, whatever its status was.
Quoted(u) ==
  /\ work[u].pc = "quoted"
  /\ style' = "Cotizado"
  /\ Finish(u, "saved")
  /\ UNCHANGED <<negotiations, details, purchase, omitted, errors>>

-----------------------------------------------------------------------------
\* importNegotiation, of one style of the sheet.
ImportStart(u) ==
  \E sheet \in Sheets :
    Start(u, [Resting EXCEPT !.pc = "replace", !.sent = sheet, !.read = Live])

\* The negotiations read are deleted before the new ones are stored.
Replaced(q) == q.read

ImportDelete(u) ==
  /\ work[u].pc = "replace"
  /\ negotiations' = [i \in DOMAIN negotiations |->
       [negotiations[i] EXCEPT !.live = @ /\ i \notin Replaced(work[u])]]
  /\ IF work[u].sent = <<>> THEN Finish(u, "imported") ELSE Then(u, "import")
  /\ UNCHANGED <<details, purchase, omitted, style, errors>>

ImportInsert(u) ==
  /\ work[u].pc = "import"
  /\ negotiations' = negotiations \o NewOnes(work[u].sent)
  /\ Then(u, "imported")
  /\ UNCHANGED <<details, purchase, omitted, style, errors>>

ImportQuoted(u) ==
  /\ work[u].pc = "imported"
  /\ style' = "Cotizado"
  /\ Finish(u, "imported")
  /\ UNCHANGED <<negotiations, details, purchase, omitted, errors>>

-----------------------------------------------------------------------------
\* updateStatus of the rows of the style.
UpdateStatus(u) ==
  /\ work[u].pc = "idle" /\ requests < MaxRequests
  /\ requests' = requests + 1
  /\ style' \in {"Pending", "Cotizado", "Negotiated"}
  /\ crossed' = (crossed \/ Working # {})
  /\ final' = [op |-> "status", sent |-> <<>>, chosen |-> 0]
  /\ UNCHANGED <<negotiations, details, purchase, omitted, work, errors>>

\* Mutant: a purchase may go on with no quotation chosen.
AcceptableAny(type, chosen) == TRUE

\* The first checks of saveQuotationSelectionData, of the styles sent, and the
\* one it makes again at each row.
Acceptable(type, chosen) == type = "save" \/ chosen # 0

\* saveQuotationSelectionData, of a quotation a page showed at some time, or of
\* none; it reads the deleted quotations with the others.
ChooseStart(u) ==
  \E chosen \in 0 .. Len(negotiations), type \in {"save", "toAprove", "toUnits"} :
    /\ purchase = "InNegotiation"
    /\ Acceptable(type, chosen)
    /\ Start(u, [Resting EXCEPT !.pc = "choose", !.chosen = chosen, !.type = type,
          !.named = TRUE, !.todo = Details,
          !.provider = IF chosen = 0 THEN None ELSE negotiations[chosen].provider])

\* The styles sent may be others, or none: the rows of this one are passed over.
ChooseOthers(u) ==
  \E type \in {"save", "toAprove", "toUnits"} :
    /\ purchase = "InNegotiation"
    /\ Start(u, [Resting EXCEPT !.pc = "choose", !.type = type])

\* The details of a style sent are updated one by one.
ChooseDetail(u, d) ==
  LET q == work[u] IN
  /\ q.pc = "choose" /\ d \in q.todo
  /\ details' = [details EXCEPT ![d] = [chosen |-> q.chosen, provider |-> q.provider]]
  /\ work' = [work EXCEPT ![u].todo = @ \ {d}]
  /\ UNCHANGED <<negotiations, purchase, omitted, style, requests, errors, final, crossed>>

\* The purchase goes on, whichever styles were sent.  The update is not awaited:
\* the answer may come first.
ChooseEnd(u) ==
  /\ work[u].pc = "choose" /\ work[u].todo = {}
  /\ purchase' = CASE work[u].type = "save" -> purchase
                   [] work[u].type = "toAprove" -> "CompletePurchase"
                   [] OTHER -> "StylesUnitsPurchase"
  /\ omitted' = (omitted \/ (work[u].type # "save" /\ ~work[u].named))
  /\ Finish(u, IF work[u].named THEN "chosen" ELSE "passed over")
  /\ UNCHANGED <<negotiations, details, style, errors>>

NegotiationsNext ==
  \E u \in Users :
    \/ SaveStart(u) \/ Save(u) \/ Quoted(u)
    \/ ImportStart(u) \/ ImportDelete(u) \/ ImportInsert(u) \/ ImportQuoted(u)
    \/ UpdateStatus(u)
    \/ ChooseStart(u) \/ ChooseOthers(u)
    \/ (\E d \in Details : ChooseDetail(u, d)) \/ ChooseEnd(u)
    \/ Fails(u)

NegotiationsSpec == NegotiationsInit /\ [][NegotiationsNext]_negotiationVars

-----------------------------------------------------------------------------
AllQuiet == ~crossed /\ Working = {}

\* Of the quotations of a style one at most is the suggested one, while requests
\* come one by one: a suggestion takes that of the rest, of the page or not
\* (purchase-style.service.ts:2901-2905).
OneSuggested ==
  ~crossed => \A i, j \in Live :
                (negotiations[i].suggested /\ negotiations[j].suggested) => i = j

\* An import that succeeded leaves the quotations of the sheet and no others
\* in a style that is quoted, though it deletes the old ones first
\* (purchase-style.service.ts:3257-3279).
ImportedExactly ==
  (AllQuiet /\ final.op = "imported") =>
    /\ Cardinality(Live) = Len(final.sent)
    /\ \A k \in DOMAIN final.sent : \E i \in Live : negotiations[i] = New(final.sent[k])
    /\ final.sent # <<>> => style = "Cotizado"

HasVendor == \A d \in Details : details[d].chosen # 0 /\ details[d].provider # None

\* A choice that succeeded and named the style is that of every row of its
\* details, and a purchase that went on by one has the vendor of the style chosen
\* (purchase.service.ts:1421-1443).
VendorChosen ==
  AllQuiet =>
    /\ final.op = "chosen" => \A d \in Details : details[d].chosen = final.chosen
    /\ purchase # "InNegotiation" /\ ~omitted => HasVendor

\* The quotations of a style are those asked for.
QuotationsKept == NegotiationsTypeOK /\ OneSuggested /\ ImportedExactly
=============================================================================
