----------------------------- MODULE MalcolmPoll -----------------------------
(***************************************************************************)
(* One poll of MalcolmCollector: it goes through the datasets one after    *)
(* the other, each with a cursor of its own in system_kv, normalises what  *)
(* it fetched and ingests it.  An exception anywhere ends the poll, and    *)
(* the next starts again with the first dataset.  What a query passes over *)
(* within one dataset is the business of Collectors: here the documents of *)
(* a dataset come in the order of their times.                             *)
(***************************************************************************)
EXTENDS Naturals, Sequences, FiniteSets, Subsequences, MalcolmNormalisers

CONSTANTS
  Watches,    \* sets of datasets, one of which gets documents
  MaxDocs,    \* bound on the documents
  PollSize,   \* size of a search
  MaxMalcolmFaults   \* bound on failures and restarts

ASSUME MalcolmPollAssumption ==
  /\ \A w \in Watches : w # {} /\ w \subseteq {DispatchTable[i][1] : i \in DOMAIN DispatchTable}
  /\ MaxDocs \in Nat /\ PollSize \in Nat \ {0} /\ MaxMalcolmFaults \in Nat

VARIABLES
  sets,     \* the datasets that get documents
  docs,     \* the documents in OpenSearch: [set, outcome], in the order of time
  cursors,  \* dataset -> the last document its query has returned, 0 for none
  place,    \* where the poll is in the dispatch, 0 while the loop sleeps
  page,     \* the documents fetched and not yet ingested
  eventsOf,   \* document -> events made of it: 0, 1 or 2
  lost,     \* the documents given up with their page
  malcolmFaults

malcolmVars == <<sets, docs, cursors, place, page, eventsOf, lost, malcolmFaults>>

\* These datasets in the order of the dispatch; the others find nothing.
Dispatched == {i \in DOMAIN DispatchTable : DispatchTable[i][1] \in sets}
Polled == SubsequenceAt([i \in DOMAIN DispatchTable |-> DispatchTable[i][1]], Dispatched)
NormaliserOf(d) == DispatchTable[CHOOSE i \in DOMAIN DispatchTable : DispatchTable[i][1] = d][2]

MalcolmTypeOK ==
  /\ sets \in Watches
  /\ docs \in Seq([set : sets, outcome : {"dropped", "raised", "event"}])
  /\ cursors \in [sets -> 0..MaxDocs]
  /\ place \in 0..Len(Polled)
  /\ page \subseteq 1..MaxDocs /\ lost \subseteq 1..MaxDocs
  /\ eventsOf \in [1..MaxDocs -> 0..2]
  /\ malcolmFaults \in 0..MaxMalcolmFaults

MalcolmInit ==
  /\ sets \in Watches
  /\ docs = <<>> /\ page = {} /\ lost = {} /\ malcolmFaults = 0 /\ place = 0
  /\ cursors = [d \in sets |-> 0]
  /\ eventsOf = [k \in 1..MaxDocs |-> 0]

MalcolmFault == malcolmFaults < MaxMalcolmFaults /\ malcolmFaults' = malcolmFaults + 1

-----------------------------------------------------------------------------
\* The documents that Malcolm writes: the first key of each column has text, a
\* numeral or a list, whichever the column takes; one key may be odd.  An
\* address may be missing.
Good(n, k) == IF \E c \in n.columns : c.how = "num" /\ \E i \in DOMAIN c.from : c.from[i] = k THEN "number" ELSE "text"
Documents(n) ==
  LET whole == [k \in Keys(n) |-> Good(n, k)]
      odd == {[whole EXCEPT ![k] = v] : k \in Keys(n), v \in {"text", "number", "list"}}
      nameless == [k \in Keys(n) \ {n.address[i] : i \in DOMAIN n.address} |-> Good(n, k)]
  IN {whole, nameless} \union odd

WriteDocument(d) ==
  /\ Len(docs) < MaxDocs
  /\ \E o \in {Outcome(NormaliserOf(d), doc) : doc \in Documents(NormaliserOf(d))} :
       docs' = Append(docs, [set |-> d, outcome |-> o])
  /\ UNCHANGED <<sets, cursors, place, page, eventsOf, lost, malcolmFaults>>

-----------------------------------------------------------------------------
\* Mutant: the query for alerts has no filter.
SelectsUnfiltered(d, k) == d = "alert" \/ docs[k].set = d

\* event.dataset in _build_query; the syslog has an index of its own.
Selects(d, k) == docs[k].set = d

Found(d) == {k \in 1..Len(docs) : Selects(d, k) /\ k > cursors[d]}
Fetched(d) == {k \in Found(d) : Cardinality({j \in Found(d) : j <= k}) <= PollSize}

Begin ==
  /\ place = 0
  /\ place' = 1
  /\ UNCHANGED <<sets, docs, cursors, page, eventsOf, lost, malcolmFaults>>

Here == Polled[place]
ToNextDataset == place' = IF place = Len(Polled) THEN 0 ELSE place + 1

\* Mutant: the cursor stays until the page has been ingested.
CursorsAfterFetchUnsaved == cursors

\* _fetch_index saves the cursor before the page is even normalised.
CursorsAfterFetch == [cursors EXCEPT ![Here] = CHOOSE k \in Fetched(Here) : \A j \in Fetched(Here) : j <= k]

FetchDataset ==
  /\ place > 0 /\ page = {} /\ Fetched(Here) # {}
  /\ page' = Fetched(Here)
  /\ cursors' = CursorsAfterFetch
  /\ UNCHANGED <<sets, docs, place, eventsOf, lost, malcolmFaults>>

\* Nothing is found, or the search fails and counts as finding nothing.
FetchNothing ==
  /\ place > 0 /\ page = {}
  /\ (Fetched(Here) = {} /\ UNCHANGED malcolmFaults) \/ MalcolmFault
  /\ ToNextDataset
  /\ UNCHANGED <<sets, docs, cursors, page, eventsOf, lost>>

Poisoned == \E k \in page : docs[k].outcome = "raised"
PageEvents == {k \in page : docs[k].outcome = "event"}

\* The page is normalised as a whole before any of it is ingested.
IngestPage ==
  /\ page # {} /\ ~ Poisoned
  /\ eventsOf' = [k \in DOMAIN eventsOf |-> IF k \in PageEvents /\ eventsOf[k] < 2 THEN eventsOf[k] + 1 ELSE eventsOf[k]]
  /\ page' = {}
  /\ ToNextDataset
  /\ UNCHANGED <<sets, docs, cursors, lost, malcolmFaults>>

\* A document that cannot be converted, or an error of ingest_events, ends the
\* poll; the page is not fetched again.
GiveUp ==
  /\ page # {}
  /\ (Poisoned /\ UNCHANGED malcolmFaults) \/ (~ Poisoned /\ PageEvents # {} /\ MalcolmFault)
  /\ lost' = lost \union page
  /\ page' = {} /\ place' = 0
  /\ UNCHANGED <<sets, docs, cursors, eventsOf>>

\* The process stops and starts.
RestartMalcolm ==
  /\ MalcolmFault
  /\ lost' = lost \union page
  /\ page' = {} /\ place' = 0
  /\ UNCHANGED <<sets, docs, cursors, eventsOf>>

PollDatasets == Begin \/ FetchDataset \/ FetchNothing \/ IngestPage \/ GiveUp

MalcolmNext == (\E d \in sets : WriteDocument(d)) \/ PollDatasets \/ RestartMalcolm

\* run() polls for ever, whatever a poll met.
MalcolmSpec == MalcolmInit /\ [][MalcolmNext]_malcolmVars
MalcolmFairSpec == MalcolmSpec /\ WF_malcolmVars(PollDatasets)

-----------------------------------------------------------------------------
\* No document becomes two events, neither by two datasets that overlap nor by
\* the polls after an exception or a restart: events get new ids, so the loader
\* would store both ("Removing the Phase 31 duplicates prevents double-
\* ingestion", malcolm_collector.py:1418).
NoDoubleIngestion == \A k \in DOMAIN eventsOf : eventsOf[k] <= 1

\* The safety half of OthersAreIngested: a document that its query has passed
\* over is not forgotten.  It is in the page or has become an event, or it was
\* given up with its page or dropped by its normaliser.
PassedIsTaken ==
  \A k \in 1..Len(docs) :
    k <= cursors[docs[k].set] => \/ k \in page \union lost
                                \/ eventsOf[k] > 0
                                \/ docs[k].outcome = "dropped"

\* One document that cannot be converted takes no more than its own page with
\* it: every other one becomes an event, also of the datasets behind it, however
\* often the polls are cut short.
OthersAreIngested ==
  \A k \in 1..MaxDocs :
    (k <= Len(docs) /\ docs[k].outcome = "event") ~> (eventsOf[k] > 0 \/ k \in lost)
==============================================================================
