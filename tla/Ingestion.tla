----------------------------- MODULE Ingestion -----------------------------
(***************************************************************************)
(* IngestionLoader.ingest_events (ingestion/loader.py): the path that      *)
(* every telemetry event takes from a collector, an upload or the API into *)
(* the three stores: DuckDB (normalized_events), SQLite (entity graph) and *)
(* Chroma (embeddings).  Several calls run at once on the event loop; each *)
(* enriches its events, drops the ids DuckDB already has, inserts the rest *)
(* row by row, starts the embedding as a task of its own and writes the    *)
(* graph.  A row insert is one execute_write, atomic by SerialStore.  The  *)
(* loader here has an IOC store, an asset store or a scorer; without one   *)
(* there is no enrichment.                                                 *)
(*                                                                         *)
(* An event is its event_id, the primary key of normalized_events.         *)
(***************************************************************************)
EXTENDS Naturals, FiniteSets, Sequences, Functions, Subsequences

CONSTANTS Events,      \* event ids
          Ingests,     \* calls of ingest_events
          Batches,     \* the event lists a call may be given
          DuckBatch,   \* _DUCKDB_BATCH: rows counted as loaded together
          MaxFaults    \* bound on failures and crashes in a behaviour

ASSUME IngestionAssumption == /\ DuckBatch \in Nat \ {0}
                              /\ MaxFaults \in Nat
                              /\ Batches \subseteq Seq(Events)

VARIABLES
  pc,          \* where each call is
  events,      \* its argument
  fresh,       \* new_events: what deduplication left
  row,         \* how many rows of fresh have been tried or skipped
  loaded,      \* result.loaded
  embed,       \* the fire-and-forget _fire_embed task of each call
  enriched,    \* events that went through IOC matching and anomaly scoring
  duck,        \* event ids in normalized_events
  graph,       \* events whose entities and edges are in SQLite
  chroma,      \* events with an embedding
  faults       \* failures so far

callVars == <<pc, events, fresh, row, loaded, embed>>
loadVars == <<callVars, enriched, duck, graph, chroma, faults>>

States == {"idle", "start", "dedup", "insert", "store", "graph", "correlate",
           "done", "failed"}

LoadTypeOK == /\ pc \in [Ingests -> States]
              /\ events \in [Ingests -> Batches \cup {<<>>}]
              /\ fresh \in [Ingests -> Seq(Events)]
              /\ row \in [Ingests -> Nat]
              /\ loaded \in [Ingests -> Nat]
              /\ embed \in [Ingests -> {"none", "pending", "done", "lost"}]
              /\ enriched \subseteq Events
              /\ duck \subseteq Events
              /\ graph \subseteq Events
              /\ chroma \subseteq Events
              /\ faults \in 0 .. MaxFaults

LoadInit == /\ pc = [i \in Ingests |-> "idle"]
            /\ events = [i \in Ingests |-> <<>>]
            /\ fresh = [i \in Ingests |-> <<>>]
            /\ row = [i \in Ingests |-> 0]
            /\ loaded = [i \in Ingests |-> 0]
            /\ embed = [i \in Ingests |-> "none"]
            /\ enriched = {}
            /\ duck = {}
            /\ graph = {}
            /\ chroma = {}
            /\ faults = 0

-----------------------------------------------------------------------------
Goto(i, s) == pc' = [pc EXCEPT ![i] = s]

Fault == /\ faults < MaxFaults
         /\ faults' = faults + 1

\* Where in the list the events are whose id is not among the existing ones.
NewAt(s, existing) == {k \in DOMAIN s : s[k] \notin existing}

\* new_events: those events in order, repetitions inside the batch included.
NewEvents(s, existing) == SubsequenceAt(s, NewAt(s, existing))

\* The last row of the DuckDB batch that the next row belongs to.
BatchEnd(i) == LET end == (row[i] \div DuckBatch + 1) * DuckBatch
               IN  IF end < Len(fresh[i]) THEN end ELSE Len(fresh[i])

BatchStart(i) == (row[i] \div DuckBatch) * DuckBatch

\* Mutant: the new events are handed on whether or not they were inserted.
StoredEventsUnchecked(i) == fresh[i]

\* Mutant: one event too few is handed on after a complete insert.
StoredEventsShort(i) == SubSeq(fresh[i], 1, loaded[i] - 1)

\* stored_events, "Events that actually made it into DuckDB": the first
\* loaded of the new events.
StoredEvents(i) == SubSeq(fresh[i], 1, loaded[i])

-----------------------------------------------------------------------------
\* ingest_events(events).  An empty list only runs the correlation engine.
IngestEvents(i, s) ==
  /\ pc[i] = "idle"
  /\ events' = [events EXCEPT ![i] = s]
  /\ Goto(i, IF s = <<>> THEN "correlate" ELSE "start")
  /\ UNCHANGED <<fresh, row, loaded, embed, enriched, duck, graph, chroma, faults>>

\* Mutant: the enrichment of the last event of the batch is skipped.
EnrichedButLast(s) == Range(SubSeq(s, 1, Len(s) - 1))

\* Events that one pass of _apply_enrichment_batch enriches.
EnrichedBy(s) == Range(s)

\* _apply_enrichment_batch: one thread, all events of the call in order.  A
\* store error in the middle is raised to the caller of ingest_events, with
\* the events before it already enriched.
Enrich(i) ==
  /\ pc[i] = "start"
  /\ \/ /\ enriched' = enriched \cup EnrichedBy(events[i])
        /\ Goto(i, "dedup")
        /\ UNCHANGED faults
     \/ /\ \E n \in 0 .. Len(events[i]) - 1 :
             enriched' = enriched \cup Range(SubSeq(events[i], 1, n))
        /\ Goto(i, "failed")
        /\ Fault
  /\ UNCHANGED <<events, fresh, row, loaded, embed, duck, graph, chroma>>

\* _deduplicate: one query on a connection of its own.  When it fails every
\* event counts as new.
Deduplicate(i) ==
  /\ pc[i] = "dedup"
  /\ \/ /\ fresh' = [fresh EXCEPT ![i] = NewEvents(events[i], duck)]
        /\ UNCHANGED faults
     \/ /\ fresh' = [fresh EXCEPT ![i] = events[i]]
        /\ Fault
  /\ Goto(i, IF fresh'[i] = <<>> THEN "done" ELSE "insert")
  /\ UNCHANGED <<events, row, loaded, embed, enriched, duck, graph, chroma>>

\* Mutant: a failed batch is taken off the count.
LoadedAfterFailureSubtracted(i) == loaded[i] - 1

\* Mutant: the rows tried are counted, not the batches that went through.
LoadedAfterFailureCounted(i) == loaded[i] + (row[i] - BatchStart(i)) + 1

\* A failed batch adds nothing to loaded, though rows of it are in DuckDB.
LoadedAfterFailure(i) == loaded[i]

\* _batch_insert_duckdb, one row: INSERT OR IGNORE.  loaded grows by the whole
\* batch after its last row; an exception skips the rest of the batch and the
\* loop goes on with the next one.
InsertRow(i) ==
  /\ pc[i] = "insert"
  /\ row[i] < Len(fresh[i])
  /\ \/ /\ duck' = duck \cup {fresh[i][row[i] + 1]}
        /\ row' = [row EXCEPT ![i] = @ + 1]
        /\ loaded' = [loaded EXCEPT ![i] =
                        IF row[i] + 1 = BatchEnd(i) THEN @ + (row[i] + 1 - BatchStart(i))
                        ELSE @]
        /\ UNCHANGED faults
     \/ /\ row' = [row EXCEPT ![i] = BatchEnd(i)]
        /\ loaded' = [loaded EXCEPT ![i] = LoadedAfterFailure(i)]
        /\ Fault
        /\ UNCHANGED duck
  /\ Goto(i, IF row'[i] = Len(fresh[i]) THEN "store" ELSE "insert")
  /\ UNCHANGED <<events, fresh, embed, enriched, graph, chroma>>

\* asyncio.create_task(_fire_embed(stored_events)); ingest_events goes on.
StartEmbed(i) ==
  /\ pc[i] = "store"
  /\ embed' = [embed EXCEPT ![i] = "pending"]
  /\ Goto(i, "graph")
  /\ UNCHANGED <<events, fresh, row, loaded, enriched, duck, graph, chroma, faults>>

\* _batch_embed_chroma, at any later time.  A batch whose embedding fails
\* (Ollama offline) is skipped: any part of the events may be missing.  The
\* events here are those with a text to embed.
FireEmbed(i) ==
  /\ embed[i] = "pending"
  /\ \/ /\ chroma' = chroma \cup Range(StoredEvents(i))
        /\ UNCHANGED faults
     \/ /\ \E part \in SUBSET Range(StoredEvents(i)) : chroma' = chroma \cup part
        /\ Fault
  /\ embed' = [embed EXCEPT ![i] = "done"]
  /\ UNCHANGED <<pc, events, fresh, row, loaded, enriched, duck, graph>>

\* _write_graph: one thread; an error of one event does not stop the others.
WriteGraph(i) ==
  /\ pc[i] = "graph"
  /\ \/ /\ graph' = graph \cup Range(StoredEvents(i))
        /\ UNCHANGED faults
     \/ /\ \E part \in SUBSET Range(StoredEvents(i)) : graph' = graph \cup part
        /\ Fault
  /\ Goto(i, "correlate")
  /\ UNCHANGED <<events, fresh, row, loaded, embed, enriched, duck, chroma>>

\* The correlation engine runs over DuckDB; its errors are not fatal.
Correlate(i) ==
  /\ pc[i] = "correlate"
  /\ Goto(i, "done")
  /\ UNCHANGED <<events, fresh, row, loaded, embed, enriched, duck, graph, chroma, faults>>

\* The process dies: every call and every embedding task with it.  The stores
\* stay; idle calls are those of the next process.
Crash ==
  /\ \E i \in Ingests : pc[i] \notin {"idle", "done", "failed"} \/ embed[i] = "pending"
  /\ Fault
  /\ pc' = [i \in Ingests |-> IF pc[i] \in {"idle", "done"} THEN pc[i] ELSE "failed"]
  /\ embed' = [i \in Ingests |-> IF embed[i] = "pending" THEN "lost" ELSE embed[i]]
  /\ UNCHANGED <<events, fresh, row, loaded, enriched, duck, graph, chroma>>

-----------------------------------------------------------------------------
LoadStep(i) == \/ Enrich(i) \/ Deduplicate(i) \/ InsertRow(i) \/ StartEmbed(i)
               \/ WriteGraph(i) \/ Correlate(i)

LoadNext == \/ \E i \in Ingests : \/ \E s \in Batches : IngestEvents(i, s)
                                  \/ LoadStep(i)
                                  \/ FireEmbed(i)
            \/ Crash

LoadFairness == \A i \in Ingests : WF_loadVars(LoadStep(i)) /\ WF_loadVars(FireEmbed(i))

LoadSpec == LoadInit /\ [][LoadNext]_loadVars /\ LoadFairness

-----------------------------------------------------------------------------
Inserted(i) == pc[i] \in {"store", "graph", "correlate"}

\* result.loaded never claims more rows than the call's events that DuckDB
\* holds, whichever batches failed and whoever else was inserting; and what it
\* leaves out is explained by failures, each of which costs one batch at most:
\* the loop goes on behind a batch that failed.
LoadedIsStored ==
  \A i \in Ingests :
    Inserted(i) => /\ loaded[i] <= Cardinality({k \in DOMAIN fresh[i] : fresh[i][k] \in duck})
                   /\ Len(fresh[i]) <= loaded[i] + DuckBatch * faults

\* Nothing is stored that has not been matched against the IOCs and scored:
\* later passes never look at it again (ingest_events, enrichment first).
StoredWasEnriched == duck \subseteq enriched

\* The graph and the vector store never speak of an event that DuckDB, "the
\* source of truth" (loader.py, step 3), does not have, unless a call whose new
\* events span several DuckDB batches handed it on: there a batch that fails
\* before one that succeeds shifts the prefix.
IndexedIsStored ==
  \A e \in (graph \cup chroma) \ duck :
    \E i \in Ingests : Len(fresh[i]) > DuckBatch /\ e \in Range(fresh[i])

\* Calls that have still to write the graph, or the embedding, of an event.
WritesGraph(i, e) == pc[i] \in {"insert", "store", "graph"} /\ e \in Range(fresh[i])
Embeds(i, e) == (pc[i] \in {"insert", "store"} \/ embed[i] = "pending") /\ e \in Range(fresh[i])

\* Without a failure nothing falls between the stores: what DuckDB has and the
\* graph, or the vector store, has not is in the hands of a call.
SettledIsIndexed ==
  faults = 0 => \A e \in duck :
    /\ e \in graph \/ \E i \in Ingests : WritesGraph(i, e)
    /\ e \in chroma \/ \E i \in Ingests : Embeds(i, e)

\* Without a failure every event that reaches DuckDB gets its entities and its
\* embedding, although a second call that meets the event drops it as a
\* duplicate while the first is still between its insert and its graph.
StoredIsIndexed ==
  \A e \in Events : e \in duck ~> ((e \in graph /\ e \in chroma) \/ faults > 0)
=============================================================================
