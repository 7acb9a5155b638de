------------------------------ MODULE IocIntel ------------------------------
(***************************************************************************)
(* Threat intelligence: the feed syncs (backend/services/intel/            *)
(* feed_sync.py) that upsert indicators of compromise, the daily decay of  *)
(* their confidence (ioc_store.py), the match of every event at ingest and *)
(* the iocScan of the stored events for a new indicator (ingestion/loader.py).*)
(* Syncs run on the event loop and save in threads; scans are tasks of     *)
(* their own; events are matched in threads of their ingest call.          *)
(*                                                                         *)
(* An indicator is an address (ioc_type ip) or has a bare_ip: the others   *)
(* never match an event.  Events are those of the last 30 days.            *)
(***************************************************************************)
EXTENDS Naturals, FiniteSets, FiniteSetsExt

CONSTANTS Iocs,        \* (ioc_value, ioc_type) of the indicators
          Events,      \* event ids
          AddressOf,   \* the address of an indicator, ioc_value or bare_ip
          Src, Dst,    \* src_ip and dst_ip of an event
          Syncs,       \* feed workers, and requests for an immediate sync
          Guarded,     \* those that survive an error of SQLite
          MaxConf,     \* the confidence that a feed gives
          ScanLimit,   \* LIMIT of the retroactive query
          MaxIocFaults    \* bound on failures and crashes

ASSUME IocIntelAssumption ==
  /\ Guarded \subseteq Syncs
  /\ MaxConf \in Nat \ {0}
  /\ ScanLimit \in Nat \ {0}
  /\ MaxIocFaults \in Nat

VARIABLES
  ioc,       \* ioc_store: status and confidence of each indicator
  sync,      \* where each sync is, what it has to save, and what was new
  iocScan,      \* retroactive_ioc_scan of each indicator
  rows,      \* the rows its query found that it has still to record
  event,     \* where each event is in its ingest call
  matched,   \* event.ioc_matched of the events in a call
  flagged,   \* rows of normalized_events with ioc_matched TRUE
  duck,      \* event ids in normalized_events
  hits,      \* ioc_hits, by the ingest or by the iocScan of an indicator
  iocFaults

scanVars == <<iocScan, rows>>
ingestVars == <<event, matched, flagged, duck>>
iocVars == <<ioc, sync, scanVars, ingestVars, hits, iocFaults>>

Asleep == [pc |-> "sleep", batch |-> {}, new |-> {}]
Absent == [status |-> "absent", confidence |-> 0]

IocTypeOK ==
  /\ ioc \in [Iocs -> [status : {"absent", "active", "expired"}, confidence : 0 .. MaxConf]]
  /\ sync \in [Syncs -> [pc : {"sleep", "save", "stamp", "trigger", "dead"},
                         batch : SUBSET Iocs, new : SUBSET Iocs]]
  /\ iocScan \in [Iocs -> {"none", "query", "record", "end"}]
  /\ rows \in [Iocs -> SUBSET Events]
  /\ event \in [Events -> {"idle", "hit", "enriched"}]
  /\ matched \in [Events -> BOOLEAN]
  /\ flagged \subseteq Events
  /\ duck \subseteq Events
  /\ hits \subseteq [event : Events, by : Iocs \cup {"ingest"}]
  /\ iocFaults \in 0 .. MaxIocFaults

IocInit == /\ ioc = [i \in Iocs |-> Absent]
           /\ sync = [s \in Syncs |-> Asleep]
           /\ iocScan = [i \in Iocs |-> "none"]
           /\ rows = [i \in Iocs |-> {}]
           /\ event = [e \in Events |-> "idle"]
           /\ matched = [e \in Events |-> FALSE]
           /\ flagged = {}
           /\ duck = {}
           /\ hits = {}
           /\ iocFaults = 0

-----------------------------------------------------------------------------
IocFault == /\ iocFaults < MaxIocFaults
            /\ iocFaults' = iocFaults + 1

At(s, where) == sync[s].pc = where

\* A feed that was fetched: the indicators it lists are to be saved.
Fetch(s) ==
  /\ At(s, "sleep")
  /\ \E b \in SUBSET Iocs :
       sync' = [sync EXCEPT ![s] = [pc |-> IF b = {} THEN "stamp" ELSE "save",
                                    batch |-> b, new |-> {}]]
  /\ UNCHANGED <<ioc, scanVars, ingestVars, hits, iocFaults>>

\* Mutant: an expired indicator that is listed again counts as new.
IsNewOrExpired(i) == ioc[i].status # "active"

\* upsert_ioc answers True.
IsNew(i) == ioc[i].status = "absent"

\* upsert_ioc, one lock: select, then update or insert.
Upsert(s, i) ==
  /\ At(s, "save") /\ i \in sync[s].batch
  /\ ioc' = [ioc EXCEPT ![i] = [status |-> "active", confidence |-> MaxConf]]
  /\ LET left == sync[s].batch \ {i} IN
       sync' = [sync EXCEPT ![s] =
         [pc |-> IF left = {} THEN "stamp" ELSE "save",
          batch |-> left,
          new |-> IF IsNew(i) THEN @.new \cup {i} ELSE @.new]]
  /\ UNCHANGED <<scanVars, ingestVars, hits, iocFaults>>

\* _kv_set of the feed's last_sync.
Stamp(s) ==
  /\ At(s, "stamp")
  /\ sync' = [sync EXCEPT ![s].pc = "trigger"]
  /\ UNCHANGED <<ioc, scanVars, ingestVars, hits, iocFaults>>

\* What remains of a sync whose save failed: MispWorker saves outside of its
\* try, and run() only catches the cancellation.
AfterSaveError(s) == IF s \in Guarded THEN Asleep ELSE [Asleep EXCEPT !.pc = "dead"]

\* SQLite fails in _save_batch; which indicators were new is forgotten.
SaveFails(s) ==
  /\ At(s, "save") \/ At(s, "stamp")
  /\ sync' = [sync EXCEPT ![s] = AfterSaveError(s)]
  /\ IocFault
  /\ UNCHANGED <<ioc, scanVars, ingestVars, hits>>

\* _trigger_retroactive_scan of every new indicator: create_task, no await.
Trigger(s) ==
  /\ At(s, "trigger")
  /\ iocScan' = [i \in Iocs |-> IF i \in sync[s].new THEN "query" ELSE iocScan[i]]
  /\ sync' = [sync EXCEPT ![s] = Asleep]
  /\ UNCHANGED <<ioc, rows, ingestVars, hits, iocFaults>>

-----------------------------------------------------------------------------
\* Mutant: only the source address is looked up.
InvolvesSource(e, i) == Src[e] = AddressOf[i]

\* src_ip = ? OR dst_ip = ?
Involves(e, i) == AddressOf[i] \in {Src[e], Dst[e]}

\* The query of retroactive_ioc_scan.
ScanQuery(i) ==
  /\ iocScan[i] = "query"
  /\ LET found == {e \in duck : Involves(e, i)}
         size == IF Cardinality(found) < ScanLimit THEN Cardinality(found) ELSE ScanLimit
     IN \E some \in kSubset(size, found) : rows' = [rows EXCEPT ![i] = some]
  /\ iocScan' = [iocScan EXCEPT ![i] = IF rows'[i] = {} THEN "end" ELSE "record"]
  /\ UNCHANGED <<ioc, sync, ingestVars, hits, iocFaults>>

\* One row.  execute_write is called in a thread and its coroutine is never
\* awaited, so ioc_matched of the row stays as it is; _record_hit is run.
ScanRecord(i, e) ==
  /\ iocScan[i] = "record" /\ e \in rows[i]
  /\ hits' = hits \cup {[event |-> e, by |-> i]}
  /\ rows' = [rows EXCEPT ![i] = @ \ {e}]
  /\ iocScan' = [iocScan EXCEPT ![i] = IF rows'[i] = {} THEN "end" ELSE "record"]
  /\ UNCHANGED <<ioc, sync, ingestVars, iocFaults>>

\* An error of a store ends the task; nobody awaits it.
ScanFails(i) ==
  /\ iocScan[i] \in {"query", "record"}
  /\ iocScan' = [iocScan EXCEPT ![i] = "end"]
  /\ rows' = [rows EXCEPT ![i] = {}]
  /\ IocFault
  /\ UNCHANGED <<ioc, sync, ingestVars, hits>>

-----------------------------------------------------------------------------
\* check_ioc_match: the source address first, then the destination address.
Matches(e) == \E i \in Iocs : ioc[i].confidence > 0 /\ Involves(e, i)

\* Mutant: a match goes on to the insert.
AfterMatchEnriched == "enriched"

AfterMatch == "hit"

\* ingest_events of a loader that was given no IOC store, like those of the
\* collectors.
SkipIocMatch(e) ==
  /\ event[e] = "idle"
  /\ event' = [event EXCEPT ![e] = "enriched"]
  /\ UNCHANGED <<ioc, sync, scanVars, matched, flagged, duck, hits, iocFaults>>

\* _apply_ioc_matching, the check.  An event may come in again after it was
\* stored.
CheckIocMatch(e) ==
  /\ event[e] = "idle"
  /\ matched' = [matched EXCEPT ![e] = Matches(e)]
  /\ event' = [event EXCEPT ![e] = IF Matches(e) THEN AfterMatch ELSE "enriched"]
  /\ UNCHANGED <<ioc, sync, scanVars, flagged, duck, hits, iocFaults>>

\* ... and _record_hit, whose error ends the ingest call.
RecordHit(e) ==
  /\ event[e] = "hit"
  /\ \/ /\ hits' = hits \cup {[event |-> e, by |-> "ingest"]}
        /\ event' = [event EXCEPT ![e] = "enriched"]
        /\ UNCHANGED <<matched, iocFaults>>
     \/ /\ event' = [event EXCEPT ![e] = "idle"]
        /\ matched' = [matched EXCEPT ![e] = FALSE]
        /\ IocFault
        /\ UNCHANGED hits
  /\ UNCHANGED <<ioc, sync, scanVars, flagged, duck>>

\* The rest of ingest_events, see Ingestion: the row goes into DuckDB unless
\* its id is already there.
StoreEvent(e) ==
  /\ event[e] = "enriched"
  /\ duck' = duck \cup {e}
  /\ flagged' = IF matched[e] /\ e \notin duck THEN flagged \cup {e} ELSE flagged
  /\ event' = [event EXCEPT ![e] = "idle"]
  /\ matched' = [matched EXCEPT ![e] = FALSE]
  /\ UNCHANGED <<ioc, sync, scanVars, hits, iocFaults>>

-----------------------------------------------------------------------------
\* Mutant: the status of an indicator that has decayed to 0 is kept.
DecayedKept(r) ==
  IF r.status = "active" /\ r.confidence > 0 THEN [r EXCEPT !.confidence = @ - 1] ELSE r

\* Mutant: the confidence has no floor.
DecayedNoFloor(r) ==
  IF r.status = "active" THEN [r EXCEPT !.confidence = @ - 1] ELSE r

\* One indicator after a day: MAX(0, confidence - 1), expired at 0.
Decayed(r) ==
  IF r.status # "active" THEN r
  ELSE IF r.confidence <= 1 THEN [status |-> "expired", confidence |-> 0]
  ELSE [r EXCEPT !.confidence = @ - 1]

\* decay_confidence, one lock and one commit.
DecayConfidence ==
  /\ ioc' = [i \in Iocs |-> Decayed(ioc[i])]
  /\ UNCHANGED <<sync, scanVars, ingestVars, hits, iocFaults>>

\* The process stops and starts again: its workers sync at once.
IocCrash ==
  /\ IocFault
  /\ sync' = [s \in Syncs |-> Asleep]
  /\ iocScan' = [i \in Iocs |-> IF iocScan[i] = "none" THEN "none" ELSE "end"]
  /\ rows' = [i \in Iocs |-> {}]
  /\ event' = [e \in Events |-> "idle"]
  /\ matched' = [e \in Events |-> FALSE]
  /\ UNCHANGED <<ioc, flagged, duck, hits>>

-----------------------------------------------------------------------------
Save(s) == (\E i \in Iocs : Upsert(s, i)) \/ Stamp(s) \/ SaveFails(s) \/ Trigger(s)

Scan(i) == ScanQuery(i) \/ (\E e \in Events : ScanRecord(i, e)) \/ ScanFails(i)

Ingest(e) == RecordHit(e) \/ StoreEvent(e)

IocNext == \/ \E s \in Syncs : Fetch(s) \/ Save(s)
           \/ \E i \in Iocs : Scan(i)
           \/ \E e \in Events : CheckIocMatch(e) \/ SkipIocMatch(e) \/ Ingest(e)
           \/ DecayConfidence
           \/ IocCrash

\* What has been started runs; no feed has to answer and no event to come.
IocFairness == /\ \A s \in Syncs : WF_iocVars(Save(s))
               /\ \A i \in Iocs : WF_iocVars(Scan(i))
               /\ \A e \in Events : WF_iocVars(Ingest(e))

IocSpec == IocInit /\ [][IocNext]_iocVars /\ IocFairness

-----------------------------------------------------------------------------
\* "True: new row was inserted ... Used by feed_sync.py to trigger retroactive
\* scans only for genuinely new IOCs": however many syncs list an indicator at
\* the same time, and however often it expires and comes back, the stored
\* events are scanned for it once.
ScannedOnce ==
  \A i \in Iocs : /\ \A s, t \in Syncs : i \in sync[s].new /\ i \in sync[t].new => s = t
                  /\ iocScan[i] # "none" => \A s \in Syncs : i \notin sync[s].new

\* The matcher asks for confidence > 0, the OSINT cross-reference and the
\* reports for ioc_status = 'active': decay and upsert keep the two the same.
ActiveIffPositive ==
  \A i \in Iocs : ioc[i].status = "active" <=> ioc[i].confidence > 0

\* A row that says ioc_matched has its hit on record, in spite of errors,
\* crashes and repeated ingests of the event.
FlaggedIsHit == \A e \in flagged : [event |-> e, by |-> "ingest"] \in hits

\* "Trigger retroactive DuckDB iocScan for a newly inserted IOC": an event that
\* was stored before the sync triggered the iocScan gets its hit, if no store
\* fails and the query's LIMIT holds all the indicator's events.
NewIocIsScanned ==
  \A i \in Iocs, e \in Events :
    ((\E s \in Syncs : i \in sync[s].new) /\ e \in duck /\ AddressOf[i] \in {Src[e], Dst[e]})
      ~> ([event |-> e, by |-> i] \in hits \/ iocFaults > 0)
\* The safety half of it.  An indicator that is in the store is not forgotten: as
\* long as nothing fails, some sync still has it among what it found new and
\* has not triggered yet, or its scan was started.
NewIsRemembered ==
  iocFaults = 0 =>
    \A i \in Iocs :
      ioc[i].status # "absent" =>
        iocScan[i] # "none" \/ \E s \in Syncs : i \in sync[s].new /\ sync[s].pc \in {"save", "stamp", "trigger"}

\* And a scan misses nothing: its query finds every stored event of the
\* indicator, within its LIMIT, and what it found is dropped only for a hit.
StoredOf(i) == {e \in duck : Involves(e, i)}
QueryFindsAll(i) ==
  iocScan[i] = "query" /\ iocScan'[i] # "query" /\ Cardinality(StoredOf(i)) <= ScanLimit => StoredOf(i) \subseteq rows'[i]
RowsBecomeHits(i) ==
  \A e \in rows[i] \ rows'[i] : [event |-> e, by |-> i] \in hits'
ScanMissesNothing == [][UNCHANGED iocFaults => \A i \in Iocs : QueryFindsAll(i) /\ RowsBecomeHits(i)]_iocVars
=============================================================================
