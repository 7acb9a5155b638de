----------------------------- MODULE Collectors -----------------------------
(***************************************************************************)
(* The background collectors: FirewallCollector tails a log file and keeps *)
(* its offset in memory; MalcolmCollector pages through an OpenSearch      *)
(* index and WinEventCollector through a Windows event channel, with a     *)
(* timestamp cursor in system_kv, which the first saves before and the     *)
(* second after ingest_events.  One file, index or channel of one of them, *)
(* whose polls follow each other; the source goes on writing meanwhile.    *)
(*                                                                         *)
(* Every record read becomes an event with a new uuid4 as its id, so the   *)
(* deduplication of Ingestion never recognises a record that is read       *)
(* again.  Times are half seconds.                                         *)
(***************************************************************************)
EXTENDS Naturals, FiniteSets, Sequences, FiniteSetsExt

CONSTANTS Kinds,       \* a subset of {"tail", "malcolm", "winevent"}
          MaxRecords,  \* bound on the records the source writes
          MaxSourceTime,     \* bound on their times
          PageSize,    \* size of a search, MaxEvents of Get-WinEvent
          MaxSourceFaults    \* bound on failures, restarts and rotations

ASSUME CollectorsAssumption ==
  /\ Kinds \subseteq {"tail", "malcolm", "winevent"}
  /\ MaxRecords \in Nat /\ MaxSourceTime \in Nat
  /\ PageSize \in Nat \ {0}
  /\ MaxSourceFaults \in Nat

VARIABLES
  kind,      \* which collector this is
  file,      \* the records in the source, in the order they were written
  time,      \* the time of every record ever written
  cursor,    \* lines read (tail), or last timestamp, 0 before the first
  pc,        \* where the poll is
  batch,     \* the records it has read
  copies,    \* events in the stores for each record: 0, 1 or Many
  skipped,   \* has a query passed over a record, or DuckDB refused one?
  sourceFaults

sourceVars == <<kind, file, time, cursor, pc, batch, copies, skipped, sourceFaults>>

Many == 2

Records == 1 .. Len(time)

SourceTypeOK == /\ kind \in Kinds
                /\ file \in Seq(1 .. MaxRecords)
                /\ time \in Seq(1 .. MaxSourceTime)
                /\ cursor \in 0 .. (IF kind = "tail" THEN MaxRecords ELSE MaxSourceTime)
                /\ pc \in {"sleep", "save", "ingest", "cursor", "beat"}
                /\ batch \subseteq Records
                /\ copies \in [1 .. MaxRecords -> 0 .. Many]
                /\ skipped \in BOOLEAN
                /\ sourceFaults \in 0 .. MaxSourceFaults

SourceInit == /\ kind \in Kinds
              /\ file = <<>>
              /\ time = <<>>
              /\ cursor = 0
              /\ pc = "sleep"
              /\ batch = {}
              /\ copies = [r \in 1 .. MaxRecords |-> 0]
              /\ skipped = FALSE
              /\ sourceFaults = 0

-----------------------------------------------------------------------------
SourceFault == /\ sourceFaults < MaxSourceFaults
               /\ sourceFaults' = sourceFaults + 1

sourceLog == <<kind, file, time>>

\* The timestamp that a query starts from: the XPath filter of Get-WinEvent
\* takes whole seconds.
Floor(c) == IF kind = "winevent" THEN (c \div 2) * 2 ELSE c

\* Mutant: gte.
IsSinceInclusive(r) == time[r] >= Floor(cursor)

\* gt the cursor
IsSince(r) == time[r] > Floor(cursor)

Since == {r \in Records : IsSince(r)}

\* The source writes a record.  A file and a channel are in the order of time;
\* an index also gets documents late.  What comes in behind the cursor is
\* never searched for.
WriteRecord(t) ==
  /\ Len(time) < MaxRecords
  /\ (kind = "winevent" /\ time # <<>>) => t >= time[Len(time)]
  /\ kind = "tail" => t = 1
  /\ time' = Append(time, t)
  /\ file' = Append(file, Len(time'))
  /\ skipped' = (skipped \/ (kind # "tail" /\ t <= Floor(cursor)))
  /\ UNCHANGED <<kind, cursor, pc, batch, copies, sourceFaults>>

\* logrotate empties the file.
Rotate == /\ kind = "tail" /\ file # <<>>
          /\ SourceFault
          /\ file' = <<>>
          /\ UNCHANGED <<kind, time, cursor, pc, batch, copies, skipped>>

-----------------------------------------------------------------------------
\* Mutant: the lines read are added to the length of the file.
OffsetAfterAdded == cursor + Len(file)

\* Mutant: the offset is one line too far.
OffsetAfterTooFar == IF file = <<>> THEN 0 ELSE Len(file) + 1

\* fh.tell() after readlines(): the end, or the offset itself beyond the end.
OffsetAfter == IF Len(file) > cursor THEN Len(file) ELSE cursor

\* _read_new_lines, with the offset advanced before anything is ingested.
ReadNewLines ==
  /\ kind = "tail" /\ pc = "sleep"
  /\ batch' = {file[k] : k \in {k \in 1 .. Len(file) : k > cursor}}
  /\ cursor' = OffsetAfter
  /\ pc' = IF batch' = {} THEN "beat" ELSE "ingest"
  /\ UNCHANGED <<sourceLog, copies, skipped, sourceFaults>>

\* PageSize of the records found, or all.
Pages(found) ==
  kSubset(IF Cardinality(found) < PageSize THEN Cardinality(found) ELSE PageSize, found)

Oldest(found) == {page \in Pages(found) :
                    \A r \in page, s \in found \ page : time[r] <= time[s]}

Newest(found) == {page \in Pages(found) :
                    \A r \in page, s \in found \ page : time[r] >= time[s]}

\* The search of _fetch_index; a failed one is an empty one.
FetchIndex ==
  /\ kind = "malcolm" /\ pc = "sleep"
  /\ \/ batch' \in Oldest(Since) /\ UNCHANGED sourceFaults
     \/ batch' = {} /\ SourceFault
  /\ pc' = IF batch' = {} THEN "beat" ELSE "save"
  /\ UNCHANGED <<sourceLog, cursor, copies, skipped>>

\* Get-WinEvent, with the newest records first; a failure prints nothing.  When
\* get_kv fails there is no cursor, and the newest of all records are read.
GetEvents ==
  /\ kind = "winevent" /\ pc = "sleep"
  /\ \/ batch' \in Newest(Since) /\ UNCHANGED sourceFaults
     \/ batch' \in Newest(Records) /\ SourceFault
     \/ batch' = {} /\ SourceFault
  /\ skipped' = (skipped \/ (batch' # {} /\ ~ Since \subseteq batch'))
  /\ pc' = IF batch' = {} THEN "sleep" ELSE "ingest"
  /\ UNCHANGED <<sourceLog, cursor, copies>>

-----------------------------------------------------------------------------
\* Where a poll goes on after ingest_events.
AfterIngest == IF kind = "winevent" THEN "cursor" ELSE "beat"

\* Mutant: the collector goes on as if nothing had happened.
AfterIngestErrorGoesOn == AfterIngest

\* All three give the batch up until the next poll.
AfterIngestError == "sleep"

\* The events of some records are stored, under new ids.
Store(part) ==
  copies' = [r \in 1 .. MaxRecords |->
               IF r \in part /\ copies[r] < Many THEN copies[r] + 1 ELSE copies[r]]

\* ingest_events, see Ingestion: an error of the enrichment is raised before
\* anything is stored; rows that DuckDB refuses are only listed in the result,
\* which the collectors never look at.
IngestEvents ==
  /\ pc = "ingest"
  /\ \/ Store(batch) /\ pc' = AfterIngest /\ UNCHANGED <<skipped, sourceFaults>>
     \/ /\ \E part \in SUBSET batch \ {batch} : Store(part)
        /\ pc' = AfterIngest
        /\ skipped' = TRUE
        /\ SourceFault
     \/ pc' = AfterIngestError /\ UNCHANGED <<copies, skipped>> /\ SourceFault
  /\ batch' = IF pc' = "cursor" THEN batch ELSE {}
  /\ UNCHANGED <<sourceLog, cursor>>

\* The cursor moves to the newest timestamp of the batch, over whatever is not
\* in the batch and not since then either.
MoveCursor ==
  /\ cursor' = CHOOSE t \in {time[r] : r \in batch} : \A r \in batch : time[r] <= t
  /\ skipped' = (skipped \/ \E r \in Since \ batch : time[r] <= Floor(cursor'))

\* _fetch_index saves the cursor before its caller ingests; an error of the
\* save ends the poll.
SaveCursor ==
  /\ pc = "save"
  /\ \/ MoveCursor /\ pc' = "ingest" /\ UNCHANGED <<batch, sourceFaults>>
     \/ UNCHANGED <<cursor, skipped>> /\ pc' = "sleep" /\ batch' = {} /\ SourceFault
  /\ UNCHANGED <<sourceLog, copies>>

\* _set_cursor after the ingest; its error is only logged.
SetCursor ==
  /\ pc = "cursor"
  /\ pc' = "sleep"
  /\ batch' = {}
  /\ \/ MoveCursor /\ UNCHANGED sourceFaults
     \/ UNCHANGED <<cursor, skipped>> /\ SourceFault
  /\ UNCHANGED <<sourceLog, copies>>

\* The heartbeat, an event of its own; whether or not it fails, the next poll
\* follows after the interval or a backoff.
Heartbeat ==
  /\ pc = "beat"
  /\ pc' = "sleep"
  /\ UNCHANGED <<sourceLog, cursor, batch, copies, skipped, sourceFaults>>

\* The process stops, perhaps in the middle of ingest_events, and starts: an
\* offset is lost, a cursor is not.
RestartCollector ==
  /\ SourceFault
  /\ \E part \in SUBSET (IF pc = "ingest" THEN batch ELSE {}) : Store(part)
  /\ pc' = "sleep"
  /\ batch' = {}
  /\ cursor' = IF kind = "tail" THEN 0 ELSE cursor
  /\ UNCHANGED <<sourceLog, skipped>>

-----------------------------------------------------------------------------
SourcePoll == \/ ReadNewLines \/ FetchIndex \/ GetEvents
              \/ IngestEvents \/ SaveCursor \/ SetCursor \/ Heartbeat

SourceNext == (\E t \in 1 .. MaxSourceTime : WriteRecord(t)) \/ Rotate \/ SourcePoll \/ RestartCollector

\* The loop polls for ever.
SourceSpec == SourceInit /\ [][SourceNext]_sourceVars /\ WF_sourceVars(SourcePoll)

-----------------------------------------------------------------------------
\* A document of an index becomes at most one event, through any failures and
\* restarts; a line of a file as well, while the process lives and the file
\* is not rotated.  A channel's newest second is read again at every poll.
AtMostOnce ==
  (kind = "malcolm" \/ (kind = "tail" /\ sourceFaults = 0)) => \A r \in Records : copies[r] <= 1

\* No gap behind the cursor of a channel: whatever failed or restarted, what
\* lies before it is stored, unless a poll found more than a page or DuckDB
\* refused a row.
NoGap ==
  (kind = "winevent" /\ ~ skipped) =>
    \A r \in Records : time[r] <= Floor(cursor) => copies[r] > 0

\* Without a failure every record of the source becomes an event, except for
\* what the queries pass over: a page that was cut, a document that came late.
WrittenIsIngested ==
  \A r \in 1 .. MaxRecords :
    r \in Records ~> (copies[r] > 0 \/ skipped \/ sourceFaults > 0)

\* The safety half of it: what the next query no longer finds is stored or in
\* the batch at hand.
PassedIsStored ==
  ~ skipped /\ sourceFaults = 0 =>
    \A r \in Records :
      \/ copies[r] > 0
      \/ r \in batch
      \/ IF kind = "tail" THEN r > cursor ELSE IsSince(r)
=============================================================================
