----------------------------- MODULE IngestJobs ------------------------------
(* Uploaded files: POST /api/ingest/file, the background job with its status, *)
(* IngestionLoader.ingest_file (parse, normalise, ingest, provenance, the two *)
(* EVTX scanners). A file is its suffix, its layout and its records: "ok",    *)
(* "named" (an EVTX record of the one computer, with its number in its log),  *)
(* "odd" (skipped by the parser) and "far" (a timestamp that astimezone       *)
(* cannot move). What the ingest of events does is in Ingestion; here a call  *)
(* stores all its new events, or some of them after an error.                 *)
EXTENDS Integers, Sequences, FiniteSets

CONSTANTS
  Uploads,    \* uploads, each with a job of its own
  Files,      \* contents that are uploaded (their SHA-256)
  Content,    \* Content[f]: [suffix, layout, records]
  Findings,   \* Findings[t]: how many findings tool t has for an EVTX file
  MaxFaults   \* bound on errors and restarts

ASSUME IngestJobsAssumption ==
  /\ Findings \in [{"hayabusa", "chainsaw"} -> Nat]
  /\ \A f \in Files : Content[f].records \in Seq({"ok", "named", "odd", "far"})
  /\ Files \cap Uploads = {} /\ "evtx" \notin Uploads
  /\ MaxFaults \in Nat

Tools == <<"hayabusa", "chainsaw">>

VARIABLES
  file,       \* file[u]: what is uploaded
  job,        \* job[u]: _JOBS, "none" when it is not in the table
  stage,      \* stage[u]: where the task of the job is
  tool,       \* tool[u]: position in Tools of the scan that is next or runs
  putOut,     \* putOut[u]: findings the running tool has put out, -1 before it runs
  ownEvents,  \* ownEvents[u]: the events this job parsed and stored
  loaded,     \* loaded[u]: result.loaded > 0
  stored,     \* normalized_events: [id, record], the record as <<file, number>>
  traced,     \* ids with an ingest_provenance_events row
  inserted,   \* detections of the tools: <<tool, upload, number>>
  scanned,    \* <<tool, file>> in hayabusa_scanned_files, chainsaw_scanned_files
  silent,     \* history: <<tool, upload>> when the tool put out nothing it had found
  hurt,       \* history: <<upload, step>> for steps whose error was only logged
  faults

jobsVars == <<file, job, stage, tool, putOut, ownEvents, loaded, stored, traced, inserted, scanned, silent, hurt, faults>>

Suffix(u) == Content[file[u]].suffix
Allowed == {".evtx", ".json", ".ndjson", ".jsonl", ".csv"}

JobsInit ==
  /\ file \in [Uploads -> Files]
  /\ job = [u \in Uploads |-> "none"]
  /\ stage = [u \in Uploads |-> "none"]
  /\ tool = [u \in Uploads |-> 1]
  /\ putOut = [u \in Uploads |-> -1]
  /\ ownEvents = [u \in Uploads |-> {}]
  /\ loaded = [u \in Uploads |-> FALSE]
  /\ stored = {} /\ traced = {} /\ inserted = {} /\ scanned = {} /\ silent = {} /\ hurt = {}
  /\ faults = 0

Fault == faults < MaxFaults /\ faults' = faults + 1

\* The file is written, the job queued, the task handed to the framework; any
\* other suffix is answered 415.
Upload(u) ==
  /\ stage[u] = "none" /\ Suffix(u) \in Allowed
  /\ stage' = [stage EXCEPT ![u] = "queued"]
  /\ job' = [job EXCEPT ![u] = "queued"]
  /\ UNCHANGED <<file, tool, putOut, ownEvents, loaded, stored, traced, inserted, scanned, silent, hurt, faults>>

\* get_parser: the parsers by suffix, and what each makes of a layout it
\* cannot read. A JSON file that begins with a brace is read line by line, so
\* an object over several lines ("object") gives no event.
Parser(f) == CASE f.suffix = ".evtx" -> "EvtxParser" [] f.suffix = ".csv" -> "CsvParser" [] OTHER -> "JsonParser"
ParseRaises(f) == Parser(f) \in {"EvtxParser", "CsvParser"} /\ f.layout = "broken"
EvtxReads(f) == f.layout = "records"
JsonReads(f) == f.layout \in {"lines", "array"}
CsvReads(f) == f.layout = "table"
Readable(f) == CASE Parser(f) = "EvtxParser" -> EvtxReads(f)
                 [] Parser(f) = "JsonParser" -> JsonReads(f)
                 [] Parser(f) = "CsvParser"  -> CsvReads(f)

\* The id of an event: of a named record evtx:computer:number, which says
\* nothing of the log, any other has a new uuid in every job.
IdOf(u, i) == IF Content[file[u]].records[i] = "named" THEN <<"evtx", i>> ELSE <<u, i>>
EventsOf(u) ==
  LET c == Content[file[u]] IN
  {[id |-> IdOf(u, i), record |-> <<file[u], i>>] : i \in {k \in DOMAIN c.records : Readable(c) /\ c.records[k] # "odd"}}
NormaliseRaises(u) ==
  LET c == Content[file[u]] IN Readable(c) /\ \E i \in DOMAIN c.records : c.records[i] = "far"

\* The job ends with an error: ingest_file says so for a file that is gone or
\* does not parse, _run_ingestion_job for whatever ingest_file raises.
Ends(u) == job' = [job EXCEPT ![u] = "error"] /\ stage' = [stage EXCEPT ![u] = "ended"]

StartJob(u) ==
  /\ stage[u] = "queued"
  /\ \/ /\ job' = [job EXCEPT ![u] = "running"] /\ UNCHANGED faults
        /\ stage' = [stage EXCEPT ![u] = "parse"]
     \/ Fault /\ Ends(u)                                   \* gone or unreadable
  /\ UNCHANGED <<file, tool, putOut, ownEvents, loaded, stored, traced, inserted, scanned, silent, hurt>>

\* All records in a thread.
Parse(u) ==
  /\ stage[u] = "parse"
  /\ IF ParseRaises(Content[file[u]]) THEN Ends(u)
     ELSE stage' = [stage EXCEPT ![u] = "ingest"] /\ UNCHANGED job
  /\ UNCHANGED <<file, tool, putOut, ownEvents, loaded, stored, traced, inserted, scanned, silent, hurt, faults>>

Ids(es) == {e.id : e \in es}

\* normalize_event for all, then ingest_events: what is stored is left out. A
\* batch that fails, or repeats an id because the deduplication failed, is in
\* result.errors; some of its rows are stored, none of them is counted.
Ingest(u) ==
  /\ stage[u] = "ingest"
  /\ LET new == {e \in EventsOf(u) : e.id \notin Ids(stored)} IN
     \/ /\ ~NormaliseRaises(u)
        /\ \/ /\ ownEvents' = [ownEvents EXCEPT ![u] = new]
              /\ loaded' = [loaded EXCEPT ![u] = new # {}]
              /\ UNCHANGED <<hurt, faults>>
           \/ /\ Fault
              /\ \E rows \in SUBSET new : ownEvents' = [ownEvents EXCEPT ![u] = rows]
              /\ hurt' = hurt \cup {<<u, "ingest">>}
              /\ UNCHANGED loaded
        /\ stored' = stored \cup ownEvents'[u]
        /\ stage' = [stage EXCEPT ![u] = "trace"]
        /\ UNCHANGED job
     \/ NormaliseRaises(u) /\ Ends(u) /\ UNCHANGED <<ownEvents, loaded, stored, hurt, faults>>
  /\ UNCHANGED <<file, tool, putOut, traced, inserted, scanned, silent>>

\* Provenance of every event that was parsed, if one was loaded.
Trace(u) ==
  /\ stage[u] = "trace"
  /\ \/ loaded[u] /\ traced' = traced \cup Ids(EventsOf(u)) /\ UNCHANGED <<hurt, faults>>
     \/ loaded[u] /\ Fault /\ hurt' = hurt \cup {<<u, "trace">>} /\ UNCHANGED traced
     \/ ~loaded[u] /\ UNCHANGED <<traced, hurt, faults>>
  /\ stage' = [stage EXCEPT ![u] = IF Suffix(u) = ".evtx" THEN "scan" ELSE "complete"]
  /\ UNCHANGED <<file, job, tool, putOut, ownEvents, loaded, stored, inserted, scanned, silent>>

\* The scanners, one after the other. An error of one is logged.
ToNextTool(u) ==
  /\ tool' = [tool EXCEPT ![u] = @ + 1]
  /\ putOut' = [putOut EXCEPT ![u] = -1]
  /\ stage' = [stage EXCEPT ![u] = IF tool[u] = Len(Tools) THEN "complete" ELSE "scan"]

Tool(u) == Tools[tool[u]]

\* is_already_scanned, and the tool runs if it is not.
StartScan(u) ==
  /\ stage[u] = "scan" /\ putOut[u] = -1
  /\ IF <<Tool(u), file[u]>> \in scanned THEN ToNextTool(u)
     ELSE putOut' = [putOut EXCEPT ![u] = 0] /\ UNCHANGED <<tool, stage>>
  /\ UNCHANGED <<file, job, ownEvents, loaded, stored, traced, inserted, scanned, silent, hurt, faults>>

\* Mutant: a file is marked before its findings are in.
MayMarkAtOnce(u) == stage[u] = "scan"
\* The generator is exhausted, or it ends early without an exception: no
\* binary, another exit code, no or unreadable output.
MayMark(u) == putOut[u] = Findings[Tool(u)] \/ <<Tool(u), u>> \in silent

\* insert_detection: a row and a commit of its own for every finding.
InsertFinding(u) ==
  /\ stage[u] = "scan" /\ putOut[u] \in 0 .. Findings[Tool(u)] - 1
  /\ <<Tool(u), u>> \notin silent
  /\ inserted' = inserted \cup {<<Tool(u), u, putOut[u] + 1>>}
  /\ putOut' = [putOut EXCEPT ![u] = @ + 1]
  /\ UNCHANGED <<file, job, stage, tool, ownEvents, loaded, stored, traced, scanned, silent, hurt, faults>>

EndsEarly(u) ==
  /\ stage[u] = "scan" /\ putOut[u] = 0
  /\ Fault /\ silent' = silent \cup {<<Tool(u), u>>}
  /\ UNCHANGED <<file, job, stage, tool, putOut, ownEvents, loaded, stored, traced, inserted, scanned, hurt>>

MarkScanned(u) ==
  /\ stage[u] = "scan" /\ putOut[u] # -1 /\ MayMark(u)
  /\ scanned' = scanned \cup {<<Tool(u), file[u]>>}
  /\ ToNextTool(u)
  /\ UNCHANGED <<file, job, ownEvents, loaded, stored, traced, inserted, silent, hurt, faults>>

\* The five minutes are over, or SQLite raises: the rest of this tool is lost.
ScanFails(u) ==
  /\ stage[u] = "scan" /\ Fault
  /\ hurt' = hurt \cup {<<u, Tool(u)>>}
  /\ ToNextTool(u)
  /\ UNCHANGED <<file, job, ownEvents, loaded, stored, traced, inserted, scanned, silent>>

Complete(u) ==
  /\ stage[u] = "complete"
  /\ job' = [job EXCEPT ![u] = "complete"]
  /\ stage' = [stage EXCEPT ![u] = "ended"]
  /\ UNCHANGED <<file, tool, putOut, ownEvents, loaded, stored, traced, inserted, scanned, silent, hurt, faults>>

\* The process ends: the tasks and the table of the jobs are gone.
ProcessEnds ==
  /\ Fault
  /\ job' = [u \in Uploads |-> "none"]
  /\ stage' = [u \in Uploads |-> IF stage[u] = "none" THEN "none" ELSE "ended"]
  /\ UNCHANGED <<file, tool, putOut, ownEvents, loaded, stored, traced, inserted, scanned, silent, hurt>>

JobsNext ==
  \/ ProcessEnds
  \/ \E u \in Uploads :
       \/ Upload(u) \/ StartJob(u) \/ Parse(u) \/ Ingest(u) \/ Trace(u) \/ StartScan(u)
       \/ InsertFinding(u) \/ EndsEarly(u) \/ MarkScanned(u) \/ ScanFails(u) \/ Complete(u)

JobsSpec == JobsInit /\ [][JobsNext]_jobsVars

\* A job that is over is not left in between; a complete one did all it stands
\* for: the events are in the table, those it stored can be traced to the file,
\* and each scanner has been through the file, now or before, but for steps
\* whose error was only logged.
JobIsTrue(u) ==
  /\ stage[u] = "ended" => job[u] \in {"complete", "error", "none"}
  /\ job[u] = "complete" =>
       /\ <<u, "ingest">> \in hurt \/ Ids(EventsOf(u)) \subseteq Ids(stored)
       /\ <<u, "ingest">> \in hurt \/ <<u, "trace">> \in hurt \/ Ids(ownEvents[u]) \subseteq traced
       /\ Suffix(u) = ".evtx" =>
            \A i \in DOMAIN Tools : <<Tools[i], file[u]>> \in scanned \/ <<u, Tools[i]>> \in hurt

\* A file that is marked as scanned, and is skipped from then on, has all its
\* findings among the detections, unless its tool ended without a word.
ScannedIsFound ==
  \A s \in scanned : \E u \in Uploads :
    /\ file[u] = s[2]
    /\ <<s[1], u>> \in silent \/ \A n \in 1 .. Findings[s[1]] : <<s[1], u, n>> \in inserted

\* Uploads are accounted for: what a job says it did is done, however often a
\* file is uploaded at once, scanners fail and the process restarts; and a scan
\* that is never repeated has left its findings (ingest_file).
UploadsAreTrue == ScannedIsFound /\ \A u \in Uploads : JobIsTrue(u)

\* The comment in EvtxParser._parse_record: an event_id is "deterministic but
\* unique", so that every record a complete job has read is in the table. It is
\* not: the numbers of two logs of one computer are the same.
RecordsAreStored ==
  \A u \in Uploads : job[u] = "complete" /\ <<u, "ingest">> \notin hurt =>
    \A e \in EventsOf(u) : e.record \in {s.record : s \in stored}

\* What it would need: a record number that is in the log of one file only.
NumbersAreOwn ==
  \A f, g \in Files : \A i \in DOMAIN Content[f].records \cap DOMAIN Content[g].records :
    Content[f].records[i] = "named" /\ Content[g].records[i] = "named" => f = g
==============================================================================
