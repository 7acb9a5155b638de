------------------------- MODULE OsintInvestigation -------------------------
(***************************************************************************)
(* One SpiderFoot investigation: the request that starts it, the poller    *)
(* that waits for it and harvests its findings, the request that cancels   *)
(* it and the SSE stream that shows it (backend/api/osint_api.py,          *)
(* backend/services/osint_poller.py, osint_investigation_store.py,         *)
(* spiderfoot_client.py).  Each step of an actor is one await: the others  *)
(* run in between.  Investigations share no rows, so one is enough.        *)
(***************************************************************************)
EXTENDS Naturals

CONSTANTS Findings,   \* what SpiderFoot finds
          Polls,      \* timeout_seconds / poll_interval
          MaxOsintFaults   \* bound on failing calls and crashes

ASSUME OsintAssumption == Polls \in Nat /\ MaxOsintFaults \in Nat

VARIABLES
  start,     \* POST /investigate
  status,    \* osint_investigations.status, "none" without a row
  renamed,   \* has update_job_id replaced the placeholder id?
  summary,   \* is result_summary set?
  stored,    \* rows of osint_findings
  scan,      \* the scan as SpiderFoot has it
  poller,    \* poll_to_completion
  polls,     \* polls done
  seen,      \* the terminal status it saw
  got,       \* the findings it fetched
  cancel,    \* DELETE: none, or the id it was called with
  stream,    \* the SSE generator
  osintFaults

requestVars == <<start, renamed>>
pollerVars == <<poller, polls, seen, got>>
osintVars == <<requestVars, status, summary, stored, scan, pollerVars, cancel,
          stream, osintFaults>>

TERMINAL_STATES == {"FINISHED", "ERROR-FAILED", "ABORTED"}

OsintTypeOK ==
  /\ start \in {"none", "scan", "rename", "failed", "done"}
  /\ status \in {"none", "RUNNING", "TIMEOUT"} \cup TERMINAL_STATES
  /\ renamed \in BOOLEAN
  /\ summary \in BOOLEAN
  /\ stored \subseteq Findings
  /\ scan \in {"none", "RUNNING", "deleted"} \cup TERMINAL_STATES
  /\ poller \in {"none", "poll", "harvest", "insert", "summary", "update",
                 "stop", "timeout", "end"}
  /\ polls \in 0 .. Polls
  /\ seen \in {"none"} \cup TERMINAL_STATES
  /\ got \subseteq Findings
  /\ cancel \in {"none", "placeholder", "scan"}
  /\ stream \in {"none", "findings", "status", "closed", "left"}
  /\ osintFaults \in 0 .. MaxOsintFaults

OsintInit == /\ start = "none"
             /\ status = "none"
             /\ renamed = FALSE
             /\ summary = FALSE
             /\ stored = {}
             /\ scan = "none"
             /\ poller = "none"
             /\ polls = 0
             /\ seen = "none"
             /\ got = {}
             /\ cancel = "none"
             /\ stream = "none"
             /\ osintFaults = 0

-----------------------------------------------------------------------------
OsintFault == /\ osintFaults < MaxOsintFaults
              /\ osintFaults' = osintFaults + 1

\* update_investigation_status(id, s): result_summary is NULL without an
\* argument for it.
UpdateStatus(s, hasSummary) == /\ status' = s
                               /\ summary' = hasSummary

NoUpdate == UNCHANGED <<status, summary>>

\* create_investigation under a placeholder id.
CreateInvestigation ==
  /\ start = "none"
  /\ UpdateStatus("RUNNING", FALSE)
  /\ start' = "scan"
  /\ UNCHANGED <<renamed, stored, scan, pollerVars, cancel, stream, osintFaults>>

\* start_scan, or its error, which is written before the 500.
StartScan ==
  /\ start = "scan"
  /\ \/ /\ scan' = "RUNNING"
        /\ start' = "rename"
        /\ UNCHANGED osintFaults
     \/ /\ start' = "failed"
        /\ OsintFault
        /\ UNCHANGED scan
  /\ NoUpdate
  /\ UNCHANGED <<renamed, stored, pollerVars, cancel, stream>>

StartFailed ==
  /\ start = "failed"
  /\ UpdateStatus("ERROR-FAILED", FALSE)
  /\ start' = "done"
  /\ UNCHANGED <<renamed, stored, scan, pollerVars, cancel, stream, osintFaults>>

\* update_job_id, create_task(poll_to_completion) and the 202.
LaunchPoller ==
  /\ start = "rename"
  /\ renamed' = TRUE
  /\ poller' = "poll"
  /\ start' = "done"
  /\ NoUpdate
  /\ UNCHANGED <<stored, scan, polls, seen, got, cancel, stream, osintFaults>>

-----------------------------------------------------------------------------
\* SpiderFoot ends the scan.
ScanEnds(s) ==
  /\ scan = "RUNNING"
  /\ scan' = s
  /\ NoUpdate
  /\ UNCHANGED <<requestVars, stored, pollerVars, cancel, stream, osintFaults>>

\* Mutant: one round too many.
InTimeLate == polls <= Polls

\* loop.time() < deadline
InTime == polls < Polls

\* Mutant: the deadline is set anew before it is reached.
PollsAfterReset == (polls + 1) % Polls

PollsAfter == polls + 1

\* Sleep, then get_status: a scan that runs, an error and a scan that is gone
\* all mean another round.
OsintPoll ==
  /\ poller = "poll"
  /\ InTime
  /\ \/ /\ scan \in TERMINAL_STATES
        /\ seen' = scan
        /\ poller' = IF scan = "FINISHED" THEN "harvest" ELSE "update"
        /\ UNCHANGED <<polls, osintFaults>>
     \/ /\ scan \notin TERMINAL_STATES
        /\ polls' = PollsAfter
        /\ UNCHANGED <<seen, poller, osintFaults>>
     \/ /\ polls' = PollsAfter
        /\ OsintFault
        /\ UNCHANGED <<seen, poller>>
  /\ NoUpdate
  /\ UNCHANGED <<requestVars, stored, scan, got, cancel, stream>>

\* Mutant: the findings are counted, and not stored.
AfterFetchUpdate == "summary"

AfterFetch == "insert"

\* _harvest_and_store fetches the summary and then the findings type by type.
\* A type that fails is left out, and so are those that a deletion of the scan
\* overtakes; an error of the summary ends the harvest.
Harvest ==
  /\ poller = "harvest"
  /\ \/ /\ got' = Findings
        /\ scan # "deleted"
        /\ poller' = IF got' = {} THEN "summary" ELSE AfterFetch
        /\ UNCHANGED osintFaults
     \/ /\ got' \in SUBSET Findings
        /\ poller' = IF got' = {} THEN "summary" ELSE AfterFetch
        /\ IF scan = "deleted" THEN UNCHANGED osintFaults ELSE OsintFault
     \/ /\ poller' = "update"
        /\ OsintFault
        /\ UNCHANGED got
  /\ NoUpdate
  /\ UNCHANGED <<requestVars, stored, scan, polls, seen, cancel, stream>>

\* bulk_insert_osint_findings
InsertFindings ==
  /\ poller = "insert"
  /\ \/ stored' = got /\ poller' = "summary" /\ UNCHANGED osintFaults
     \/ UNCHANGED stored /\ poller' = "update" /\ OsintFault
  /\ NoUpdate
  /\ UNCHANGED <<requestVars, scan, polls, seen, got, cancel, stream>>

\* "Update result_summary counts", the end of the harvest.
UpdateSummary ==
  /\ poller = "summary"
  /\ poller' = "update"
  /\ \/ UpdateStatus("FINISHED", got # {}) /\ UNCHANGED osintFaults
     \/ NoUpdate /\ OsintFault
  /\ UNCHANGED <<requestVars, stored, scan, polls, seen, got, cancel, stream>>

\* The status the poller saw; an error ends the task.
UpdateFinal ==
  /\ poller = "update"
  /\ poller' = "end"
  /\ \/ UpdateStatus(seen, FALSE) /\ UNCHANGED osintFaults
     \/ NoUpdate /\ OsintFault
  /\ UNCHANGED <<requestVars, stored, scan, polls, seen, got, cancel, stream>>

\* Mutant: a scan that timed out runs on.
StoppedNot == scan

Stopped == IF scan = "RUNNING" THEN "ABORTED" ELSE scan

\* The deadline has passed: stop_scan, whose errors are only logged.
StopScan ==
  /\ poller = "poll"
  /\ ~ InTime
  /\ poller' = "timeout"
  /\ \/ scan' = Stopped /\ UNCHANGED osintFaults
     \/ UNCHANGED scan /\ OsintFault
  /\ NoUpdate
  /\ UNCHANGED <<requestVars, stored, polls, seen, got, cancel, stream>>

UpdateTimeout ==
  /\ poller = "timeout"
  /\ poller' = "end"
  /\ \/ UpdateStatus("TIMEOUT", FALSE) /\ UNCHANGED osintFaults
     \/ NoUpdate /\ OsintFault
  /\ UNCHANGED <<requestVars, stored, scan, polls, seen, got, cancel, stream>>

-----------------------------------------------------------------------------
\* DELETE with the id the row has now: stop_scan and delete_scan, which do
\* nothing for a placeholder id.
CancelScan ==
  /\ status # "none" /\ cancel = "none"
  /\ cancel' = IF renamed THEN "scan" ELSE "placeholder"
  /\ scan' = IF renamed THEN "deleted" ELSE scan
  /\ NoUpdate
  /\ UNCHANGED <<requestVars, stored, pollerVars, stream, osintFaults>>

\* ... then the row of that id, if there still is one, becomes ABORTED.  A
\* second DELETE may follow.
CancelUpdate ==
  /\ cancel # "none"
  /\ cancel' = "none"
  /\ IF renamed = (cancel = "scan") THEN UpdateStatus("ABORTED", FALSE) ELSE NoUpdate
  /\ UNCHANGED <<requestVars, stored, scan, pollerVars, stream, osintFaults>>

-----------------------------------------------------------------------------
\* GET .../stream, with the job id of the 202.
OpenStream ==
  /\ stream = "none" /\ renamed
  /\ stream' = "findings"
  /\ NoUpdate
  /\ UNCHANGED <<requestVars, stored, scan, pollerVars, cancel, osintFaults>>

\* get_findings_since(last_seen_id), whose rows are yielded.
StreamFindings ==
  /\ stream = "findings"
  /\ stream' = "status"
  /\ NoUpdate
  /\ UNCHANGED <<requestVars, stored, scan, pollerVars, cancel, osintFaults>>

StreamEnds == status \in TERMINAL_STATES \cup {"TIMEOUT"}

\* get_investigation: the status event, or a keepalive and another round.
StreamStatus ==
  /\ stream = "status"
  /\ stream' = IF StreamEnds THEN "closed" ELSE "findings"
  /\ NoUpdate
  /\ UNCHANGED <<requestVars, stored, scan, pollerVars, cancel, osintFaults>>

Disconnect ==
  /\ stream = "findings"
  /\ stream' = "left"
  /\ NoUpdate
  /\ UNCHANGED <<requestVars, stored, scan, pollerVars, cancel, osintFaults>>

\* The process stops; SQLite and SpiderFoot stay as they are.
OsintCrash ==
  /\ start \notin {"none", "done"} \/ poller \notin {"none", "end"}
  /\ OsintFault
  /\ start' = "done"
  /\ poller' = "end"
  /\ cancel' = "none"
  /\ stream' = IF stream \in {"findings", "status"} THEN "left" ELSE stream
  /\ NoUpdate
  /\ UNCHANGED <<renamed, stored, scan, polls, seen, got>>

-----------------------------------------------------------------------------
OsintRequest == StartScan \/ StartFailed \/ LaunchPoller

Poller == \/ OsintPoll \/ Harvest \/ InsertFindings \/ UpdateSummary \/ UpdateFinal
          \/ StopScan \/ UpdateTimeout

Stream == StreamFindings \/ StreamStatus

OsintNext == \/ CreateInvestigation \/ OsintRequest \/ Poller
             \/ \E s \in TERMINAL_STATES : ScanEnds(s)
             \/ CancelScan \/ CancelUpdate
             \/ OpenStream \/ Stream \/ Disconnect
             \/ OsintCrash

\* What the event loop has started it runs; nobody is obliged to end a scan,
\* to cancel or to connect.
OsintFairness == /\ WF_osintVars(OsintRequest) /\ WF_osintVars(Poller)
                 /\ WF_osintVars(CancelUpdate) /\ WF_osintVars(Stream)

OsintSpec == OsintInit /\ [][OsintNext]_osintVars /\ OsintFairness

-----------------------------------------------------------------------------
\* "Background poller harvests results and handles 30-min timeout": a scan
\* that never ends, or that is deleted under the poller, ends all the
\* same, and so does its stream.
InvestigationEnds ==
  /\ status = "RUNNING" ~> (status # "RUNNING" \/ osintFaults > 0)
  /\ stream = "findings" ~> (stream \in {"closed", "left"} \/ osintFaults > 0)

\* The safety half of it: an investigation without a final status is in the
\* hands of the request or of the poller, whoever wrote its status meanwhile.
RunningIsAttended ==
  osintFaults = 0 /\ start # "none" =>
    StreamEnds \/ start # "done" \/ poller \notin {"none", "end"}

\* An investigation reported FINISHED by the poller has its findings in the
\* table by then, though the status is also written by three other places.
FinishedIsHarvested ==
  status = "FINISHED" /\ osintFaults = 0 /\ scan # "deleted" => stored = Findings

\* "On timeout: stops scan": SpiderFoot is not left running.
TimeoutStopsScan == status = "TIMEOUT" /\ osintFaults = 0 => scan # "RUNNING"
=============================================================================
