---------------------------- MODULE UbuntuPipeline ---------------------------
(***************************************************************************)
(* The telemetry path over the Ubuntu box: EvidenceArchiver appends raw    *)
(* lines to one archive a day and seals each with a checksum               *)
(* (ubuntu/evidence_archiver.py); NormalizationWriter reads the archive of *)
(* the day from a line offset in memory and appends normalised lines to    *)
(* the file of the day (ubuntu/normalization_server.py); MalcolmCollector  *)
(* fetches the latest file and keeps a count of lines in system_kv.        *)
(* A line is its number; the ones in Unreadable do not parse for the       *)
(* writer, those in Garbled for the collector, and Raising are normalised  *)
(* lines that the collector cannot make an event of.                       *)
(***************************************************************************)
EXTENDS Naturals, Sequences, FiniteSets, Subsequences

CONSTANTS
  MaxLines,        \* bound on the lines received
  MaxDays,         \* bound on the days
  Unreadable,      \* the lines that the writer leaves out
  Garbled,         \* those whose normalised form is no JSON (splitlines cuts at U+2028)
  Raising,         \* those on which int(src_port) or NormalizedEvent raises
  MaxUbuntuFaults  \* bound on failures and restarts

ASSUME UbuntuPipelineAssumption ==
  MaxLines \in Nat /\ MaxDays \in Nat \ {0} /\ MaxUbuntuFaults \in Nat
  /\ Unreadable \cup Garbled \cup Raising \subseteq Nat /\ Garbled \cap Raising = {}

VARIABLES
  today,
  raw,       \* day -> the archive of that day, raw/eve and raw/syslog as one
  archDay,   \* _current_date of the archiver
  sealed,    \* day -> the archive as its checksum has it, <<>> for none
  scanDay,   \* _current_date of the writer
  offset,    \* lines it has processed of that day's archive
  normal,    \* day -> its NDJSON file
  lineCount, \* malcolm.ubuntu_normalized.last_line_count
  fetchedLines,  \* lines the collector has fetched
  eventsMade,    \* line -> events made of it: 0, 1 or 2
  ubuntuFaults

ubuntuVars == <<today, raw, archDay, sealed, scanDay, offset, normal,
                lineCount, fetchedLines, eventsMade, ubuntuFaults>>
archive == <<raw, archDay, sealed>>
writer == <<scanDay, offset, normal>>
collector == <<lineCount, fetchedLines, eventsMade>>

Days == 1..MaxDays
Received == UNION {{raw[d][i] : i \in DOMAIN raw[d]} : d \in Days}

UbuntuInit ==
  /\ today = 1 /\ archDay = 1 /\ scanDay = 1
  /\ raw = [d \in Days |-> <<>>] /\ sealed = [d \in Days |-> <<>>] /\ normal = [d \in Days |-> <<>>]
  /\ offset = 0 /\ lineCount = 0 /\ fetchedLines = {} /\ ubuntuFaults = 0
  /\ eventsMade = [l \in 1..MaxLines |-> 0]

UbuntuFault == ubuntuFaults < MaxUbuntuFaults /\ ubuntuFaults' = ubuntuFaults + 1

Midnight == today < MaxDays /\ today' = today + 1 /\ UNCHANGED <<archive, writer, collector, ubuntuFaults>>

-----------------------------------------------------------------------------
\* write_eve_line and write_syslog_line, with rotate_if_needed before them: the
\* day is sealed at the first line of a later one.
Receive ==
  /\ Cardinality(Received) < MaxLines
  /\ sealed' = IF archDay # today THEN [sealed EXCEPT ![archDay] = raw[archDay]] ELSE sealed
  /\ archDay' = today
  /\ raw' = [raw EXCEPT ![today] = Append(@, Cardinality(Received) + 1)]
  /\ UNCHANGED <<today, writer, collector, ubuntuFaults>>

\* A restart takes the day of the clock; the day before is never sealed.
RestartArchiver == UbuntuFault /\ archDay' = today /\ UNCHANGED <<today, raw, sealed, writer, collector>>

-----------------------------------------------------------------------------
\* _reset_if_new_day
Start == IF scanDay = today THEN offset ELSE 0

\* _read_new_lines_gz, and what is appended of it.
NewLines == SubSeq(raw[today], Start + 1, Len(raw[today]))
ReadableAt(lines) == {i \in DOMAIN lines : lines[i] \notin Unreadable}
Readable(lines) == SubsequenceAt(lines, ReadableAt(lines))

\* Mutant: the offset counts what was appended.
ScannedAfterReadable(lines) == Start + Len(Readable(lines))

\* Lines that do not parse count as processed.
ScannedAfter(lines) == Start + Len(lines)

\* process_once.  A read error leaves the rest of the archive for the next.
ProcessOnce ==
  /\ \E n \in 0..Len(NewLines) :
       LET lines == SubSeq(NewLines, 1, n)
       IN /\ normal' = [normal EXCEPT ![today] = @ \o Readable(lines)]
          /\ offset' = ScannedAfter(lines)
          /\ IF n = Len(NewLines) THEN UNCHANGED ubuntuFaults ELSE UbuntuFault
  /\ scanDay' = today
  /\ UNCHANGED <<today, archive, collector>>

\* The server stops, perhaps in the middle of process_once, and starts.
RestartWriter ==
  /\ UbuntuFault
  /\ \E n \in 0..Len(NewLines) :
       normal' = [normal EXCEPT ![today] = @ \o Readable(SubSeq(NewLines, 1, n))]
  /\ scanDay' = today /\ offset' = 0
  /\ UNCHANGED <<today, archive, collector>>

-----------------------------------------------------------------------------
\* What the file of the day has behind the count.
Fresh == SubSeq(normal[today], lineCount + 1, Len(normal[today]))

\* Only json.JSONDecodeError is caught: a line that raises ends the whole poll,
\* before the count is saved.
MayAdvance(lines) == lines \cap Raising = {}

\* _poll_ubuntu_normalizer, which saves the count before _poll_and_ingest
\* ingests: a failure in between loses the lines.  A poll that raises changes
\* nothing, and the next one meets the same lines again.
PollUbuntu ==
  LET lines == {Fresh[i] : i \in DOMAIN Fresh}
      times(l) == IF l \in Garbled THEN 0 ELSE Cardinality({i \in DOMAIN Fresh : Fresh[i] = l})
  IN /\ Fresh # <<>> /\ MayAdvance(lines)
     /\ lineCount' = lineCount + Len(Fresh)
     /\ fetchedLines' = fetchedLines \union lines
     /\ \/ eventsMade' = [l \in DOMAIN eventsMade |-> IF eventsMade[l] + times(l) > 2 THEN 2 ELSE eventsMade[l] + times(l)] /\ UNCHANGED ubuntuFaults
        \/ UbuntuFault /\ UNCHANGED eventsMade
     /\ UNCHANGED <<today, archive, writer>>

UbuntuNext == Midnight \/ Receive \/ RestartArchiver \/ ProcessOnce \/ RestartWriter \/ PollUbuntu

\* The writer scans every five seconds, the collector polls at its interval.
UbuntuSpec == UbuntuInit /\ [][UbuntuNext]_ubuntuVars /\ WF_ubuntuVars(ProcessOnce) /\ WF_ubuntuVars(PollUbuntu)

-----------------------------------------------------------------------------
\* Without failures no line becomes two events, whatever day it is.
IsOnce(l) == ubuntuFaults = 0 => eventsMade[l] <= 1
LinesAreOnce == \A l \in 1..MaxLines : IsOnce(l)

\* The line waits in the file, and a line that raises waits with it: no poll of
\* the day gets past them.
HeldUp(l) == LET lines == {Fresh[i] : i \in DOMAIN Fresh}
             IN  l \in lines /\ lines \cap Raising # {}

\* Within one day, and without failures, every line that both ends can read
\* becomes one event and only one, in whatever order archive, writer and
\* collector run, unless a line that raises stops the collector before it: then
\* it stays behind the count, and is not lost while the day lasts.
LinesAreIngested ==
  /\ \A l \in 1..MaxLines :
       (l \in Received) ~> \/ eventsMade[l] = 1 \/ HeldUp(l)
                           \/ l \in Unreadable \cup Garbled \/ today > 1 \/ ubuntuFaults > 0
  /\ [](\A l \in 1..MaxLines : IsOnce(l))

\* What the collector did with a line that it has passed.
Arrived(l) == l \in Garbled \/ (eventsMade[l] = 1 /\ l \notin Raising)

\* The safety half of the first part: what lies below the offset of the writer
\* is in its file unless it does not parse, and what lies below the count of the
\* collector has become an event unless it is no JSON; no line that raises is
\* there.
LinesAreTaken ==
  today = 1 /\ ubuntuFaults = 0 =>
    /\ \A i \in DOMAIN raw[1] :
         i <= offset /\ raw[1][i] \notin Unreadable => \E j \in DOMAIN normal[1] : normal[1][j] = raw[1][i]
    /\ \A j \in DOMAIN normal[1] : j <= lineCount => Arrived(normal[1][j])

\* "Skips already-seen lines (file is append-only)", malcolm_collector.py:1299:
\* what lies below the count in the latest file has been fetched before.
SkippedIsSeen == \A i \in DOMAIN normal[today] : i <= lineCount => normal[today][i] \in fetchedLines
==============================================================================
