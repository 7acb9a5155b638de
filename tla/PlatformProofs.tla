--------------------------- MODULE PlatformProofs ----------------------------
(***************************************************************************)
(* Proofs about the uploads and their jobs, the agentic investigation and  *)
(* the migrations of both databases, for any files, tools' findings,       *)
(* investigations, tool results and earlier versions: an upload's job is   *)
(* true to what is on record, a stream is well formed and an agent's       *)
(* verdict is its own, and a start that is through leaves a schema that    *)
(* the stores' statements fit.                                             *)
(***************************************************************************)
EXTENDS IngestJobs, AgentRun, Schema, FiniteSetTheorems, SequenceTheorems, TLAPS

-----------------------------------------------------------------------------
(* Uploads.                                                                *)

JobsTypes ==
  /\ file \in [Uploads -> Files]
  /\ job \in [Uploads -> {"none", "queued", "running", "complete", "error"}]
  /\ stage \in [Uploads -> {"none", "queued", "parse", "ingest", "trace", "scan", "complete", "ended"}]
  /\ tool \in [Uploads -> 1 .. Len(Tools) + 1]
  /\ putOut \in [Uploads -> Int]
  /\ DOMAIN ownEvents = Uploads /\ DOMAIN loaded = Uploads

\* The entry in _JOBS goes with the stage of the task.
JobGoesWithTask(u) ==
  /\ stage[u] = "none" => job[u] = "none"
  /\ stage[u] = "queued" => job[u] = "queued"
  /\ stage[u] \in {"parse", "ingest", "trace", "scan", "complete"} => job[u] = "running"
  /\ stage[u] = "ended" => job[u] \in {"complete", "error", "none"}

Through(u) == stage[u] = "complete" \/ job[u] = "complete"

\* A job that went on after ingest_events has its events in the table, or knows
\* of none; after the provenance those of its own can be traced.
EventsAreIn(u) ==
  /\ Ids(ownEvents[u]) \subseteq Ids(EventsOf(u))
  /\ (stage[u] \in {"trace", "scan"} \/ Through(u)) =>
       <<u, "ingest">> \in hurt \/ Ids(EventsOf(u)) \subseteq Ids(stored)
  /\ (stage[u] = "scan" \/ Through(u)) =>
       \/ <<u, "ingest">> \in hurt
       \/ <<u, "trace">> \in hurt
       \/ Ids(ownEvents[u]) \subseteq traced
LoadedIsTrue(u) ==
  stage[u] = "trace" => <<u, "ingest">> \in hurt \/ loaded[u] \/ ownEvents[u] = {}

\* A scan that is under way has inserted what it counts, and the scanners
\* before it are done with.
IsDone(u, i) == <<Tools[i], file[u]>> \in scanned \/ <<u, Tools[i]>> \in hurt
ScansAreMade(u) ==
  /\ stage[u] \in {"none", "queued", "parse", "ingest", "trace"} => tool[u] = 1 /\ putOut[u] = -1
  /\ stage[u] = "scan" =>
       /\ tool[u] \in 1 .. Len(Tools)
       /\ putOut[u] \in -1 .. Findings[Tool(u)]
       /\ \A n \in 1 .. putOut[u] : <<Tool(u), u, n>> \in inserted
       /\ \A i \in 1 .. tool[u] - 1 : IsDone(u, i)
  /\ Through(u) /\ Suffix(u) = ".evtx" => \A i \in 1 .. Len(Tools) : IsDone(u, i)

JobInv(u) == JobGoesWithTask(u) /\ EventsAreIn(u) /\ LoadedIsTrue(u) /\ ScansAreMade(u)
JobsInv == JobsTypes /\ ScannedIsFound /\ \A u \in Uploads : JobInv(u)

\* What is on record only grows, and an upload keeps its file.
RecordsGrow ==
  /\ file' = file
  /\ stored \subseteq stored' /\ traced \subseteq traced' /\ inserted \subseteq inserted'
  /\ scanned \subseteq scanned' /\ silent \subseteq silent' /\ hurt \subseteq hurt'
TaskOf(u) == <<job[u], stage[u], tool[u], putOut[u], ownEvents[u]>>

LEMMA ToolsAre ==
  /\ Len(Tools) = 2 /\ DOMAIN Tools = 1 .. 2
  /\ Tools[1] = "hayabusa" /\ Tools[2] = "chainsaw"
  BY DEF Tools

LEMMA FindingsAre ==
  ASSUME NEW i \in 1 .. Len(Tools)
  PROVE  Findings[Tools[i]] \in Nat
  BY ToolsAre, IngestJobsAssumption

LEMMA EventsStay ==
  ASSUME file' = file, NEW u \in Uploads
  PROVE  EventsOf(u)' = EventsOf(u) /\ Suffix(u)' = Suffix(u)
  BY DEF EventsOf, IdOf, NormaliseRaises, Readable, Parser, Suffix

LEMMA IdsGrow ==
  ASSUME NEW A, NEW B, A \subseteq B
  PROVE  Ids(A) \subseteq Ids(B)
  BY DEF Ids

\* A job whose task does not move keeps all it has.
LEMMA JobIsKept ==
  ASSUME NEW u \in Uploads, JobInv(u), RecordsGrow, TaskOf(u)' = TaskOf(u), loaded'[u] = loaded[u]
  PROVE  JobInv(u)'
  <1>1. /\ job'[u] = job[u] /\ stage'[u] = stage[u] /\ tool'[u] = tool[u] /\ putOut'[u] = putOut[u]
        /\ ownEvents'[u] = ownEvents[u] /\ file'[u] = file[u]
    BY DEF TaskOf, RecordsGrow
  <1>2. EventsOf(u)' = EventsOf(u) /\ Suffix(u)' = Suffix(u) /\ Ids(stored) \subseteq Ids(stored') /\ Tool(u)' = Tool(u)
    BY <1>1, EventsStay, IdsGrow DEF RecordsGrow, Tool
  <1>3. JobGoesWithTask(u)'
    BY <1>1 DEF JobGoesWithTask, JobInv
  <1>4. EventsAreIn(u)'
    BY <1>1, <1>2 DEF EventsAreIn, JobInv, RecordsGrow, Through, Ids
  <1>5. LoadedIsTrue(u)'
    BY <1>1 DEF LoadedIsTrue, JobInv, RecordsGrow
  <1>6. \A i : IsDone(u, i) => IsDone(u, i)'
    BY <1>1 DEF IsDone, RecordsGrow
  <1>7. ScansAreMade(u)'
    BY <1>1, <1>2, <1>6 DEF ScansAreMade, JobInv, RecordsGrow, Through
  <1> QED
    BY <1>3, <1>4, <1>5, <1>7 DEF JobInv

LEMMA ScansAreKept ==
  ASSUME ScannedIsFound, RecordsGrow, scanned' = scanned
  PROVE  ScannedIsFound'
  BY DEF ScannedIsFound, RecordsGrow

\* A step of one job.
LEMMA JobSteps ==
  ASSUME JobsInv, NEW u \in Uploads, JobsTypes', RecordsGrow, ScannedIsFound', JobInv(u)',
         \A v \in Uploads \ {u} : TaskOf(v)' = TaskOf(v) /\ loaded'[v] = loaded[v]
  PROVE  JobsInv'
  <1> SUFFICES ASSUME NEW v \in Uploads PROVE JobInv(v)'
    BY DEF JobsInv
  <1> QED
    BY JobIsKept DEF JobsInv

LEMMA InitHasJobs == JobsInit => JobsInv
  <1> SUFFICES ASSUME JobsInit PROVE JobsInv
    OBVIOUS
  <1>1. JobsTypes
    BY ToolsAre DEF JobsInit, JobsTypes
  <1>2. ScannedIsFound
    BY DEF JobsInit, ScannedIsFound
  <1> SUFFICES ASSUME NEW u \in Uploads PROVE JobInv(u)
    BY <1>1, <1>2 DEF JobsInv
  <1>3. job[u] = "none" /\ stage[u] = "none" /\ tool[u] = 1 /\ putOut[u] = -1 /\ ownEvents[u] = {}
    BY DEF JobsInit
  <1> QED
    BY <1>3 DEF JobInv, JobGoesWithTask, EventsAreIn, LoadedIsTrue, ScansAreMade, Through, Ids

\* A step that moves the task of a job on, and its entry with it, while what it
\* parsed and scanned stays.
LEMMA TaskMoves ==
  ASSUME JobsInv, NEW u \in Uploads, NEW s, NEW j,
         stage' = [stage EXCEPT ![u] = s], job' = [job EXCEPT ![u] = j],
         UNCHANGED <<file, tool, putOut, ownEvents, loaded, stored, traced, inserted, scanned, silent, hurt>>,
         /\ s \in {"none", "queued", "parse", "ingest", "trace", "scan", "complete", "ended"}
         /\ j \in {"none", "queued", "running", "complete", "error"},
         \/ s = "queued" /\ j = "queued" /\ stage[u] = "none"
         \/ s \in {"parse", "ingest"} /\ j = "running" /\ stage[u] \in {"queued", "parse"}
         \/ s = "ended" /\ j = "error"
         \/ s = "ended" /\ j = "complete" /\ stage[u] = "complete"
  PROVE  JobsInv'
  <1>1. JobsTypes /\ ScannedIsFound /\ JobInv(u)
    BY DEF JobsInv
  <1>2. /\ stage'[u] = s /\ job'[u] = j
        /\ \A v \in Uploads \ {u} : stage'[v] = stage[v] /\ job'[v] = job[v]
        /\ stage' \in [Uploads -> {"none", "queued", "parse", "ingest", "trace", "scan", "complete", "ended"}]
        /\ job' \in [Uploads -> {"none", "queued", "running", "complete", "error"}]
    BY <1>1 DEF JobsTypes
  <1>3. JobsTypes'
    BY <1>1, <1>2 DEF JobsTypes
  <1>4. RecordsGrow /\ ScannedIsFound'
    BY <1>1, ScansAreKept DEF RecordsGrow
  <1>5. \A v \in Uploads \ {u} : TaskOf(v)' = TaskOf(v) /\ loaded'[v] = loaded[v]
    BY <1>2 DEF TaskOf
  <1>6. EventsOf(u)' = EventsOf(u) /\ Suffix(u)' = Suffix(u) /\ Tool(u)' = Tool(u)
    BY EventsStay DEF Tool
  <1>7. JobGoesWithTask(u)'
    BY <1>2 DEF JobGoesWithTask
  <1>8. Through(u)' => Through(u) /\ stage[u] = "complete"
    BY <1>2 DEF Through
  <1>9. EventsAreIn(u)'
    BY <1>1, <1>2, <1>6, <1>8 DEF EventsAreIn, JobInv, Ids
  <1>10. LoadedIsTrue(u)'
    BY <1>2 DEF LoadedIsTrue
  <1>11. \A i : IsDone(u, i) => IsDone(u, i)'
    BY DEF IsDone
  <1>12. ScansAreMade(u)'
    BY <1>1, <1>2, <1>6, <1>8, <1>11 DEF ScansAreMade, JobInv
  <1> QED
    BY <1>3, <1>4, <1>5, <1>7, <1>9, <1>10, <1>12, JobSteps DEF JobInv

LEMMA EntryKeeps ==
  ASSUME JobsInv, NEW u \in Uploads, Upload(u) \/ StartJob(u) \/ Parse(u) \/ Complete(u)
  PROVE  JobsInv'
  <1>1. JobsTypes /\ JobInv(u)
    BY DEF JobsInv
  <1>2. CASE Upload(u)
    BY <1>2, TaskMoves DEF Upload
  <1>3. CASE StartJob(u)
    BY <1>3, TaskMoves DEF StartJob, Ends
  <1>4. CASE Parse(u)
    <2>1. stage[u] = "parse" /\ job[u] = "running" /\ job = [job EXCEPT ![u] = "running"]
      BY <1>1, <1>4 DEF Parse, JobInv, JobGoesWithTask, JobsTypes
    <2> QED
      BY <1>4, <2>1, TaskMoves DEF Parse, Ends
  <1>5. CASE Complete(u)
    BY <1>5, TaskMoves DEF Complete
  <1> QED
    BY <1>2, <1>3, <1>4, <1>5

\* ingest_events: what is not in the table yet goes into it.
LEMMA IngestKeeps ==
  ASSUME JobsInv, NEW u \in Uploads, Ingest(u)
  PROVE  JobsInv'
  <1>1. JobsTypes /\ ScannedIsFound /\ JobInv(u)
    BY DEF JobsInv
  <1>2. CASE NormaliseRaises(u) /\ Ends(u) /\ UNCHANGED <<ownEvents, loaded, stored, hurt, faults>>
    BY <1>2, TaskMoves DEF Ingest, Ends
  <1>3. CASE ~(NormaliseRaises(u) /\ Ends(u) /\ UNCHANGED <<ownEvents, loaded, stored, hurt, faults>>)
    <2> DEFINE new == {e \in EventsOf(u) : e.id \notin Ids(stored)}
    <2>1. /\ stage[u] = "ingest" /\ stage' = [stage EXCEPT ![u] = "trace"]
          /\ stored' = stored \cup ownEvents'[u]
          /\ UNCHANGED <<file, job, tool, putOut, traced, inserted, scanned, silent>>
      BY <1>3 DEF Ingest
    <2>2. \/ /\ ownEvents' = [ownEvents EXCEPT ![u] = new]
             /\ loaded' = [loaded EXCEPT ![u] = new # {}]
             /\ hurt' = hurt
          \/ /\ \E rows \in SUBSET new : ownEvents' = [ownEvents EXCEPT ![u] = rows]
             /\ hurt' = hurt \cup {<<u, "ingest">>}
             /\ loaded' = loaded
      BY <1>3 DEF Ingest
    <2> HIDE DEF new
    <2>3. /\ DOMAIN ownEvents' = Uploads /\ DOMAIN loaded' = Uploads
          /\ \A v \in Uploads \ {u} : ownEvents'[v] = ownEvents[v] /\ loaded'[v] = loaded[v]
      BY <1>1, <2>2 DEF JobsTypes
    <2>4. ownEvents'[u] \subseteq new
      BY <1>1, <2>2 DEF JobsTypes
    <2>5. <<u, "ingest">> \in hurt' \/ ownEvents'[u] = new
      BY <1>1, <2>2 DEF JobsTypes
    <2>6. \/ <<u, "ingest">> \in hurt'
          \/ loaded'[u]
          \/ ownEvents'[u] = {}
      BY <1>1, <2>2 DEF JobsTypes
    <2>7. /\ stage'[u] = "trace" /\ \A v \in Uploads \ {u} : stage'[v] = stage[v]
          /\ stage' \in [Uploads -> {"none", "queued", "parse", "ingest", "trace", "scan", "complete", "ended"}]
      BY <1>1, <2>1 DEF JobsTypes
    <2>8. JobsTypes'
      BY <1>1, <2>1, <2>3, <2>7 DEF JobsTypes
    <2>9. RecordsGrow
      BY <2>1, <2>2 DEF RecordsGrow
    <2>10. ScannedIsFound'
      BY <1>1, <2>1, <2>9, ScansAreKept
    <2>11. \A v \in Uploads \ {u} : TaskOf(v)' = TaskOf(v) /\ loaded'[v] = loaded[v]
      BY <2>1, <2>3, <2>7 DEF TaskOf
    <2>12. EventsOf(u)' = EventsOf(u)
      BY <2>1, EventsStay
    <2>13. job'[u] = "running" /\ tool'[u] = 1 /\ putOut'[u] = -1 /\ ~Through(u)'
      BY <1>1, <2>1, <2>7 DEF JobInv, JobGoesWithTask, ScansAreMade, Through
    <2>14. JobGoesWithTask(u)'
      BY <2>7, <2>13 DEF JobGoesWithTask
    <2>15. EventsAreIn(u)'
      <3>1. Ids(ownEvents'[u]) \subseteq Ids(EventsOf(u))
        BY <2>4 DEF new, Ids
      <3>2. ownEvents'[u] = new => Ids(EventsOf(u)) \subseteq Ids(stored')
        BY <2>1 DEF new, Ids
      <3> QED
        BY <2>5, <2>7, <2>12, <2>13, <3>1, <3>2 DEF EventsAreIn, Ids
    <2>16. LoadedIsTrue(u)'
      BY <2>6 DEF LoadedIsTrue
    <2>17. ScansAreMade(u)'
      BY <2>7, <2>13 DEF ScansAreMade
    <2> QED
      BY <2>8, <2>9, <2>10, <2>11, <2>14, <2>15, <2>16, <2>17, JobSteps DEF JobInv
  <1> QED
    BY <1>2, <1>3

\* The provenance of every event that was parsed, if one was loaded.
LEMMA TraceKeeps ==
  ASSUME JobsInv, NEW u \in Uploads, Trace(u)
  PROVE  JobsInv'
  <1>1. JobsTypes /\ ScannedIsFound /\ JobInv(u)
    BY DEF JobsInv
  <1> DEFINE next == IF Suffix(u) = ".evtx" THEN "scan" ELSE "complete"
  <1>2. /\ stage[u] = "trace" /\ stage' = [stage EXCEPT ![u] = next]
        /\ UNCHANGED <<file, job, tool, putOut, ownEvents, loaded, stored, inserted, scanned, silent>>
    BY DEF Trace
  <1>3. \/ traced' = traced \cup Ids(EventsOf(u)) /\ hurt' = hurt
        \/ hurt' = hurt \cup {<<u, "trace">>} /\ traced' = traced
        \/ ~loaded[u] /\ traced' = traced /\ hurt' = hurt
    BY DEF Trace
  <1>4. next \in {"scan", "complete"} /\ (next = "scan" <=> Suffix(u) = ".evtx")
    OBVIOUS
  <1> HIDE DEF next
  <1>5. /\ stage'[u] = next /\ \A v \in Uploads \ {u} : stage'[v] = stage[v]
        /\ stage' \in [Uploads -> {"none", "queued", "parse", "ingest", "trace", "scan", "complete", "ended"}]
    BY <1>1, <1>2, <1>4 DEF JobsTypes
  <1>6. JobsTypes'
    BY <1>1, <1>2, <1>5 DEF JobsTypes
  <1>7. RecordsGrow
    BY <1>2, <1>3 DEF RecordsGrow
  <1>8. ScannedIsFound'
    BY <1>1, <1>2, <1>7, ScansAreKept
  <1>9. \A v \in Uploads \ {u} : TaskOf(v)' = TaskOf(v) /\ loaded'[v] = loaded[v]
    BY <1>2, <1>5 DEF TaskOf
  <1>10. EventsOf(u)' = EventsOf(u) /\ Suffix(u)' = Suffix(u) /\ Tool(u)' = Tool(u)
    BY <1>2, EventsStay DEF Tool
  <1>11. job[u] = "running" /\ tool[u] = 1 /\ putOut[u] = -1
    BY <1>1, <1>2 DEF JobInv, JobGoesWithTask, ScansAreMade
  <1>12. JobGoesWithTask(u)'
    BY <1>2, <1>4, <1>5, <1>11 DEF JobGoesWithTask
  <1>13. <<u, "ingest">> \in hurt \/ Ids(EventsOf(u)) \subseteq Ids(stored)
    BY <1>1, <1>2 DEF JobInv, EventsAreIn
  <1>14. Ids(ownEvents[u]) \subseteq Ids(EventsOf(u))
    BY <1>1 DEF JobInv, EventsAreIn
  <1>15. <<u, "ingest">> \in hurt' \/ <<u, "trace">> \in hurt' \/ Ids(ownEvents[u]) \subseteq traced'
    <2>1. CASE ~loaded[u] /\ hurt' = hurt
      <3>1. <<u, "ingest">> \in hurt \/ ownEvents[u] = {}
        BY <1>1, <1>2, <2>1 DEF JobInv, LoadedIsTrue
      <3> QED
        BY <2>1, <3>1 DEF Ids
    <2> QED
      BY <1>3, <1>14, <2>1
  <1>16. EventsAreIn(u)'
    BY <1>2, <1>7, <1>10, <1>13, <1>14, <1>15 DEF EventsAreIn, RecordsGrow
  <1>17. LoadedIsTrue(u)'
    BY <1>4, <1>5 DEF LoadedIsTrue
  <1>18. ScansAreMade(u)'
    <2>1. tool'[u] = 1 /\ putOut'[u] = -1 /\ Len(Tools) = 2
      BY <1>2, <1>11, ToolsAre
    <2>2. Findings[Tool(u)] \in Nat
      BY <1>11, ToolsAre, FindingsAre DEF Tool
    <2>3. Through(u)' => Suffix(u)' # ".evtx"
      BY <1>2, <1>4, <1>5, <1>10, <1>11 DEF Through
    <2> QED
      BY <1>4, <1>5, <1>10, <2>1, <2>2, <2>3 DEF ScansAreMade
  <1> QED
    BY <1>6, <1>7, <1>8, <1>9, <1>12, <1>16, <1>17, <1>18, JobSteps DEF JobInv

\* The scan that runs is left behind, with its tool done: there is a mark for
\* the file, or the error was logged.
LEMMA NextToolKeeps ==
  ASSUME JobsInv, NEW u \in Uploads, stage[u] = "scan", ToNextTool(u), RecordsGrow, ScannedIsFound',
         <<Tool(u), file[u]>> \in scanned' \/ <<u, Tool(u)>> \in hurt',
         UNCHANGED <<file, job, ownEvents, loaded, stored, traced, inserted>>
  PROVE  JobsInv'
  <1>1. JobsTypes /\ ScannedIsFound /\ JobInv(u)
    BY DEF JobsInv
  <1> DEFINE next == IF tool[u] = Len(Tools) THEN "complete" ELSE "scan"
  <1>2. /\ tool' = [tool EXCEPT ![u] = tool[u] + 1]
        /\ putOut' = [putOut EXCEPT ![u] = -1]
        /\ stage' = [stage EXCEPT ![u] = next]
    BY DEF ToNextTool
  <1>3. /\ next \in {"scan", "complete"}
        /\ (next = "complete" <=> tool[u] = Len(Tools))
    OBVIOUS
  <1> HIDE DEF next
  <1>4. /\ tool[u] \in 1 .. Len(Tools) /\ job[u] = "running"
        /\ \A i \in 1 .. tool[u] - 1 : IsDone(u, i)
    BY <1>1 DEF JobInv, ScansAreMade, JobGoesWithTask
  <1>5. Len(Tools) = 2
    BY ToolsAre
  <1>6. /\ stage'[u] = next /\ tool'[u] = tool[u] + 1 /\ putOut'[u] = -1
        /\ \A v \in Uploads \ {u} : stage'[v] = stage[v] /\ tool'[v] = tool[v] /\ putOut'[v] = putOut[v]
    BY <1>1, <1>2 DEF JobsTypes
  <1>7. JobsTypes'
    <2>1. stage' \in [Uploads -> {"none", "queued", "parse", "ingest", "trace", "scan", "complete", "ended"}]
      BY <1>1, <1>2, <1>3 DEF JobsTypes
    <2>2. tool' \in [Uploads -> 1 .. Len(Tools) + 1]
      BY <1>1, <1>2, <1>4, <1>5 DEF JobsTypes
    <2>3. putOut' \in [Uploads -> Int]
      BY <1>1, <1>2 DEF JobsTypes
    <2> QED
      BY <1>1, <2>1, <2>2, <2>3 DEF JobsTypes
  <1>8. \A v \in Uploads \ {u} : TaskOf(v)' = TaskOf(v) /\ loaded'[v] = loaded[v]
    BY <1>6 DEF TaskOf
  <1>9. EventsOf(u)' = EventsOf(u) /\ Suffix(u)' = Suffix(u)
    BY EventsStay
  <1>10. JobGoesWithTask(u)'
    BY <1>3, <1>4, <1>6 DEF JobGoesWithTask
  <1>11. EventsAreIn(u)'
    BY <1>1, <1>3, <1>6, <1>9 DEF EventsAreIn, JobInv, Through, RecordsGrow
  <1>12. LoadedIsTrue(u)'
    BY <1>3, <1>6 DEF LoadedIsTrue
  <1>13. \A i : IsDone(u, i) => IsDone(u, i)'
    BY DEF IsDone, RecordsGrow
  <1>14. \A i : i = tool[u] => IsDone(u, i)'
    BY DEF IsDone, Tool
  <1>15. \A i \in 1 .. tool[u] : IsDone(u, i)'
    BY <1>4, <1>5, <1>13, <1>14
  <1>16. ScansAreMade(u)'
    <2>1. stage'[u] = "scan" => tool'[u] \in 1 .. Len(Tools) /\ Findings[Tool(u)'] \in Nat
      BY <1>3, <1>4, <1>5, <1>6, FindingsAre DEF Tool
    <2>2. Through(u)' => tool[u] = Len(Tools)
      BY <1>3, <1>4, <1>6 DEF Through
    <2> QED
      BY <1>3, <1>4, <1>5, <1>6, <1>15, <2>1, <2>2 DEF ScansAreMade
  <1> QED
    BY <1>7, <1>8, <1>10, <1>11, <1>12, <1>16, JobSteps DEF JobInv

\* A scan goes on: it starts to put out, puts out one more, or ends early.
LEMMA ScanGoesOn ==
  ASSUME JobsInv, NEW u \in Uploads, stage[u] = "scan", NEW n \in -1 .. Findings[Tool(u)],
         putOut' = [putOut EXCEPT ![u] = n], RecordsGrow, scanned' = scanned,
         \A k \in 1 .. n : <<Tool(u), u, k>> \in inserted',
         UNCHANGED <<file, job, stage, tool, ownEvents, loaded, stored, traced, hurt>>
  PROVE  JobsInv'
  <1>1. JobsTypes /\ ScannedIsFound /\ JobInv(u)
    BY DEF JobsInv
  <1>2. tool[u] \in 1 .. Len(Tools)
    BY <1>1 DEF JobInv, ScansAreMade
  <1>3. Findings[Tool(u)] \in Nat
    BY <1>2, FindingsAre DEF Tool
  <1>4. putOut'[u] = n /\ \A v \in Uploads \ {u} : putOut'[v] = putOut[v]
    BY <1>1 DEF JobsTypes
  <1>5. putOut' \in [Uploads -> Int]
    BY <1>1, <1>3 DEF JobsTypes
  <1>6. JobsTypes'
    BY <1>1, <1>5 DEF JobsTypes
  <1>7. ScannedIsFound'
    BY <1>1, ScansAreKept
  <1>8. \A v \in Uploads \ {u} : TaskOf(v)' = TaskOf(v) /\ loaded'[v] = loaded[v]
    BY <1>4 DEF TaskOf
  <1>9. EventsOf(u)' = EventsOf(u) /\ Suffix(u)' = Suffix(u) /\ Tool(u)' = Tool(u) /\ Through(u)' = Through(u)
    BY EventsStay DEF Tool, Through
  <1>10. JobGoesWithTask(u)' /\ LoadedIsTrue(u)'
    BY <1>1 DEF JobInv, JobGoesWithTask, LoadedIsTrue
  <1>11. EventsAreIn(u)'
    BY <1>1, <1>9 DEF JobInv, EventsAreIn
  <1>12. \A i : IsDone(u, i) => IsDone(u, i)'
    BY DEF IsDone, RecordsGrow
  <1>13. ScansAreMade(u)'
    BY <1>1, <1>4, <1>9, <1>12 DEF JobInv, ScansAreMade
  <1> QED
    BY <1>6, <1>7, <1>8, <1>10, <1>11, <1>13, JobSteps DEF JobInv

LEMMA ScanKeeps ==
  ASSUME JobsInv, NEW u \in Uploads,
         StartScan(u) \/ InsertFinding(u) \/ EndsEarly(u) \/ MarkScanned(u) \/ ScanFails(u)
  PROVE  JobsInv'
  <1>1. JobsTypes /\ ScannedIsFound /\ JobInv(u) /\ stage[u] = "scan"
    BY DEF JobsInv, StartScan, InsertFinding, EndsEarly, MarkScanned, ScanFails
  <1>2. /\ tool[u] \in 1 .. Len(Tools) /\ putOut[u] \in -1 .. Findings[Tool(u)]
        /\ \A n \in 1 .. putOut[u] : <<Tool(u), u, n>> \in inserted
    BY <1>1 DEF JobInv, ScansAreMade
  <1>3. Findings[Tool(u)] \in Nat
    BY <1>2, FindingsAre DEF Tool
  <1>4. CASE StartScan(u)
    <2>1. CASE <<Tool(u), file[u]>> \in scanned
      <3>1. RecordsGrow /\ scanned' = scanned
        BY <1>4 DEF StartScan, RecordsGrow
      <3>2. ScannedIsFound'
        BY <1>1, <3>1, ScansAreKept
      <3> QED
        BY <1>1, <1>4, <2>1, <3>1, <3>2, NextToolKeeps DEF StartScan
    <2>2. CASE <<Tool(u), file[u]>> \notin scanned
      <3>1. /\ putOut' = [putOut EXCEPT ![u] = 0] /\ RecordsGrow
            /\ UNCHANGED <<file, job, stage, tool, ownEvents, loaded, stored, traced, inserted, scanned, hurt>>
        BY <1>4, <2>2 DEF StartScan, RecordsGrow
      <3>2. 0 \in -1 .. Findings[Tool(u)] /\ \A k \in 1 .. 0 : <<Tool(u), u, k>> \in inserted'
        BY <1>3
      <3> QED
        BY <1>1, <3>1, <3>2, ScanGoesOn
    <2> QED
      BY <2>1, <2>2
  <1>5. CASE InsertFinding(u)
    <2> DEFINE n == putOut[u] + 1
    <2>1. /\ putOut[u] \in 0 .. Findings[Tool(u)] - 1
          /\ inserted' = inserted \cup {<<Tool(u), u, n>>}
          /\ putOut' = [putOut EXCEPT ![u] = n]
          /\ UNCHANGED <<file, job, stage, tool, ownEvents, loaded, stored, traced, scanned, silent, hurt>>
      BY <1>5 DEF InsertFinding
    <2>2. n \in -1 .. Findings[Tool(u)]
      BY <1>3, <2>1
    <2>3. \A k \in 1 .. n : k \in 1 .. putOut[u] \/ k = n
      BY <1>3, <2>1
    <2> HIDE DEF n
    <2>4. \A k \in 1 .. n : <<Tool(u), u, k>> \in inserted'
      BY <1>2, <2>1, <2>3
    <2>5. RecordsGrow
      BY <2>1 DEF RecordsGrow
    <2> QED
      BY <1>1, <2>1, <2>2, <2>4, <2>5, ScanGoesOn
  <1>6. CASE EndsEarly(u)
    <2>1. /\ RecordsGrow
          /\ UNCHANGED <<file, job, stage, tool, putOut, ownEvents, loaded, stored, traced, inserted, scanned, hurt>>
      BY <1>6 DEF EndsEarly, RecordsGrow
    <2>2. putOut' = [putOut EXCEPT ![u] = putOut[u]]
      BY <1>1, <2>1 DEF JobsTypes
    <2> QED
      BY <1>1, <1>2, <2>1, <2>2, ScanGoesOn
  <1>7. CASE MarkScanned(u)
    <2>1. /\ MayMark(u) /\ scanned' = scanned \cup {<<Tool(u), file[u]>>} /\ ToNextTool(u)
          /\ UNCHANGED <<file, job, ownEvents, loaded, stored, traced, inserted, silent, hurt>>
      BY <1>7 DEF MarkScanned
    <2>2. RecordsGrow
      BY <2>1 DEF RecordsGrow
    <2>3. <<Tool(u), u>> \in silent \/ \A k \in 1 .. Findings[Tool(u)] : <<Tool(u), u, k>> \in inserted
      BY <1>2, <2>1 DEF MayMark
    <2>4. ScannedIsFound'
      <3> SUFFICES ASSUME NEW s \in scanned'
                   PROVE  \E v \in Uploads :
                            /\ file[v] = s[2]
                            /\ <<s[1], v>> \in silent \/ \A k \in 1 .. Findings[s[1]] : <<s[1], v, k>> \in inserted
        BY <2>1 DEF ScannedIsFound
      <3>1. CASE s \in scanned
        BY <1>1, <3>1 DEF ScannedIsFound
      <3>2. CASE s = <<Tool(u), file[u]>>
        BY <2>3, <3>2
      <3> QED
        BY <2>1, <3>1, <3>2
    <2> QED
      BY <1>1, <2>1, <2>2, <2>4, NextToolKeeps
  <1>8. CASE ScanFails(u)
    <2>1. /\ hurt' = hurt \cup {<<u, Tool(u)>>} /\ ToNextTool(u) /\ scanned' = scanned
          /\ UNCHANGED <<file, job, ownEvents, loaded, stored, traced, inserted, silent>>
      BY <1>8 DEF ScanFails
    <2>2. RecordsGrow
      BY <2>1 DEF RecordsGrow
    <2>3. ScannedIsFound'
      BY <1>1, <2>1, <2>2, ScansAreKept
    <2> QED
      BY <1>1, <2>1, <2>2, <2>3, NextToolKeeps
  <1> QED
    BY <1>4, <1>5, <1>6, <1>7, <1>8

\* The process ends: no job is complete any more, what is on record stays.
LEMMA ProcessEndKeeps ==
  ASSUME JobsInv, ProcessEnds
  PROVE  JobsInv'
  <1>1. JobsTypes /\ ScannedIsFound /\ \A u \in Uploads : JobInv(u)
    BY DEF JobsInv
  <1>2. /\ job' = [u \in Uploads |-> "none"]
        /\ stage' = [u \in Uploads |-> IF stage[u] = "none" THEN "none" ELSE "ended"]
        /\ UNCHANGED <<file, tool, putOut, ownEvents, loaded, stored, traced, inserted, scanned, silent, hurt>>
    BY DEF ProcessEnds
  <1>3. JobsTypes'
    BY <1>1, <1>2 DEF JobsTypes
  <1>4. ScannedIsFound'
    BY <1>1, <1>2, ScansAreKept DEF RecordsGrow
  <1> SUFFICES ASSUME NEW u \in Uploads PROVE JobInv(u)'
    BY <1>3, <1>4 DEF JobsInv
  <1>5. job'[u] = "none" /\ (stage'[u] = "ended" \/ (stage'[u] = "none" /\ stage[u] = "none"))
    BY <1>2
  <1>6. EventsOf(u)' = EventsOf(u)
    BY <1>2, EventsStay
  <1>7. JobGoesWithTask(u)' /\ LoadedIsTrue(u)'
    BY <1>5 DEF JobGoesWithTask, LoadedIsTrue
  <1>8. EventsAreIn(u)'
    BY <1>1, <1>2, <1>5, <1>6 DEF JobInv, EventsAreIn, Through
  <1>9. ScansAreMade(u)'
    BY <1>1, <1>2, <1>5 DEF JobInv, ScansAreMade, Through
  <1> QED
    BY <1>7, <1>8, <1>9 DEF JobInv

LEMMA JobsInductive == JobsInv /\ [JobsNext]_jobsVars => JobsInv'
  <1> SUFFICES ASSUME JobsInv, [JobsNext]_jobsVars PROVE JobsInv'
    OBVIOUS
  <1>1. CASE ProcessEnds
    BY <1>1, ProcessEndKeeps
  <1>2. ASSUME NEW u \in Uploads, Upload(u) \/ StartJob(u) \/ Parse(u) \/ Complete(u) PROVE JobsInv'
    BY <1>2, EntryKeeps
  <1>3. ASSUME NEW u \in Uploads, Ingest(u) PROVE JobsInv'
    BY <1>3, IngestKeeps
  <1>4. ASSUME NEW u \in Uploads, Trace(u) PROVE JobsInv'
    BY <1>4, TraceKeeps
  <1>5. ASSUME NEW u \in Uploads,
               StartScan(u) \/ InsertFinding(u) \/ EndsEarly(u) \/ MarkScanned(u) \/ ScanFails(u)
        PROVE  JobsInv'
    BY <1>5, ScanKeeps
  <1>6. CASE UNCHANGED jobsVars
    <2>1. UNCHANGED <<file, job, stage, tool, putOut, ownEvents, loaded, stored, traced, inserted, scanned, silent, hurt>>
      BY <1>6 DEF jobsVars
    <2>2. JobsTypes' /\ RecordsGrow /\ \A u \in Uploads : TaskOf(u)' = TaskOf(u) /\ loaded'[u] = loaded[u]
      BY <2>1 DEF JobsInv, JobsTypes, RecordsGrow, TaskOf
    <2>3. ScannedIsFound'
      BY <2>1, <2>2, ScansAreKept DEF JobsInv
    <2> QED
      BY <2>2, <2>3, JobIsKept DEF JobsInv
  <1> QED
    BY <1>1, <1>2, <1>3, <1>4, <1>5, <1>6 DEF JobsNext

LEMMA JobsSafety == JobsSpec => []JobsInv
  BY InitHasJobs, JobsInductive, PTL DEF JobsSpec

\* An upload's job is true to what is on record, and a scan that is never
\* repeated has left its findings (_run_ingestion_job, ingest_file).
THEOREM UploadsAreAccountedFor == JobsSpec => []UploadsAreTrue
  <1>1. JobsInv => UploadsAreTrue
    <2> SUFFICES ASSUME JobsInv, NEW u \in Uploads PROVE JobIsTrue(u)
      BY DEF UploadsAreTrue, JobsInv
    <2>1. JobInv(u)
      BY DEF JobsInv
    <2>2. stage[u] = "ended" => job[u] \in {"complete", "error", "none"}
      BY <2>1 DEF JobInv, JobGoesWithTask
    <2>3. ASSUME job[u] = "complete"
          PROVE  /\ <<u, "ingest">> \in hurt \/ Ids(EventsOf(u)) \subseteq Ids(stored)
                 /\ <<u, "ingest">> \in hurt \/ <<u, "trace">> \in hurt \/ Ids(ownEvents[u]) \subseteq traced
                 /\ Suffix(u) = ".evtx" => \A i \in 1 .. Len(Tools) : IsDone(u, i)
      BY <2>1, <2>3 DEF JobInv, EventsAreIn, ScansAreMade, Through
    <2>4. DOMAIN Tools = 1 .. Len(Tools)
      BY ToolsAre
    <2> QED
      BY <2>2, <2>3, <2>4 DEF JobIsTrue, IsDone
  <1> QED
    BY <1>1, JobsSafety, PTL

\* What is in the table was read from the file of an upload.
StoredIsRead == \A s \in stored : \E u \in Uploads : s \in EventsOf(u)

LEMMA StoredIsReadStep == JobsInv /\ StoredIsRead /\ [JobsNext]_jobsVars => StoredIsRead'
  <1> SUFFICES ASSUME JobsInv, StoredIsRead, [JobsNext]_jobsVars PROVE StoredIsRead'
    OBVIOUS
  <1>1. file' = file
    BY DEF JobsNext, jobsVars, ProcessEnds, Upload, StartJob, Parse, Ingest, Trace, StartScan, InsertFinding,
           EndsEarly, MarkScanned, ScanFails, Complete
  <1>2. \A u \in Uploads : EventsOf(u)' = EventsOf(u)
    BY <1>1, EventsStay
  <1>3. ASSUME NEW u \in Uploads, Ingest(u) PROVE stored' \subseteq stored \cup EventsOf(u)
    <2>1. CASE stored' = stored
      BY <2>1
    <2>2. CASE stored' # stored
      <3> DEFINE new == {e \in EventsOf(u) : e.id \notin Ids(stored)}
      <3>1. stored' = stored \cup ownEvents'[u]
        BY <1>3, <2>2 DEF Ingest
      <3>2. \E rows \in SUBSET new : ownEvents' = [ownEvents EXCEPT ![u] = rows]
        BY <1>3, <2>2 DEF Ingest
      <3>3. ownEvents'[u] \subseteq new
        BY <3>2 DEF JobsInv, JobsTypes
      <3>4. new \subseteq EventsOf(u)
        OBVIOUS
      <3> QED
        BY <3>1, <3>3, <3>4
    <2> QED
      BY <2>1, <2>2
  <1>4. CASE stored' = stored
    BY <1>2, <1>4 DEF StoredIsRead
  <1>5. stored' = stored \/ \E u \in Uploads : Ingest(u)
    BY DEF JobsNext, jobsVars, ProcessEnds, Upload, StartJob, Parse, Trace, StartScan, InsertFinding,
           EndsEarly, MarkScanned, ScanFails, Complete
  <1>6. ASSUME NEW u \in Uploads, Ingest(u) PROVE StoredIsRead'
    BY <1>2, <1>3, <1>6 DEF StoredIsRead
  <1> QED
    BY <1>4, <1>5, <1>6

\* An event is known by its record where no number is in two logs.
LEMMA IdsTell ==
  ASSUME NumbersAreOwn, file \in [Uploads -> Files],
         NEW u \in Uploads, NEW v \in Uploads, NEW e \in EventsOf(u), NEW s \in EventsOf(v), s.id = e.id
  PROVE  s.record = e.record
  <1>1. PICK i \in DOMAIN Content[file[u]].records : e = [id |-> IdOf(u, i), record |-> <<file[u], i>>]
    BY DEF EventsOf
  <1>2. PICK j \in DOMAIN Content[file[v]].records : s = [id |-> IdOf(v, j), record |-> <<file[v], j>>]
    BY DEF EventsOf
  <1>3. IdOf(u, i) = IdOf(v, j)
    BY <1>1, <1>2
  <1>4. u # "evtx" /\ v # "evtx"
    BY IngestJobsAssumption
  <1>5. CASE Content[file[u]].records[i] = "named" /\ Content[file[v]].records[j] = "named"
    <2>1. i = j
      BY <1>3, <1>5 DEF IdOf
    <2>2. file[u] = file[v]
      BY <1>1, <1>2, <1>5, <2>1 DEF NumbersAreOwn
    <2> QED
      BY <1>1, <1>2, <2>1, <2>2
  <1>6. CASE Content[file[u]].records[i] # "named" /\ Content[file[v]].records[j] # "named"
    <2>1. u = v /\ i = j
      BY <1>3, <1>6 DEF IdOf
    <2> QED
      BY <1>1, <1>2, <2>1
  <1>7. ASSUME Content[file[u]].records[i] = "named", Content[file[v]].records[j] # "named" PROVE FALSE
    BY <1>3, <1>4, <1>7 DEF IdOf
  <1>8. ASSUME Content[file[u]].records[i] # "named", Content[file[v]].records[j] = "named" PROVE FALSE
    BY <1>3, <1>4, <1>8 DEF IdOf
  <1> QED
    BY <1>5, <1>6, <1>7, <1>8

\* What the comment in EvtxParser._parse_record says holds under the condition
\* that the ids lack, for any uploads, layouts, errors and restarts.
THEOREM OwnNumbersAreStored ==
  ASSUME NumbersAreOwn
  PROVE  JobsSpec => []RecordsAreStored
  <1>1. JobsInit => StoredIsRead
    BY DEF JobsInit, StoredIsRead
  <1>2. JobsInv /\ StoredIsRead => RecordsAreStored
    <2> SUFFICES ASSUME JobsInv, StoredIsRead, NEW u \in Uploads, job[u] = "complete", <<u, "ingest">> \notin hurt,
                        NEW e \in EventsOf(u)
                 PROVE  e.record \in {s.record : s \in stored}
      BY DEF RecordsAreStored
    <2>1. Ids(EventsOf(u)) \subseteq Ids(stored) /\ file \in [Uploads -> Files]
      BY DEF JobsInv, JobsTypes, JobInv, EventsAreIn, Through
    <2>2. PICK s \in stored : s.id = e.id
      BY <2>1 DEF Ids
    <2>3. PICK v \in Uploads : s \in EventsOf(v)
      BY DEF StoredIsRead
    <2> QED
      BY <2>1, <2>2, <2>3, IdsTell
  <1> QED
    BY <1>1, <1>2, StoredIsReadStep, JobsSafety, PTL DEF JobsSpec

-----------------------------------------------------------------------------
(* The agentic investigation.                                              *)

Words == {"refused", "tool_call", "limit", "error", "done", "agent_TP", "agent_FP",
          "synthesised_TP", "synthesised_INCONCLUSIVE"}
Messages == [kind : {"step"}, calls : Seq(ToolResults)] \cup [kind : {"done", "error"}]

\* What is said of a stream's events in StreamIsWellFormed.
CallsIn(s) == {i \in DOMAIN s : s[i] = "tool_call"}
InOrder(s) == \A i, j \in DOMAIN s : i < j => \/ Rank(s[i]) < Rank(s[j])
                                              \/ s[i] = "tool_call" /\ s[j] = "tool_call"
Answered(s) == (\E i \in DOMAIN s : s[i] = "done") => \E i \in DOMAIN s : Rank(s[i]) = 3
WellFormed(s) == Cardinality(CallsIn(s)) <= MAX_STEPS /\ InOrder(s) /\ Answered(s)

LEMMA Ranks ==
  /\ Rank("tool_call") = 1 /\ Rank("limit") = 2 /\ Rank("done") = 4
  /\ \A x \in Words \ {"tool_call", "limit", "done"} : Rank(x) = 3
  /\ \A x \in Words : Rank(x) \in Nat
  BY DEF Rank, Words

\* An event of a higher rank is added to the stream.
LEMMA WordIsAdded ==
  ASSUME NEW s \in Seq(Words), WellFormed(s), NEW x \in Words, x # "tool_call",
         \A i \in DOMAIN s : Rank(s[i]) < Rank(x),
         x = "done" => \E i \in DOMAIN s : Rank(s[i]) = 3
  PROVE  /\ s \o <<x>> \in Seq(Words) /\ WellFormed(s \o <<x>>)
         /\ CallsIn(s \o <<x>>) = CallsIn(s) /\ Len(s \o <<x>>) = Len(s) + 1
         /\ \A i \in DOMAIN (s \o <<x>>) : (i \in DOMAIN s /\ (s \o <<x>>)[i] = s[i]) \/ (s \o <<x>>)[i] = x
         /\ \A i \in DOMAIN s : i \in DOMAIN (s \o <<x>>) /\ (s \o <<x>>)[i] = s[i]
         /\ \E i \in DOMAIN (s \o <<x>>) : (s \o <<x>>)[i] = x
  <1> DEFINE t == s \o <<x>>
             n == Len(s)
  <1>1. /\ t \in Seq(Words) /\ Len(t) = n + 1 /\ n \in Nat /\ DOMAIN s = 1 .. n /\ DOMAIN t = 1 .. n + 1
        /\ \A i \in 1 .. n : t[i] = s[i]
        /\ t[n + 1] = x
    BY AppendProperties, AppendIsConcat, LenProperties
  <1> HIDE DEF t, n
  <1>2. CallsIn(t) = CallsIn(s)
    BY <1>1 DEF CallsIn
  <1>3. \A i \in 1 .. n : s[i] \in Words
    BY <1>1, ElementOfSeq DEF n
  <1>4. InOrder(t)
    <2> SUFFICES ASSUME NEW i \in 1 .. n + 1, NEW j \in 1 .. n + 1, i < j
                 PROVE  \/ Rank(t[i]) < Rank(t[j])
                        \/ t[i] = "tool_call" /\ t[j] = "tool_call"
      BY <1>1 DEF InOrder
    <2>1. CASE j <= n
      <3>1. i \in 1 .. n /\ j \in 1 .. n
        BY <1>1, <2>1
      <3> QED
        BY <1>1, <3>1 DEF InOrder, WellFormed
    <2>2. CASE j = n + 1
      <3>1. i \in 1 .. n
        BY <1>1, <2>2
      <3> QED
        BY <1>1, <2>2, <3>1
    <2> QED
      BY <1>1, <2>1, <2>2
  <1>5. Answered(t)
    <2>1. ASSUME NEW k \in 1 .. n, Rank(s[k]) = 3 PROVE \E i \in DOMAIN t : Rank(t[i]) = 3
      BY <1>1, <2>1
    <2> SUFFICES ASSUME NEW i \in DOMAIN t, t[i] = "done" PROVE \E k \in 1 .. n : Rank(s[k]) = 3
      BY <2>1 DEF Answered
    <2>2. CASE i \in 1 .. n
      BY <1>1, <2>2 DEF WellFormed, Answered
    <2>3. CASE i = n + 1
      BY <1>1, <2>3
    <2> QED
      BY <1>1, <2>2, <2>3
  <1>6. WellFormed(t)
    BY <1>2, <1>4, <1>5 DEF WellFormed
  <1>7. \A i \in DOMAIN t : (i \in DOMAIN s /\ t[i] = s[i]) \/ t[i] = x
    BY <1>1
  <1>8. n + 1 \in DOMAIN t
    BY <1>1
  <1> QED
    BY <1>1, <1>2, <1>6, <1>7, <1>8 DEF t, n

\* A stream of tool calls alone.
OnlyCalls(s) == \A i \in DOMAIN s : s[i] = "tool_call"

LEMMA OnlyCallsFormed ==
  ASSUME NEW s \in Seq(Words), OnlyCalls(s), Len(s) <= MAX_STEPS
  PROVE  WellFormed(s) /\ Cardinality(CallsIn(s)) = Len(s)
  <1>1. Len(s) \in Nat /\ DOMAIN s = 1 .. Len(s)
    BY LenProperties
  <1>2. CallsIn(s) = 1 .. Len(s)
    BY <1>1 DEF CallsIn, OnlyCalls
  <1>3. 1 \in Int /\ Len(s) \in Int
    BY <1>1
  <1>4. Cardinality(1 .. Len(s)) = IF 1 > Len(s) THEN 0 ELSE Len(s) - 1 + 1
    BY <1>3, FS_Interval
  <1>5. Cardinality(CallsIn(s)) = Len(s)
    BY <1>1, <1>2, <1>4
  <1>6. InOrder(s)
    BY DEF InOrder, OnlyCalls
  <1>7. Answered(s)
    BY DEF Answered, OnlyCalls
  <1> QED
    BY <1>5, <1>6, <1>7 DEF WellFormed

LEMMA CallsAreAdded ==
  ASSUME NEW s \in Seq(Words), OnlyCalls(s), NEW n \in Nat, Len(s) + n <= MAX_STEPS
  PROVE  LET c == [i \in 1 .. n |-> "tool_call"] IN
         /\ c \in Seq(Words) /\ s \o c \in Seq(Words) /\ OnlyCalls(s \o c) /\ Len(s \o c) = Len(s) + n
         /\ WellFormed(s \o c) /\ Cardinality(CallsIn(s \o c)) = Len(s) + n
  <1> DEFINE c == [i \in 1 .. n |-> "tool_call"]
  <1>1. c \in [1 .. n -> Words]
    BY DEF Words
  <1>2. c \in Seq(Words) /\ Len(c) = n
    BY <1>1, SeqDef
  <1>3. \A i \in 1 .. n : c[i] = "tool_call"
    OBVIOUS
  <1> HIDE DEF c
  <1>4. /\ s \o c \in Seq(Words) /\ Len(s \o c) = Len(s) + n /\ Len(s) \in Nat
        /\ DOMAIN s = 1 .. Len(s) /\ DOMAIN (s \o c) = 1 .. Len(s) + n
        /\ \A i \in 1 .. Len(s) + n : (s \o c)[i] = IF i <= Len(s) THEN s[i] ELSE c[i - Len(s)]
    <2>1. s \o c \in Seq(Words) /\ Len(s \o c) = Len(s) + Len(c)
      BY <1>2, ConcatProperties
    <2>2. \A i \in 1 .. Len(s) + Len(c) : (s \o c)[i] = IF i <= Len(s) THEN s[i] ELSE c[i - Len(s)]
      BY <1>2, ConcatProperties
    <2>3. Len(s) \in Nat /\ DOMAIN s = 1 .. Len(s)
      BY LenProperties
    <2>4. DOMAIN (s \o c) = 1 .. Len(s \o c)
      BY <2>1, LenProperties
    <2> QED
      BY <1>2, <2>1, <2>2, <2>3, <2>4
  <1>5. OnlyCalls(s \o c)
    <2> SUFFICES ASSUME NEW i \in 1 .. Len(s) + n PROVE (s \o c)[i] = "tool_call"
      BY <1>4 DEF OnlyCalls
    <2>1. CASE i <= Len(s)
      BY <1>4, <2>1 DEF OnlyCalls
    <2>2. CASE ~(i <= Len(s))
      <3>1. i - Len(s) \in 1 .. n
        BY <1>4, <2>2
      <3> QED
        BY <1>3, <1>4, <2>2, <3>1
    <2> QED
      BY <2>1, <2>2
  <1> DEFINE t == s \o c
  <1> HIDE DEF t
  <1>6. t \in Seq(Words) /\ OnlyCalls(t) /\ Len(t) = Len(s) + n
    BY <1>4, <1>5 DEF t
  <1>7. WellFormed(t) /\ Cardinality(CallsIn(t)) = Len(t)
    BY <1>6, OnlyCallsFormed
  <1> QED
    BY <1>2, <1>6, <1>7 DEF t, c

-----------------------------------------------------------------------------
\* The inductive invariant.

AgentTypes ==
  /\ at \in [Investigations -> Places]
  /\ out \in [Investigations -> Seq(Words)]
  /\ queue \in [Investigations -> Seq(Messages)]
  /\ thread \in [Investigations -> {"none", "thinking", "ended"}]
  /\ steps \in [Investigations -> 0 .. MAX_STEPS]
  /\ answer \in [Investigations -> Answers \cup {"none"}]
  /\ overdue \subseteq Investigations /\ limited \subseteq Investigations /\ stop \subseteq Investigations
  /\ evidence \in [Investigations -> SUBSET ToolResults]
  /\ holder \subseteq Investigations

\* What the stream can hold wherever its generator is.
StreamSoFar(q) ==
  /\ at[q] \in {"new", "accepted", "building"} =>
       out[q] = <<>> /\ queue[q] = <<>> /\ thread[q] = "none" /\ q \notin limited
  /\ at[q] \in {"loop", "waiting"} => OnlyCalls(out[q]) /\ Len(out[q]) < MAX_STEPS /\ q \notin limited
  /\ at[q] = "ending" => \A i \in DOMAIN out[q] : out[q][i] \in {"tool_call", "limit", "error", "agent_TP", "agent_FP"}
  /\ WellFormed(out[q])

\* The answer is fixed once its end is in the queue, or its verdict in the stream.
AnswerIsFixed(q) ==
  /\ (\E i \in DOMAIN queue[q] : queue[q][i].kind = "done") => thread[q] = "ended"
  /\ \A i \in DOMAIN out[q] :
       /\ out[q][i] = "agent_TP" => answer[q] = "TP" /\ thread[q] = "ended" /\ q \notin limited
       /\ out[q][i] = "agent_FP" => answer[q] = "FP" /\ thread[q] = "ended" /\ q \notin limited
       /\ out[q][i] = "synthesised_TP" => \E r \in evidence[q] : Conclusive(r)
       /\ out[q][i] = "limit" => q \in limited
  /\ IsFiniteSet(evidence[q]) /\ Cardinality(evidence[q]) <= Cardinality(CallsIn(out[q]))

RunInv(q) == StreamSoFar(q) /\ AnswerIsFixed(q)

AgentInv == AgentTypes /\ \A q \in Investigations : RunInv(q)

-----------------------------------------------------------------------------
\* A step is one investigation's own.

Fields(q) == <<at[q], out[q], queue[q], thread[q], answer[q], evidence[q]>>

LEMMA OthersAreKept ==
  ASSUME AgentInv, AgentTypes', NEW q \in Investigations, RunInv(q)',
         \A p \in Investigations \ {q} : Fields(p)' = Fields(p) /\ (p \in limited' <=> p \in limited)
  PROVE  AgentInv'
  <1> SUFFICES ASSUME NEW p \in Investigations, p # q PROVE RunInv(p)'
    BY DEF AgentInv
  <1>1. /\ at'[p] = at[p] /\ out'[p] = out[p] /\ queue'[p] = queue[p] /\ thread'[p] = thread[p]
        /\ answer'[p] = answer[p] /\ evidence'[p] = evidence[p]
    BY DEF Fields
  <1>2. p \in limited' <=> p \in limited
    OBVIOUS
  <1>3. StreamSoFar(p) /\ AnswerIsFixed(p)
    BY DEF AgentInv, RunInv
  <1>4. StreamSoFar(p)'
    BY <1>1, <1>2, <1>3 DEF StreamSoFar
  <1>5. AnswerIsFixed(p)'
    BY <1>1, <1>2, <1>3 DEF AnswerIsFixed
  <1> QED
    BY <1>4, <1>5 DEF RunInv

LEMMA EmptyStream ==
  /\ <<>> \in Seq(Words) /\ WellFormed(<<>>) /\ CallsIn(<<>>) = {} /\ OnlyCalls(<<>>) /\ Len(<<>>) = 0
  /\ DOMAIN <<>> = {}
  /\ Cardinality({}) = 0 /\ IsFiniteSet({})
  <1>1. <<>> \in Seq(Words) /\ CallsIn(<<>>) = {} /\ OnlyCalls(<<>>) /\ Len(<<>>) = 0 /\ DOMAIN <<>> = {}
    BY DEF CallsIn, OnlyCalls
  <1>2. Cardinality({}) = 0 /\ IsFiniteSet({})
    BY FS_EmptySet
  <1>3. InOrder(<<>>) /\ Answered(<<>>)
    BY DEF InOrder, Answered
  <1>4. Cardinality(CallsIn(<<>>)) <= MAX_STEPS
    BY <1>1, <1>2, AgentRunAssumption
  <1> QED
    BY <1>1, <1>2, <1>3, <1>4 DEF WellFormed

\* One event is sent while only its verdict and its order matter.
LEMMA AgentInitInv == AgentInit => AgentInv
  <1> SUFFICES ASSUME AgentInit PROVE AgentInv
    OBVIOUS
  <1>1. AgentTypes
    BY EmptyStream, AgentRunAssumption DEF AgentInit, AgentTypes, Places
  <1>2. ASSUME NEW q \in Investigations PROVE RunInv(q)
    <2>1. /\ at[q] = "new" /\ out[q] = <<>> /\ queue[q] = <<>> /\ thread[q] = "none" /\ limited = {}
          /\ evidence[q] = {}
      BY DEF AgentInit
    <2>2. StreamSoFar(q)
      BY <2>1, EmptyStream DEF StreamSoFar
    <2>3. AnswerIsFixed(q)
      <3>1. DOMAIN queue[q] = {} /\ DOMAIN out[q] = {} /\ CallsIn(out[q]) = {}
        BY <2>1, EmptyStream
      <3>2. IsFiniteSet(evidence[q]) /\ Cardinality(evidence[q]) <= Cardinality(CallsIn(out[q]))
        <4>1. evidence[q] = {} /\ Cardinality({}) = 0 /\ IsFiniteSet({})
          BY <2>1, FS_EmptySet
        <4>2. Cardinality(evidence[q]) = 0 /\ Cardinality(CallsIn(out[q])) = 0
          BY <3>1, <4>1
        <4> QED
          BY <4>1, <4>2
      <3> QED
        BY <3>1, <3>2 DEF AnswerIsFixed
    <2> QED
      BY <2>2, <2>3 DEF RunInv
  <1> QED
    BY <1>1, <1>2 DEF AgentInv

\* Before the agent runs: one answer is all that is sent.
LEMMA OpeningKeeps ==
  ASSUME AgentInv, NEW q \in Investigations, Arrive(q) \/ Enter(q) \/ Build(q)
  PROVE  AgentInv'
  <1> DEFINE spot == at'[q]
  <1>1. at[q] \in {"new", "accepted", "building"}
    BY DEF Arrive, Enter, Build
  <1>2. /\ spot \in Places \ {"new", "waiting", "ending"} /\ at' = [at EXCEPT ![q] = spot]
        /\ UNCHANGED <<queue, steps, answer, overdue, evidence, limited, stop>>
    <2>1. AgentTypes
      BY DEF AgentInv
    <2>2. CASE Arrive(q)
      BY <2>1, <2>2 DEF Arrive, Go, agent, Places, AgentTypes
    <2>3. CASE Enter(q)
      BY <2>1, <2>3 DEF Enter, Go, agent, Places, AgentTypes
    <2>4. CASE Build(q)
      BY <2>1, <2>4 DEF Build, Go, agent, Places, AgentTypes
    <2> QED
      BY <2>2, <2>3, <2>4
  <1>3. /\ holder' \subseteq Investigations
        /\ thread' = thread \/ (thread' = [thread EXCEPT ![q] = "thinking"] /\ spot = "loop")
        /\ out' = out \/ (spot = "over" /\ \E x \in {"refused", "error"} : out' = [out EXCEPT ![q] = @ \o <<x>>])
        /\ spot \in {"accepted", "building"} => thread' = thread /\ out' = out
        /\ spot = "loop" => out' = out
    <2>1. AgentTypes
      BY DEF AgentInv
    <2>2. CASE Arrive(q)
      BY <2>1, <2>2 DEF Arrive, Go, Emit, agent, AgentTypes
    <2>3. CASE Enter(q)
      BY <2>1, <2>3 DEF Enter, Go, Emit, agent, AgentTypes
    <2>4. CASE Build(q)
      BY <2>1, <2>4 DEF Build, Go, Emit, agent, AgentTypes
    <2> QED
      BY <2>2, <2>3, <2>4
  <1> HIDE DEF spot
  <1>4. AgentTypes /\ StreamSoFar(q) /\ AnswerIsFixed(q)
    BY DEF AgentInv, RunInv
  <1>5. out[q] = <<>> /\ queue[q] = <<>> /\ thread[q] = "none" /\ q \notin limited
    BY <1>1, <1>4 DEF StreamSoFar
  <1>6. ASSUME NEW x \in {"refused", "error"}
        PROVE  <<>> \o <<x>> \in Seq(Words) /\ WellFormed(<<>> \o <<x>>) /\ CallsIn(<<>> \o <<x>>) = {}
               /\ \A i \in DOMAIN (<<>> \o <<x>>) : (<<>> \o <<x>>)[i] = x
    <2> DEFINE e == <<>>
    <2>1. x \in Words /\ x # "tool_call" /\ x # "done"
      BY DEF Words
    <2>2. e \in Seq(Words) /\ WellFormed(e) /\ CallsIn(e) = {} /\ DOMAIN e = {}
      BY EmptyStream
    <2> HIDE DEF e
    <2>3. /\ e \o <<x>> \in Seq(Words) /\ WellFormed(e \o <<x>>) /\ CallsIn(e \o <<x>>) = CallsIn(e)
          /\ \A i \in DOMAIN (e \o <<x>>) : (i \in DOMAIN e /\ (e \o <<x>>)[i] = e[i]) \/ (e \o <<x>>)[i] = x
      BY <2>1, <2>2, WordIsAdded
    <2>4. CallsIn(e \o <<x>>) = {} /\ \A i \in DOMAIN (e \o <<x>>) : (e \o <<x>>)[i] = x
      BY <2>2, <2>3
    <2> QED
      BY <2>3, <2>4 DEF e
  <1>7. /\ out'[q] \in Seq(Words) /\ WellFormed(out'[q]) /\ CallsIn(out'[q]) = {}
        /\ \A i \in DOMAIN out'[q] : out'[q][i] \in {"refused", "error"}
        /\ \A p \in Investigations \ {q} : out'[p] = out[p]
        /\ out' \in [Investigations -> Seq(Words)]
    <2>1. CASE out' = out
      BY <1>4, <1>5, <2>1, EmptyStream DEF AgentTypes
    <2>2. CASE \E x \in {"refused", "error"} : out' = [out EXCEPT ![q] = @ \o <<x>>]
      <3>1. PICK x \in {"refused", "error"} : out' = [out EXCEPT ![q] = @ \o <<x>>]
        BY <2>2
      <3> DEFINE e == <<>> \o <<x>>
      <3>2. out' = [out EXCEPT ![q] = e]
        BY <1>4, <1>5, <3>1 DEF AgentTypes
      <3>3. e \in Seq(Words) /\ WellFormed(e) /\ CallsIn(e) = {} /\ \A i \in DOMAIN e : e[i] = x
        BY <1>6
      <3> HIDE DEF e
      <3> QED
        BY <1>4, <3>2, <3>3 DEF AgentTypes
    <2> QED
      BY <1>3, <2>1, <2>2
  <1>8. AgentTypes'
    BY <1>2, <1>3, <1>4, <1>7 DEF AgentTypes
  <1>9. \A p \in Investigations \ {q} : Fields(p)' = Fields(p) /\ (p \in limited' <=> p \in limited)
    BY <1>2, <1>3, <1>4, <1>7 DEF AgentTypes, Fields
  <1>10. StreamSoFar(q)'
    <2>1. at'[q] = spot
      BY <1>2, <1>4 DEF AgentTypes
    <2>2. spot \in {"accepted", "building"} => out'[q] = <<>> /\ thread'[q] = "none"
      BY <1>3, <1>5
    <2>3. spot = "loop" => OnlyCalls(out'[q]) /\ Len(out'[q]) < MAX_STEPS
      <3>1. spot = "loop" => out'[q] = <<>>
        BY <1>3, <1>5
      <3> QED
        BY <3>1, EmptyStream, AgentRunAssumption
    <2> QED
      BY <1>2, <1>5, <1>7, <2>1, <2>2, <2>3 DEF StreamSoFar
  <1>11. AnswerIsFixed(q)'
    <2>1. IsFiniteSet(evidence[q]) /\ Cardinality(evidence[q]) <= Cardinality(CallsIn(out[q]))
      BY <1>4 DEF AnswerIsFixed
    <2>2. CallsIn(out[q]) = CallsIn(out'[q])
      BY <1>5, <1>7, EmptyStream
    <2>3. DOMAIN queue'[q] = {}
      BY <1>2, <1>5, EmptyStream
    <2> QED
      BY <1>2, <1>7, <2>1, <2>2, <2>3 DEF AnswerIsFixed
  <1> QED
    BY <1>8, <1>9, <1>10, <1>11, OthersAreKept DEF RunInv

\* The thread: it sends nothing, and its answer comes before its end.
LEMMA ThreadKeeps ==
  ASSUME AgentInv, NEW q \in Investigations, Agent(q)
  PROVE  AgentInv'
  <1>1. /\ UNCHANGED <<at, out, overdue, evidence, limited, stop, holder>>
        /\ thread[q] = "thinking" /\ AgentTypes /\ StreamSoFar(q) /\ AnswerIsFixed(q)
    BY DEF Agent, AgentStep, AgentAnswers, AgentFails, AgentStops, Thinking, AgentInv, RunInv
  <1>2. /\ steps' \in [Investigations -> 0 .. MAX_STEPS]
        /\ answer' \in [Investigations -> Answers \cup {"none"}]
        /\ thread' \in [Investigations -> {"none", "thinking", "ended"}]
        /\ \A p \in Investigations \ {q} : thread'[p] = thread[p] /\ answer'[p] = answer[p]
    <2>1. CASE AgentStep(q)
      <3>1. /\ steps[q] < MAX_STEPS /\ steps' = [steps EXCEPT ![q] = steps[q] + 1]
            /\ thread' = thread /\ answer' = answer
        BY <2>1 DEF AgentStep
      <3>2. steps[q] + 1 \in 0 .. MAX_STEPS
        BY <1>1, <3>1, AgentRunAssumption DEF AgentTypes
      <3> QED
        BY <1>1, <3>1, <3>2 DEF AgentTypes
    <2>2. CASE AgentAnswers(q)
      BY <1>1, <2>2 DEF AgentAnswers, AgentTypes
    <2>3. CASE AgentFails(q)
      BY <1>1, <2>3 DEF AgentFails, AgentTypes
    <2>4. CASE AgentStops(q)
      BY <1>1, <2>4 DEF AgentStops, AgentTypes
    <2> QED
      BY <2>1, <2>2, <2>3, <2>4 DEF Agent
  <1>3. queue' = queue \/ \E m \in Messages : Put(q, m) /\ (m.kind = "done" => thread'[q] = "ended")
    <2>1. CASE AgentStep(q)
      <3>1. PICK calls \in UNION {[1 .. n -> ToolResults] : n \in 0 .. MaxCalls} : Put(q, [kind |-> "step", calls |-> calls])
        BY <2>1 DEF AgentStep
      <3>2. PICK n \in 0 .. MaxCalls : calls \in [1 .. n -> ToolResults]
        BY <3>1
      <3>3. calls \in Seq(ToolResults)
        <4>1. n \in Nat
          BY <3>2, AgentRunAssumption
        <4> QED
          BY <3>2, <4>1, SeqDef
      <3> DEFINE m == [kind |-> "step", calls |-> calls]
      <3>4. m \in Messages /\ m.kind = "step"
        BY <3>3 DEF Messages
      <3> HIDE DEF m
      <3>5. Put(q, m)
        BY <3>1 DEF m
      <3> QED
        BY <3>4, <3>5
    <2>2. CASE AgentAnswers(q)
      <3>1. [kind |-> "done"] \in Messages
        BY DEF Messages
      <3>2. thread'[q] = "ended"
        BY <1>1, <2>2 DEF AgentAnswers, AgentTypes
      <3>3. Put(q, [kind |-> "done"])
        BY <2>2 DEF AgentAnswers
      <3> QED
        BY <3>1, <3>2, <3>3
    <2>3. CASE AgentFails(q)
      <3>1. [kind |-> "error"] \in Messages /\ [kind |-> "error"].kind # "done"
        BY DEF Messages
      <3>2. Put(q, [kind |-> "error"])
        BY <2>3 DEF AgentFails
      <3> QED
        BY <3>1, <3>2
    <2>4. CASE AgentStops(q)
      BY <2>4 DEF AgentStops
    <2> QED
      BY <2>1, <2>2, <2>3, <2>4 DEF Agent
  <1>4. /\ queue' \in [Investigations -> Seq(Messages)]
        /\ \A p \in Investigations \ {q} : queue'[p] = queue[p]
        /\ (\E i \in DOMAIN queue'[q] : queue'[q][i].kind = "done") => thread'[q] = "ended"
    <2>1. ~ \E i \in DOMAIN queue[q] : queue[q][i].kind = "done"
      BY <1>1 DEF AnswerIsFixed
    <2>2. CASE queue' = queue
      BY <1>1, <2>1, <2>2 DEF AgentTypes
    <2>3. CASE \E m \in Messages : Put(q, m) /\ (m.kind = "done" => thread'[q] = "ended")
      <3>1. PICK m \in Messages : Put(q, m) /\ (m.kind = "done" => thread'[q] = "ended")
        BY <2>3
      <3> DEFINE s == queue[q]
                 t == Append(s, m)
      <3>2. s \in Seq(Messages)
        BY <1>1 DEF AgentTypes
      <3>3. /\ t \in Seq(Messages) /\ Len(s) \in Nat /\ DOMAIN s = 1 .. Len(s) /\ DOMAIN t = 1 .. Len(s) + 1
            /\ \A i \in 1 .. Len(s) : t[i] = s[i]
            /\ t[Len(s) + 1] = m
        BY <3>2, AppendProperties, LenProperties
      <3>4. queue' = queue \/ queue' = [queue EXCEPT ![q] = t]
        BY <3>1 DEF Put
      <3> HIDE DEF t
      <3>5. CASE queue' = [queue EXCEPT ![q] = t]
        <4>1. queue'[q] = t
          BY <1>1, <3>5 DEF AgentTypes
        <4>2. \A i \in DOMAIN t : t[i].kind = "done" => thread'[q] = "ended"
          <5>1. \A i \in 1 .. Len(s) : t[i].kind # "done"
            BY <2>1, <3>3
          <5> QED
            BY <3>1, <3>3, <5>1
        <4> QED
          BY <1>1, <3>3, <3>5, <4>1, <4>2 DEF AgentTypes
      <3> QED
        BY <2>2, <3>4, <3>5, <1>1, <2>1 DEF AgentTypes
    <2> QED
      BY <1>3, <2>2, <2>3
  <1>5. AgentTypes'
    BY <1>1, <1>2, <1>4 DEF AgentTypes
  <1>6. \A p \in Investigations \ {q} : Fields(p)' = Fields(p) /\ (p \in limited' <=> p \in limited)
    BY <1>1, <1>2, <1>4 DEF Fields
  <1>7. at[q] \notin {"new", "accepted", "building"}
    BY <1>1 DEF StreamSoFar
  <1>8. StreamSoFar(q)'
    BY <1>1, <1>7 DEF StreamSoFar
  <1>9. AnswerIsFixed(q)'
    <2>1. \A i \in DOMAIN out[q] : out[q][i] \notin {"agent_TP", "agent_FP"}
      BY <1>1 DEF AnswerIsFixed
    <2> QED
      BY <1>1, <1>4, <2>1 DEF AnswerIsFixed
  <1> QED
    BY <1>5, <1>6, <1>8, <1>9, OthersAreKept DEF RunInv

\* Steps of the generator and the client that send and take nothing.
LEMMA QuietKeeps ==
  ASSUME AgentInv, NEW q \in Investigations, NEW spot \in Places \ {"new", "accepted", "building", "ending"},
         at' = at \/ at' = [at EXCEPT ![q] = spot], spot \in {"loop", "waiting"} => at[q] \in {"loop", "waiting"},
         queue' = queue \/ queue' = [queue EXCEPT ![q] = <<>>],
         UNCHANGED <<out, agent, evidence, limited>>,
         overdue' \subseteq Investigations, stop' \subseteq Investigations, holder' \subseteq Investigations
  PROVE  AgentInv'
  <1>1. AgentTypes /\ StreamSoFar(q) /\ AnswerIsFixed(q)
    BY DEF AgentInv, RunInv
  <1>2. thread' = thread /\ steps' = steps /\ answer' = answer
    BY DEF agent
  <1>3. at' \in [Investigations -> Places] /\ at'[q] \in {at[q], spot} /\ \A p \in Investigations \ {q} : at'[p] = at[p]
    BY <1>1 DEF AgentTypes
  <1>4. <<>> \in Seq(Messages) /\ DOMAIN <<>> = {}
    OBVIOUS
  <1>5. /\ queue' \in [Investigations -> Seq(Messages)] /\ queue'[q] \in {queue[q], <<>>}
        /\ \A p \in Investigations \ {q} : queue'[p] = queue[p]
    <2>1. CASE queue' = queue
      BY <1>1, <2>1 DEF AgentTypes
    <2>2. CASE queue' = [queue EXCEPT ![q] = <<>>]
      BY <1>1, <1>4, <2>2 DEF AgentTypes
    <2> QED
      BY <2>1, <2>2
  <1>6. AgentTypes'
    BY <1>1, <1>2, <1>3, <1>5 DEF AgentTypes
  <1>7. \A p \in Investigations \ {q} : Fields(p)' = Fields(p) /\ (p \in limited' <=> p \in limited)
    BY <1>2, <1>3, <1>5 DEF Fields
  <1>8. StreamSoFar(q)'
    BY <1>1, <1>2, <1>3, <1>5 DEF StreamSoFar
  <1>9. AnswerIsFixed(q)'
    BY <1>1, <1>2, <1>4, <1>5 DEF AnswerIsFixed
  <1> QED
    BY <1>6, <1>7, <1>8, <1>9, OthersAreKept DEF RunInv

\* The queue is left alone or loses its first message.
LEMMA MessageIsTaken ==
  ASSUME AgentTypes, NEW q \in Investigations,
         queue' = queue \/ (queue' = [queue EXCEPT ![q] = Tail(@)] /\ queue[q] # <<>>)
  PROVE  /\ queue' \in [Investigations -> Seq(Messages)] /\ \A p \in Investigations \ {q} : queue'[p] = queue[p]
         /\ \A i \in DOMAIN queue'[q] : \E j \in DOMAIN queue[q] : queue'[q][i] = queue[q][j]
  <1>1. CASE queue' = queue
    BY <1>1 DEF AgentTypes
  <1>2. CASE queue' = [queue EXCEPT ![q] = Tail(@)] /\ queue[q] # <<>>
    <2> DEFINE r == queue[q]
               l == Tail(r)
    <2>1. r \in Seq(Messages) /\ r # <<>>
      BY <1>2 DEF AgentTypes
    <2>2. /\ l \in Seq(Messages) /\ Len(l) = Len(r) - 1 /\ Len(r) \in Nat /\ DOMAIN r = 1 .. Len(r)
          /\ DOMAIN l = 1 .. Len(l) /\ \A i \in 1 .. Len(l) : l[i] = r[i + 1]
      BY <2>1, HeadTailProperties, LenProperties
    <2>3. queue' = [queue EXCEPT ![q] = l]
      BY <1>2
    <2> HIDE DEF l
    <2>4. queue'[q] = l /\ \A p \in Investigations \ {q} : queue'[p] = queue[p]
      BY <2>3 DEF AgentTypes
    <2>5. queue' \in [Investigations -> Seq(Messages)]
      BY <2>2, <2>3 DEF AgentTypes
    <2>6. \A i \in DOMAIN l : i + 1 \in DOMAIN r /\ l[i] = r[i + 1]
      BY <2>2
    <2>7. \A i \in DOMAIN l : \E j \in DOMAIN r : l[i] = r[j]
      BY <2>6
    <2> QED
      BY <2>4, <2>5, <2>7
  <1> QED
    BY <1>1, <1>2

\* One event is sent by a step that takes no evidence.  What is left to show is
\* that the event is in its spot and true.
LEMMA SendKeeps ==
  ASSUME AgentInv, NEW q \in Investigations, NEW x \in Words, x # "tool_call", at[q] \in {"waiting", "loop"},
         x \in {"limit", "error", "agent_TP", "agent_FP"},
         out' = [out EXCEPT ![q] = @ \o <<x>>], at' = [at EXCEPT ![q] = "ending"],
         limited' = IF x = "limit" THEN limited \cup {q} ELSE limited,
         queue' = queue \/ (queue' = [queue EXCEPT ![q] = Tail(@)] /\ queue[q] # <<>>),
         UNCHANGED <<agent, overdue, evidence, stop, holder>>,
         x = "agent_TP" => answer[q] = "TP" /\ thread[q] = "ended",
         x = "agent_FP" => answer[q] = "FP" /\ thread[q] = "ended"
  PROVE  AgentInv'
  <1>1. AgentTypes /\ StreamSoFar(q) /\ AnswerIsFixed(q)
    BY DEF AgentInv, RunInv
  <1>2. thread' = thread /\ steps' = steps /\ answer' = answer
    BY DEF agent
  <1> DEFINE s == out[q]
             t == s \o <<x>>
  <1>3. s \in Seq(Words) /\ OnlyCalls(s) /\ WellFormed(s) /\ q \notin limited
    BY <1>1 DEF AgentTypes, StreamSoFar
  <1>4. \A i \in DOMAIN s : Rank(s[i]) < Rank(x)
    <2>1. Rank(x) \in {2, 3}
      BY Ranks
    <2> QED
      BY <1>3, <2>1, Ranks DEF OnlyCalls
  <1>5. /\ t \in Seq(Words) /\ WellFormed(t) /\ CallsIn(t) = CallsIn(s)
        /\ \A i \in DOMAIN t : (i \in DOMAIN s /\ t[i] = s[i]) \/ t[i] = x
    BY <1>3, <1>4, WordIsAdded
  <1>6. \A i \in DOMAIN t : t[i] = "tool_call" \/ t[i] = x
    BY <1>3, <1>5 DEF OnlyCalls
  <1> HIDE DEF t
  <1>7. /\ out' \in [Investigations -> Seq(Words)] /\ out'[q] = t
        /\ at' \in [Investigations -> Places] /\ at'[q] = "ending"
        /\ \A p \in Investigations \ {q} : out'[p] = out[p] /\ at'[p] = at[p]
    BY <1>1, <1>5 DEF AgentTypes, Places, t
  <1>8. /\ queue' \in [Investigations -> Seq(Messages)] /\ \A p \in Investigations \ {q} : queue'[p] = queue[p]
        /\ \A i \in DOMAIN queue'[q] : \E j \in DOMAIN queue[q] : queue'[q][i] = queue[q][j]
    BY <1>1, MessageIsTaken
  <1>9. limited' \subseteq Investigations /\ (q \in limited' <=> x = "limit")
        /\ \A p \in Investigations \ {q} : p \in limited' <=> p \in limited
    BY <1>1, <1>3 DEF AgentTypes
  <1>10. AgentTypes'
    BY <1>1, <1>2, <1>7, <1>8, <1>9 DEF AgentTypes
  <1>11. \A p \in Investigations \ {q} : Fields(p)' = Fields(p) /\ (p \in limited' <=> p \in limited)
    BY <1>2, <1>7, <1>8, <1>9 DEF Fields
  <1>12. StreamSoFar(q)'
    BY <1>5, <1>6, <1>7 DEF StreamSoFar
  <1>13. AnswerIsFixed(q)'
    <2>1. (\E i \in DOMAIN queue'[q] : queue'[q][i].kind = "done") => thread'[q] = "ended"
      BY <1>1, <1>2, <1>8 DEF AnswerIsFixed
    <2>2. IsFiniteSet(evidence'[q]) /\ Cardinality(evidence'[q]) <= Cardinality(CallsIn(out'[q]))
      BY <1>1, <1>5, <1>7 DEF AnswerIsFixed
    <2>3. \A i \in DOMAIN out'[q] :
             /\ out'[q][i] = "agent_TP" => answer'[q] = "TP" /\ thread'[q] = "ended" /\ q \notin limited'
             /\ out'[q][i] = "agent_FP" => answer'[q] = "FP" /\ thread'[q] = "ended" /\ q \notin limited'
             /\ out'[q][i] # "synthesised_TP"
             /\ out'[q][i] = "limit" => q \in limited'
      BY <1>2, <1>6, <1>7, <1>9
    <2> QED
      BY <2>1, <2>2, <2>3 DEF AnswerIsFixed
  <1> QED
    BY <1>10, <1>11, <1>12, <1>13, OthersAreKept DEF RunInv

\* An answer that cannot be read ends the loop, and nothing is sent.
LEMMA UnreadKeeps ==
  ASSUME AgentInv, NEW q \in Investigations, at[q] = "waiting",
         out' = [out EXCEPT ![q] = @ \o <<>>], at' = [at EXCEPT ![q] = "ending"],
         queue' = [queue EXCEPT ![q] = Tail(@)], queue[q] # <<>>,
         UNCHANGED <<agent, overdue, evidence, limited, stop, holder>>
  PROVE  AgentInv'
  <1>1. AgentTypes /\ StreamSoFar(q) /\ AnswerIsFixed(q)
    BY DEF AgentInv, RunInv
  <1>2. thread' = thread /\ steps' = steps /\ answer' = answer
    BY DEF agent
  <1>3. out' = out
    <2>1. out[q] \in Seq(Words)
      BY <1>1 DEF AgentTypes
    <2>2. out[q] \o <<>> = out[q]
      BY <2>1, ConcatEmptySeq
    <2>3. out' = [out EXCEPT ![q] = out[q]]
      BY <2>2
    <2> QED
      BY <1>1, <2>3 DEF AgentTypes
  <1>4. /\ at' \in [Investigations -> Places] /\ at'[q] = "ending"
        /\ \A p \in Investigations \ {q} : at'[p] = at[p]
    BY <1>1 DEF AgentTypes, Places
  <1>5. /\ queue' \in [Investigations -> Seq(Messages)] /\ \A p \in Investigations \ {q} : queue'[p] = queue[p]
        /\ \A i \in DOMAIN queue'[q] : \E j \in DOMAIN queue[q] : queue'[q][i] = queue[q][j]
    BY <1>1, MessageIsTaken
  <1>6. AgentTypes'
    BY <1>1, <1>2, <1>3, <1>4, <1>5 DEF AgentTypes
  <1>7. \A p \in Investigations \ {q} : Fields(p)' = Fields(p) /\ (p \in limited' <=> p \in limited)
    BY <1>2, <1>3, <1>4, <1>5 DEF Fields
  <1>8. StreamSoFar(q)'
    BY <1>1, <1>3, <1>4 DEF StreamSoFar, OnlyCalls
  <1>9. AnswerIsFixed(q)'
    BY <1>1, <1>2, <1>3, <1>5 DEF AnswerIsFixed
  <1> QED
    BY <1>6, <1>7, <1>8, <1>9, OthersAreKept DEF RunInv

\* The calls of a step are shown and kept, up to the limit.
LEMMA StepKeeps ==
  ASSUME AgentInv, NEW q \in Investigations, at[q] = "waiting", queue[q] # <<>>,
         queue' = [queue EXCEPT ![q] = Tail(@)],
         NEW m \in Messages, m.kind = "step", TakeStep(q, m),
         UNCHANGED <<agent, overdue, stop, holder>>
  PROVE  AgentInv'
  <1>1. AgentTypes /\ StreamSoFar(q) /\ AnswerIsFixed(q)
    BY DEF AgentInv, RunInv
  <1>2. thread' = thread /\ steps' = steps /\ answer' = answer
    BY DEF agent
  <1> DEFINE s == out[q]
             n == Shown(q, m.calls)
             over == n > 0 /\ Count(q) + n >= MAX_STEPS
             c == [i \in 1 .. n |-> "tool_call"]
             shown == {m.calls[i] : i \in 1 .. n}
  <1>3. /\ s \in Seq(Words) /\ OnlyCalls(s) /\ Len(s) < MAX_STEPS /\ q \notin limited
        /\ Len(s) \in Nat /\ MAX_STEPS \in Nat
    BY <1>1, LenProperties, AgentRunAssumption DEF AgentTypes, StreamSoFar
  <1>4. Count(q) = Len(s) /\ Count(q) = Cardinality(CallsIn(s))
    <2>1. Count(q) = Cardinality(CallsIn(s))
      BY DEF Count, CallsIn
    <2>2. Cardinality(CallsIn(s)) = Len(s)
      BY <1>3, OnlyCallsFormed
    <2> QED
      BY <2>1, <2>2
  <1>5. m.calls \in Seq(ToolResults)
    BY DEF Messages
  <1>6. n \in Nat /\ n <= Len(m.calls) /\ Len(s) + n <= MAX_STEPS /\ Len(m.calls) \in Nat
    <2>1. Len(m.calls) \in Nat
      BY <1>5, LenProperties
    <2> QED
      BY <1>3, <1>4, <2>1 DEF Shown
  <1>7. /\ evidence' = [evidence EXCEPT ![q] = @ \cup shown]
        /\ out' = [out EXCEPT ![q] = s \o (c \o IF over THEN <<"limit">> ELSE <<>>)]
        /\ limited' = IF over THEN limited \cup {q} ELSE limited
        /\ at' = [at EXCEPT ![q] = IF over THEN "ending" ELSE "loop"]
    BY DEF TakeStep, Emit, Go
  <1>8. shown \subseteq ToolResults /\ IsFiniteSet(shown) /\ Cardinality(shown) <= n
    <2>1. \A i \in 1 .. n : m.calls[i] \in ToolResults
      BY <1>5, <1>6, ElementOfSeq
    <2>2. 1 \in Int /\ n \in Int
      BY <1>6
    <2>3. IsFiniteSet(1 .. n) /\ Cardinality(1 .. n) = IF 1 > n THEN 0 ELSE n - 1 + 1
      BY <2>2, FS_Interval
    <2> DEFINE f == [i \in 1 .. n |-> m.calls[i]]
    <2>4. f \in Surjection(1 .. n, shown)
      BY DEF Surjection
    <2>5. IsFiniteSet(shown) /\ Cardinality(shown) <= Cardinality(1 .. n)
      BY <2>3, <2>4, FS_Surjection
    <2>6. Cardinality(1 .. n) = n
      BY <1>6, <2>3
    <2> QED
      BY <2>1, <2>5, <2>6
  <1> HIDE DEF n, shown
  <1> DEFINE t == s \o c
  <1>9. /\ c \in Seq(Words) /\ t \in Seq(Words) /\ OnlyCalls(t) /\ Len(t) = Len(s) + n
        /\ WellFormed(t) /\ Cardinality(CallsIn(t)) = Len(s) + n
    BY <1>3, <1>6, CallsAreAdded
  <1>10. s \o (c \o <<"limit">>) = t \o <<"limit">> /\ s \o (c \o <<>>) = t
    <2>1. <<"limit">> \in Seq(Words)
      BY DEF Words
    <2>2. c \in Seq(Words) /\ s \in Seq(Words)
      BY <1>3, <1>9
    <2> DEFINE l == <<"limit">>
    <2> HIDE DEF c, s, l
    <2>3. (s \o c) \o l = s \o (c \o l)
      BY <2>1, <2>2, ConcatAssociative DEF l
    <2>4. c \o <<>> = c
      BY <2>2, ConcatEmptySeq
    <2> QED
      BY <2>3, <2>4 DEF l
  <1> HIDE DEF c, t
  <1> DEFINE u == t \o <<"limit">>
  <1>11. /\ u \in Seq(Words) /\ WellFormed(u) /\ CallsIn(u) = CallsIn(t)
         /\ \A i \in DOMAIN u : u[i] \in {"tool_call", "limit"}
    <2>1. "limit" \in Words
      BY DEF Words
    <2>2. \A i \in DOMAIN t : Rank(t[i]) < Rank("limit")
      BY <1>9, Ranks DEF OnlyCalls
    <2>3. /\ u \in Seq(Words) /\ WellFormed(u) /\ CallsIn(u) = CallsIn(t)
          /\ \A i \in DOMAIN u : (i \in DOMAIN t /\ u[i] = t[i]) \/ u[i] = "limit"
      BY <1>9, <2>1, <2>2, WordIsAdded
    <2> HIDE DEF u
    <2> QED
      BY <1>9, <2>3 DEF OnlyCalls
  <1> HIDE DEF u
  <1>12. /\ evidence' \in [Investigations -> SUBSET ToolResults] /\ evidence'[q] = evidence[q] \cup shown
         /\ \A p \in Investigations \ {q} : evidence'[p] = evidence[p]
    BY <1>1, <1>7, <1>8 DEF AgentTypes
  <1>13. IsFiniteSet(evidence'[q]) /\ Cardinality(evidence'[q]) <= Len(s) + n
    <2>1. IsFiniteSet(evidence[q]) /\ Cardinality(evidence[q]) <= Len(s)
      BY <1>1, <1>4 DEF AnswerIsFixed
    <2>2. /\ IsFiniteSet(evidence[q] \cup shown)
          /\ Cardinality(evidence[q] \cup shown) = Cardinality(evidence[q]) + Cardinality(shown) - Cardinality(evidence[q] \cap shown)
      BY <1>8, <2>1, FS_Union
    <2>3. IsFiniteSet(evidence[q] \cap shown)
      BY <2>1, FS_Intersection
    <2>4. /\ Cardinality(evidence[q]) \in Nat /\ Cardinality(shown) \in Nat
          /\ Cardinality(evidence[q] \cap shown) \in Nat
      BY <1>8, <2>1, <2>3, FS_CardinalityType
    <2> QED
      BY <1>3, <1>6, <1>8, <1>12, <2>1, <2>2, <2>4
  <1>14. /\ queue' \in [Investigations -> Seq(Messages)] /\ \A p \in Investigations \ {q} : queue'[p] = queue[p]
         /\ \A i \in DOMAIN queue'[q] : \E j \in DOMAIN queue[q] : queue'[q][i] = queue[q][j]
    BY <1>1, MessageIsTaken
  <1>15. CASE over
    <2>1. /\ out' = [out EXCEPT ![q] = u] /\ at' = [at EXCEPT ![q] = "ending"] /\ limited' = limited \cup {q}
      BY <1>7, <1>10, <1>15 DEF u
    <2>2. /\ out' \in [Investigations -> Seq(Words)] /\ out'[q] = u /\ at' \in [Investigations -> Places] /\ at'[q] = "ending"
          /\ \A p \in Investigations \ {q} : out'[p] = out[p] /\ at'[p] = at[p]
      BY <1>1, <1>11, <2>1 DEF AgentTypes, Places
    <2>3. AgentTypes'
      BY <1>1, <1>2, <1>12, <1>14, <2>1, <2>2 DEF AgentTypes
    <2>4. \A p \in Investigations \ {q} : Fields(p)' = Fields(p) /\ (p \in limited' <=> p \in limited)
      BY <1>2, <1>12, <1>14, <2>1, <2>2 DEF Fields
    <2>5. StreamSoFar(q)'
      BY <1>11, <2>2 DEF StreamSoFar
    <2>6. q \in limited'
      BY <2>1
    <2>7. IsFiniteSet(evidence'[q]) /\ Cardinality(evidence'[q]) <= Cardinality(CallsIn(out'[q]))
      BY <1>9, <1>11, <1>13, <2>2
    <2>8. (\E i \in DOMAIN queue'[q] : queue'[q][i].kind = "done") => thread'[q] = "ended"
      BY <1>1, <1>2, <1>14 DEF AnswerIsFixed
    <2>9. AnswerIsFixed(q)'
      BY <1>11, <2>2, <2>6, <2>7, <2>8 DEF AnswerIsFixed
    <2> QED
      BY <2>3, <2>4, <2>5, <2>9, OthersAreKept DEF RunInv
  <1>16. CASE ~ over
    <2>1. /\ out' = [out EXCEPT ![q] = t] /\ at' = [at EXCEPT ![q] = "loop"] /\ limited' = limited
      BY <1>7, <1>10, <1>16
    <2>2. /\ out' \in [Investigations -> Seq(Words)] /\ out'[q] = t /\ at' \in [Investigations -> Places] /\ at'[q] = "loop"
          /\ \A p \in Investigations \ {q} : out'[p] = out[p] /\ at'[p] = at[p]
      BY <1>1, <1>9, <2>1 DEF AgentTypes, Places
    <2>3. Len(t) < MAX_STEPS
      <3>1. n = 0 \/ ~(Count(q) + n >= MAX_STEPS)
        BY <1>6, <1>16
      <3>2. n = 0 \/ ~(Len(s) + n >= MAX_STEPS)
        BY <1>4, <3>1
      <3> QED
        BY <1>3, <1>6, <1>9, <3>2
    <2>4. AgentTypes'
      BY <1>1, <1>2, <1>12, <1>14, <2>1, <2>2 DEF AgentTypes
    <2>5. \A p \in Investigations \ {q} : Fields(p)' = Fields(p) /\ (p \in limited' <=> p \in limited)
      BY <1>2, <1>12, <1>14, <2>1, <2>2 DEF Fields
    <2>6. StreamSoFar(q)'
      BY <1>3, <1>9, <2>1, <2>2, <2>3 DEF StreamSoFar
    <2>7. IsFiniteSet(evidence'[q]) /\ Cardinality(evidence'[q]) <= Cardinality(CallsIn(out'[q]))
      BY <1>9, <1>13, <2>2
    <2>8. (\E i \in DOMAIN queue'[q] : queue'[q][i].kind = "done") => thread'[q] = "ended"
      BY <1>1, <1>2, <1>14 DEF AnswerIsFixed
    <2>9. AnswerIsFixed(q)'
      BY <1>9, <2>2, <2>7, <2>8 DEF AnswerIsFixed, OnlyCalls
    <2> QED
      BY <2>4, <2>5, <2>6, <2>9, OthersAreKept DEF RunInv
  <1> QED
    BY <1>15, <1>16

\* Behind the loop: the verdict, if there is none, and the end.
LEMMA ConcludeKeeps ==
  ASSUME AgentInv, NEW q \in Investigations, Conclude(q)
  PROVE  AgentInv'
  <1>1. AgentTypes /\ StreamSoFar(q) /\ AnswerIsFixed(q)
    BY DEF AgentInv, RunInv
  <1> DEFINE s == out[q]
             v == Synthesised(q)
             named == Sent(q, "error") \/ Concluded(q)
  <1>2. /\ at[q] = "ending" /\ at' = [at EXCEPT ![q] = "closing"]
        /\ out' = [out EXCEPT ![q] = s \o IF named THEN <<"done">> ELSE <<v, "done">>]
        /\ UNCHANGED <<queue, thread, steps, answer, overdue, evidence, limited, stop, holder>>
    BY DEF Conclude, Go, Emit, agent
  <1>3. /\ s \in Seq(Words) /\ WellFormed(s)
        /\ \A i \in DOMAIN s : s[i] \in {"tool_call", "limit", "error", "agent_TP", "agent_FP"}
    BY <1>1, <1>2 DEF AgentTypes, StreamSoFar
  <1>4. /\ Rank("tool_call") = 1 /\ Rank("limit") = 2 /\ Rank("done") = 4 /\ Rank("error") = 3
        /\ Rank("agent_TP") = 3 /\ Rank("agent_FP") = 3
        /\ Rank("synthesised_TP") = 3 /\ Rank("synthesised_INCONCLUSIVE") = 3
    BY Ranks DEF Words
  <1>5. "done" \in Words /\ v \in {"synthesised_TP", "synthesised_INCONCLUSIVE"} /\ v \in Words
        /\ (v = "synthesised_TP" => \E r \in evidence[q] : Conclusive(r))
    BY DEF Words, Synthesised
  <1> HIDE DEF v
  <1>6. \E t \in Seq(Words) :
           /\ out' = [out EXCEPT ![q] = t] /\ WellFormed(t) /\ CallsIn(t) = CallsIn(s)
           /\ \A i \in DOMAIN t : (i \in DOMAIN s /\ t[i] = s[i]) \/ t[i] = "done" \/ t[i] = v
    <2>1. CASE named
      <3> DEFINE t == s \o <<"done">>
      <3>1. \E i \in DOMAIN s : Rank(s[i]) = 3
        BY <1>4, <2>1 DEF Sent, Concluded
      <3>2. \A i \in DOMAIN s : Rank(s[i]) < Rank("done")
        BY <1>3, <1>4
      <3>3. /\ t \in Seq(Words) /\ WellFormed(t) /\ CallsIn(t) = CallsIn(s)
            /\ \A i \in DOMAIN t : (i \in DOMAIN s /\ t[i] = s[i]) \/ t[i] = "done"
        BY <1>3, <1>5, <3>1, <3>2, WordIsAdded
      <3>4. out' = [out EXCEPT ![q] = t]
        BY <1>2, <2>1
      <3> HIDE DEF t
      <3> QED
        BY <3>3, <3>4
    <2>2. CASE ~ named
      <3> DEFINE r == s \o <<v>>
                 t == r \o <<"done">>
      <3>1. \A i \in DOMAIN s : s[i] \in {"tool_call", "limit"}
        BY <1>3, <2>2 DEF Sent, Concluded
      <3>2. \A i \in DOMAIN s : Rank(s[i]) < Rank(v)
        BY <1>4, <1>5, <3>1
      <3>3. v # "tool_call" /\ v # "done"
        BY <1>5
      <3>4. /\ r \in Seq(Words) /\ WellFormed(r) /\ CallsIn(r) = CallsIn(s)
            /\ \A i \in DOMAIN r : (i \in DOMAIN s /\ r[i] = s[i]) \/ r[i] = v
            /\ \E i \in DOMAIN r : r[i] = v
        BY <1>3, <1>5, <3>2, <3>3, WordIsAdded
      <3>5. out' = [out EXCEPT ![q] = t]
        <4> DEFINE d == <<v>>
                   e == <<"done">>
        <4>1. d \in Seq(Words) /\ e \in Seq(Words) /\ <<v, "done">> = d \o e
          BY <1>5
        <4>2. out' = [out EXCEPT ![q] = s \o <<v, "done">>]
          BY <1>2, <2>2
        <4>3. s \in Seq(Words) /\ r = s \o d /\ t = r \o e
          BY <1>3
        <4>4. out' = [out EXCEPT ![q] = s \o (d \o e)]
          BY <4>1, <4>2
        <4> HIDE DEF d, e, r, t, s
        <4>5. (s \o d) \o e = s \o (d \o e)
          BY <4>1, <4>3, ConcatAssociative
        <4> QED
          BY <4>3, <4>4, <4>5
      <3> HIDE DEF r
      <3>6. \A i \in DOMAIN r : Rank(r[i]) < Rank("done")
        BY <1>4, <1>5, <3>1, <3>4
      <3>7. \E i \in DOMAIN r : Rank(r[i]) = 3
        BY <1>4, <1>5, <3>4
      <3>8. /\ t \in Seq(Words) /\ WellFormed(t) /\ CallsIn(t) = CallsIn(r)
            /\ \A i \in DOMAIN t : (i \in DOMAIN r /\ t[i] = r[i]) \/ t[i] = "done"
        BY <1>5, <3>4, <3>6, <3>7, WordIsAdded
      <3> HIDE DEF t
      <3>9. \A i \in DOMAIN t : (i \in DOMAIN s /\ t[i] = s[i]) \/ t[i] = "done" \/ t[i] = v
        BY <3>4, <3>8
      <3> QED
        BY <3>4, <3>5, <3>8, <3>9
    <2> QED
      BY <2>1, <2>2
  <1>7. PICK t \in Seq(Words) :
           /\ out' = [out EXCEPT ![q] = t] /\ WellFormed(t) /\ CallsIn(t) = CallsIn(s)
           /\ \A i \in DOMAIN t : (i \in DOMAIN s /\ t[i] = s[i]) \/ t[i] = "done" \/ t[i] = v
    BY <1>6
  <1>8. /\ out' \in [Investigations -> Seq(Words)] /\ out'[q] = t /\ at' \in [Investigations -> Places] /\ at'[q] = "closing"
        /\ \A p \in Investigations \ {q} : out'[p] = out[p] /\ at'[p] = at[p]
    <2>1. out \in [Investigations -> Seq(Words)] /\ at \in [Investigations -> Places] /\ "closing" \in Places
      BY <1>1 DEF AgentTypes, Places
    <2>2. at' = [at EXCEPT ![q] = "closing"] /\ out' = [out EXCEPT ![q] = t]
      BY <1>2, <1>7
    <2> HIDE DEF s
    <2> QED
      BY <2>1, <2>2
  <1>9. AgentTypes'
    BY <1>1, <1>2, <1>8 DEF AgentTypes
  <1>10. \A p \in Investigations \ {q} : Fields(p)' = Fields(p) /\ (p \in limited' <=> p \in limited)
    BY <1>2, <1>8 DEF Fields
  <1>11. StreamSoFar(q)'
    BY <1>7, <1>8 DEF StreamSoFar
  <1>12. AnswerIsFixed(q)'
    <2>1. IsFiniteSet(evidence'[q]) /\ Cardinality(evidence'[q]) <= Cardinality(CallsIn(out'[q]))
      BY <1>1, <1>2, <1>7, <1>8 DEF AnswerIsFixed
    <2>2. (\E i \in DOMAIN queue'[q] : queue'[q][i].kind = "done") => thread'[q] = "ended"
      BY <1>1, <1>2 DEF AnswerIsFixed
    <2>3. \A i \in DOMAIN t : (i \in DOMAIN s /\ t[i] = s[i]) \/ t[i] = "done"
                              \/ t[i] = "synthesised_INCONCLUSIVE"
                              \/ (t[i] = "synthesised_TP" /\ \E r \in evidence[q] : Conclusive(r))
      BY <1>5, <1>7
    <2> HIDE DEF s
    <2>4. \A i \in DOMAIN out'[q] :
             /\ out'[q][i] = "agent_TP" => answer'[q] = "TP" /\ thread'[q] = "ended" /\ q \notin limited'
             /\ out'[q][i] = "agent_FP" => answer'[q] = "FP" /\ thread'[q] = "ended" /\ q \notin limited'
             /\ out'[q][i] = "synthesised_TP" => \E r \in evidence'[q] : Conclusive(r)
             /\ out'[q][i] = "limit" => q \in limited'
      BY <1>1, <1>2, <1>8, <2>3 DEF AnswerIsFixed, s
    <2> QED
      BY <2>1, <2>2, <2>4 DEF AnswerIsFixed
  <1> QED
    BY <1>9, <1>10, <1>11, <1>12, OthersAreKept DEF RunInv

\* The generator takes a message.
LEMMA GetKeeps ==
  ASSUME AgentInv, NEW q \in Investigations, Get(q)
  PROVE  AgentInv'
  <1>1. AgentTypes /\ AnswerIsFixed(q)
    BY DEF AgentInv, RunInv
  <1> DEFINE m == Head(queue[q])
  <1>2. /\ at[q] = "waiting" /\ queue[q] # <<>> /\ queue' = [queue EXCEPT ![q] = Tail(@)]
        /\ \/ m.kind = "step" /\ TakeStep(q, m)
           \/ m.kind = "done" /\ TakeDone(q)
           \/ m.kind = "error" /\ TakeError(q)
        /\ UNCHANGED <<agent, overdue, stop, holder>>
    BY DEF Get
  <1>3. queue[q] \in Seq(Messages)
    BY <1>1 DEF AgentTypes
  <1>4. m \in Messages /\ m = queue[q][1] /\ 1 \in DOMAIN queue[q]
    <2>1. Len(queue[q]) \in Nat /\ Len(queue[q]) # 0 /\ DOMAIN queue[q] = 1 .. Len(queue[q])
      BY <1>2, <1>3, LenProperties, EmptySeq
    <2> QED
      BY <1>2, <1>3, <2>1, ElementOfSeq, HeadTailProperties
  <1> HIDE DEF m
  <1>5. CASE m.kind = "step" /\ TakeStep(q, m)
    BY <1>2, <1>4, <1>5, StepKeeps
  <1>6. CASE m.kind = "done" /\ TakeDone(q)
    <2>1. thread[q] = "ended"
      BY <1>1, <1>4, <1>6 DEF AnswerIsFixed
    <2>2. /\ out' = [out EXCEPT ![q] = @ \o IF Parsed(q) THEN <<VerdictOf(answer[q])>> ELSE <<>>]
          /\ at' = [at EXCEPT ![q] = "ending"] /\ UNCHANGED <<evidence, limited>>
      BY <1>6 DEF TakeDone, Emit, Go
    <2>3. CASE Parsed(q)
      <3> DEFINE x == VerdictOf(answer[q])
      <3>1. /\ x \in {"agent_TP", "agent_FP"} /\ (x = "agent_TP" => answer[q] = "TP")
            /\ (x = "agent_FP" => answer[q] = "FP")
        BY <2>3 DEF VerdictOf, Parsed
      <3>2. out' = [out EXCEPT ![q] = @ \o <<x>>]
        BY <2>2, <2>3
      <3> HIDE DEF x
      <3>3. x \in Words /\ x # "tool_call" /\ x # "limit" /\ x \in {"limit", "error", "agent_TP", "agent_FP"}
        BY <3>1 DEF Words
      <3> QED
        BY <1>2, <2>1, <2>2, <3>1, <3>2, <3>3, SendKeeps
    <2>4. CASE ~ Parsed(q)
      <3>1. out' = [out EXCEPT ![q] = @ \o <<>>]
        BY <2>2, <2>4
      <3> QED
        BY <1>2, <2>2, <3>1, UnreadKeeps
    <2> QED
      BY <2>3, <2>4
  <1>7. CASE m.kind = "error" /\ TakeError(q)
    <2>1. /\ out' = [out EXCEPT ![q] = @ \o <<"error">>]
          /\ at' = [at EXCEPT ![q] = "ending"] /\ UNCHANGED <<evidence, limited>>
      BY <1>7 DEF TakeError, Emit, Go
    <2> DEFINE x == "error"
    <2>2. /\ x \in Words /\ x # "tool_call" /\ x # "limit" /\ x \in {"limit", "error", "agent_TP", "agent_FP"}
          /\ x # "agent_TP" /\ x # "agent_FP"
      BY DEF Words
    <2>3. out' = [out EXCEPT ![q] = @ \o <<x>>]
      BY <2>1
    <2> HIDE DEF x
    <2> QED
      BY <1>2, <2>1, <2>2, <2>3, SendKeeps
  <1> QED
    BY <1>2, <1>5, <1>6, <1>7

\* The generator looks at the clock.
LEMMA LookKeeps ==
  ASSUME AgentInv, NEW q \in Investigations, Look(q)
  PROVE  AgentInv'
  <1>1. at[q] = "loop" /\ UNCHANGED <<queue, agent, overdue, evidence, stop, holder>>
    BY DEF Look
  <1>2. overdue' \subseteq Investigations /\ stop' \subseteq Investigations /\ holder' \subseteq Investigations
    BY <1>1 DEF AgentInv, AgentTypes
  <1>3. CASE q \in overdue
    <2> DEFINE x == "limit"
    <2>1. /\ x \in Words /\ x # "tool_call" /\ x \in {"limit", "error", "agent_TP", "agent_FP"}
          /\ x # "agent_TP" /\ x # "agent_FP"
      BY DEF Words
    <2>2. /\ out' = [out EXCEPT ![q] = @ \o <<x>>] /\ at' = [at EXCEPT ![q] = "ending"]
          /\ limited' = IF x = "limit" THEN limited \cup {q} ELSE limited
      BY <1>3 DEF Look, Emit, Go
    <2> HIDE DEF x
    <2> QED
      BY <1>1, <2>1, <2>2, SendKeeps
  <1>4. CASE q \notin overdue
    <2> DEFINE spot == "waiting"
    <2>1. at' = [at EXCEPT ![q] = spot] /\ UNCHANGED <<out, limited>>
      BY <1>4 DEF Look, Go
    <2>2. spot \in Places \ {"new", "accepted", "building", "ending"}
      BY DEF Places
    <2> HIDE DEF spot
    <2> QED
      BY <1>1, <1>2, <2>1, <2>2, QuietKeeps
  <1> QED
    BY <1>3, <1>4

\* The clock, an empty queue, the client and the end of the generator.
LEMMA RestKeeps ==
  ASSUME AgentInv, NEW q \in Investigations,
         Deadline(q) \/ GetEmpty(q) \/ Disconnect(q) \/ SetStop(q) \/ Release(q)
  PROVE  AgentInv'
  <1>1. \E spot \in {"loop", "closing", "over"} :
          /\ at' = at \/ at' = [at EXCEPT ![q] = spot]
          /\ spot = "loop" => at[q] \in {"loop", "waiting"}
    BY DEF Deadline, GetEmpty, Disconnect, SetStop, Release, Go
  <1>2. PICK spot \in {"loop", "closing", "over"} :
          /\ at' = at \/ at' = [at EXCEPT ![q] = spot]
          /\ spot = "loop" => at[q] \in {"loop", "waiting"}
    BY <1>1
  <1>3. spot \in Places \ {"new", "accepted", "building", "ending"} /\ spot # "waiting"
    BY DEF Places
  <1>4. queue' = queue \/ queue' = [queue EXCEPT ![q] = <<>>]
    BY DEF Deadline, GetEmpty, Disconnect, SetStop, Release
  <1>5. UNCHANGED <<out, agent, evidence, limited>>
    BY DEF Deadline, GetEmpty, Disconnect, SetStop, Release, agent
  <1>6. overdue' \subseteq Investigations /\ stop' \subseteq Investigations /\ holder' \subseteq Investigations
    BY DEF Deadline, GetEmpty, Disconnect, SetStop, Release, AgentInv, AgentTypes
  <1> QED
    BY <1>2, <1>3, <1>4, <1>5, <1>6, QuietKeeps

LEMMA AgentNextInv == AgentInv /\ [AgentNext]_agentVars => AgentInv'
  <1> SUFFICES ASSUME AgentInv, [AgentNext]_agentVars PROVE AgentInv'
    OBVIOUS
  <1>1. CASE AgentNext
    <2>1. PICK q \in Investigations :
            Arrive(q) \/ Enter(q) \/ Build(q) \/ Agent(q) \/ Deadline(q) \/ Generator(q) \/ Disconnect(q)
      BY <1>1 DEF AgentNext
    <2> QED
      BY <2>1, OpeningKeeps, ThreadKeeps, LookKeeps, GetKeeps, ConcludeKeeps, RestKeeps DEF Generator
  <1>2. CASE UNCHANGED agentVars
    BY <1>2 DEF agentVars, AgentInv, AgentTypes, RunInv, StreamSoFar, AnswerIsFixed
  <1> QED
    BY <1>1, <1>2

LEMMA AgentInvHolds == AgentSpec => []AgentInv
  BY AgentInitInv, AgentNextInv, PTL DEF AgentSpec

\* Every state of the investigations is well typed, for any requests, tool
\* results and limit (stream_investigation and run_investigation).
THEOREM AgentIsTyped == AgentSpec => []AgentTypeOK
  <1>1. ASSUME AgentInv PROVE AgentTypeOK
    <2>1. AgentTypes
      BY <1>1 DEF AgentInv
    <2>2. ASSUME NEW q \in Investigations, NEW i \in DOMAIN out[q]
          PROVE  out[q][i] \in Words
      BY <2>1, <2>2, ElementOfSeq, LenProperties DEF AgentTypes
    <2>3. \A q \in Investigations : evidence[q] \subseteq ToolResults
      BY <2>1 DEF AgentTypes
    <2> QED
      BY <2>1, <2>2, <2>3 DEF AgentTypes, AgentTypeOK, Words
  <1> QED
    BY <1>1, AgentInvHolds, PTL

\* The stream of an investigation keeps its grammar, for any number of requests,
\* any limit of calls, any calls in a step, and with the deadline, the disconnect
\* and the failures of the agent at any moment.
THEOREM StreamsAreWellFormed == AgentSpec => []StreamIsWellFormed
  <1>1. AgentInv => StreamIsWellFormed
    <2> SUFFICES ASSUME AgentInv, NEW q \in Investigations
                 PROVE  /\ Count(q) <= MAX_STEPS
                        /\ \A i, j \in DOMAIN out[q] :
                             i < j => \/ Rank(out[q][i]) < Rank(out[q][j])
                                      \/ out[q][i] = "tool_call" /\ out[q][j] = "tool_call"
                        /\ Sent(q, "done") => \E i \in DOMAIN out[q] : Rank(out[q][i]) = 3
      BY Zenon DEF StreamIsWellFormed
    <2>1. WellFormed(out[q])
      BY DEF AgentInv, RunInv, StreamSoFar
    <2> QED
      BY <2>1 DEF WellFormed, InOrder, Answered, Sent, Count, CallsIn
  <1> QED
    BY <1>1, AgentInvHolds, PTL

\* A verdict in a stream is the agent's own final answer in a run without a limit,
\* or made up from evidence that the client was shown.
THEOREM VerdictsAreGrounded == AgentSpec => []VerdictIsGrounded
  <1>1. AgentInv => VerdictIsGrounded
    <2> SUFFICES ASSUME AgentInv, NEW q \in Investigations, NEW i \in DOMAIN out[q]
                 PROVE  /\ out[q][i] = "agent_TP" => answer[q] = "TP" /\ q \notin limited
                        /\ out[q][i] = "agent_FP" => answer[q] = "FP" /\ q \notin limited
                        /\ out[q][i] = "synthesised_TP" =>
                             Cardinality(evidence[q]) <= Count(q) /\ \E r \in evidence[q] : Conclusive(r)
                        /\ Rank(out[q][i]) = 3 /\ out[q][i] \notin {"error", "refused"} /\ Sent(q, "limit") =>
                             out[q][i] \in {"synthesised_TP", "synthesised_INCONCLUSIVE"}
      BY Zenon DEF VerdictIsGrounded
    <2>1. AnswerIsFixed(q) /\ out[q] \in Seq(Words)
      BY DEF AgentInv, RunInv, AgentTypes
    <2>2. out[q][i] \in Words
      BY <2>1, ElementOfSeq, LenProperties
    <2>3. Rank(out[q][i]) = 3 => out[q][i] \in {"refused", "error", "agent_TP", "agent_FP", "synthesised_TP", "synthesised_INCONCLUSIVE"}
      BY <2>2, Ranks DEF Words
    <2>4. Sent(q, "limit") => q \in limited
      BY <2>1 DEF AnswerIsFixed, Sent
    <2>5. Cardinality(evidence[q]) <= Count(q)
      BY <2>1 DEF AnswerIsFixed, Count, CallsIn
    <2> QED
      BY <2>1, <2>3, <2>4, <2>5 DEF AnswerIsFixed
  <1> QED
    BY <1>1, AgentInvHolds, PTL

\* A step of one request moves no other generator.
LEMMA SlotStep ==
  ASSUME AgentInv, SlotIsHeld, NEW q \in Investigations,
         Arrive(q) \/ Enter(q) \/ Build(q) \/ Agent(q) \/ Deadline(q) \/ Generator(q) \/ Disconnect(q)
  PROVE  SlotIsHeld'
  <1>1. at \in [Investigations -> Places]
    BY DEF AgentInv, AgentTypes
  <1>2. ASSUME NEW spot, at' = [at EXCEPT ![q] = spot],
               \/ holder' = holder /\ (Entered(q) <=> spot \in {"building", "loop", "waiting", "ending", "closing"})
               \/ /\ holder' = {q} /\ holder = {}
                  /\ spot \in {"building", "loop", "waiting", "ending", "closing"}
               \/ holder' = {} /\ q \in holder /\ spot = "over"
        PROVE  SlotIsHeld'
    <2>1. /\ Entered(q)' <=> spot \in {"building", "loop", "waiting", "ending", "closing"}
          /\ \A p \in Investigations \ {q} : Entered(p)' <=> Entered(p)
      BY <1>1, <1>2 DEF Entered
    <2>2. holder' = {p \in Investigations : Entered(p)'}
      BY <1>2, <2>1 DEF SlotIsHeld
    <2>3. \A p, r \in holder' : p = r
      BY <1>2 DEF SlotIsHeld
    <2> QED
      BY <2>2, <2>3 DEF SlotIsHeld, Entered
  <1>3. CASE Arrive(q)
    BY <1>2, <1>3 DEF Arrive, Go, Entered
  <1>4. CASE Enter(q)
    BY <1>2, <1>4 DEF Enter, Go, Entered
  <1>5. CASE Build(q)
    <2>1. q \in holder
      BY <1>5 DEF Build, SlotIsHeld, Entered
    <2> QED
      BY <1>2, <1>5, <2>1 DEF Build, Go, Entered
  <1>6. CASE Agent(q) \/ Deadline(q) \/ SetStop(q)
    <2>1. UNCHANGED <<at, holder>>
      BY <1>6 DEF Agent, AgentStep, AgentAnswers, AgentFails, AgentStops, Deadline, SetStop
    <2> QED
      BY <2>1 DEF SlotIsHeld, Entered
  <1>7. CASE Look(q) \/ GetEmpty(q) \/ Get(q) \/ Conclude(q) \/ Disconnect(q)
    <2>1. /\ at[q] \in {"loop", "waiting", "ending"} /\ holder' = holder
          /\ \E spot \in {"loop", "waiting", "ending", "closing"} : at' = [at EXCEPT ![q] = spot]
      BY <1>7 DEF Look, GetEmpty, Get, TakeStep, TakeDone, TakeError, Conclude, Disconnect, Go
    <2> QED
      BY <1>2, <2>1 DEF Entered
  <1>8. CASE Release(q)
    <2>1. q \in holder
      BY <1>8 DEF Release, SlotIsHeld, Entered
    <2> QED
      BY <1>2, <1>8, <2>1 DEF Release, Go
  <1> QED
    BY <1>3, <1>4, <1>5, <1>6, <1>7, <1>8 DEF Generator

\* One investigation at a time has the semaphore, from its entry to its end and no
\* longer, for any number of requests and whatever the agent, the clock and the
\* clients do: the route's two looks at it leave no gap.
THEOREM OneStreamRuns == AgentSpec => []SlotIsHeld
  <1>1. AgentInit => SlotIsHeld
    BY DEF AgentInit, SlotIsHeld, Entered
  <1>2. ASSUME AgentInv, SlotIsHeld, [AgentNext]_agentVars PROVE SlotIsHeld'
    <2>1. CASE AgentNext
      BY <1>2, <2>1, SlotStep DEF AgentNext
    <2>2. CASE UNCHANGED agentVars
      BY <1>2, <2>2 DEF agentVars, SlotIsHeld, Entered
    <2> QED
      BY <1>2, <2>1, <2>2
  <1> QED
    BY <1>1, <1>2, AgentInvHolds, PTL DEF AgentSpec

-----------------------------------------------------------------------------
(* The schema.                                                             *)

AddedColumns == {s.column : s \in Altered}

\* What a start has behind it is done: its tables exist, its columns are there
\* or were refused in this very start.
IsMade(i) ==
  /\ STEPS[i].op = "create" => \A t \in STEPS[i].tables : Exists(t)
  /\ STEPS[i].op = "add" => STEPS[i].column \notin lacks \/ STEPS[i].column \in skipped

\* A table that exists lacks nothing but columns that an ALTER adds.
TablesAreWhole ==
  \A t \in DOMAIN TABLES :
    Exists(t) => \A c \in TABLES[t].columns : <<t, c>> \in lacks => <<t, c>> \in AddedColumns

SchemaInv ==
  /\ lacks \subseteq Known
  /\ place \in 0 .. Len(STEPS) + 1
  /\ TablesAreWhole
  /\ \A i \in 1 .. place - 1 : IsMade(i)

LEMMA StepsAre == Len(STEPS) \in Nat /\ DOMAIN STEPS = 1 .. Len(STEPS)
  BY StepsAreWhole, LenProperties

LEMMA InitIsWhole == SchemaInit => SchemaInv
  <1> SUFFICES ASSUME SchemaInit PROVE SchemaInv
    OBVIOUS
  <1>1. place = 0 /\ 0 \in 0 .. Len(STEPS) + 1
    BY StepsAre DEF SchemaInit
  <1>2. lacks = Known \/ \E v \in Versions : lacks = LackedAt(v)
    BY DEF SchemaInit
  <1>3. lacks \subseteq Known
    BY <1>2 DEF LackedAt
  <1>4. TablesAreWhole
    <2> SUFFICES ASSUME NEW t \in DOMAIN TABLES, NEW d \in TABLES[t].columns, <<t, d>> \notin lacks,
                        NEW c \in TABLES[t].columns, <<t, c>> \in lacks
                 PROVE  <<t, c>> \in AddedColumns
      BY DEF TablesAreWhole, Exists
    <2>1. <<t, d>> \in Known
      BY DEF Known
    <2>2. PICK v \in Versions : lacks = LackedAt(v)
      BY <1>2, <2>1
    <2>3. ~(Since(t) > v)
      BY <2>1, <2>2 DEF LackedAt
    <2>4. SinceColumn(t, c) > v
      BY <2>2, <2>3 DEF LackedAt
    <2>5. \E s \in Altered : s.column = <<t, c>>
      BY <2>3, <2>4 DEF SinceColumn
    <2> QED
      BY <2>5 DEF AddedColumns
  <1> QED
    BY <1>1, <1>3, <1>4 DEF SchemaInv

\* Columns only come: a table that exists goes on to exist.
LEMMA StepsStayMade ==
  ASSUME NEW i, IsMade(i), lacks' \subseteq lacks, skipped \subseteq skipped'
  PROVE  IsMade(i)'
  BY DEF IsMade, Exists


\* A step that is done adds to what the start has behind it.
LEMMA StepIsMade ==
  ASSUME SchemaInv, Starting, place' = place + 1, lacks' \subseteq lacks, skipped \subseteq skipped',
         TablesAreWhole', NEW p \in DOMAIN STEPS, p = place, IsMade(p)'
  PROVE  SchemaInv'
  <1>1. place \in Nat /\ place \in 1 .. Len(STEPS) /\ place' \in 0 .. Len(STEPS) + 1
    BY StepsAre DEF SchemaInv, Starting, Down, Serves
  <1>2. \A i \in 1 .. place' - 1 : i \in 1 .. place - 1 \/ i = p
    BY <1>1
  <1>3. \A i \in 1 .. place' - 1 : IsMade(i)'
    BY <1>2, StepsStayMade DEF SchemaInv
  <1>4. lacks' \subseteq Known
    BY DEF SchemaInv
  <1> QED
    BY <1>1, <1>3, <1>4 DEF SchemaInv

\* The start is at a step, or before or behind them all.
LEMMA StartIsAt ==
  ASSUME SchemaInv, Starting
  PROVE  place \in DOMAIN STEPS /\ place \in Nat /\ \A i \in 1 .. place - 1 : IsMade(i)
  BY StepsAre DEF SchemaInv, Starting, Down, Serves

LEMMA CreateKeeps ==
  ASSUME SchemaInv, CreateTables
  PROVE  SchemaInv'
  <1> DEFINE new == {u \in STEPS[place].tables : ~Exists(u)}
             columns == UNION {{<<t, c>> : c \in TABLES[t].columns} : t \in new}
  <1>1. /\ Starting /\ STEPS[place].op = "create"
        /\ lacks' = lacks \ columns /\ place' = place + 1 /\ skipped' = skipped
    BY DEF CreateTables, StepIs
  <1>2. \A t \in new : \A c \in TABLES[t].columns : <<t, c>> \notin lacks'
    BY <1>1
  <1>3. \A t \in DOMAIN TABLES : t \in new \/ (Exists(t)' => Exists(t))
    <2> SUFFICES ASSUME NEW t \in DOMAIN TABLES, t \notin new, NEW c \in TABLES[t].columns, <<t, c>> \notin lacks'
                 PROVE  <<t, c>> \notin lacks
      BY DEF Exists
    <2>1. <<t, c>> \notin columns
      OBVIOUS
    <2> QED
      BY <1>1, <2>1
  <1> HIDE DEF columns, new
  <1>4. TablesAreWhole'
    BY <1>1, <1>2, <1>3 DEF SchemaInv, TablesAreWhole
  <1>5. place \in DOMAIN STEPS
    BY <1>1, StartIsAt
  <1>6. \A t \in STEPS[place].tables : Exists(t)'
    <2> SUFFICES ASSUME NEW t \in STEPS[place].tables PROVE Exists(t)'
      OBVIOUS
    <2>1. CASE t \in new
      <3>1. TABLES[t].columns # {}
        BY <1>1, <1>5, StepsAreWhole
      <3> QED
        BY <1>2, <2>1, <3>1 DEF Exists
    <2>2. CASE t \notin new
      BY <1>1, <2>2 DEF Exists, new
    <2> QED
      BY <2>1, <2>2
  <1>7. \A p : p = place => IsMade(p)'
    BY <1>1, <1>6 DEF IsMade
  <1> QED
    BY <1>1, <1>4, <1>5, <1>7, StepIsMade

LEMMA AlterKeeps ==
  ASSUME SchemaInv, Add \/ AddFails
  PROVE  SchemaInv'
  <1>1. /\ Starting /\ STEPS[place].op = "add" /\ place' = place + 1
        /\ \/ lacks' = lacks \ {STEPS[place].column} /\ skipped' = skipped
           \/ lacks' = lacks /\ skipped' = skipped \cup ({STEPS[place].column} \cap lacks)
    BY DEF Add, AddFails, StepIs, AfterAlter
  <1>2. place \in DOMAIN STEPS /\ place \in Nat
    BY <1>1, StartIsAt
  <1>3. PICK j \in 1 .. (place - 1) : STEPS[j].op = "create" /\ STEPS[place].column[1] \in STEPS[j].tables
    BY <1>1, <1>2, StepsAreWhole
  <1>4. Exists(STEPS[place].column[1])
    BY <1>1, <1>3, StartIsAt DEF IsMade
  <1>5. \A t \in DOMAIN TABLES : Exists(t)' => Exists(t)
    <2> SUFFICES ASSUME NEW t \in DOMAIN TABLES, NEW c \in TABLES[t].columns, <<t, c>> \notin lacks'
                 PROVE  Exists(t)
      BY DEF Exists
    <2>1. CASE <<t, c>> \notin lacks
      BY <2>1 DEF Exists
    <2>2. CASE <<t, c>> = STEPS[place].column
      <3>1. t = STEPS[place].column[1]
        BY <2>2
      <3> QED
        BY <1>4, <3>1
    <2> QED
      BY <1>1, <2>1, <2>2
  <1>6. TablesAreWhole'
    BY <1>1, <1>5 DEF SchemaInv, TablesAreWhole
  <1>7. \A p : p = place => IsMade(p)'
    BY <1>1 DEF IsMade
  <1> QED
    BY <1>1, <1>2, <1>6, <1>7, StepIsMade

LEMMA SchemaInductive == SchemaInv /\ [SchemaNext]_schVars => SchemaInv'
  <1> SUFFICES ASSUME SchemaInv, [SchemaNext]_schVars PROVE SchemaInv'
    OBVIOUS
  <1>1. CASE Start \/ Dies \/ Stop
    <2>1. lacks' = lacks /\ place' \in {0, 1}
      BY <1>1 DEF Start, Dies, Stop
    <2>2. TablesAreWhole'
      BY <2>1 DEF SchemaInv, TablesAreWhole, Exists
    <2>3. place' \in Nat /\ place' <= 1
      BY <2>1
    <2>4. place' \in 0 .. Len(STEPS) + 1
      BY <2>3, StepsAre
    <2>5. \A n \in {0, 1} : \A i : i \in 1 .. n - 1 => FALSE
      OBVIOUS
    <2>6. \A i \in 1 .. place' - 1 : IsMade(i)'
      BY <2>1, <2>5
    <2> QED
      BY <2>1, <2>2, <2>4, <2>6 DEF SchemaInv
  <1>2. CASE CreateTables
    BY <1>2, CreateKeeps
  <1>3. CASE Add \/ AddFails
    BY <1>3, AlterKeeps
  <1>4. CASE Seed \/ Upgrade \/ VersionFails
    <2>1. /\ Starting /\ STEPS[place].op \in {"seed", "upgrade"}
          /\ place' = place + 1 /\ lacks' = lacks /\ skipped' = skipped
      BY <1>4 DEF Seed, Upgrade, VersionFails, StepIs
    <2>2. TablesAreWhole' /\ \A p : p = place => IsMade(p)'
      BY <2>1 DEF SchemaInv, TablesAreWhole, Exists, IsMade
    <2> QED
      BY <2>1, <2>2, StartIsAt, StepIsMade
  <1>5. CASE StoreEntity \/ UNCHANGED schVars
    <2>1. lacks' = lacks /\ place' = place /\ skipped' = skipped
      BY <1>5 DEF StoreEntity, schVars
    <2> QED
      BY <2>1 DEF SchemaInv, TablesAreWhole, Exists, IsMade
  <1> QED
    BY <1>1, <1>2, <1>3, <1>4, <1>5 DEF SchemaNext

\* Every start that is through, whatever version or interrupted start the
\* database is from, leaves a schema that the stores' statements fit
\* (initialise_schema, SQLiteStore.__init__).
THEOREM StatementsFind == SchemaSpec => []SchemaIsWhole
  <1>1. SchemaInv => SchemaIsWhole
    <2> SUFFICES ASSUME SchemaInv, Serves, NEW s \in StoreStatements,
                        \A c \in s.columns : <<s.table, c>> \notin skipped
                 PROVE  Finds(s)
      BY DEF SchemaIsWhole
    <2>1. \A i \in DOMAIN STEPS : IsMade(i)
      BY StepsAre DEF SchemaInv, Serves
    <2>2. \A t \in DOMAIN TABLES : Exists(t)
      BY <2>1, StepsAreWhole DEF IsMade
    <2>3. \A k \in AddedColumns : k \notin lacks \/ k \in skipped
      BY <2>1 DEF IsMade, AddedColumns, Altered
    <2>4. \A t \in DOMAIN TABLES : \A c \in TABLES[t].columns : <<t, c>> \in lacks => <<t, c>> \in AddedColumns
      BY <2>2 DEF SchemaInv, TablesAreWhole
    <2>5. \A k \in Known : k \in AddedColumns \/ \E t \in DOMAIN TABLES : \E c \in TABLES[t].columns : k = <<t, c>>
      BY DEF Known, AddedColumns
    <2>6. \A k \in Known : k \notin lacks \/ k \in skipped
      BY <2>3, <2>4, <2>5
    <2> QED
      BY <2>6, StatementsAreKnown DEF Finds
  <1> QED
    BY <1>1, InitIsWhole, SchemaInductive, PTL DEF SchemaSpec

\* No start calls a graph 2.0.0 that holds entities of before the version
\* (the two statements on graph_schema_version in SQLiteStore.__init__).
THEOREM VersionIsEarned == SchemaSpec => []GraphVersionIsTrue
  <1>1. SchemaInit => GraphVersionIsTrue
    BY DEF SchemaInit, GraphVersionIsTrue
  <1>2. GraphVersionIsTrue /\ [SchemaNext]_schVars => GraphVersionIsTrue'
    <2> SUFFICES ASSUME GraphVersionIsTrue, [SchemaNext]_schVars PROVE GraphVersionIsTrue'
      OBVIOUS
    <2>1. CASE graphVersion' = graphVersion /\ graph' = graph
      BY <2>1 DEF GraphVersionIsTrue
    <2>2. CASE Seed \/ Upgrade \/ StoreEntity
      BY <2>2 DEF GraphVersionIsTrue, Seed, Upgrade, MayUpgrade, StoreEntity
    <2> QED
      BY <2>1, <2>2 DEF SchemaNext, schVars, Start, CreateTables, Add, AddFails, VersionFails, Dies, Stop
  <1> QED
    BY <1>1, <1>2, PTL DEF SchemaSpec
=============================================================================
