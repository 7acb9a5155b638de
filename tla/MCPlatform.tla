------------------------------ MODULE MCPlatform -----------------------------
(* Playbooks for TLC: two runs of two steps and five requests for them; the*)
(* library under starts, upgrades, new playbooks and runs; uploads: two of *)
(* them, each of any of seven files; the start over no database and those  *)
(* of six phases; and two investigations by the agent.                     *)
EXTENDS Playbooks, PlaybookLibrary, IngestJobs, Schema, AgentRun

CONSTANTS r1, r2, host, own, block, cancel, again, shield, lift

Ask(k, r, n, o, act, t, c) == [kind |-> k, run |-> r, step |-> n, outcome |-> o,
                               action |-> act, target |-> t, confidence |-> c]

MCRequests == {block, cancel, again, shield, lift}

MCRequest == [q \in MCRequests |->
  CASE q = block  -> Ask("advance", r1, 1, "confirmed", "block_ip", host, "high")
    [] q = cancel -> Ask("cancel", r1, 1, "skipped", "none", host, "none")
    [] q = again  -> Ask("advance", r2, 1, "confirmed", "block_ip", host, "none")
    [] q = shield -> Ask("advance", r1, 2, "confirmed", "block_ip", own, "high")
    [] q = lift   -> Ask("advance", r2, 2, "confirmed", "unblock_ip", host, "high")]

\* Two starters; analysts name a playbook as they like, also like a built-in.
\* One starter has a run.
MCLegacy == {"NIST 1", "NIST 2"}
MCAdded == {"Phishing / BEC Response"}
MCWithRuns == {"NIST 1"}

Uploaded(s, l, rs) == [suffix |-> s, layout |-> l, records |-> rs]
MCContent == [evtx   |-> Uploaded(".evtx", "records", <<"named", "ok">>),
              broken |-> Uploaded(".evtx", "broken", <<"named">>),
              object |-> Uploaded(".json", "object", <<"ok">>),
              lines  |-> Uploaded(".jsonl", "lines", <<"ok", "odd">>),
              far    |-> Uploaded(".csv", "table", <<"far">>),
              system |-> Uploaded(".evtx", "records", <<"named">>),
              other  |-> Uploaded(".txt", "table", <<"ok">>)]
MCFiles == DOMAIN MCContent
MCFindings == [hayabusa |-> 2, chainsaw |-> 1]

\* A query that found an imitated name, which makes a verdict of its own.
MCResults == {[tool |-> "query_events", arg |-> "svchosts", found |-> TRUE, names |-> {}, lsass |-> FALSE]}

VARIABLES
  part

MCInit == /\ part \in {"runs", "library", "uploads", "schema", "agent"}
          /\ Init
          /\ part = "runs" \/ mode = CHOOSE m \in Modes : TRUE
          /\ LibraryInit
          /\ part = "library" \/ (playbooks = {} /\ used = {})
          /\ JobsInit
          /\ part = "uploads" \/ file = [u \in Uploads |-> "far"]
          /\ SchemaInit
          /\ part = "schema" \/ (graphVersion = "2.0.0" /\ graph = {} /\ lacks = {})
          /\ AgentInit

\* A part leaves the variables of the others alone.
RunsOnly ==
  /\ part = "runs"
  /\ UNCHANGED <<part, libraryVars, jobsVars, schVars, agentVars>>
LibraryOnly ==
  /\ part = "library"
  /\ UNCHANGED <<part, vars, jobsVars, schVars, agentVars>>
UploadsOnly ==
  /\ part = "uploads"
  /\ UNCHANGED <<part, vars, libraryVars, schVars, agentVars>>
SchemaOnly ==
  /\ part = "schema"
  /\ UNCHANGED <<part, vars, libraryVars, jobsVars, agentVars>>
AgentOnly ==
  /\ part = "agent"
  /\ UNCHANGED <<part, vars, libraryVars, jobsVars, schVars>>

MCNext ==
  \/ RunsOnly /\ Next
  \/ LibraryOnly /\ LibraryNext
  \/ UploadsOnly /\ JobsNext
  \/ SchemaOnly /\ SchemaNext
  \/ AgentOnly /\ AgentNext

\* One part runs, so that fairness to a disjunction over the parts is fairness
\* to the action of the part that runs.
Fair1 ==
  \/ AgentOnly /\ (Enter("q1") \/ Build("q1"))
Fair2 ==
  \/ AgentOnly /\ Generator("q1")
Fair3 ==
  \/ AgentOnly /\ Deadline("q1")
Fair4 ==
  \/ AgentOnly /\ (Enter("q2") \/ Build("q2"))
Fair5 ==
  \/ AgentOnly /\ Generator("q2")
Fair6 ==
  \/ AgentOnly /\ Deadline("q2")

allVars == <<part, vars, libraryVars, jobsVars, schVars, agentVars>>

MCSpec == /\ MCInit /\ [][MCNext]_allVars
          /\ WF_allVars(Fair1)
          /\ WF_allVars(Fair2)
          /\ WF_allVars(Fair3)
          /\ WF_allVars(Fair4)
          /\ WF_allVars(Fair5)
          /\ WF_allVars(Fair6)
==============================================================================
