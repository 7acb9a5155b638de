------------------------------ MODULE AgentRun -------------------------------
(***************************************************************************)
(* The agentic investigation: POST /investigate/agentic                    *)
(* (backend/api/investigate.py) and run_investigation                      *)
(* (backend/services/agent/runner.py).  A thread runs the agent and puts   *)
(* its steps into a queue; an asynchronous generator takes them out, with  *)
(* a deadline and a limit of tool calls, and yields the events of the      *)
(* stream.  A semaphore lets one investigation in at a time.  The agent is *)
(* smolagents' and its model: when it answers, what, and whether it does   *)
(* at all, is open.                                                        *)
(***************************************************************************)
EXTENDS Naturals, Sequences, FiniteSets

CONSTANTS
  Investigations, \* requests for an investigation
  ToolResults,    \* what a tool call may bring: [tool, arg, found, names, lsass]
  Masquerades,    \* the process names that imitate a Windows binary
  MAX_STEPS,      \* limit of tool calls (10 in the code) and of the agent's steps
  MaxCalls        \* bound on the calls of one step of the agent

ASSUME AgentRunAssumption == MAX_STEPS \in Nat \ {0} /\ MaxCalls \in Nat

VARIABLES
  at,             \* request -> where its generator is
  out,            \* request -> the events it was sent
  queue,          \* request -> event_queue
  thread,         \* request -> "none", "thinking" (within agent.run), "ended"
  steps,          \* request -> steps the agent has made
  answer,         \* request -> final_answer: "none", "TP", "FP", "unreadable"
  overdue,        \* the requests whose deadline has passed
  evidence,       \* request -> accumulated_tool_results
  limited,        \* the requests whose limit_fired is set
  stop,           \* the requests whose stop_event is set
  holder          \* who holds _AGENTIC_SEMAPHORE

agentVars == <<at, out, queue, thread, steps, answer, overdue, evidence, limited, stop, holder>>
agent == <<thread, steps, answer>>

Places == {"new", "accepted", "building", "loop", "waiting", "ending", "closing", "over"}
Answers == {"TP", "FP", "unreadable"}

AgentTypeOK ==
  /\ at \in [Investigations -> Places]
  /\ \A q \in Investigations : \A i \in DOMAIN out[q] :
       out[q][i] \in {"refused", "tool_call", "limit", "error", "done"}
                     \union {"agent_TP", "agent_FP", "synthesised_TP", "synthesised_INCONCLUSIVE"}
  /\ thread \in [Investigations -> {"none", "thinking", "ended"}]
  /\ steps \in [Investigations -> 0..MAX_STEPS]
  /\ answer \in [Investigations -> Answers \union {"none"}]
  /\ overdue \subseteq Investigations /\ limited \subseteq Investigations /\ stop \subseteq Investigations
  /\ \A q \in Investigations : evidence[q] \subseteq ToolResults
  /\ holder \subseteq Investigations

AgentInit ==
  /\ at = [q \in Investigations |-> "new"]
  /\ out = [q \in Investigations |-> <<>>]
  /\ queue = [q \in Investigations |-> <<>>]
  /\ thread = [q \in Investigations |-> "none"]
  /\ steps = [q \in Investigations |-> 0]
  /\ answer = [q \in Investigations |-> "none"]
  /\ overdue = {} /\ limited = {} /\ stop = {} /\ holder = {}
  /\ evidence = [q \in Investigations |-> {}]

Go(q, place) == at' = [at EXCEPT ![q] = place]
Emit(q, events) == out' = [out EXCEPT ![q] = @ \o events]

(* What the thread puts there when the generator is gone is never read. *)
Put(q, m) == queue' = IF at[q] = "over" THEN queue ELSE [queue EXCEPT ![q] = Append(@, m)]

-----------------------------------------------------------------------------
(* The route.  It answers 429 at once while another run holds the          *)
(* semaphore.                                                              *)
Arrive(q) ==
  /\ at[q] = "new"
  /\ IF holder # {} THEN Go(q, "over") /\ Emit(q, <<"refused">>)
     ELSE Go(q, "accepted") /\ UNCHANGED out
  /\ UNCHANGED <<queue, agent, overdue, evidence, limited, stop, holder>>

(* _event_generator looks again, and takes the semaphore with no await in  *)
(* between.                                                                *)
Enter(q) ==
  /\ at[q] = "accepted"
  /\ IF holder # {} THEN Go(q, "over") /\ Emit(q, <<"error">>) /\ UNCHANGED holder
     ELSE Go(q, "building") /\ holder' = {q} /\ UNCHANGED out
  /\ UNCHANGED <<queue, agent, overdue, evidence, limited, stop>>

(* _run_agentic: the agent is built and the thread started; if it cannot   *)
(* be built, one error event is all there is.                              *)
Build(q) ==
  /\ at[q] = "building"
  /\ \/ Go(q, "loop") /\ thread' = [thread EXCEPT ![q] = "thinking"] /\ UNCHANGED <<out, holder>>
     \/ Go(q, "over") /\ Emit(q, <<"error">>) /\ holder' = {} /\ UNCHANGED thread
  /\ UNCHANGED <<queue, steps, answer, overdue, evidence, limited, stop>>

-----------------------------------------------------------------------------
(* The thread.  A step that ends after the stop flag was set ends the run. *)
(* A step under way is not cancelled by the flag.                          *)
Thinking(q) == thread[q] = "thinking"

AgentStep(q) ==
  /\ Thinking(q) /\ q \notin stop /\ steps[q] < MAX_STEPS
  /\ \E calls \in UNION {[1..n -> ToolResults] : n \in 0..MaxCalls} : Put(q, [kind |-> "step", calls |-> calls])
  /\ steps' = [steps EXCEPT ![q] = @ + 1]
  /\ UNCHANGED <<at, out, thread, answer, overdue, evidence, limited, stop, holder>>

(* The final answer is kept before the end of the run is put in the queue. *)
AgentAnswers(q) ==
  /\ Thinking(q) /\ q \notin stop
  /\ \E a \in Answers : answer' = [answer EXCEPT ![q] = a]
  /\ Put(q, [kind |-> "done"])
  /\ thread' = [thread EXCEPT ![q] = "ended"]
  /\ UNCHANGED <<at, out, steps, overdue, evidence, limited, stop, holder>>

AgentFails(q) ==
  /\ Thinking(q)
  /\ Put(q, [kind |-> "error"])
  /\ thread' = [thread EXCEPT ![q] = "ended"]
  /\ UNCHANGED <<at, out, steps, answer, overdue, evidence, limited, stop, holder>>

AgentStops(q) ==
  /\ Thinking(q) /\ q \in stop
  /\ thread' = [thread EXCEPT ![q] = "ended"]
  /\ UNCHANGED <<at, out, queue, steps, answer, overdue, evidence, limited, stop, holder>>

-----------------------------------------------------------------------------
(* The generator.  The clock may pass the deadline at any time. *)
Deadline(q) ==
  /\ at[q] \in {"loop", "waiting"} /\ q \notin overdue
  /\ overdue' = overdue \union {q}
  /\ UNCHANGED <<at, out, queue, agent, evidence, limited, stop, holder>>

(* The top of the loop: the time is over, or the queue is asked. *)
Look(q) ==
  /\ at[q] = "loop"
  /\ IF q \in overdue THEN Emit(q, <<"limit">>) /\ Go(q, "ending") /\ limited' = limited \union {q}
     ELSE Go(q, "waiting") /\ UNCHANGED <<out, limited>>
  /\ UNCHANGED <<queue, agent, overdue, evidence, stop, holder>>

(* event_queue.get times out: back to the top. *)
GetEmpty(q) ==
  /\ at[q] = "waiting" /\ queue[q] = <<>>
  /\ Go(q, "loop")
  /\ UNCHANGED <<out, queue, agent, overdue, evidence, limited, stop, holder>>

Count(q) == Cardinality({i \in DOMAIN out[q] : out[q][i] = "tool_call"})

\* Mutant: the limit is looked at between the steps only.
ShownAll(q, calls) == Len(calls)

(* The calls of a step that are still within the limit. *)
Shown(q, calls) == IF Count(q) + Len(calls) <= MAX_STEPS THEN Len(calls) ELSE MAX_STEPS - Count(q)

(* Each call is kept as evidence and shown; the one that reaches the limit *)
(* is followed by the limit, and the rest of the step is dropped.          *)
TakeStep(q, m) ==
  LET n == Shown(q, m.calls)
      over == n > 0 /\ Count(q) + n >= MAX_STEPS
  IN /\ evidence' = [evidence EXCEPT ![q] = @ \union {m.calls[i] : i \in 1..n}]
     /\ Emit(q, [i \in 1..n |-> "tool_call"] \o IF over THEN <<"limit">> ELSE <<>>)
     /\ limited' = IF over THEN limited \union {q} ELSE limited
     /\ Go(q, IF over THEN "ending" ELSE "loop")

\* Mutant: an answer in which TP is not found is a verdict of FP.
ParsedAny(q) == answer[q] # "none"

(* _parse_verdict_from_output: only TP and FP are read. *)
Parsed(q) == answer[q] \in {"TP", "FP"}
VerdictOf(a) == IF a = "TP" THEN "agent_TP" ELSE "agent_FP"

TakeDone(q) ==
  /\ Emit(q, IF Parsed(q) THEN <<VerdictOf(answer[q])>> ELSE <<>>)
  /\ Go(q, "ending")
  /\ UNCHANGED <<evidence, limited>>

TakeError(q) ==
  /\ Emit(q, <<"error">>)
  /\ Go(q, "ending")
  /\ UNCHANGED <<evidence, limited>>

Get(q) ==
  /\ at[q] = "waiting" /\ queue[q] # <<>>
  /\ queue' = [queue EXCEPT ![q] = Tail(@)]
  /\ LET m == Head(queue[q])
     IN \/ m.kind = "step" /\ TakeStep(q, m)
        \/ m.kind = "done" /\ TakeDone(q)
        \/ m.kind = "error" /\ TakeError(q)
  /\ UNCHANGED <<agent, overdue, stop, holder>>

(* _synthesize_verdict: what counts is the argument of a query that found  *)
(* events, the names of the fixed-format lists, and structured records of  *)
(* an access to lsass; free text counts for nothing.                       *)
Conclusive(r) ==
  \/ r.tool = "query_events" /\ r.found /\ r.arg \in Masquerades
  \/ r.tool \in {"get_entity_profile", "get_graph_neighbors"} /\ r.names \intersect Masquerades # {}
  \/ r.lsass

Synthesised(q) == IF \E r \in evidence[q] : Conclusive(r) THEN "synthesised_TP" ELSE "synthesised_INCONCLUSIVE"

Sent(q, e) == \E i \in DOMAIN out[q] : out[q][i] = e
Concluded(q) == Sent(q, "agent_TP") \/ Sent(q, "agent_FP")

(* Behind the loop: the fallback if there is neither an error nor a        *)
(* verdict, and done.                                                      *)
Conclude(q) ==
  /\ at[q] = "ending"
  /\ Emit(q, IF Sent(q, "error") \/ Concluded(q) THEN <<"done">>
             ELSE <<Synthesised(q), "done">>)
  /\ Go(q, "closing")
  /\ UNCHANGED <<queue, agent, overdue, evidence, limited, stop, holder>>

(* The client goes away, and the generator is closed wherever it is. *)
Disconnect(q) ==
  /\ at[q] \in {"loop", "waiting", "ending"}
  /\ Go(q, "closing")
  /\ UNCHANGED <<out, queue, agent, overdue, evidence, limited, stop, holder>>

(* finally: the stop flag first, then at most two seconds for the thread,  *)
(* then the semaphore.                                                     *)
SetStop(q) ==
  /\ at[q] = "closing" /\ q \notin stop
  /\ stop' = stop \union {q}
  /\ UNCHANGED <<at, out, queue, agent, overdue, evidence, limited, holder>>

\* Mutant: the thread is joined without a timeout.
MayReleaseJoined(q) == q \in stop /\ thread[q] # "thinking"

MayRelease(q) == q \in stop

Release(q) ==
  /\ at[q] = "closing" /\ MayRelease(q)
  /\ Go(q, "over") /\ holder' = {} /\ queue' = [queue EXCEPT ![q] = <<>>]
  /\ UNCHANGED <<out, agent, overdue, evidence, limited, stop>>

Generator(q) == Look(q) \/ GetEmpty(q) \/ Get(q) \/ Conclude(q) \/ SetStop(q) \/ Release(q)
Agent(q) == AgentStep(q) \/ AgentAnswers(q) \/ AgentFails(q) \/ AgentStops(q)

AgentNext == \E q \in Investigations :
  Arrive(q) \/ Enter(q) \/ Build(q) \/ Agent(q) \/ Deadline(q) \/ Generator(q) \/ Disconnect(q)

AgentSpec == AgentInit /\ [][AgentNext]_agentVars

(* The event loop runs its generators and the clock goes on.  Nothing is   *)
(* assumed of the agent: its model may never answer.                       *)
AgentFairness == \A q \in Investigations :
  WF_agentVars(Enter(q) \/ Build(q)) /\ WF_agentVars(Generator(q)) /\ WF_agentVars(Deadline(q))
AgentFairSpec == AgentSpec /\ AgentFairness

-----------------------------------------------------------------------------
\* The order of a stream's events.
Rank(e) == CASE e = "tool_call" -> 1 [] e = "limit" -> 2 [] e = "done" -> 4 [] OTHER -> 3

(* The stream of run_investigation, as its docstring has it: tool calls    *)
(* (at most MAX_STEPS), then at most one limit, then an error or one       *)
(* verdict, never a verdict after an error, and done once, as the last.    *)
StreamIsWellFormed ==
  \A q \in Investigations :
    /\ Count(q) <= MAX_STEPS
    /\ \A i, j \in DOMAIN out[q] :
         i < j => \/ Rank(out[q][i]) < Rank(out[q][j])
                  \/ out[q][i] = "tool_call" /\ out[q][j] = "tool_call"
    /\ Sent(q, "done") => \E i \in DOMAIN out[q] : Rank(out[q][i]) = 3

(* A verdict can be traced: the agent's own is its final answer, in a run  *)
(* that met no limit; one made up for it says TP only on conclusive        *)
(* evidence that the client was shown, and never FP.                       *)
VerdictIsGrounded ==
  \A q \in Investigations : \A i \in DOMAIN out[q] :
    /\ out[q][i] = "agent_TP" => answer[q] = "TP" /\ q \notin limited
    /\ out[q][i] = "agent_FP" => answer[q] = "FP" /\ q \notin limited
    /\ out[q][i] = "synthesised_TP" =>
         Cardinality(evidence[q]) <= Count(q) /\ \E r \in evidence[q] : Conclusive(r)
    /\ Rank(out[q][i]) = 3 /\ out[q][i] \notin {"error", "refused"} /\ Sent(q, "limit") =>
         out[q][i] \in {"synthesised_TP", "synthesised_INCONCLUSIVE"}

(* Every investigation that was let in ends and gives the semaphore back,  *)
(* also when the model hangs for ever.                                     *)
StreamEnds == \A q \in Investigations : at[q] = "accepted" ~> (at[q] = "over" /\ q \notin holder)

(* The semaphore is with the one generator that is between its entry and   *)
(* its end: no error, limit or disconnection leaves it taken, and no two    *)
(* streams run beside each other.                                          *)
Entered(q) == at[q] \in {"building", "loop", "waiting", "ending", "closing"}
SlotIsHeld ==
  /\ holder = {q \in Investigations : Entered(q)}
  /\ \A p, q \in holder : p = q

(* backend/api/investigate.py:25: only one agentic investigation may run   *)
(* at a time, because each drives the local model for minutes.             *)
OneAgentRuns == \A p, q \in Investigations : Thinking(p) /\ Thinking(q) => p = q
=============================================================================
