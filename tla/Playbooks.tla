------------------------------ MODULE Playbooks ------------------------------
(***************************************************************************)
(* Playbook runs and the containment they execute (backend/api/            *)
(* playbooks.py, backend/enforcement).  An analyst starts a run, confirms  *)
(* or skips its steps one request at a time, and may cancel it.  A         *)
(* confirmed step may carry a containment action: the policy gates decide, *)
(* and what they allow is executed on the firewall through ssh.            *)
(*                                                                         *)
(* Addresses are such that none is part of the text of another: the check  *)
(* before a block is a grep.  All requests fall within one rate window.    *)
(* Actions are spelled as the built-in playbooks spell them.               *)
(* Left out: the built-in playbooks, active_case_id, completed_at, and the *)
(* provenance row of a run, which no run ever finds under its own id.      *)
(***************************************************************************)
EXTENDS Naturals, Sequences

CONSTANTS Runs,
          Steps,         \* the number of steps of the playbook
          Requests,      \* the PATCH requests
          Request,       \* what each asks for
          Addresses,
          Safelist,      \* ENFORCEMENT_SAFELIST_CIDRS
          RateLimit,     \* ENFORCEMENT_RATE_LIMIT
          Overlap        \* whether two requests for one run may overlap: the dashboard
                         \* sends its advances one after the other, but not a cancel

RequestType ==
  [kind : {"advance", "cancel"}, run : Runs, step : Nat \ {0},
   outcome : {"confirmed", "skipped"}, action : {"none", "block_ip", "unblock_ip"},
   target : Addresses, confidence : {"none", "low", "high"}]

ASSUME PlaybooksAssumption == /\ Steps \in Nat /\ RateLimit \in Nat
                              /\ Request \in [Requests -> RequestType]
                              /\ Safelist \subseteq Addresses
                              /\ Overlap \in BOOLEAN

VARIABLES
  mode,        \* ENFORCEMENT_LEARNING_MODE and IPFIRE_ENABLED
  run,         \* playbook_runs
  req,         \* where the handler of each request is, with what it holds
  rules,       \* how many of block_ip's three rules the firewall has
  late,        \* addresses that a command nobody waits for is still blocking
  allowed      \* history: the actions that the gates have let through

vars == <<mode, run, req, rules, late, allowed>>

\* Learning mode, whatever IPFIRE_ENABLED is; or without it IPFIRE_ENABLED off, or on.
Modes == {"learning", "dry_run", "enforcing"}

Terminal == {"completed", "cancelled"}

Results == {"none", "denied", "dry_run", "blocked", "block_failed", "unblocked", "unblock_failed"}

InFlight == {"deciding", "checking", "blocking", "unblocking", "saving"}

Entry == [by : Requests, result : Results]

NewRun == [status |-> "running", steps |-> << >>]

\* What a handler holds: the run as it read it, and what was enforced.
Handler(at) == [at |-> at, result |-> "none", snap |-> NewRun]

RunType == [status : {"none", "running"} \cup Terminal, steps : Seq(Entry)]

HandlerType == [at : InFlight \cup {"idle", "ok", "error"}, result : Results, snap : RunType]

TypeOK == /\ mode \in Modes
          /\ run \in [Runs -> RunType]
          /\ req \in [Requests -> HandlerType]
          /\ rules \in [Addresses -> 0 .. 3]
          /\ late \subseteq Addresses
          /\ allowed \subseteq Requests

Init == /\ mode \in Modes
        /\ run = [r \in Runs |-> [status |-> "none", steps |-> << >>]]
        /\ req = [q \in Requests |-> Handler("idle")]
        /\ rules = [a \in Addresses |-> 0]
        /\ late = {}
        /\ allowed = {}

-----------------------------------------------------------------------------
\* POST /api/playbooks/{playbook_id}/run/{investigation_id}.
StartRun(r) == /\ run[r].status = "none"
               /\ run' = [run EXCEPT ![r] = NewRun]
               /\ UNCHANGED <<mode, req, rules, late, allowed>>

-----------------------------------------------------------------------------
Goto(q, at) == req' = [req EXCEPT ![q].at = at]

Finish(q, result) == req' = [req EXCEPT ![q].at = "saving", ![q].result = result]

MayStart(q) == Overlap \/ \A p \in Requests : Request[p].run = Request[q].run => req[p].at \notin InFlight

\* Mutant: a cancelled run can be advanced.
ConflictIfCompleted(status) == status = "completed"

Conflict(status) == status \in Terminal

\* The handler reads the run, and answers 409 if it is over.
ReadRun(q) ==
  LET row == run[Request[q].run] IN
  /\ req[q].at = "idle" /\ MayStart(q)
  /\ row.status # "none"
  /\ \/ Conflict(row.status) /\ Goto(q, "error")
     \/ /\ ~ Conflict(row.status)
        /\ req' = [req EXCEPT ![q].snap = row,
                              ![q].at = IF Request[q].kind = "cancel" THEN "saving" ELSE "deciding"]
  /\ UNCHANGED <<mode, run, rules, late, allowed>>

Enforces(x) == x.action # "none" /\ x.outcome = "confirmed"

\* len(_block_times) of the policy that the handler builds for this request.
BlockTimes == 0

\* Mutant: the safelist is not looked at.
GatesPassSafelist(x) == x.confidence # "low" /\ BlockTimes < RateLimit

\* EnforcementPolicy._evaluate.  The approval gate is passed: the handler is
\* here only for a confirmed step.
GatesPass(x) == /\ x.confidence # "low"
                /\ ~ (x.action = "block_ip" /\ x.target \in Safelist)
                /\ BlockTimes < RateLimit

\* Mutant: learning mode is forgotten.
AllowLearning(x) == GatesPass(x)

\* In learning mode the gates are evaluated and nothing is executed.
Allow(x) == GatesPass(x) /\ mode # "learning"

\* The policy decides and the enforcer starts, or there is nothing to enforce.
Decide(q) ==
  LET x == Request[q] IN
  /\ req[q].at = "deciding"
  /\ allowed' = IF Enforces(x) /\ Allow(x) THEN allowed \cup {q} ELSE allowed
  /\ \/ ~ Enforces(x) /\ Finish(q, "none")
     \/ Enforces(x) /\ ~ Allow(x) /\ Finish(q, "denied")
     \/ Enforces(x) /\ Allow(x) /\ mode = "dry_run" /\ Finish(q, "dry_run")
     \/ /\ Enforces(x) /\ Allow(x) /\ mode # "dry_run"
        /\ Goto(q, IF x.action = "block_ip" THEN "checking" ELSE "unblocking")
  /\ UNCHANGED <<mode, run, rules, late>>

\* Mutant: a check that fails counts as a rule that is there.
AfterCheckErrorBlocked(q) == Finish(q, "blocked")

AfterCheckError(q) == Goto(q, "blocking")

\* block_ip greps the FORWARD chain for the address; without an answer it goes
\* on as if the address were not there.
Check(q) ==
  LET a == Request[q].target IN
  /\ req[q].at = "checking"
  /\ \/ rules[a] > 0 /\ Finish(q, "blocked")
     \/ rules[a] = 0 /\ Goto(q, "blocking")
     \/ AfterCheckError(q)
  /\ UNCHANGED <<mode, run, rules, late, allowed>>

AtLeast(a, n) == [rules EXCEPT ![a] = IF @ < n THEN n ELSE @]

\* The three iptables commands, joined by &&.  They may stop in between, the
\* answer may be lost, and after the ssh timeout they may still be running.
Block(q) ==
  LET a == Request[q].target IN
  /\ req[q].at = "blocking"
  /\ \/ rules' = AtLeast(a, 3) /\ Finish(q, "blocked") /\ UNCHANGED late
     \/ \E n \in 0 .. 3 : /\ rules' = AtLeast(a, n)
                          /\ Finish(q, "block_failed")
                          /\ late' \in {late, late \cup {a}}
  /\ UNCHANGED <<mode, run, allowed>>

\* A command that nobody waits for any more ends on the firewall.
LateBlock(a) == /\ a \in late
                /\ late' = late \ {a}
                /\ \E n \in 0 .. 3 : rules' = AtLeast(a, n)
                /\ UNCHANGED <<mode, run, req, allowed>>

\* unblock_ip deletes rules without a comment, which block_ip's rules all
\* have, and reports success if the commands ran.
Unblock(q) == /\ req[q].at = "unblocking"
              /\ \/ Finish(q, "unblocked")
                 \/ Finish(q, "unblock_failed")
              /\ UNCHANGED <<mode, run, rules, late, allowed>>

\* Mutant: the entry replaces the entries before it.
StepsAfterOnly(steps, e) == <<e>>

StepsAfter(steps, e) == Append(steps, e)

\* The row after an advance: all from what the handler read at its beginning.
Advanced(q) ==
  LET snap == req[q].snap IN
  [status |-> IF Request[q].step >= Steps THEN "completed" ELSE snap.status,
   steps |-> StepsAfter(snap.steps, [by |-> q, result |-> req[q].result])]

\* update_playbook_run, by the advance or the cancellation.
Save(q) ==
  LET r == Request[q].run IN
  /\ req[q].at = "saving"
  /\ \/ /\ run' = IF Request[q].kind = "cancel"
                  THEN [run EXCEPT ![r].status = "cancelled"]
                  ELSE [run EXCEPT ![r] = Advanced(q)]
        /\ req' = [req EXCEPT ![q].at = "ok", ![q].snap = NewRun]
     \/ /\ req' = [req EXCEPT ![q] = Handler("error")]
        /\ UNCHANGED run
  /\ UNCHANGED <<mode, rules, late, allowed>>

\* The process dies and comes back, maybe with other settings.  The handlers
\* are gone, the commands they had given may go on.
Crash == /\ mode' \in Modes
         /\ req' = [q \in Requests |-> IF req[q].at \in InFlight
                                        THEN Handler("error") ELSE req[q]]
         /\ \/ UNCHANGED late
            \/ late' = late \cup {Request[q].target : q \in {p \in Requests : req[p].at = "blocking"}}
         /\ UNCHANGED <<run, rules, allowed>>

-----------------------------------------------------------------------------
Handle(q) == Decide(q) \/ Check(q) \/ Block(q) \/ Unblock(q) \/ Save(q)

Next == \/ \E r \in Runs : StartRun(r)
        \/ \E q \in Requests : ReadRun(q) \/ Handle(q)
        \/ \E a \in Addresses : LateBlock(a)
        \/ Crash

Spec == Init /\ [][Next]_vars

-----------------------------------------------------------------------------
\* The firewall drops nothing but the targets of confirmed requests that
\* passed every gate, whatever checks fail and whatever commands end late.
EnforcedPassedGates ==
  \A a \in Addresses :
    rules[a] > 0 \/ a \in late =>
      /\ a \notin Safelist
      /\ \E q \in allowed : /\ Request[q].action = "block_ip" /\ Request[q].target = a
                            /\ Request[q].outcome = "confirmed"
                            /\ Request[q].confidence # "low"

\* "observe only, no execution": in learning mode the firewall changes only by
\* commands that were given before it was switched on.
LearningObserves == [][mode = "learning" => \A a \in Addresses : rules'[a] # rules[a] => a \in late]_vars

\* What a handler reports and stores as a successful block is one: traffic
\* from the address is dropped, also when the success is another request's or
\* that of a command that was given up.
BlockedIsBlocked ==
  /\ \A q \in Requests : req[q].result = "blocked" => rules[Request[q].target] > 0
  /\ \A r \in Runs : \A i \in 1 .. Len(run[r].steps) :
       run[r].steps[i].result = "blocked" => rules[Request[run[r].steps[i].by].target] > 0

\* "records analyst note and outcome": the entry of a request that was answered
\* stays in its run, with what the firewall did, through later steps, the
\* cancellation, errors and crashes.
RecordedIsKept ==
  \A q \in Requests :
    req[q].at = "ok" /\ Request[q].kind = "advance" =>
      \E i \in 1 .. Len(run[Request[q].run].steps) :
        run[Request[q].run].steps[i] = [by |-> q, result |-> req[q].result]

\* "409 if run already completed/cancelled": a run that is over does not change.
OverIsOver == [][\A r \in Runs : run[r].status \in Terminal => run'[r] = run[r]]_vars
=============================================================================
