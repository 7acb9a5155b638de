--------------------------- MODULE PlaybooksProofs ---------------------------
(***************************************************************************)
(* What holds of Playbooks for any runs, requests, addresses and settings: *)
(* type correctness, that the firewall enforces only what passed the       *)
(* gates, that a reported block is one; and, if the requests for one run   *)
(* do not overlap, that records are kept and a run that is over stays so.  *)
(***************************************************************************)
EXTENDS Playbooks, PlaybookLibrary, SequenceTheorems, WellFoundedInduction, TLAPS

\* The request has passed the gates for a block of address a.
PassedFor(q, a) == /\ q \in allowed
                   /\ Request[q].action = "block_ip" /\ Request[q].target = a
                   /\ Request[q].outcome = "confirmed" /\ Request[q].confidence # "low"
                   /\ a \notin Safelist

\* A handler that checks or blocks has passed the gates, and so have the
\* addresses with rules.
Gated == /\ \A q \in Requests : req[q].at \in {"checking", "blocking"} => PassedFor(q, Request[q].target)
         /\ \A a \in Addresses : rules[a] > 0 \/ a \in late => \E q \in Requests : PassedFor(q, a)

\* The address that a request names is on the firewall.
OnFirewall(q, rs) == rs[Request[q].target] > 0

\* The blocks that a row reports are on the firewall.
RowIsTrue(row, rs) == \A i \in 1 .. Len(row.steps) :
                    row.steps[i].result = "blocked" => OnFirewall(row.steps[i].by, rs)

\* The blocks that handlers and rows report are on the firewall.
Reported == /\ \A q \in Requests : req[q].result = "blocked" => OnFirewall(q, rules)
            /\ \A q \in Requests : RowIsTrue(req[q].snap, rules)
            /\ \A r \in Runs : RowIsTrue(run[r], rules)

IInv == TypeOK /\ Gated /\ Reported

-----------------------------------------------------------------------------
\* Requests name a run and an address.
LEMMA RequestFacts ==
  ASSUME NEW q \in Requests
  PROVE  Request[q].target \in Addresses /\ Request[q].run \in Runs
  BY PlaybooksAssumption DEF RequestType

\* Rules are added, never taken away.
LEMMA AtLeastGrows ==
  ASSUME TypeOK, NEW a \in Addresses, NEW n \in 0 .. 3
  PROVE  /\ AtLeast(a, n) \in [Addresses -> 0 .. 3]
         /\ \A b \in Addresses : /\ AtLeast(a, n)[b] >= rules[b]
                                 /\ b # a => AtLeast(a, n)[b] = rules[b]
         /\ AtLeast(a, n)[a] >= n
  BY DEF TypeOK, AtLeast

\* A row with no steps reports nothing.
LEMMA NewRunFacts == NewRun \in RunType /\ \A rs : RowIsTrue(NewRun, rs)
  <1>1. << >> \in Seq(Entry) /\ Len(<< >>) = 0
    OBVIOUS
  <1> QED
    BY <1>1 DEF NewRun, RunType, RowIsTrue

\* A handler that has ended or not begun is well typed.
LEMMA HandlerFacts ==
  ASSUME NEW at \in {"idle", "ok", "error"}
  PROVE  /\ Handler(at) \in HandlerType /\ Handler(at).result = "none"
         /\ Handler(at).at = at /\ Handler(at).snap = NewRun
  BY NewRunFacts DEF Handler, HandlerType, Results

\* While rules are only added, and rows stay, what was reported stays true.
LEMMA ReportedStays ==
  ASSUME IInv, rules' \in [Addresses -> 0 .. 3],
         \A a \in Addresses : rules'[a] >= rules[a]
  PROVE  /\ \A q \in Requests : OnFirewall(q, rules) => OnFirewall(q, rules')
         /\ \A row \in RunType : RowIsTrue(row, rules) => RowIsTrue(row, rules')
  <1>1. \A q \in Requests : OnFirewall(q, rules) => OnFirewall(q, rules')
    BY RequestFacts DEF OnFirewall, IInv, TypeOK
  <1>2. \A row \in RunType : \A i \in 1 .. Len(row.steps) : row.steps[i].by \in Requests
    <2> SUFFICES ASSUME NEW row \in RunType, NEW i \in 1 .. Len(row.steps)
                 PROVE  row.steps[i].by \in Requests
      OBVIOUS
    <2>1. row.steps \in Seq(Entry)
      BY DEF RunType
    <2>2. row.steps[i] \in Entry
      BY <2>1
    <2> QED
      BY <2>2 DEF Entry
  <1> QED
    BY <1>1, <1>2 DEF RowIsTrue

\* A handler goes on with what it holds.
LEMMA GotoFacts ==
  ASSUME TypeOK, NEW q \in Requests, NEW at \in InFlight \cup {"error"}, Goto(q, at)
  PROVE  /\ req' \in [Requests -> HandlerType]
         /\ \A p \in Requests : req'[p].result = req[p].result /\ req'[p].snap = req[p].snap
         /\ \A p \in Requests : p # q => req'[p].at = req[p].at
         /\ req'[q].at = at
  BY DEF TypeOK, Goto, HandlerType

\* A handler has its result and goes on to save it.
LEMMA FinishFacts ==
  ASSUME TypeOK, NEW q \in Requests, NEW result \in Results, Finish(q, result)
  PROVE  /\ req' \in [Requests -> HandlerType]
         /\ \A p \in Requests : req'[p].snap = req[p].snap
         /\ \A p \in Requests : p # q => req'[p] = req[p]
         /\ req'[q].at = "saving" /\ req'[q].result = result
  BY DEF TypeOK, Finish, HandlerType, InFlight

\* What was reported stays reported if no row and no result changes.
LEMMA SameReports ==
  ASSUME IInv, rules' \in [Addresses -> 0 .. 3], \A a \in Addresses : rules'[a] >= rules[a],
         run' = run,
         \A q \in Requests : req'[q].snap = req[q].snap \/ req'[q].snap = NewRun,
         \A q \in Requests : \/ req'[q].result = req[q].result
                             \/ req'[q].result = "blocked" => OnFirewall(q, rules')
  PROVE  Reported'
  <1>1. \A q \in Requests : req[q].snap \in RunType
    BY DEF IInv, TypeOK, HandlerType
  <1>2. \A r \in Runs : run[r] \in RunType
    BY DEF IInv, TypeOK
  <1>3. RowIsTrue(NewRun, rules')
    BY DEF RowIsTrue, NewRun
  <1>4. \A q \in Requests : req'[q].result = "blocked" => OnFirewall(q, rules')
    BY ReportedStays DEF IInv, Reported
  <1>5. \A q \in Requests : RowIsTrue(req'[q].snap, rules')
    BY <1>1, <1>3, ReportedStays DEF IInv, Reported
  <1>6. \A r \in Runs : RowIsTrue(run'[r], rules')
    BY <1>2, ReportedStays DEF IInv, Reported
  <1> QED
    BY <1>4, <1>5, <1>6 DEF Reported

\* What passed the gates stays so if nothing else is enforced.
LEMMA SameGates ==
  ASSUME IInv, allowed \subseteq allowed',
         \A a \in Addresses : rules'[a] > 0 \/ a \in late' =>
           \/ rules[a] > 0 \/ a \in late
           \/ \E q \in Requests : req[q].at = "blocking" /\ Request[q].target = a,
         \A q \in Requests : req'[q].at \in {"checking", "blocking"} =>
           req[q].at \in {"checking", "blocking"} \/ PassedFor(q, Request[q].target)'
  PROVE  Gated'
  <1>1. \A q \in Requests : \A a \in Addresses : PassedFor(q, a) => PassedFor(q, a)'
    BY DEF PassedFor
  <1>2. \A q \in Requests : req'[q].at \in {"checking", "blocking"} => PassedFor(q, Request[q].target)'
    BY <1>1, RequestFacts DEF IInv, Gated
  <1>3. ASSUME NEW a \in Addresses, rules'[a] > 0 \/ a \in late'
        PROVE  \E q \in Requests : PassedFor(q, a)'
    <2>1. CASE rules[a] > 0 \/ a \in late
      BY <1>1, <2>1 DEF IInv, Gated
    <2>2. CASE \E q \in Requests : req[q].at = "blocking" /\ Request[q].target = a
      BY <1>1, <2>2 DEF IInv, Gated
    <2> QED
      BY <1>3, <2>1, <2>2
  <1> QED
    BY <1>2, <1>3 DEF Gated

-----------------------------------------------------------------------------
\* The initial state satisfies the inductive invariant.
LEMMA InitIInv == Init => IInv
  <1> SUFFICES ASSUME Init PROVE IInv
    OBVIOUS
  <1>1. [status |-> "none", steps |-> << >>] \in RunType
    BY DEF RunType
  <1>2. TypeOK
    BY <1>1, HandlerFacts DEF Init, TypeOK
  <1>3. Gated
    BY HandlerFacts DEF Init, Gated
  <1>4. Reported
    BY HandlerFacts, NewRunFacts DEF Init, Reported, RowIsTrue
  <1> QED
    BY <1>2, <1>3, <1>4 DEF IInv

\* A run begins with no steps.
LEMMA StartRunIInv ==
  ASSUME IInv, NEW r \in Runs, StartRun(r)
  PROVE  IInv'
  <1> USE DEF IInv
  <1>1. run' = [run EXCEPT ![r] = NewRun] /\ UNCHANGED <<mode, req, rules, late, allowed>>
    BY DEF StartRun
  <1>2. TypeOK'
    BY <1>1, NewRunFacts DEF TypeOK
  <1>3. Gated'
    BY <1>1 DEF Gated, PassedFor
  <1>4. \A x \in Runs : RowIsTrue(run'[x], rules')
    BY <1>1, NewRunFacts DEF TypeOK, Reported
  <1>5. Reported'
    BY <1>1, <1>4 DEF Reported
  <1> QED
    BY <1>2, <1>3, <1>5

\* A handler takes the row as it is.
LEMMA ReadRunIInv ==
  ASSUME IInv, NEW q \in Requests, ReadRun(q)
  PROVE  IInv'
  <1> USE DEF IInv
  <1> DEFINE row == run[Request[q].run]
  <1>1. UNCHANGED <<mode, run, rules, late, allowed>>
    BY DEF ReadRun
  <1>2. row \in RunType /\ RowIsTrue(row, rules)
    BY RequestFacts DEF TypeOK, Reported
  <1>3. /\ req' \in [Requests -> HandlerType]
        /\ \A p \in Requests : /\ req'[p].result = req[p].result
                               /\ req'[p].snap \in {req[p].snap, row}
                               /\ req'[p].at \in {req[p].at, "error", "saving", "deciding"}
    <2>1. CASE Goto(q, "error")
      BY <2>1, GotoFacts
    <2>2. CASE \E at \in {"saving", "deciding"} : req' = [req EXCEPT ![q].snap = row, ![q].at = at]
      <3>1. PICK at \in {"saving", "deciding"} : req' = [req EXCEPT ![q].snap = row, ![q].at = at]
        BY <2>2
      <3>2. at \in InFlight
        BY DEF InFlight
      <3>3. /\ req'[q] = [req[q] EXCEPT !.snap = row, !.at = at]
            /\ \A p \in Requests : p # q => req'[p] = req[p]
            /\ req[q] \in HandlerType
            /\ DOMAIN req' = Requests /\ req' = [p \in Requests |-> req'[p]]
        BY <3>1 DEF TypeOK
      <3>4. /\ req'[q] \in HandlerType /\ req'[q].result = req[q].result
            /\ req'[q].snap = row /\ req'[q].at = at
        BY <1>2, <3>2, <3>3 DEF HandlerType
      <3> HIDE DEF row
      <3>5. \A p \in Requests : req'[p] \in HandlerType
        BY <3>3, <3>4 DEF TypeOK
      <3> QED
        BY <3>3, <3>4, <3>5
    <2>3. Goto(q, "error") \/ req' = [req EXCEPT ![q].snap = row,
                                               ![q].at = IF Request[q].kind = "cancel" THEN "saving" ELSE "deciding"]
      BY DEF ReadRun
    <2>4. (IF Request[q].kind = "cancel" THEN "saving" ELSE "deciding") \in {"saving", "deciding"}
      OBVIOUS
    <2> QED
      BY <2>1, <2>2, <2>3, <2>4
  <1>4. TypeOK'
    BY <1>1, <1>3 DEF TypeOK
  <1>5. Gated'
    BY <1>1, <1>3, SameGates
  <1>6. Reported'
    BY <1>1, <1>2, <1>3 DEF Reported, OnFirewall
  <1> QED
    BY <1>4, <1>5, <1>6

\* Whatever the gates let through to the firewall has passed them.
LEMMA DecideIInv ==
  ASSUME IInv, NEW q \in Requests, Decide(q)
  PROVE  IInv'
  <1> USE DEF IInv
  <1> DEFINE x == Request[q]
  <1>1. UNCHANGED <<mode, run, rules, late>> /\ allowed \subseteq allowed' /\ allowed' \subseteq Requests
    BY DEF Decide, TypeOK
  <1>2. CASE \E result \in {"none", "denied", "dry_run"} : Finish(q, result)
    <2>1. PICK result \in {"none", "denied", "dry_run"} : Finish(q, result)
      BY <1>2
    <2>2. result \in Results /\ result # "blocked"
      BY DEF Results
    <2>3. TypeOK'
      BY <1>1, <2>1, <2>2, FinishFacts DEF TypeOK
    <2>4. Gated'
      BY <1>1, <2>1, <2>2, FinishFacts, SameGates
    <2>5. Reported'
      BY <1>1, <2>1, <2>2, FinishFacts, SameReports DEF TypeOK
    <2> QED
      BY <2>3, <2>4, <2>5
  <1>3. CASE /\ Enforces(x) /\ Allow(x) /\ mode # "dry_run"
             /\ Goto(q, IF x.action = "block_ip" THEN "checking" ELSE "unblocking")
    <2>1. PICK at \in {"checking", "unblocking"} : Goto(q, at) /\ (at = "checking" => x.action = "block_ip")
      BY <1>3
    <2>2. at \in InFlight
      BY DEF InFlight
    <2>3. q \in allowed'
      BY <1>3 DEF Decide
    <2>4. at = "checking" => PassedFor(q, x.target)'
      BY <1>3, <2>1, <2>3 DEF PassedFor, Enforces, Allow, GatesPass
    <2>5. TypeOK'
      BY <1>1, <2>1, <2>2, GotoFacts DEF TypeOK
    <2>6. Gated'
      BY <1>1, <2>1, <2>2, <2>4, GotoFacts, SameGates
    <2>7. Reported'
      BY <1>1, <2>1, <2>2, GotoFacts, SameReports DEF TypeOK
    <2> QED
      BY <2>5, <2>6, <2>7
  <1> QED
    BY <1>2, <1>3 DEF Decide

\* A positive check means that there are rules.
LEMMA CheckIInv ==
  ASSUME IInv, NEW q \in Requests, Check(q)
  PROVE  IInv'
  <1> USE DEF IInv
  <1> DEFINE a == Request[q].target
  <1>1. UNCHANGED <<mode, run, rules, late, allowed>> /\ req[q].at = "checking"
    BY DEF Check
  <1>2. CASE rules[a] > 0 /\ Finish(q, "blocked")
    <2>1. "blocked" \in Results
      BY DEF Results
    <2>2. OnFirewall(q, rules')
      BY <1>1, <1>2 DEF OnFirewall
    <2>3. TypeOK'
      BY <1>1, <1>2, <2>1, FinishFacts DEF TypeOK
    <2>4. Gated'
      BY <1>1, <1>2, <2>1, FinishFacts, SameGates
    <2>5. Reported'
      BY <1>1, <1>2, <2>1, <2>2, FinishFacts, SameReports DEF TypeOK
    <2> QED
      BY <2>3, <2>4, <2>5
  <1>3. CASE Goto(q, "blocking")
    <2>1. "blocking" \in InFlight
      BY DEF InFlight
    <2>2. TypeOK'
      BY <1>1, <1>3, <2>1, GotoFacts DEF TypeOK
    <2>3. Gated'
      BY <1>1, <1>3, <2>1, GotoFacts, SameGates
    <2>4. Reported'
      BY <1>1, <1>3, <2>1, GotoFacts, SameReports DEF TypeOK
    <2> QED
      BY <2>2, <2>3, <2>4
  <1> QED
    BY <1>2, <1>3 DEF Check, AfterCheckError

\* A block adds rules for an address that passed the gates, all of them if it
\* is reported as one.
LEMMA BlockIInv ==
  ASSUME IInv, NEW q \in Requests, Block(q)
  PROVE  IInv'
  <1> USE DEF IInv
  <1> DEFINE a == Request[q].target
  <1>1. UNCHANGED <<mode, run, allowed>> /\ req[q].at = "blocking" /\ a \in Addresses
    BY RequestFacts DEF Block
  <1>2. PICK n \in 0 .. 3, result \in {"blocked", "block_failed"} :
          /\ rules' = AtLeast(a, n) /\ Finish(q, result)
          /\ result = "blocked" => n = 3
          /\ late' \subseteq late \cup {a}
    BY DEF Block
  <1>3. /\ rules' \in [Addresses -> 0 .. 3]
        /\ \A b \in Addresses : rules'[b] >= rules[b] /\ (b # a => rules'[b] = rules[b])
        /\ rules'[a] >= n
    BY <1>1, <1>2, AtLeastGrows
  <1>4. result \in Results
    BY DEF Results
  <1>5. result = "blocked" => OnFirewall(q, rules')
    <2>1. rules'[a] \in 0 .. 3
      BY <1>1, <1>3
    <2>2. n = 3 => rules'[a] > 0
      BY <1>3, <2>1
    <2> QED
      BY <1>2, <2>2 DEF OnFirewall
  <1>6. TypeOK'
    BY <1>1, <1>2, <1>3, <1>4, FinishFacts DEF TypeOK
  <1>7. Gated'
    <2>1. \A b \in Addresses : rules'[b] > 0 \/ b \in late' => rules[b] > 0 \/ b \in late \/ b = a
      BY <1>2, <1>3
    <2> QED
      BY <1>1, <1>2, <1>4, <2>1, FinishFacts, SameGates
  <1>8. Reported'
    BY <1>1, <1>2, <1>3, <1>4, <1>5, FinishFacts, SameReports
  <1> QED
    BY <1>6, <1>7, <1>8

\* A late command adds rules for an address that passed the gates.
LEMMA LateBlockIInv ==
  ASSUME IInv, NEW a \in Addresses, LateBlock(a)
  PROVE  IInv'
  <1> USE DEF IInv
  <1>1. UNCHANGED <<mode, run, req, allowed>> /\ a \in late /\ late' = late \ {a}
    BY DEF LateBlock
  <1>2. PICK n \in 0 .. 3 : rules' = AtLeast(a, n)
    BY DEF LateBlock
  <1>3. /\ rules' \in [Addresses -> 0 .. 3]
        /\ \A b \in Addresses : rules'[b] >= rules[b] /\ (b # a => rules'[b] = rules[b])
    BY <1>2, AtLeastGrows
  <1>4. TypeOK'
    BY <1>1, <1>3 DEF TypeOK
  <1>5. Gated'
    <2>1. \A b \in Addresses : rules'[b] > 0 \/ b \in late' => rules[b] > 0 \/ b \in late
      BY <1>1, <1>3
    <2> QED
      BY <1>1, <2>1, SameGates
  <1>6. Reported'
    BY <1>1, <1>3, SameReports
  <1> QED
    BY <1>4, <1>5, <1>6

\* An unblock changes no rule.
LEMMA UnblockIInv ==
  ASSUME IInv, NEW q \in Requests, Unblock(q)
  PROVE  IInv'
  <1> USE DEF IInv
  <1>1. UNCHANGED <<mode, run, rules, late, allowed>>
    BY DEF Unblock
  <1>2. PICK result \in {"unblocked", "unblock_failed"} : Finish(q, result)
    BY DEF Unblock
  <1>3. result \in Results /\ result # "blocked"
    BY DEF Results
  <1>4. TypeOK'
    BY <1>1, <1>2, <1>3, FinishFacts DEF TypeOK
  <1>5. Gated'
    BY <1>1, <1>2, <1>3, FinishFacts, SameGates
  <1>6. Reported'
    BY <1>1, <1>2, <1>3, FinishFacts, SameReports DEF TypeOK
  <1> QED
    BY <1>4, <1>5, <1>6

\* The entry of a request, after the entries that the handler had read.
LEMMA AdvancedFacts ==
  ASSUME IInv, NEW q \in Requests
  PROVE  /\ Advanced(q) \in RunType
         /\ RowIsTrue(Advanced(q), rules)
  <1> DEFINE snap == req[q].snap
             e == [by |-> q, result |-> req[q].result]
             s == Append(snap.steps, e)
  <1>1. snap \in RunType /\ snap.steps \in Seq(Entry) /\ e \in Entry
    BY DEF IInv, TypeOK, HandlerType, RunType, Entry
  <1>2. s \in Seq(Entry) /\ Len(s) = Len(snap.steps) + 1
    BY <1>1
  <1>3. \A i \in 1 .. Len(s) : s[i] = IF i = Len(snap.steps) + 1 THEN e ELSE snap.steps[i]
    BY <1>1
  <1>4. Advanced(q).steps = s /\ Advanced(q) \in RunType
    BY <1>1, <1>2 DEF Advanced, StepsAfter, RunType, Terminal
  <1>5. e.result = "blocked" => OnFirewall(e.by, rules)
    BY DEF IInv, Reported
  <1>6. \A i \in 1 .. Len(snap.steps) : snap.steps[i].result = "blocked" => OnFirewall(snap.steps[i].by, rules)
    BY DEF IInv, Reported, RowIsTrue
  <1>7. \A i \in 1 .. Len(s) : i = Len(snap.steps) + 1 \/ i \in 1 .. Len(snap.steps)
    BY <1>1, <1>2
  <1> HIDE DEF s, e, snap
  <1>8. \A i \in 1 .. Len(s) : s[i].result = "blocked" => OnFirewall(s[i].by, rules)
    BY <1>3, <1>5, <1>6, <1>7
  <1> QED
    BY <1>4, <1>8 DEF RowIsTrue

\* The row is written, by an advance or a cancellation, or not at all.
LEMMA SaveIInv ==
  ASSUME IInv, NEW q \in Requests, Save(q)
  PROVE  IInv'
  <1> USE DEF IInv
  <1> DEFINE r == Request[q].run
  <1>1. UNCHANGED <<mode, rules, late, allowed>> /\ r \in Runs
    BY RequestFacts DEF Save
  <1>2. \/ run' = run
        \/ run' = [run EXCEPT ![r] = Advanced(q)]
        \/ run' = [run EXCEPT ![r].status = "cancelled"]
    BY DEF Save
  <1>3. \A x \in Runs : run'[x] \in RunType /\ RowIsTrue(run'[x], rules)
    <2>1. CASE run' = run
      BY <2>1 DEF TypeOK, Reported
    <2>2. CASE run' = [run EXCEPT ![r] = Advanced(q)]
      BY <1>1, <2>2, AdvancedFacts DEF TypeOK, Reported
    <2>3. CASE run' = [run EXCEPT ![r].status = "cancelled"]
      <3>1. \A x \in Runs : run'[x] \in RunType /\ run'[x].steps = run[x].steps
        BY <1>1, <2>3 DEF TypeOK, RunType, Terminal
      <3> QED
        BY <3>1 DEF Reported, RowIsTrue
    <2> QED
      BY <1>2, <2>1, <2>2, <2>3
  <1>4. run' \in [Runs -> RunType]
    BY <1>2, <1>3 DEF TypeOK
  <1>5. /\ req' \in [Requests -> HandlerType]
        /\ \A p \in Requests : /\ req'[p].result \in {req[p].result, "none"}
                               /\ req'[p].snap \in {req[p].snap, NewRun}
                               /\ req'[p].at \in {req[p].at, "ok", "error"}
    <2>1. CASE req' = [req EXCEPT ![q].at = "ok", ![q].snap = NewRun]
      BY <2>1, NewRunFacts DEF TypeOK, HandlerType
    <2>2. CASE req' = [req EXCEPT ![q] = Handler("error")]
      BY <2>2, HandlerFacts DEF TypeOK
    <2> QED
      BY <2>1, <2>2 DEF Save
  <1>6. TypeOK'
    BY <1>1, <1>4, <1>5 DEF TypeOK
  <1>7. Gated'
    BY <1>1, <1>5, SameGates
  <1>8. Reported'
    BY <1>1, <1>3, <1>5, NewRunFacts DEF Reported, OnFirewall
  <1> QED
    BY <1>6, <1>7, <1>8

\* What goes on after a crash had passed the gates.
LEMMA CrashIInv ==
  ASSUME IInv, Crash
  PROVE  IInv'
  <1> USE DEF IInv
  <1>1. UNCHANGED <<run, rules, allowed>> /\ mode' \in Modes
    BY DEF Crash
  <1>2. \A a \in late' : a \in late \/ \E q \in Requests : req[q].at = "blocking" /\ Request[q].target = a
    BY DEF Crash
  <1>3. late' \subseteq Addresses
    BY <1>2, RequestFacts DEF TypeOK
  <1>4. /\ req' \in [Requests -> HandlerType]
        /\ \A p \in Requests : /\ req'[p].result \in {req[p].result, "none"}
                               /\ req'[p].snap \in {req[p].snap, NewRun}
                               /\ req'[p].at \notin {"checking", "blocking"}
    BY HandlerFacts DEF Crash, TypeOK, InFlight
  <1>5. TypeOK'
    BY <1>1, <1>3, <1>4 DEF TypeOK
  <1>6. Gated'
    BY <1>1, <1>2, <1>4, SameGates
  <1>7. Reported'
    BY <1>1, <1>4, NewRunFacts DEF Reported, OnFirewall
  <1> QED
    BY <1>5, <1>6, <1>7

\* Every step preserves the inductive invariant.
LEMMA NextIInv == IInv /\ [Next]_vars => IInv'
  <1> SUFFICES ASSUME IInv, [Next]_vars PROVE IInv'
    OBVIOUS
  <1>1. CASE UNCHANGED vars
    BY <1>1 DEF vars, IInv, TypeOK, Gated, PassedFor, Reported
  <1>2. ASSUME NEW r \in Runs, StartRun(r) PROVE IInv'
    BY <1>2, StartRunIInv
  <1>3. ASSUME NEW q \in Requests, ReadRun(q) \/ Handle(q) PROVE IInv'
    BY <1>3, ReadRunIInv, DecideIInv, CheckIInv, BlockIInv, UnblockIInv, SaveIInv DEF Handle
  <1>4. ASSUME NEW a \in Addresses, LateBlock(a) PROVE IInv'
    BY <1>4, LateBlockIInv
  <1>5. CASE Crash
    BY <1>5, CrashIInv
  <1> QED
    BY <1>1, <1>2, <1>3, <1>4, <1>5 DEF Next

\* The inductive invariant holds in every reachable state.
THEOREM Invariant == Spec => []IInv
  <1>1. IInv /\ [Next]_vars => IInv'
    BY NextIInv
  <1> QED
    BY <1>1, InitIInv, PTL DEF Spec

\* The variables keep their types.
THEOREM TypeCorrect == Spec => []TypeOK
  <1>1. IInv => TypeOK
    BY DEF IInv
  <1> QED
    BY <1>1, Invariant, PTL

\* The firewall drops only what passed every gate of EnforcementPolicy,
\* whatever commands fail, end late or outlive the process.
THEOREM Gates == Spec => []EnforcedPassedGates
  <1>1. IInv => EnforcedPassedGates
    BY DEF IInv, Gated, PassedFor, EnforcedPassedGates
  <1> QED
    BY <1>1, Invariant, PTL

\* A block that a handler reports, or a run records, is on the firewall.
THEOREM ReportsAreTrue == Spec => []BlockedIsBlocked
  <1>1. IInv => BlockedIsBlocked
    BY DEF IInv, Reported, RowIsTrue, OnFirewall, BlockedIsBlocked
  <1> QED
    BY <1>1, Invariant, PTL

-----------------------------------------------------------------------------
\* The steps of a handler between its read and its write.
Between(q) == Decide(q) \/ Check(q) \/ Block(q) \/ Unblock(q)

\* They leave the runs alone and what the handlers have read.
LEMMA BetweenFacts ==
  ASSUME IInv, NEW q \in Requests, Between(q)
  PROVE  /\ run' = run /\ mode' = mode
         /\ \A p \in Requests : p # q => req'[p] = req[p]
         /\ req'[q].snap = req[q].snap
         /\ req[q].at \in InFlight /\ req'[q].at \in InFlight
  <1>1. run' = run /\ mode' = mode /\ req[q].at \in InFlight
    BY DEF Between, Decide, Check, Block, Unblock, InFlight
  <1>2. \/ \E result \in Results : Finish(q, result)
        \/ \E at \in {"checking", "blocking", "unblocking"} : Goto(q, at)
    BY DEF Between, Decide, Check, Block, Unblock, AfterCheckError, Results
  <1>3. TypeOK /\ {"checking", "blocking", "unblocking", "saving"} \subseteq InFlight
    BY DEF IInv, InFlight
  <1>4. req \in [Requests -> HandlerType]
    BY <1>3 DEF TypeOK
  <1>5. ASSUME NEW result \in Results, Finish(q, result)
        PROVE  /\ \A p \in Requests : p # q => req'[p] = req[p]
               /\ req'[q].snap = req[q].snap /\ req'[q].at \in InFlight
    BY <1>3, <1>5, FinishFacts
  <1>6. ASSUME NEW at \in {"checking", "blocking", "unblocking"}, Goto(q, at)
        PROVE  /\ \A p \in Requests : p # q => req'[p] = req[p]
               /\ req'[q].snap = req[q].snap /\ req'[q].at \in InFlight
    BY <1>3, <1>4, <1>6 DEF Goto, HandlerType
  <1> QED
    BY <1>1, <1>2, <1>5, <1>6

-----------------------------------------------------------------------------
\* A handler that is about to change the firewall decided to in this mode.
Enforcing == \A q \in Requests : req[q].at \in {"checking", "blocking"} => mode = "enforcing"

\* The rules of an address change by the block of a handler that enforces or
\* by a late command.
LEMMA EnforcingStep ==
  ASSUME IInv, Enforcing, [Next]_vars
  PROVE  /\ Enforcing'
         /\ mode = "learning" => \A a \in Addresses : rules'[a] # rules[a] => a \in late
  <1>1. CASE UNCHANGED vars
    BY <1>1 DEF vars, Enforcing
  <1>2. ASSUME NEW r \in Runs, StartRun(r) PROVE Enforcing' /\ rules' = rules
    BY <1>2 DEF StartRun, Enforcing
  <1>3. ASSUME NEW q \in Requests, ReadRun(q) \/ Save(q) PROVE Enforcing' /\ rules' = rules
    <2>1. \A p \in Requests : req'[p].at \in {req[p].at, "error", "ok", "saving", "deciding"}
      BY <1>3 DEF ReadRun, Save, Goto, Handler, IInv, TypeOK, HandlerType
    <2>2. mode' = mode /\ rules' = rules
      BY <1>3 DEF ReadRun, Save
    <2> QED
      BY <2>1, <2>2 DEF Enforcing
  <1>4. ASSUME NEW q \in Requests, Between(q)
        PROVE  Enforcing' /\ (rules' = rules \/ mode = "enforcing")
    <2>1. mode' = mode /\ \A p \in Requests : p # q => req'[p] = req[p]
      BY <1>4, BetweenFacts
    <2>2. req'[q].at \in {"checking", "blocking"} => mode = "enforcing"
      <3>1. CASE Decide(q)
        BY <3>1 DEF Decide, Allow, Goto, Finish, IInv, TypeOK, HandlerType, Modes
      <3>2. CASE Check(q)
        BY <3>2 DEF Check, Enforcing
      <3>3. CASE Block(q)
        BY <3>3 DEF Block, Enforcing
      <3>4. CASE Unblock(q)
        BY <3>4 DEF Unblock, Finish, IInv, TypeOK, HandlerType
      <3> QED
        BY <1>4, <3>1, <3>2, <3>3, <3>4 DEF Between
    <2>3. rules' = rules \/ mode = "enforcing"
      BY <1>4 DEF Between, Decide, Check, Block, Unblock, Enforcing
    <2> QED
      BY <2>1, <2>2, <2>3 DEF Enforcing
  <1>5. ASSUME NEW a \in Addresses, LateBlock(a)
        PROVE  Enforcing' /\ a \in late /\ \A b \in Addresses : b # a => rules'[b] = rules[b]
    BY <1>5, AtLeastGrows DEF LateBlock, Enforcing, IInv
  <1>6. CASE Crash
    BY <1>6, HandlerFacts DEF Crash, Enforcing, InFlight
  <1> QED
    BY <1>1, <1>2, <1>3, <1>4, <1>5, <1>6 DEF Next, Handle, Between, vars, Crash

\* In learning mode only commands given before it change the firewall.
THEOREM LearningIsPassive == Spec => LearningObserves
  <1>1. Init => Enforcing
    BY HandlerFacts DEF Init, Enforcing
  <1>2. IInv /\ Enforcing /\ [Next]_vars => Enforcing'
    BY EnforcingStep
  <1>3. IInv /\ Enforcing /\ [Next]_vars =>
          [mode = "learning" => \A a \in Addresses : rules'[a] # rules[a] => a \in late]_vars
    BY EnforcingStep
  <1> QED
    BY <1>1, <1>2, <1>3, Invariant, PTL DEF Spec, LearningObserves

-----------------------------------------------------------------------------
\* Without overlap one handler at a time works on a run, which is as it read it.
Alone == /\ \A p, q \in Requests : /\ req[p].at \in InFlight /\ req[q].at \in InFlight
                                   /\ Request[p].run = Request[q].run
                                   => p = q
         /\ \A q \in Requests : req[q].at \in InFlight =>
              req[q].snap = run[Request[q].run] /\ run[Request[q].run].status = "running"
         /\ \A r \in Runs : run[r].status = "none" => run[r].steps = << >>

\* The row of the run has the entry of the request.
Recorded(q, row, result) == \E i \in 1 .. Len(row.steps) : row.steps[i] = [by |-> q, result |-> result]

\* RecordedIsKept with the entry as a predicate.
Kept == \A q \in Requests : req[q].at = "ok" /\ Request[q].kind = "advance" =>
                              Recorded(q, run[Request[q].run], req[q].result)

Lonely == IInv /\ Alone /\ Kept

\* An appended entry is there and the others stay.
LEMMA AdvancedRecords ==
  ASSUME IInv, NEW q \in Requests
  PROVE  /\ Recorded(q, Advanced(q), req[q].result)
         /\ \A p \in Requests : \A result \in Results :
              Recorded(p, req[q].snap, result) => Recorded(p, Advanced(q), result)
  <1> DEFINE steps == req[q].snap.steps
             e == [by |-> q, result |-> req[q].result]
             s == Append(steps, e)
  <1>1. steps \in Seq(Entry) /\ e \in Entry
    BY DEF IInv, TypeOK, HandlerType, RunType, Entry
  <1>2. Advanced(q).steps = s
    BY DEF Advanced, StepsAfter
  <1>3. /\ Len(s) = Len(steps) + 1 /\ Len(steps) \in Nat
        /\ s[Len(steps) + 1] = e
        /\ \A i \in 1 .. Len(steps) : s[i] = steps[i]
    BY <1>1
  <1> HIDE DEF s
  <1>4. Len(steps) + 1 \in 1 .. Len(s) /\ \A i \in 1 .. Len(steps) : i \in 1 .. Len(s)
    BY <1>3
  <1> QED
    BY <1>2, <1>3, <1>4 DEF Recorded

\* A step that reads, changes or writes a run keeps what is recorded in it.
LEMMA LonelyStep ==
  ASSUME Overlap = FALSE, Lonely, [Next]_vars
  PROVE  /\ Lonely'
         /\ \A r \in Runs : run[r].status \in Terminal => run'[r] = run[r]
  <1> DEFINE OverStays == \A r \in Runs : run[r].status \in Terminal => run'[r] = run[r]
  <1> USE DEF Lonely
  <1>0. IInv'
    BY NextIInv
  <1>1. CASE UNCHANGED vars
    BY <1>0, <1>1 DEF vars, Alone, Kept, Recorded
  <1>2. ASSUME NEW r \in Runs, StartRun(r) PROVE Alone' /\ Kept' /\ OverStays
    <2>1. /\ run[r].status = "none" /\ req' = req
          /\ run'[r] = NewRun /\ \A x \in Runs : x # r => run'[x] = run[x]
      BY <1>2 DEF StartRun, IInv, TypeOK
    <2>2. \A q \in Requests : req[q].at \in InFlight => Request[q].run # r
      BY <2>1 DEF Alone
    <2>3. \A q \in Requests : req[q].at = "ok" /\ Request[q].kind = "advance" => Request[q].run # r
      <3>1. run[r].steps = << >>
        BY <2>1 DEF Alone
      <3>2. \A q \in Requests : \A result : ~ Recorded(q, run[r], result)
        BY <3>1 DEF Recorded
      <3> QED
        BY <3>2 DEF Kept
    <2>4. Alone'
      <3>1. \A q \in Requests : req'[q].at \in InFlight =>
              req'[q].snap = run'[Request[q].run] /\ run'[Request[q].run].status = "running"
        BY <2>1, <2>2, RequestFacts DEF Alone
      <3>2. \A x \in Runs : run'[x].status = "none" => run'[x].steps = << >>
        BY <2>1 DEF Alone, NewRun
      <3> QED
        BY <2>1, <3>1, <3>2 DEF Alone
    <2>5. Kept'
      BY <2>1, <2>3, RequestFacts DEF Kept
    <2> QED
      BY <2>1, <2>4, <2>5 DEF Terminal
  <1>3. ASSUME NEW q \in Requests, ReadRun(q) PROVE Alone' /\ Kept' /\ OverStays
    <2> DEFINE row == run[Request[q].run]
    <2>1. run' = run /\ row \in RunType
      BY <1>3, RequestFacts DEF ReadRun, IInv, TypeOK
    <2>2. \A p \in Requests : p # q => req'[p] = req[p]
      BY <1>3 DEF ReadRun, Goto, IInv, TypeOK
    <2>3. \/ req'[q].at = "error"
          \/ /\ req'[q].at \in InFlight /\ req'[q].snap = row /\ row.status = "running"
             /\ \A p \in Requests : Request[p].run = Request[q].run => req[p].at \notin InFlight
      <3>1. CASE Goto(q, "error")
        BY <3>1 DEF Goto, IInv, TypeOK, HandlerType
      <3>2. CASE ~ Goto(q, "error")
        <4>1. row.status = "running"
          BY <1>3, <2>1, <3>2 DEF ReadRun, Conflict, Terminal, RunType
        <4>2. req'[q].at \in InFlight /\ req'[q].snap = row
          BY <1>3, <3>2 DEF ReadRun, InFlight, IInv, TypeOK, HandlerType
        <4>3. \A p \in Requests : Request[p].run = Request[q].run => req[p].at \notin InFlight
          BY <1>3 DEF ReadRun, MayStart
        <4> QED
          BY <4>1, <4>2, <4>3
      <3> QED
        BY <3>1, <3>2
    <2>4. Alone'
      BY <2>1, <2>2, <2>3 DEF Alone, InFlight
    <2>5. Kept'
      BY <2>1, <2>2, <2>3 DEF Kept, InFlight
    <2> QED
      BY <2>1, <2>4, <2>5
  <1>4. ASSUME NEW q \in Requests, Between(q) PROVE Alone' /\ Kept' /\ OverStays
    <2>1. Alone'
      BY <1>4, BetweenFacts DEF Alone
    <2>2. Kept'
      BY <1>4, BetweenFacts DEF Kept, InFlight
    <2> QED
      BY <1>4, <2>1, <2>2, BetweenFacts
  <1>5. ASSUME NEW q \in Requests, Save(q) PROVE Alone' /\ Kept' /\ OverStays
    <2> DEFINE r == Request[q].run
    <2>1. /\ req[q].at = "saving" /\ req[q].at \in InFlight /\ r \in Runs
          /\ req[q].snap = run[r] /\ run[r].status = "running"
      BY <1>5, RequestFacts DEF Save, InFlight, Alone
    <2>2. /\ req'[q].at \in {"ok", "error"} /\ \A p \in Requests : p # q => req'[p] = req[p]
          /\ req'[q].at = "ok" => req'[q].result = req[q].result
      BY <1>5, HandlerFacts DEF Save, IInv, TypeOK, HandlerType
    <2>3. \A p \in Requests : p # q /\ req[p].at \in InFlight => Request[p].run # r
      BY <2>1 DEF Alone
    <2>4. /\ \A x \in Runs : x # r => run'[x] = run[x]
          /\ \/ run'[r] = run[r] /\ req'[q].at = "error"
             \/ run'[r] = Advanced(q)
             \/ Request[q].kind = "cancel" /\ run'[r] = [run[r] EXCEPT !.status = "cancelled"]
      BY <1>5, <2>1, HandlerFacts DEF Save, IInv, TypeOK
    <2>5. run'[r].status # "none"
      BY <2>1, <2>4 DEF Advanced, IInv, TypeOK, RunType
    <2>6. \A p \in Requests : \A result \in Results : Recorded(p, run[r], result) => Recorded(p, run'[r], result)
      <3>1. run'[r] = Advanced(q) \/ run'[r].steps = run[r].steps
        BY <2>1, <2>4 DEF IInv, TypeOK, RunType
      <3> QED
        <4>1. CASE run'[r] = Advanced(q)
          BY <2>1, <4>1, AdvancedRecords
        <4>2. CASE run'[r].steps = run[r].steps
          BY <4>2 DEF Recorded
        <4> QED
          BY <3>1, <4>1, <4>2
    <2>7. req'[q].at = "ok" /\ Request[q].kind = "advance" => Recorded(q, run'[r], req'[q].result)
      BY <2>2, <2>4, AdvancedRecords
    <2>8. Alone'
      BY <2>2, <2>3, <2>4, <2>5, RequestFacts DEF Alone, InFlight
    <2>9. Kept'
      <3>1. \A p \in Requests : req[p].result \in Results
        BY DEF IInv, TypeOK, HandlerType
      <3>2. \A p \in Requests : p # q /\ req'[p].at = "ok" /\ Request[p].kind = "advance" =>
                                  Recorded(p, run'[Request[p].run], req'[p].result)
        BY <2>2, <2>4, <2>6, <3>1, RequestFacts DEF Kept
      <3> QED
        BY <2>7, <3>2 DEF Kept
    <2>10. OverStays
      BY <2>1, <2>4 DEF Terminal
    <2> QED
      BY <2>8, <2>9, <2>10
  <1>6. ASSUME NEW a \in Addresses, LateBlock(a) PROVE Alone' /\ Kept' /\ OverStays
    BY <1>6 DEF LateBlock, Alone, Kept
  <1>7. CASE Crash
    <2>1. run' = run /\ \A p \in Requests : req'[p] = Handler("error") \/ (req'[p] = req[p] /\ req[p].at \notin InFlight)
      BY <1>7 DEF Crash
    <2>2. Alone' /\ Kept'
      BY <2>1, HandlerFacts DEF Alone, Kept, InFlight
    <2> QED
      BY <1>0, <2>1, <2>2
  <1>8. CASE UNCHANGED vars
    BY <1>0, <1>1, <1>8 DEF vars
  <1>9. CASE Next
    <2>1. \/ \E r \in Runs : StartRun(r)
          \/ \E q \in Requests : ReadRun(q) \/ Between(q) \/ Save(q)
          \/ \E a \in Addresses : LateBlock(a)
          \/ Crash
      BY <1>9 DEF Next, Handle, Between
    <2>2. Alone' /\ Kept' /\ OverStays
      BY <1>2, <1>3, <1>4, <1>5, <1>6, <1>7, <2>1
    <2>3. OverStays
      BY <2>2
    <2> QED
      BY <1>0, <2>2, <2>3
  <1> QED
    BY <1>8, <1>9

\* Nothing is recorded or in flight at the beginning.
LEMMA InitLonely == Init => Lonely
  <1>1. Init => Alone /\ Kept
    BY HandlerFacts DEF Init, Alone, Kept, InFlight
  <1> QED
    BY <1>1, InitIInv DEF Lonely

\* If the requests for a run come one after the other, the entry of every
\* request that was answered stays in its run.
THEOREM RecordsAreKept == ASSUME Overlap = FALSE PROVE Spec => []RecordedIsKept
  <1>1. Lonely /\ [Next]_vars => Lonely'
    BY LonelyStep
  <1>2. Lonely => RecordedIsKept
    BY DEF Lonely, Kept, Recorded, RecordedIsKept
  <1> QED
    BY <1>1, <1>2, InitLonely, PTL DEF Spec

\* If the requests for a run come one after the other, a run that was completed
\* or cancelled does not change any more.
THEOREM OverForGood == ASSUME Overlap = FALSE PROVE Spec => OverIsOver
  <1>1. Lonely /\ [Next]_vars => Lonely'
    BY LonelyStep
  <1>2. Lonely /\ [Next]_vars => [\A r \in Runs : run[r].status \in Terminal => run'[r] = run[r]]_vars
    BY LonelyStep
  <1> QED
    BY <1>1, <1>2, InitLonely, PTL DEF Spec, OverIsOver

-----------------------------------------------------------------------------
(* The library: what holds of PlaybookLibrary for any starters, analysts'  *)
(* playbooks and runs.                                                     *)

Builtins == {r \in playbooks : r.builtin}
IsRow(r) == r = [id |-> r.id, name |-> r.name, builtin |-> r.builtin, source |-> r.source,
                 category |-> r.category]

\* A row of a playbook of the library, and one of a starter.
IsOf(r, p) == /\ r.name = p.name /\ r.source = p.source
              /\ r.category = p.category \/ p.category = NoCategory
IsStarter(r) == r.name \in Legacy /\ r.source \in {"custom", "nist"}
Present(n) == \E r \in Builtins : r.name = n

\* Built-in rows are those of starters and of the library, each once, also in
\* a database on which a seeding broke off.
RowsAreKnown ==
  /\ \A r \in playbooks : IsRow(r)
  /\ \A r \in Builtins : IsStarter(r) \/ \E p \in Library : IsOf(r, p)
  /\ \A r, x \in Builtins : r.name = x.name => r = x

\* What the seeding has behind it.
SeedIsAt ==
  /\ seed = [at |-> seed.at, next |-> seed.next, names |-> seed.names]
  /\ seed.at \in {"tag", "delete", "insert", "backfill", "seeded", "unseeded"}
  /\ seed.at = "delete" => \A r \in Builtins : r.source # "custom"
  /\ seed.at \in {"insert", "backfill", "seeded"} => \A r \in Builtins : \E p \in Library : IsOf(r, p)
  /\ seed.at = "insert" =>
       /\ seed.next \in 1 .. Len(BUILTIN_PLAYBOOKS) + 1
       /\ \A r \in Builtins : r.name \in seed.names \/ \E i \in 1 .. seed.next - 1 : r.name = BUILTIN_PLAYBOOKS[i].name
       /\ \A n \in seed.names : Present(n)
       /\ \A i \in 1 .. seed.next - 1 : Present(BUILTIN_PLAYBOOKS[i].name)
  /\ seed.at \in {"backfill", "seeded"} => \A p \in Library : Present(p.name)
  /\ seed.at = "seeded" => \A r \in Builtins : r.category # NoCategory

\* The process serves without a whole library only for one of two reasons.
GiveUpIsTold == seed.at = "unseeded" => failed \/ ~ MayDelete(OldRows)

LibraryInv == RowsAreKnown /\ SeedIsAt /\ GiveUpIsTold

-----------------------------------------------------------------------------
\* The rows of the three kinds.
LEMMA LegacyRowIs ==
  ASSUME NEW n
  PROVE  /\ IsRow(LegacyRow(n)) /\ LegacyRow(n).builtin
         /\ LegacyRow(n).name = n /\ LegacyRow(n).source = "custom"
  BY DEF IsRow, LegacyRow

LEMMA BuiltinRowIs ==
  ASSUME NEW p
  PROVE  IsRow(BuiltinRow(p)) /\ BuiltinRow(p).builtin /\ IsOf(BuiltinRow(p), p)
  BY DEF IsRow, BuiltinRow, IsOf

LEMMA AddedRowIs ==
  ASSUME NEW n
  PROVE  IsRow(AddedRow(n)) /\ ~AddedRow(n).builtin
  BY DEF IsRow, AddedRow

\* The two updates of a row.
LEMMA SourceIsSet ==
  ASSUME NEW r, IsRow(r), NEW s
  PROVE  LET x == [r EXCEPT !.source = s] IN
         IsRow(x) /\ x.builtin = r.builtin /\ x.name = r.name /\ x.source = s /\ x.category = r.category
  BY DEF IsRow

LEMMA CategoryIsSet ==
  ASSUME NEW r, IsRow(r), NEW c
  PROVE  LET x == [r EXCEPT !.category = c] IN
         IsRow(x) /\ x.builtin = r.builtin /\ x.name = r.name /\ x.source = r.source /\ x.category = c
  BY DEF IsRow

LEMMA LibraryIs ==
  /\ Len(BUILTIN_PLAYBOOKS) \in Nat /\ DOMAIN BUILTIN_PLAYBOOKS = 1 .. Len(BUILTIN_PLAYBOOKS)
  /\ \A i \in 1 .. Len(BUILTIN_PLAYBOOKS) : BUILTIN_PLAYBOOKS[i] \in Library
  /\ \A p \in Library : \E i \in 1 .. Len(BUILTIN_PLAYBOOKS) : p = BUILTIN_PLAYBOOKS[i]
  /\ \A p, q \in Library : p.name = q.name => p = q
  /\ \A p \in Library : p.name \notin Legacy
  BY LibraryIsGiven, PlaybookLibraryAssumption, LenProperties DEF Library

\* Updates of the rows, as functions of a row.
TagOf(r) == IF r.builtin /\ r.source = "custom" THEN [r EXCEPT !.source = "nist"] ELSE r
FilledOf(r, names) == IF r.name \in names /\ r.category = NoCategory
                      THEN [r EXCEPT !.category = CISA_CATEGORY_MAP[r.name]] ELSE r

LEMMA TagIs ==
  ASSUME NEW r, IsRow(r)
  PROVE  /\ IsRow(TagOf(r)) /\ TagOf(r).builtin = r.builtin
         /\ TagOf(r).name = r.name /\ TagOf(r).category = r.category
         /\ r.builtin => TagOf(r).source = IF r.source = "custom" THEN "nist" ELSE r.source
  BY SourceIsSet DEF TagOf

LEMMA FillIs ==
  ASSUME NEW r, IsRow(r), NEW names
  PROVE  LET x == FilledOf(r, names) IN
         /\ IsRow(x) /\ x.builtin = r.builtin /\ x.name = r.name /\ x.source = r.source
         /\ x.category = r.category \/ r.category = NoCategory
         /\ r.name \in names /\ names \subseteq DOMAIN CISA_CATEGORY_MAP => x.category # NoCategory
  <1>1. CASE r.name \in names /\ r.category = NoCategory
    <2> DEFINE c == CISA_CATEGORY_MAP[r.name]
    <2>1. FilledOf(r, names) = [r EXCEPT !.category = c]
      BY <1>1 DEF FilledOf
    <2>2. names \subseteq DOMAIN CISA_CATEGORY_MAP => c # NoCategory
      BY <1>1, LibraryIsGiven
    <2> HIDE DEF c
    <2> QED
      BY <1>1, <2>1, <2>2, CategoryIsSet
  <1>2. CASE ~(r.name \in names /\ r.category = NoCategory)
    BY <1>2 DEF FilledOf
  <1> QED
    BY <1>1, <1>2

LEMMA TaggingKeepsRows ==
  ASSUME RowsAreKnown, playbooks' = Tagged
  PROVE  /\ RowsAreKnown'
         /\ \A r \in Builtins' : r.source # "custom"
  <1>1. playbooks' = {TagOf(r) : r \in playbooks}
    BY DEF Tagged, TagOf
  <1>2. \A x \in playbooks' : \E r \in playbooks : x = TagOf(r)
    BY <1>1
  <1>3. \A r \in playbooks : IsRow(r)
    BY DEF RowsAreKnown
  <1>4. \A x \in Builtins' : \E r \in Builtins : x = TagOf(r)
    <2> SUFFICES ASSUME NEW x \in playbooks', x.builtin PROVE \E r \in Builtins : x = TagOf(r)
      BY DEF Builtins
    <2>1. PICK r \in playbooks : x = TagOf(r)
      BY <1>2
    <2>2. r.builtin
      BY <1>3, <2>1, TagIs
    <2> QED
      BY <2>1, <2>2 DEF Builtins
  <1>5. \A r \in Builtins : r.builtin /\ IsRow(r)
    BY <1>3 DEF Builtins
  <1>6. \A x \in playbooks' : IsRow(x)
    BY <1>2, <1>3, TagIs
  <1>7. \A x \in Builtins' : IsStarter(x) \/ \E p \in Library : IsOf(x, p)
    <2> SUFFICES ASSUME NEW r \in Builtins
                 PROVE  IsStarter(TagOf(r)) \/ \E p \in Library : IsOf(TagOf(r), p)
      BY <1>4
    <2>1. CASE IsStarter(r)
      BY <1>5, <2>1, TagIs DEF IsStarter
    <2>2. CASE \E p \in Library : IsOf(r, p)
      <3>1. PICK p \in Library : IsOf(r, p)
        BY <2>2
      <3>2. r.source # "custom"
        BY <3>1, LibraryIsGiven DEF IsOf
      <3> QED
        BY <1>5, <3>1, <3>2, TagIs DEF IsOf
    <2> QED
      BY <2>1, <2>2 DEF RowsAreKnown
  <1>8. \A x, y \in Builtins' : x.name = y.name => x = y
    BY <1>4, <1>5, TagIs DEF RowsAreKnown
  <1>9. \A x \in Builtins' : x.source # "custom"
    BY <1>4, <1>5, TagIs
  <1> QED
    BY <1>6, <1>7, <1>8, <1>9 DEF RowsAreKnown

LEMMA FillingKeepsRows ==
  ASSUME RowsAreKnown, NEW names, playbooks' = Backfilled(names)
  PROVE  /\ RowsAreKnown'
         /\ \A x \in Builtins' : \E r \in Builtins : x = FilledOf(r, names)
         /\ \A r \in Builtins : FilledOf(r, names) \in Builtins' /\ IsRow(r)
  <1>1. playbooks' = {FilledOf(r, names) : r \in playbooks}
    BY DEF Backfilled, FilledOf
  <1>2. \A x \in playbooks' : \E r \in playbooks : x = FilledOf(r, names)
    BY <1>1
  <1>3. \A r \in playbooks : IsRow(r)
    BY DEF RowsAreKnown
  <1>4. \A x \in Builtins' : \E r \in Builtins : x = FilledOf(r, names)
    <2> SUFFICES ASSUME NEW x \in playbooks', x.builtin PROVE \E r \in Builtins : x = FilledOf(r, names)
      BY DEF Builtins
    <2>1. PICK r \in playbooks : x = FilledOf(r, names)
      BY <1>2
    <2>2. r.builtin
      BY <1>3, <2>1, FillIs
    <2> QED
      BY <2>1, <2>2 DEF Builtins
  <1>5. \A r \in Builtins : r.builtin /\ IsRow(r) /\ r \in playbooks
    BY <1>3 DEF Builtins
  <1>6. \A x \in playbooks' : IsRow(x)
    BY <1>2, <1>3, FillIs
  <1>7. \A x \in Builtins' : IsStarter(x) \/ \E p \in Library : IsOf(x, p)
    <2> SUFFICES ASSUME NEW r \in Builtins
                 PROVE  LET x == FilledOf(r, names) IN IsStarter(x) \/ \E p \in Library : IsOf(x, p)
      BY <1>4
    <2> DEFINE x == FilledOf(r, names)
    <2>1. x.name = r.name /\ x.source = r.source /\ (x.category = r.category \/ r.category = NoCategory)
      BY <1>5, FillIs
    <2> HIDE DEF x
    <2>2. IsStarter(x) \/ \E p \in Library : IsOf(x, p)
      BY <2>1 DEF IsStarter, IsOf, RowsAreKnown
    <2> QED
      BY <2>2 DEF x
  <1>8. \A x, y \in Builtins' : x.name = y.name => x = y
    BY <1>4, <1>5, FillIs DEF RowsAreKnown
  <1>9. \A r \in Builtins : FilledOf(r, names) \in Builtins'
    <2> SUFFICES ASSUME NEW r \in Builtins PROVE FilledOf(r, names) \in playbooks' /\ FilledOf(r, names).builtin
      BY DEF Builtins
    <2>1. FilledOf(r, names) \in playbooks'
      BY <1>1, <1>5
    <2>2. FilledOf(r, names).builtin = r.builtin /\ r.builtin
      BY <1>5, FillIs
    <2> QED
      BY <2>1, <2>2
  <1> QED
    BY <1>4, <1>5, <1>6, <1>7, <1>8, <1>9 DEF RowsAreKnown

\* Rows are deleted, or analysts' rows come in.
LEMMA FewerKeepRows ==
  ASSUME RowsAreKnown, playbooks' \subseteq playbooks
  PROVE  RowsAreKnown' /\ Builtins' \subseteq Builtins
  BY DEF RowsAreKnown, Builtins

LEMMA AddedKeepsRows ==
  ASSUME RowsAreKnown, NEW n, playbooks' = playbooks \cup {AddedRow(n)}
  PROVE  RowsAreKnown' /\ Builtins' = Builtins
  <1>1. \A r \in playbooks' : r \in playbooks \/ r = AddedRow(n)
    OBVIOUS
  <1>2. Builtins' = Builtins
    BY <1>1, AddedRowIs DEF Builtins
  <1>3. \A r \in playbooks' : IsRow(r)
    BY <1>1, AddedRowIs DEF RowsAreKnown
  <1> QED
    BY <1>2, <1>3 DEF RowsAreKnown

-----------------------------------------------------------------------------
LEMMA InitHasLibrary == LibraryInit => LibraryInv
  <1> SUFFICES ASSUME LibraryInit PROVE LibraryInv
    OBVIOUS
  <1>1. seed = [at |-> "tag", next |-> 1, names |-> {}]
    BY DEF LibraryInit, Begin
  <1>2. SeedIsAt
    BY <1>1 DEF SeedIsAt
  <1>3. GiveUpIsTold
    BY <1>1 DEF GiveUpIsTold
  <1>4. PICK mine \in SUBSET Added :
          LET add == {AddedRow(n) : n \in mine} IN
          \/ playbooks = add
          \/ playbooks = add \cup {LegacyRow(n) : n \in Legacy}
          \/ playbooks = add \cup {BuiltinRow(p) : p \in {q \in Library : q.source = "cisa"}}
    BY DEF LibraryInit
  <1>5. \/ \A r \in playbooks : (\E n \in Added : r = AddedRow(n)) \/ \E n \in Legacy : r = LegacyRow(n)
        \/ \A r \in playbooks : (\E n \in Added : r = AddedRow(n)) \/ \E p \in Library : r = BuiltinRow(p)
    BY <1>4
  <1>6. CASE \A r \in playbooks : (\E n \in Added : r = AddedRow(n)) \/ \E n \in Legacy : r = LegacyRow(n)
    <2>1. \A r \in playbooks : IsRow(r)
      BY <1>6, AddedRowIs, LegacyRowIs
    <2>2. \A r \in Builtins : \E n \in Legacy : r = LegacyRow(n)
      BY <1>6, AddedRowIs DEF Builtins
    <2> QED
      BY <1>2, <1>3, <2>1, <2>2, LegacyRowIs DEF LibraryInv, RowsAreKnown, IsStarter
  <1>7. CASE \A r \in playbooks : (\E n \in Added : r = AddedRow(n)) \/ \E p \in Library : r = BuiltinRow(p)
    <2>1. \A r \in playbooks : IsRow(r)
      BY <1>7, AddedRowIs, BuiltinRowIs
    <2>2. \A r \in Builtins : \E p \in Library : r = BuiltinRow(p)
      BY <1>7, AddedRowIs DEF Builtins
    <2>3. \A r, x \in Builtins : r.name = x.name => r = x
      BY <2>2, BuiltinRowIs, LibraryIs DEF IsOf
    <2>4. \A r \in Builtins : \E p \in Library : IsOf(r, p)
      BY <2>2, BuiltinRowIs
    <2> QED
      BY <1>2, <1>3, <2>1, <2>3, <2>4 DEF LibraryInv, RowsAreKnown
  <1> QED
    BY <1>5, <1>6, <1>7

\* The seeding starts anew, or is given up: nothing is said of the rows.
LEMMA SeedIsUp ==
  ASSUME RowsAreKnown', GiveUpIsTold', NEW a \in {"tag", "unseeded"}, seed' = [Begin EXCEPT !.at = a]
  PROVE  LibraryInv'
  <1>1. seed' = [at |-> a, next |-> 1, names |-> {}]
    BY DEF Begin
  <1>2. SeedIsAt'
    BY <1>1 DEF SeedIsAt
  <1> QED
    BY <1>2 DEF LibraryInv

LEMMA TagLegacyKeeps ==
  ASSUME LibraryInv, TagLegacy
  PROVE  LibraryInv'
  <1>1. RowsAreKnown' /\ \A r \in Builtins' : r.source # "custom"
    BY TaggingKeepsRows DEF LibraryInv, TagLegacy
  <1>2. seed' = [seed EXCEPT !.at = "delete"]
    BY DEF TagLegacy
  <1>3. seed' = [at |-> "delete", next |-> seed.next, names |-> seed.names]
    BY <1>2 DEF LibraryInv, SeedIsAt
  <1>4. SeedIsAt'
    BY <1>1, <1>3 DEF SeedIsAt
  <1> QED
    BY <1>1, <1>3, <1>4 DEF LibraryInv, GiveUpIsTold

LEMMA DeleteLegacyKeeps ==
  ASSUME LibraryInv, DeleteLegacy
  PROVE  LibraryInv'
  <1>1. RowsAreKnown /\ SeedIsAt /\ seed.at = "delete"
    BY DEF LibraryInv, DeleteLegacy
  <1>2. CASE ~ MayDelete(OldRows) /\ SeedFails /\ playbooks' = playbooks
    <2>1. RowsAreKnown' /\ GiveUpIsTold'
      BY <1>1, <1>2, FewerKeepRows DEF DeleteLegacy, GiveUpIsTold, MayDelete, OldRows
    <2> QED
      BY <1>1, <1>2, <2>1, SeedIsUp DEF SeedFails
  <1>3. CASE /\ playbooks' = playbooks \ OldRows
             /\ seed' = [at |-> "insert", next |-> 1, names |-> ExistingNames(playbooks')]
    <2>1. RowsAreKnown' /\ Builtins' \subseteq Builtins
      BY <1>1, <1>3, FewerKeepRows
    <2>2. \A r \in Builtins' : r.source # "nist"
      BY <1>3 DEF Builtins, OldRows
    <2>3. \A r \in Builtins' : \E p \in Library : IsOf(r, p)
      BY <1>1, <2>1, <2>2 DEF RowsAreKnown, SeedIsAt, IsStarter
    <2>4. ExistingNames(playbooks') = {r.name : r \in Builtins'}
      BY DEF ExistingNames, Builtins
    <2>5. seed'.at = "insert" /\ seed'.next = 1 /\ seed'.names = {r.name : r \in Builtins'}
      BY <1>3, <2>4
    <2>6. 1 \in 1 .. Len(BUILTIN_PLAYBOOKS) + 1 /\ \A i : i \in 1 .. 1 - 1 => FALSE
      BY LibraryIs
    <2>7. seed' = [at |-> seed'.at, next |-> seed'.next, names |-> seed'.names]
      BY <1>3
    <2>8. /\ \A r \in Builtins' : r.name \in seed'.names
          /\ \A n \in seed'.names : \E r \in Builtins' : r.name = n
      BY <2>5
    <2>9. SeedIsAt'
      BY <2>3, <2>5, <2>6, <2>7, <2>8 DEF SeedIsAt, Present
    <2> QED
      BY <2>1, <2>5, <2>9 DEF LibraryInv, GiveUpIsTold
  <1> QED
    BY <1>2, <1>3 DEF DeleteLegacy

-----------------------------------------------------------------------------
\* Min is the least of its numbers.
LEMMA LeastIs ==
  ASSUME NEW S \in SUBSET Nat, S # {}
  PROVE  Min(S) \in S /\ \A x \in S : Min(S) <= x
  <1> DEFINE R == OpToRel(<, Nat)
  <1>1. IsWellFoundedOn(R, Nat)
    BY NatLessThanWellFounded
  <1>2. \A x, y \in Nat : x < y => <<x, y>> \in R
    BY DEF OpToRel
  <1> HIDE DEF R
  <1>3. PICK x \in S : \A y \in S : <<y, x>> \notin R
    BY <1>1, WFMin
  <1>4. \A y \in S : x <= y
    <2> SUFFICES ASSUME NEW y \in S, ~(x <= y) PROVE FALSE
      OBVIOUS
    <2>1. x \in Nat /\ y \in Nat /\ y < x
      OBVIOUS
    <2> QED
      BY <1>2, <1>3, <2>1
  <1> QED
    BY <1>4 DEF Min

\* The next playbook that is not there comes in, once.
LEMMA InsertMissingKeeps ==
  ASSUME LibraryInv, InsertMissing
  PROVE  LibraryInv'
  <1>1. /\ RowsAreKnown /\ SeedIsAt /\ seed.at = "insert"
        /\ seed.next \in 1 .. Len(BUILTIN_PLAYBOOKS) + 1
        /\ seed = [at |-> seed.at, next |-> seed.next, names |-> seed.names]
    BY DEF LibraryInv, InsertMissing, SeedIsAt
  <1>2. CASE Missing = {} /\ seed' = [seed EXCEPT !.at = "backfill"] /\ playbooks' = playbooks
    <2>1. RowsAreKnown' /\ Builtins' = Builtins
      BY <1>1, <1>2 DEF RowsAreKnown, Builtins
    <2>2. seed' = [at |-> "backfill", next |-> seed.next, names |-> seed.names]
      BY <1>1, <1>2
    <2>3. \A i \in 1 .. Len(BUILTIN_PLAYBOOKS) : i < seed.next \/ BUILTIN_PLAYBOOKS[i].name \in seed.names
      BY <1>1, <1>2, LibraryIs DEF Missing
    <2>4. \A i \in 1 .. Len(BUILTIN_PLAYBOOKS) : i < seed.next => i \in 1 .. seed.next - 1
      BY <1>1, LibraryIs
    <2>5. \A i \in 1 .. Len(BUILTIN_PLAYBOOKS) : Present(BUILTIN_PLAYBOOKS[i].name)
      BY <1>1, <2>3, <2>4 DEF SeedIsAt
    <2>6. \A p \in Library : Present(p.name)
      BY <2>5, LibraryIs
    <2>7. SeedIsAt'
      BY <1>1, <2>1, <2>2, <2>6 DEF SeedIsAt, Present
    <2> QED
      BY <2>1, <2>2, <2>7 DEF LibraryInv, GiveUpIsTold, RowsAreKnown
  <1>3. CASE /\ Missing # {}
             /\ playbooks' = playbooks \cup {BuiltinRow(BUILTIN_PLAYBOOKS[Min(Missing)])}
             /\ seed' = [seed EXCEPT !.next = Min(Missing) + 1]
    <2> DEFINE i == Min(Missing)
               p == BUILTIN_PLAYBOOKS[i]
               b == BuiltinRow(p)
    <2>1. Missing \in SUBSET Nat /\ Missing # {}
      BY <1>1, <1>3 DEF Missing
    <2>2. i \in Missing /\ \A j \in Missing : i <= j
      BY <2>1, LeastIs
    <2>3. /\ i \in seed.next .. Len(BUILTIN_PLAYBOOKS) /\ p.name \notin seed.names
          /\ \A j \in seed.next .. i - 1 : BUILTIN_PLAYBOOKS[j].name \in seed.names
      <3>1. i \in Nat /\ seed.next \in Nat /\ Len(BUILTIN_PLAYBOOKS) \in Nat
        BY <1>1, <2>1, <2>2, LibraryIs
      <3>2. /\ \A j \in Missing : i <= j
            /\ i \in seed.next .. Len(BUILTIN_PLAYBOOKS) /\ p.name \notin seed.names
        BY <2>2 DEF Missing
      <3> HIDE DEF i
      <3>3. ASSUME NEW j \in seed.next .. i - 1, BUILTIN_PLAYBOOKS[j].name \notin seed.names PROVE FALSE
        <4>1. j \in seed.next .. Len(BUILTIN_PLAYBOOKS) /\ ~(i <= j)
          BY <3>1, <3>2
        <4> QED
          BY <3>2, <3>3, <4>1 DEF Missing
      <3> QED
        BY <3>2, <3>3
    <2>4. seed' = [at |-> "insert", next |-> i + 1, names |-> seed.names] /\ playbooks' = playbooks \cup {b}
      BY <1>1, <1>3
    <2> HIDE DEF i
    <2>5. i \in 1 .. Len(BUILTIN_PLAYBOOKS) /\ i \in Nat /\ p \in Library
      BY <1>1, <2>3, LibraryIs
    <2> HIDE DEF p
    <2>6. IsRow(b) /\ b.builtin /\ IsOf(b, p) /\ b.name = p.name
      BY BuiltinRowIs DEF IsOf
    <2> HIDE DEF b
    <2>7. Builtins' = Builtins \cup {b}
      BY <2>4, <2>6 DEF Builtins
    <2>8. \A r \in Builtins : r.name # p.name
      <3> SUFFICES ASSUME NEW r \in Builtins, NEW j \in 1 .. seed.next - 1, r.name = BUILTIN_PLAYBOOKS[j].name
                   PROVE  r.name # p.name
        BY <1>1, <2>3 DEF SeedIsAt
      <3>1. j \in 1 .. Len(BUILTIN_PLAYBOOKS) /\ j # i
        BY <1>1, <2>3, LibraryIs
      <3> QED
        BY <2>5, <3>1, LibraryIs, LibraryIsGiven DEF p
    <2>9. RowsAreKnown'
      <3>1. \A r \in playbooks' : IsRow(r)
        BY <1>1, <2>4, <2>6 DEF RowsAreKnown
      <3>2. \A r \in Builtins' : IsStarter(r) \/ \E q \in Library : IsOf(r, q)
        BY <1>1, <2>5, <2>6, <2>7 DEF RowsAreKnown
      <3>3. \A r, x \in Builtins' : r.name = x.name => r = x
        BY <1>1, <2>6, <2>7, <2>8 DEF RowsAreKnown
      <3> QED
        BY <3>1, <3>2, <3>3 DEF RowsAreKnown
    <2>10. \A r \in Builtins' : \E q \in Library : IsOf(r, q)
      BY <1>1, <2>5, <2>6, <2>7 DEF SeedIsAt
    <2>11. \A n : Present(n) => Present(n)'
      BY <2>7 DEF Present
    <2>12. \A n : n = p.name => Present(n)'
      BY <2>6, <2>7 DEF Present
    <2>13. \A j \in 1 .. i : j \in 1 .. seed.next - 1 \/ j \in seed.next .. i - 1 \/ j = i
      BY <1>1, <2>5, LibraryIs
    <2>14. \A j \in 1 .. i : Present(BUILTIN_PLAYBOOKS[j].name)'
      BY <1>1, <2>3, <2>11, <2>12, <2>13 DEF SeedIsAt, p
    <2>15. \A r \in Builtins' : r.name \in seed.names \/ \E j \in 1 .. i : r.name = BUILTIN_PLAYBOOKS[j].name
      <3>1. i \in 1 .. i /\ 1 .. seed.next - 1 \subseteq 1 .. i
        BY <1>1, <2>3, <2>5, LibraryIs
      <3> QED
        BY <1>1, <2>6, <2>7, <3>1 DEF SeedIsAt, p
    <2>16. i + 1 \in 1 .. Len(BUILTIN_PLAYBOOKS) + 1 /\ 1 .. i + 1 - 1 = 1 .. i
      BY <2>5, LibraryIs
    <2>17. SeedIsAt'
      <3>1. seed'.at = "insert" /\ seed'.next = i + 1 /\ seed'.names = seed.names
        BY <2>4
      <3>2. \A n \in seed'.names : Present(n)'
        BY <1>1, <2>11, <3>1 DEF SeedIsAt
      <3>3. 1 .. seed'.next - 1 = 1 .. i /\ seed'.next \in 1 .. Len(BUILTIN_PLAYBOOKS) + 1
        <4>1. seed'.next = i + 1 /\ seed'.next - 1 = i
          BY <2>5, <3>1
        <4> QED
          BY <2>16, <4>1
      <3>4. /\ \A r \in Builtins' : r.name \in seed'.names \/ \E j \in 1 .. seed'.next - 1 : r.name = BUILTIN_PLAYBOOKS[j].name
            /\ \A j \in 1 .. seed'.next - 1 : Present(BUILTIN_PLAYBOOKS[j].name)'
            /\ seed'.next \in 1 .. Len(BUILTIN_PLAYBOOKS) + 1
        BY <2>14, <2>15, <3>1, <3>3
      <3> QED
        BY <2>4, <2>10, <3>1, <3>2, <3>4 DEF SeedIsAt
    <2> QED
      BY <2>4, <2>9, <2>17 DEF LibraryInv, GiveUpIsTold
  <1> QED
    BY <1>2, <1>3 DEF InsertMissing

\* Each category that is missing is filled in.
LEMMA BackfillKeeps ==
  ASSUME LibraryInv, BackfillCategory
  PROVE  LibraryInv'
  <1> DEFINE names == DOMAIN CISA_CATEGORY_MAP
  <1>1. /\ RowsAreKnown /\ SeedIsAt /\ seed.at = "backfill"
        /\ playbooks' = Backfilled(names) /\ seed' = [at |-> "seeded", next |-> 1, names |-> {}]
    BY DEF LibraryInv, BackfillCategory, Begin
  <1> HIDE DEF names
  <1>2. /\ RowsAreKnown'
        /\ \A x \in Builtins' : \E r \in Builtins : x = FilledOf(r, names)
        /\ \A r \in Builtins : FilledOf(r, names) \in Builtins' /\ IsRow(r)
    BY <1>1, FillingKeepsRows
  <1>3. \A p \in Library : Present(p.name)'
    <2> SUFFICES ASSUME NEW p \in Library PROVE \E x \in Builtins' : x.name = p.name
      BY DEF Present
    <2>1. PICK r \in Builtins : r.name = p.name
      BY <1>1 DEF SeedIsAt, Present
    <2>2. FilledOf(r, names) \in Builtins' /\ FilledOf(r, names).name = r.name
      BY <1>2, FillIs
    <2> QED
      BY <2>1, <2>2
  <1>4. ASSUME NEW r \in Builtins
        PROVE  LET x == FilledOf(r, names) IN
               x.category # NoCategory /\ \E p \in Library : IsOf(x, p)
    <2> DEFINE x == FilledOf(r, names)
    <2>1. PICK p \in Library : IsOf(r, p)
      BY <1>1, <1>4 DEF SeedIsAt
    <2>2. /\ x.name = r.name /\ x.source = r.source
          /\ x.category = r.category \/ r.category = NoCategory
          /\ r.name \in names => x.category # NoCategory
      BY <1>2, <1>4, FillIs DEF names
    <2> HIDE DEF x
    <2>3. r.category = NoCategory => r.name \in names
      BY <2>1, LibraryIsGiven DEF IsOf, names
    <2>4. x.category # NoCategory
      BY <2>2, <2>3
    <2>5. IsOf(x, p)
      BY <2>1, <2>2 DEF IsOf
    <2> QED
      BY <2>4, <2>5 DEF x
  <1>5. \A x \in Builtins' : x.category # NoCategory /\ \E p \in Library : IsOf(x, p)
    BY <1>2, <1>4
  <1>6. SeedIsAt'
    BY <1>1, <1>3, <1>5 DEF SeedIsAt
  <1> QED
    BY <1>1, <1>2, <1>6 DEF LibraryInv, GiveUpIsTold

LEMMA SeedErrorKeeps ==
  ASSUME LibraryInv, SeedError
  PROVE  LibraryInv'
  <1>1. RowsAreKnown /\ GiveUpIsTold' /\ seed' = [Begin EXCEPT !.at = "unseeded"]
    BY DEF LibraryInv, SeedError, GiveUpIsTold, SeedFails
  <1>2. \/ playbooks' = playbooks
        \/ playbooks' = Tagged
        \/ playbooks' = playbooks \ OldRows
        \/ \E names : playbooks' = Backfilled(names)
    BY DEF SeedError
  <1>3. RowsAreKnown'
    BY <1>1, <1>2, FewerKeepRows, TaggingKeepsRows, FillingKeepsRows
  <1> QED
    BY <1>1, <1>3, SeedIsUp

LEMMA LibraryInductive == LibraryInv /\ [LibraryNext]_libraryVars => LibraryInv'
  <1> SUFFICES ASSUME LibraryInv, [LibraryNext]_libraryVars PROVE LibraryInv'
    OBVIOUS
  <1>1. CASE TagLegacy
    BY <1>1, TagLegacyKeeps
  <1>2. CASE DeleteLegacy
    BY <1>2, DeleteLegacyKeeps
  <1>3. CASE InsertMissing
    BY <1>3, InsertMissingKeeps
  <1>4. CASE BackfillCategory
    BY <1>4, BackfillKeeps
  <1>5. CASE SeedError
    BY <1>5, SeedErrorKeeps
  <1>6. CASE Restart
    <2>1. RowsAreKnown' /\ GiveUpIsTold'
      BY <1>6, FewerKeepRows DEF LibraryInv, Restart, GiveUpIsTold, Begin
    <2>2. seed' = [Begin EXCEPT !.at = "tag"]
      BY <1>6 DEF Restart, Begin
    <2> QED
      BY <2>1, <2>2, SeedIsUp
  <1>7. ASSUME RowsAreKnown', Builtins' = Builtins, seed' = seed, GiveUpIsTold' PROVE LibraryInv'
    <2>1. SeedIsAt'
      BY <1>7 DEF LibraryInv, SeedIsAt, Present
    <2> QED
      BY <1>7, <2>1 DEF LibraryInv
  <1>8. ASSUME NEW n \in Added, CreatePlaybook(n) PROVE LibraryInv'
    <2>1. RowsAreKnown' /\ Builtins' = Builtins
      BY <1>8, AddedKeepsRows DEF LibraryInv, CreatePlaybook
    <2>2. OldRows' = OldRows
      BY <2>1 DEF OldRows, Builtins
    <2> QED
      BY <1>7, <1>8, <2>1, <2>2 DEF CreatePlaybook, LibraryInv, GiveUpIsTold, MayDelete
  <1>9. CASE playbooks' = playbooks /\ seed' = seed /\ GiveUpIsTold'
    BY <1>7, <1>9 DEF LibraryInv, RowsAreKnown, Builtins
  <1>10. ASSUME NEW r \in playbooks, StartLibraryRun(r) PROVE LibraryInv'
    BY <1>9, <1>10 DEF StartLibraryRun, LibraryInv, GiveUpIsTold, MayDelete, OldRows
  <1>11. CASE UNCHANGED libraryVars
    BY <1>9, <1>11 DEF libraryVars, LibraryInv, GiveUpIsTold, MayDelete, OldRows
  <1> QED
    BY <1>1, <1>2, <1>3, <1>4, <1>5, <1>6, <1>8, <1>10, <1>11 DEF LibraryNext

LEMMA LibrarySafety == LibrarySpec => []LibraryInv
  BY InitHasLibrary, LibraryInductive, PTL DEF LibrarySpec

LEMMA LibraryIsThere ==
  ASSUME LibraryInv, seed.at = "seeded"
  PROVE  /\ \A p \in Library :
              \E r \in Builtins : /\ r.name = p.name /\ r.source = p.source /\ r.category # NoCategory
                                  /\ \A x \in Builtins : x.name = p.name => x = r
         /\ \A r \in Builtins : \E p \in Library : p.name = r.name
  <1>1. RowsAreKnown /\ SeedIsAt
    BY DEF LibraryInv
  <1>2. \A r \in Builtins : r.category # NoCategory /\ \E p \in Library : IsOf(r, p)
    BY <1>1 DEF SeedIsAt
  <1>3. \A p \in Library : Present(p.name)
    BY <1>1 DEF SeedIsAt
  <1>4. \A r \in Builtins, p \in Library : r.name = p.name => r.source = p.source
    BY <1>2, LibraryIs DEF IsOf
  <1> QED
    BY <1>1, <1>2, <1>3, <1>4 DEF IsOf, Present, RowsAreKnown

\* A seeding that ran to its end leaves each built-in once, with a category, and
\* no starter, whatever the database was and wherever earlier ones broke off
\* (seed_builtin_playbooks).
THEOREM SeedingIsIdempotent == LibrarySpec => []LibraryIsWhole
  <1>1. LibraryInv => LibraryIsWhole
    <2> SUFFICES ASSUME LibraryInv, seed.at = "seeded" PROVE LibraryIsWhole
      BY DEF LibraryIsWhole
    <2>1. \A r : r \in Builtins <=> (r \in playbooks /\ r.builtin)
      BY DEF Builtins
    <2>2. \A p \in Library :
             \E r \in playbooks : /\ r.builtin /\ r.name = p.name
                                  /\ r.source = p.source /\ r.category # NoCategory
                                  /\ \A x \in playbooks : x.builtin /\ x.name = p.name => x = r
      BY <2>1, LibraryIsThere
    <2>3. \A r \in playbooks : r.builtin => \E p \in Library : p.name = r.name
      BY <2>1, LibraryIsThere
    <2> QED
      BY <2>2, <2>3 DEF LibraryIsWhole
  <1> QED
    BY <1>1, LibrarySafety, PTL

\* What the coverage matrix names is in the table and can be run, whatever the
\* database was and wherever earlier seedings broke off, but for an error of
\* SQLite and a starter that has a run (_build_playbook_coverage, init_stores).
THEOREM NamedPlaybooksAreThere == LibrarySpec => []NamedCanBeRun
  <1>1. LibraryInv => NamedCanBeRun
    <2> SUFFICES ASSUME LibraryInv, Serving, ~ failed, MayDelete(OldRows),
                        NEW t \in DOMAIN PlaybookCoverage, NEW n \in PlaybookCoverage[t]
                 PROVE  \E r \in playbooks : r.builtin /\ r.name = n
      BY DEF NamedCanBeRun
    <2>1. seed.at = "seeded"
      BY DEF LibraryInv, GiveUpIsTold, Serving
    <2>2. PICK p \in Library : n = p.name
      BY DEF PlaybookCoverage
    <2>3. PICK r \in Builtins : r.name = p.name
      BY <2>1, <2>2, LibraryIsThere
    <2> QED
      BY <2>2, <2>3 DEF Builtins
  <1> QED
    BY <1>1, LibrarySafety, PTL
=============================================================================
