----------------------------- MODULE Detections ------------------------------
(***************************************************************************)
(* detections/matcher.py with POST /detect/run (backend/api/detect.py) and *)
(* the triage of what it stores (backend/api/triage.py).  A request builds *)
(* a matcher of its own, runs every rule against the events of DuckDB, one *)
(* query per rule, saves what matched row by row with a commit each, and   *)
(* hands high and critical detections to TheHive's client (module TheHive  *)
(* goes on from there).  The triage worker and POST /triage/run read       *)
(* untriaged rows, ask the model, save a result and mark what they read.   *)
(***************************************************************************)
EXTENDS Naturals, Sequences, FiniteSets

CONSTANTS
  Events,      \* the events that can be stored
  RULES,       \* the rules of both directories in loading order:
               \*   [id, convertible, high, tagged]
  Matching,    \* Matching[w][p]: the events that the clause of rule w matches
               \*   with the values of rule p
  Requests,    \* requests to POST /detect/run
  Manual,      \* requests to POST /detect
  Triages,     \* who triages: the worker and requests to POST /triage/run
  Worker,
  BatchSize,   \* detections per triage (20 in the code)
  MaxFaults    \* bound on failing statements, failing answers and crashes

RuleIds == {RULES[p].id : p \in DOMAIN RULES}

\* Without a rule POST /detect/run answers 422 before it does anything.
ASSUME DetectionsAssumption ==
  /\ RULES \in Seq([id : RuleIds, convertible : BOOLEAN, high : BOOLEAN, tagged : BOOLEAN])
  /\ RULES # <<>>
  /\ Worker \in Triages
  /\ BatchSize \in Nat \ {0}
  /\ MaxFaults \in Nat

VARIABLES
  stored,      \* normalized_events
  run,         \* request -> where it is: the matcher and the loop variables
  order,       \* the ids of the detections table, oldest first
  row,         \* id -> [rule, events, tags, car, triaged]
  prov,        \* detection_provenance: id -> the rule whose text was hashed
  handed,      \* the ids given to TheHive's client
  triage,      \* who -> [pc, batch]
  saved,       \* the batches of triage_results
  hurt,        \* the ids that an error or a crash kept from being whole
  faults

vars == <<stored, run, order, row, prov, handed, triage, saved, hurt, faults>>
tables == <<order, row, prov>>

NONE == 0
Ids == (Requests \X DOMAIN RULES) \union (Manual \X {NONE})
Hits == DOMAIN RULES   \* a run makes at most one detection per rule

Fresh == [pc |-> "idle", k |-> 1, cache |-> <<>>, found |-> <<>>, j |-> 1]
Resting == [pc |-> "idle", batch |-> {}]

Runs ==
  [pc    : {"idle", "match", "insert", "annotate", "provenance", "done"},
   k     : 1..(Len(RULES) + 1),
   cache : UNION {[D -> {NONE} \union Hits] : D \in SUBSET RuleIds},
   found : Seq([rule : Hits, events : SUBSET Events]),
   j     : Nat \ {0}]
Row == [rule : {NONE} \union Hits, events : SUBSET Events,
        tags : BOOLEAN, car : BOOLEAN, triaged : BOOLEAN]

TypeOK ==
  /\ stored \subseteq Events
  /\ run \in [Requests -> Runs]
  /\ order \in Seq(Ids)
  /\ row \in [DOMAIN row -> Row] /\ DOMAIN row = {order[i] : i \in DOMAIN order}
  /\ prov \in [DOMAIN prov -> Hits] /\ DOMAIN prov \subseteq Ids
  /\ handed \subseteq Ids /\ hurt \subseteq Ids
  /\ triage \in [Triages -> [pc : {"idle", "asking", "answered", "saved"}, batch : SUBSET Ids]]
  /\ saved \subseteq SUBSET Ids
  /\ faults \in 0..MaxFaults

Init ==
  /\ stored = {} /\ order = <<>> /\ row = <<>> /\ prov = <<>>
  /\ handed = {} /\ saved = {} /\ hurt = {} /\ faults = 0
  /\ run = [r \in Requests |-> Fresh]
  /\ triage = [t \in Triages |-> Resting]

MayFail == faults < MaxFaults
Fault == MayFail /\ faults' = faults + 1
Extend(f, x, v) == [y \in DOMAIN f \union {x} |-> IF y = x THEN v ELSE f[y]]
Set(r, rec) == run' = [run EXCEPT ![r] = rec]

-----------------------------------------------------------------------------
(* Ingestion stores events, see module Ingestion. *)
StoreEvent ==
  /\ \E e \in Events \ stored : stored' = stored \union {e}
  /\ UNCHANGED <<run, tables, handed, triage, saved, hurt, faults>>

(* run_detection: a new matcher, with an empty cache, over all rules. *)
Start(r) ==
  /\ run[r].pc = "idle"
  /\ Set(r, [Fresh EXCEPT !.pc = "match"])
  /\ UNCHANGED <<stored, tables, handed, triage, saved, hurt, faults>>

\* Mutant: all rules share one entry of the cache.
CacheKeyShared(p) == "rule"

(* The cache of WHERE clauses: the first rule of an id leaves its clause,  *)
(* or NONE if it cannot be converted, and later rules of that id use it.   *)
CacheKey(p) == RULES[p].id

Cached(c, p) ==
  IF CacheKey(p) \in DOMAIN c THEN c
  ELSE Extend(c, CacheKey(p), IF RULES[p].convertible THEN p ELSE NONE)

(* match_rule: the events that the cached clause matches with this rule's  *)
(* values, now; an error of the query counts as no match.                  *)
Matched(c, p) ==
  IF c[CacheKey(p)] = NONE \/ ~RULES[p].convertible THEN {}
  ELSE Matching[c[CacheKey(p)]][p] \intersect stored

AfterMatch(rec) ==
  IF rec.k <= Len(RULES) THEN rec
  ELSE [rec EXCEPT !.pc = IF rec.found = <<>> THEN "done" ELSE "insert"]

(* One turn of the loop of run_all. *)
MatchRule(r) ==
  LET rec == run[r]
      c == Cached(rec.cache, rec.k)
  IN /\ rec.pc = "match"
     /\ \/ /\ UNCHANGED faults
           /\ LET es == Matched(c, rec.k)
                  hits == IF es = {} THEN <<>> ELSE <<[rule |-> rec.k, events |-> es]>>
              IN Set(r, AfterMatch([rec EXCEPT !.cache = c, !.k = @ + 1, !.found = @ \o hits]))
        \/ Fault /\ Set(r, AfterMatch([rec EXCEPT !.cache = c, !.k = @ + 1]))
     /\ UNCHANGED <<stored, tables, handed, triage, saved, hurt>>

IdOf(r, j) == <<r, run[r].found[j].rule>>

\* Mutant: the first error ends the saving of the whole list.
NextSaveEnds(rec) == [rec EXCEPT !.pc = "provenance", !.j = 1]

(* _sync_save goes on to the next detection, or back to the event loop.    *)
NextSave(rec) ==
  IF rec.j < Len(rec.found) THEN [rec EXCEPT !.pc = "insert", !.j = @ + 1]
  ELSE [rec EXCEPT !.pc = "provenance", !.j = 1]

(* insert_detection, which commits. *)
Insert(r) ==
  /\ run[r].pc = "insert"
  /\ LET id == IdOf(r, run[r].j)
         hit == run[r].found[run[r].j]
     IN \/ /\ order' = Append(order, id)
           /\ row' = Extend(row, id, [rule |-> hit.rule, events |-> hit.events,
                                      tags |-> FALSE, car |-> FALSE, triaged |-> FALSE])
           /\ Set(r, [run[r] EXCEPT !.pc = "annotate"])
           /\ UNCHANGED <<hurt, faults>>
        \/ /\ Fault
           /\ hurt' = hurt \union {id}
           /\ Set(r, NextSave(run[r]))
           /\ UNCHANGED <<order, row>>
  /\ UNCHANGED <<stored, prov, handed, triage, saved>>

(* The technique tags and the CAR analytics, a commit each; what fails is  *)
(* passed over.                                                            *)
Annotate(r) ==
  /\ run[r].pc = "annotate"
  /\ LET id == IdOf(r, run[r].j)
         tagged == RULES[run[r].found[run[r].j].rule].tagged
     IN \/ /\ row' = [row EXCEPT ![id].tags = tagged, ![id].car = tagged]
           /\ UNCHANGED <<hurt, faults>>
        \/ /\ tagged /\ Fault
           /\ hurt' = hurt \union {id}
           /\ row' \in {[row EXCEPT ![id].tags = TRUE], [row EXCEPT ![id].car = TRUE]}
  /\ Set(r, NextSave(run[r]))
  /\ UNCHANGED <<stored, order, prov, handed, triage, saved>>

(* The rule whose text is hashed for the provenance: the last one loaded   *)
(* under the detection's rule id.                                          *)
HashedRule(p) == CHOOSE q \in DOMAIN RULES : RULES[q].id = RULES[p].id
                   /\ \A s \in DOMAIN RULES : RULES[s].id = RULES[p].id => s <= q

(* The provenance of one detection of the list, saved or not; after the    *)
(* last one, high and critical detections are handed over and the request  *)
(* is answered.                                                            *)
Provenance(r) ==
  LET rec == run[r]
      id == IdOf(r, rec.j)
      last == rec.j = Len(rec.found)
  IN /\ rec.pc = "provenance"
     /\ \/ /\ prov' = Extend(prov, id, HashedRule(rec.found[rec.j].rule))
           /\ UNCHANGED <<hurt, faults>>
        \/ Fault /\ hurt' = hurt \union {id} /\ UNCHANGED prov
     /\ Set(r, [rec EXCEPT !.pc = IF last THEN "done" ELSE @, !.j = IF last THEN @ ELSE @ + 1])
     /\ handed' = IF last
                    THEN handed \union {IdOf(r, i) : i \in {i \in DOMAIN rec.found : RULES[rec.found[i].rule].high}}
                    ELSE handed
     /\ UNCHANGED <<stored, order, row, triage, saved>>

(* POST /detect: a row of an analyst's own. *)
CreateDetection(q) ==
  LET id == <<q, NONE>>
  IN /\ id \notin DOMAIN row
     /\ order' = Append(order, id)
     /\ row' = Extend(row, id, [rule |-> NONE, events |-> {}, tags |-> FALSE, car |-> FALSE, triaged |-> FALSE])
     /\ UNCHANGED <<stored, run, prov, handed, triage, saved, hurt, faults>>

-----------------------------------------------------------------------------
\* Mutant: rows that are triaged already are read again.
UntriagedAny == DOMAIN order

(* _fetch_untriaged: the newest BatchSize rows that are not triaged. *)
Untriaged == {i \in DOMAIN order : ~row[order[i]].triaged}
Newest(S) == {i \in S : Cardinality({j \in S : j > i}) < BatchSize}

Fetch(t) ==
  /\ triage[t].pc = "idle" /\ Untriaged # {}
  /\ triage' = [triage EXCEPT ![t] = [pc |-> "asking", batch |-> {order[i] : i \in Newest(Untriaged)}]]
  /\ UNCHANGED <<stored, run, tables, handed, saved, hurt, faults>>

(* The model answers, or its error becomes the text of the result; an      *)
(* empty answer does not pass the validation, and nothing is saved.        *)
Ask(t) ==
  /\ triage[t].pc = "asking"
  /\ \/ triage' = [triage EXCEPT ![t].pc = "answered"] /\ UNCHANGED faults
     \/ Fault /\ triage' = [triage EXCEPT ![t] = Resting]
  /\ UNCHANGED <<stored, run, tables, handed, saved, hurt>>

SaveResult(t) ==
  /\ triage[t].pc = "answered"
  /\ \/ /\ saved' = saved \union {triage[t].batch}
        /\ triage' = [triage EXCEPT ![t].pc = "saved"]
        /\ UNCHANGED faults
     \/ Fault /\ triage' = [triage EXCEPT ![t] = Resting] /\ UNCHANGED saved
  /\ UNCHANGED <<stored, run, tables, handed, hurt>>

\* Mutant: everything that is untriaged by now is marked.
MarksAll(t) == DOMAIN row

(* _mark_triaged: exactly the rows that were read. *)
Marks(t) == triage[t].batch

MarkTriaged(t) ==
  /\ triage[t].pc = "saved"
  /\ \/ /\ row' = [id \in DOMAIN row |-> IF id \in Marks(t) THEN [row[id] EXCEPT !.triaged = TRUE] ELSE row[id]]
        /\ UNCHANGED faults
     \/ Fault /\ UNCHANGED row
  /\ triage' = [triage EXCEPT ![t] = Resting]
  /\ UNCHANGED <<stored, run, order, prov, handed, saved, hurt>>

(* The process stops and is started again; the databases stay. *)
Crash ==
  /\ Fault
  /\ run' = [r \in Requests |-> IF run[r].pc = "idle" THEN run[r] ELSE [Fresh EXCEPT !.pc = "done"]]
  /\ triage' = [t \in Triages |-> Resting]
  /\ hurt' = hurt \union {<<r, k>> : r \in {r \in Requests : run[r].pc \notin {"idle", "done"}}, k \in DOMAIN RULES}
  /\ UNCHANGED <<stored, tables, handed, saved>>

Detect(r) == Start(r) \/ MatchRule(r) \/ Insert(r) \/ Annotate(r) \/ Provenance(r)
Triage(t) == Fetch(t) \/ Ask(t) \/ SaveResult(t) \/ MarkTriaged(t)

Next ==
  \/ StoreEvent
  \/ \E r \in Requests : Detect(r)
  \/ \E q \in Manual : CreateDetection(q)
  \/ \E t \in Triages : Triage(t)
  \/ Crash

Spec == Init /\ [][Next]_vars

(* The worker never ends its loop: it works again after every 60 seconds,  *)
(* whatever happened in the turn before.                                   *)
Fairness == WF_vars(Triage(Worker))
FairSpec == Spec /\ Fairness

-----------------------------------------------------------------------------
(* A detection names events that are stored and that match its own rule,   *)
(* and its provenance is the text of that rule, when rule ids are unique:  *)
(* clauses are cached by id and combined with values compiled anew, one    *)
(* query at a time, while events arrive.                                   *)
DetectionIsTrue ==
  \A id \in DOMAIN row : row[id].rule # NONE =>
    /\ row[id].events # {}
    /\ row[id].events \subseteq stored \intersect Matching[row[id].rule][row[id].rule]
    /\ id \in DOMAIN prov => prov[id] = row[id].rule

(* When a request was answered, each detection of the answer is stored     *)
(* with its tags and its provenance, unless an error or a crash hit that   *)
(* very detection; and high ones are with TheHive's client.                *)
AnsweredIsWhole ==
  \A r \in Requests : run[r].pc = "done" =>
    \A i \in DOMAIN run[r].found :
      LET id == IdOf(r, i) rule == RULES[run[r].found[i].rule]
      IN /\ id \notin hurt => /\ id \in DOMAIN row /\ id \in DOMAIN prov
                              /\ row[id].tags = rule.tagged /\ row[id].car = rule.tagged
         /\ rule.high <=> id \in handed

(* Nothing is marked triaged that is not in a saved result: not what came  *)
(* in while the model was thinking, and not what another triage read.      *)
TriagedIsSaved ==
  \A id \in DOMAIN row : row[id].triaged => \E b \in saved : id \in b

(* Every stored detection is triaged in the end, by a worker that takes    *)
(* the newest first, whatever the other triages, errors and crashes do.    *)
StoredIsTriaged ==
  \A id \in Ids : id \in DOMAIN row ~> (id \in DOMAIN row /\ row[id].triaged)
=============================================================================
