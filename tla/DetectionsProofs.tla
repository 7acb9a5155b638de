-------------------------- MODULE DetectionsProofs ---------------------------
(***************************************************************************)
(* Proofs about detection runs and triage, for any rules, events, requests *)
(* and triages, and any failures and crashes: the state is well typed, an  *)
(* answered detection is whole, what is marked triaged is in a saved       *)
(* result, and, if rule ids are unique, a detection is one of its rule.    *)
(* And about the compiler, for any rule, any events and conditions of any  *)
(* length: a plain condition combines detections as Sigma does.            *)
(***************************************************************************)
EXTENDS Detections, SigmaConditions, Integers, FiniteSetTheorems, SequenceTheorems, WellFoundedInduction, TLAPS

\* The loop variables point at something: a rule to match, a detection to save.
Positions ==
  \A r \in Requests :
    /\ run[r].pc = "match" => run[r].k \in Hits /\ run[r].j = 1
    /\ run[r].pc \in {"insert", "annotate", "provenance"} => run[r].j \in DOMAIN run[r].found

RunInv == TypeOK /\ Positions

\* A run finds at most one detection per rule, in the order of the rules, so
\* that no two detections of it have the same id.
FoundInOrder(r) ==
  /\ \A i \in DOMAIN run[r].found : run[r].found[i].rule < run[r].k
  /\ \A i, l \in DOMAIN run[r].found : i < l => run[r].found[i].rule < run[r].found[l].rule

\* Detection i of request r is stored with its tags.
Saved(r, i) ==
  LET id == IdOf(r, i) rule == RULES[run[r].found[i].rule]
  IN id \in DOMAIN row /\ row[id].tags = rule.tagged /\ row[id].car = rule.tagged

\* What the steps before this one have done for the detections of a request,
\* unless something went wrong with them.
SavedBefore(r) ==
  \A i \in DOMAIN run[r].found :
    \/ IdOf(r, i) \in hurt
    \/ Saved(r, i)
    \/ run[r].pc \in {"idle", "match"}
    \/ run[r].pc \in {"insert", "annotate"} /\ run[r].j <= i
InsertedNow(r) == run[r].pc = "annotate" => IdOf(r, run[r].j) \in DOMAIN row
ProvenBefore(r) ==
  \A i \in DOMAIN run[r].found :
    \/ IdOf(r, i) \in hurt
    \/ IdOf(r, i) \in DOMAIN prov
    \/ run[r].pc \in {"idle", "match", "insert", "annotate"}
    \/ run[r].pc = "provenance" /\ run[r].j <= i
HandedAll(r) ==
  run[r].pc = "done" =>
    \A i \in DOMAIN run[r].found : RULES[run[r].found[i].rule].high => IdOf(r, i) \in handed

\* TheHive's client is given no others than high detections.
HandedIsHigh == \A id \in handed : RULES[id[2]].high

WholeAt(r) == FoundInOrder(r) /\ SavedBefore(r) /\ InsertedNow(r) /\ ProvenBefore(r) /\ HandedAll(r)
WholeInv == RunInv /\ HandedIsHigh /\ \A r \in Requests : WholeAt(r)

\* Who is about to mark a batch has saved it.
MarkIsSaved == \A t \in Triages : triage[t].pc = "saved" => triage[t].batch \in saved
TriageInv == RunInv /\ TriagedIsSaved /\ MarkIsSaved

\* No two rules have the same id; those of the repository have none in common.
UniqueIds == \A p, q \in DOMAIN RULES : RULES[p].id = RULES[q].id => p = q

\* With unique ids a cache has for each rule its own clause, what a run found
\* is true of its rule, and ids name the rules of rows and provenances.
CacheIsOwn ==
  \A r \in Requests : \A p \in Hits :
    RULES[p].id \in DOMAIN run[r].cache => run[r].cache[RULES[p].id] \in {NONE, p}
FoundIsTrue ==
  \A r \in Requests : \A i \in DOMAIN run[r].found :
    LET hit == run[r].found[i]
    IN hit.events # {} /\ hit.events \subseteq stored \intersect Matching[hit.rule][hit.rule]
IdsNameRules ==
  /\ \A id \in DOMAIN row : row[id].rule = id[2]
  /\ \A id \in DOMAIN prov : prov[id] = id[2]
RowsAreTrue ==
  \A id \in DOMAIN row : row[id].rule # NONE =>
    row[id].events # {} /\ row[id].events \subseteq stored \intersect Matching[row[id].rule][row[id].rule]
TruthInv == RunInv /\ CacheIsOwn /\ FoundIsTrue /\ IdsNameRules /\ RowsAreTrue

-----------------------------------------------------------------------------
\* The rules are numbered from one, there is one, and a rule is a record.
LEMMA RulesFacts ==
  /\ Len(RULES) \in Nat \ {0} /\ Hits = 1..Len(RULES) /\ NONE \notin Hits /\ Hits \subseteq Nat
  /\ \A p \in Hits : /\ RULES[p].id \in RuleIds /\ RULES[p].convertible \in BOOLEAN
                     /\ RULES[p].high \in BOOLEAN /\ RULES[p].tagged \in BOOLEAN
  <1>1. Len(RULES) \in Nat /\ DOMAIN RULES = 1..Len(RULES)
    BY DetectionsAssumption
  <1>2. Len(RULES) # 0
    BY DetectionsAssumption
  <1>3. \A p \in DOMAIN RULES :
          RULES[p] \in [id : RuleIds, convertible : BOOLEAN, high : BOOLEAN, tagged : BOOLEAN]
    BY DetectionsAssumption, <1>1, ElementOfSeq
  <1> QED
    BY <1>1, <1>2, <1>3 DEF Hits, NONE

\* What Extend gives.
LEMMA ExtendFacts ==
  ASSUME NEW f, NEW x, NEW v
  PROVE  /\ DOMAIN Extend(f, x, v) = DOMAIN f \union {x}
         /\ Extend(f, x, v)[x] = v
         /\ \A y \in DOMAIN f : y # x => Extend(f, x, v)[y] = f[y]
  BY DEF Extend

LEMMA ExtendType ==
  ASSUME NEW T, NEW v \in T, NEW f, NEW x, f \in [DOMAIN f -> T]
  PROVE  Extend(f, x, v) \in [DOMAIN f \union {x} -> T]
  BY DEF Extend

\* A part of 1..n that is not empty has a greatest element: the one with the
\* fewest above it.
LEMMA Greatest ==
  ASSUME NEW n \in Nat, NEW T \in SUBSET (1..n), T # {}
  PROVE  \E x \in T : \A y \in T : y <= x
  <1> DEFINE R == StrictSubsetOrdering(1..n)
             above(x) == {y \in T : y > x}
             U == {above(x) : x \in T}
  <1>1. IsFiniteSet(1..n)
    BY FS_Interval
  <1>2. IsWellFoundedOn(R, SUBSET (1..n))
    BY <1>1, FS_FiniteSubsetsOfFinite, FS_StrictSubsetOrderingWellFounded
  <1>3. U \subseteq SUBSET (1..n) /\ U # {}
    OBVIOUS
  <1>4. \E m \in U : \A u \in U : <<u, m>> \notin R
    <2> HIDE DEF R, U
    <2> QED
      BY <1>2, <1>3, WFMin
  <1>5. PICK x \in T : \A u \in U : <<u, above(x)>> \notin R
    BY <1>4
  <1>6. \A y \in T : y <= x
    <2> SUFFICES ASSUME NEW y \in T, ~(y <= x)
                 PROVE  FALSE
      OBVIOUS
    <2>1. x \in Nat /\ y > x /\ \A z \in T : z \in Nat
      OBVIOUS
    <2>2. above(y) \subseteq above(x)
      <3>1. \A z \in T : z > y => z > x
        BY <2>1
      <3> QED
        BY <3>1
    <2>3. y \in above(x) /\ y \notin above(y)
      BY <2>1
    <2>4. above(y) \in SUBSET (1..n) /\ above(x) \in SUBSET (1..n) /\ above(y) \in U
      BY <1>3
    <2> HIDE DEF above, U
    <2>5. <<above(y), above(x)>> \in R
      BY <2>2, <2>3, <2>4 DEF StrictSubsetOrdering
    <2> QED
      BY <2>4, <2>5, <1>5
  <1> QED
    BY <1>6

\* Several rules may have one id: the last of them is the one that is hashed.
LEMMA HashedRuleFacts ==
  ASSUME NEW p \in Hits
  PROVE  HashedRule(p) \in Hits /\ RULES[HashedRule(p)].id = RULES[p].id
  <1> DEFINE same == {q \in Hits : RULES[q].id = RULES[p].id}
  <1>1. Len(RULES) \in Nat /\ Hits = 1..Len(RULES)
    BY RulesFacts
  <1>2. \E m \in same : \A s \in same : s <= m
    <2>1. same \in SUBSET (1..Len(RULES)) /\ same # {}
      BY <1>1
    <2> HIDE DEF same
    <2> QED
      BY <1>1, <2>1, Greatest
  <1>3. \E m \in DOMAIN RULES : RULES[m].id = RULES[p].id
            /\ \A s \in DOMAIN RULES : RULES[s].id = RULES[p].id => s <= m
    BY <1>2 DEF Hits
  <1> QED
    BY <1>3 DEF HashedRule, Hits

\* The parts of a run's record.
LEMMA RunFacts ==
  ASSUME TypeOK, NEW r \in Requests
  PROVE  /\ run[r] \in Runs
         /\ run[r].k \in 1..(Len(RULES) + 1) /\ run[r].j \in Nat \ {0}
         /\ Len(run[r].found) \in Nat /\ DOMAIN run[r].found = 1..Len(run[r].found)
         /\ run[r].cache \in [DOMAIN run[r].cache -> {NONE} \union Hits]
         /\ DOMAIN run[r].cache \subseteq RuleIds
         /\ \A i \in DOMAIN run[r].found :
              /\ run[r].found[i] = [rule |-> run[r].found[i].rule, events |-> run[r].found[i].events]
              /\ run[r].found[i].rule \in Hits /\ run[r].found[i].events \subseteq Events
              /\ IdOf(r, i) \in Ids
  <1>1. run[r] \in Runs
    BY DEF TypeOK
  <1>2. run[r].found \in Seq([rule : Hits, events : SUBSET Events])
    BY <1>1 DEF Runs
  <1>3. \A i \in DOMAIN run[r].found : run[r].found[i] \in [rule : Hits, events : SUBSET Events]
    <2> DEFINE H == [rule : Hits, events : SUBSET Events]
    <2> SUFFICES \A i \in DOMAIN run[r].found : run[r].found[i] \in H
      OBVIOUS
    <2>1. run[r].found \in Seq(H)
      BY <1>2
    <2> HIDE DEF H
    <2> QED
      BY <2>1
  <1>4. PICK D \in SUBSET RuleIds : run[r].cache \in [D -> {NONE} \union Hits]
    BY <1>1 DEF Runs
  <1>5. \A i \in DOMAIN run[r].found : IdOf(r, i) \in Ids
    BY <1>3 DEF IdOf, Ids, Hits
  <1> QED
    BY <1>1, <1>2, <1>3, <1>4, <1>5 DEF Runs

-----------------------------------------------------------------------------
\* The record that a step of a request leaves.
LEMMA SetFacts ==
  ASSUME TypeOK, NEW r \in Requests, NEW rec, Set(r, rec)
  PROVE  /\ run'[r] = rec
         /\ \A q \in Requests : q # r => run'[q] = run[q]
         /\ rec \in Runs => run' \in [Requests -> Runs]
  BY DEF Set, TypeOK

\* What is in the cache for a rule that a run has come to.
LEMMA CachedFacts ==
  ASSUME TypeOK, NEW r \in Requests, NEW p \in Hits
  PROVE  LET c == Cached(run[r].cache, p)
         IN /\ DOMAIN c = DOMAIN run[r].cache \union {RULES[p].id}
            /\ c \in [DOMAIN c -> {NONE} \union Hits] /\ DOMAIN c \subseteq RuleIds
            /\ \A x \in DOMAIN run[r].cache : c[x] = run[r].cache[x]
            /\ RULES[p].id \notin DOMAIN run[r].cache => c[RULES[p].id] \in {NONE, p}
  <1> DEFINE c == Cached(run[r].cache, p)
             v == IF RULES[p].convertible THEN p ELSE NONE
  <1>1. RULES[p].id \in RuleIds
    BY RulesFacts
  <1>2. CASE RULES[p].id \in DOMAIN run[r].cache
    BY <1>1, <1>2, RunFacts DEF Cached, CacheKey
  <1>3. CASE RULES[p].id \notin DOMAIN run[r].cache
    <2>1. c = Extend(run[r].cache, RULES[p].id, v)
      BY <1>3 DEF Cached, CacheKey
    <2>2. v \in {NONE, p} /\ v \in {NONE} \union Hits
      OBVIOUS
    <2> HIDE DEF c, v
    <2>3. run[r].cache \in [DOMAIN run[r].cache -> {NONE} \union Hits] /\ DOMAIN run[r].cache \subseteq RuleIds
      BY RunFacts
    <2>4. c \in [DOMAIN run[r].cache \union {RULES[p].id} -> {NONE} \union Hits]
      BY <2>1, <2>2, <2>3, ExtendType
    <2>5. DOMAIN c = DOMAIN run[r].cache \union {RULES[p].id} /\ c[RULES[p].id] = v
          /\ \A x \in DOMAIN run[r].cache : c[x] = run[r].cache[x]
      BY <1>3, <2>1 DEF Extend
    <2> QED
      BY <1>1, <2>2, <2>3, <2>4, <2>5 DEF c
  <1> QED
    BY <1>2, <1>3

\* One turn of the loop of run_all: the cache has the rule, what it matches now
\* is found, and after the last rule the saving begins if anything was found.
LEMMA MatchRuleFacts ==
  ASSUME RunInv, NEW r \in Requests, MatchRule(r)
  PROVE  LET k == run[r].k
             c == Cached(run[r].cache, k)
             hit == [rule |-> k, events |-> Matched(c, k)]
         IN /\ k \in Hits /\ run[r].pc = "match" /\ run[r].j = 1
            /\ run'[r] \in Runs
            /\ run'[r].k = k + 1 /\ run'[r].cache = c /\ run'[r].j = 1
            /\ \/ run'[r].found = run[r].found
               \/ run'[r].found = Append(run[r].found, hit) /\ hit.events # {}
                  /\ hit \in [rule : Hits, events : SUBSET Events]
            /\ \/ run'[r].pc = "match" /\ k + 1 \in Hits
               \/ run'[r].pc = "done" /\ run'[r].found = <<>>
               \/ run'[r].pc = "insert" /\ run'[r].found # <<>>
            /\ \A q \in Requests : q # r => run'[q] = run[q]
  <1> DEFINE k == run[r].k
             c == Cached(run[r].cache, k)
             hit == [rule |-> k, events |-> Matched(c, k)]
             H == [rule : Hits, events : SUBSET Events]
             turn(f) == [run[r] EXCEPT !.cache = c, !.k = @ + 1, !.found = f]
  <1>1. run[r].pc = "match" /\ k \in Hits /\ run[r].j = 1
    BY DEF MatchRule, RunInv, Positions
  <1>2. TypeOK /\ run[r] \in Runs /\ run[r].found \in Seq(H)
    BY RunFacts DEF RunInv, Runs
  <1>3. k + 1 \in 1..(Len(RULES) + 1) /\ (k + 1 <= Len(RULES) <=> k + 1 \in Hits)
    BY <1>1, RulesFacts
  <1>4. c \in UNION {[D -> {NONE} \union Hits] : D \in SUBSET RuleIds}
    <2>1. c \in [DOMAIN c -> {NONE} \union Hits] /\ DOMAIN c \subseteq RuleIds
      BY <1>1, <1>2, CachedFacts
    <2> HIDE DEF c
    <2> QED
      BY <2>1
  <1>5. Matched(c, k) \subseteq stored /\ stored \subseteq Events
    BY <1>2 DEF Matched, TypeOK
  <1>6. hit \in H
    BY <1>1, <1>5
  <1>7. \E f : /\ f = run[r].found \/ (f = Append(run[r].found, hit) /\ Matched(c, k) # {})
               /\ Set(r, AfterMatch(turn(f)))
    <2>1. CASE Set(r, AfterMatch([run[r] EXCEPT !.cache = c, !.k = @ + 1]))
      <3>1. [run[r] EXCEPT !.cache = c, !.k = @ + 1] = turn(run[r].found)
        BY <1>2 DEF Runs
      <3> QED
        BY <2>1, <3>1
    <2>2. CASE Set(r, AfterMatch(turn(run[r].found \o
                 (IF Matched(c, k) = {} THEN <<>> ELSE <<[rule |-> k, events |-> Matched(c, k)]>>))))
      <3>1. run[r].found \o <<>> = run[r].found /\ run[r].found \o <<hit>> = Append(run[r].found, hit)
        <4> HIDE DEF hit, H
        <4> QED
          BY <1>2, <1>6, AppendIsConcat, ConcatEmptySeq
      <3> QED
        BY <2>2, <3>1
    <2> HIDE DEF turn
    <2> QED
      BY <2>1, <2>2 DEF MatchRule, turn
  <1>8. PICK f : /\ f = run[r].found \/ (f = Append(run[r].found, hit) /\ Matched(c, k) # {})
                 /\ Set(r, AfterMatch(turn(f)))
    BY <1>7
  <1>9. f \in Seq(H)
    <2> HIDE DEF hit, H
    <2> QED
      BY <1>2, <1>6, <1>8
  <1>10. /\ turn(f).pc = "match" /\ turn(f).k = k + 1 /\ turn(f).cache = c
         /\ turn(f).found = f /\ turn(f).j = 1 /\ turn(f) \in Runs
    <2> HIDE DEF c
    <2> QED
      BY <1>1, <1>2, <1>3, <1>4, <1>9 DEF Runs
  <1> DEFINE new == AfterMatch(turn(f))
  <1>11. /\ new.k = k + 1 /\ new.cache = c /\ new.found = f /\ new.j = 1
         /\ \/ new.pc = "match" /\ k + 1 \in Hits
            \/ new.pc = "done" /\ f = <<>>
            \/ new.pc = "insert" /\ f # <<>>
    <2> HIDE DEF c, turn
    <2> QED
      BY <1>3, <1>10 DEF AfterMatch, Runs
  <1>12. new \in Runs
    <2> HIDE DEF c, turn
    <2> QED
      BY <1>3, <1>10 DEF AfterMatch, Runs
  <1>13. run'[r] = new /\ \A q \in Requests : q # r => run'[q] = run[q]
    BY <1>2, <1>8, SetFacts
  <1> HIDE DEF c, turn, new
  <1>14. /\ run'[r].k = k + 1 /\ run'[r].cache = c /\ run'[r].j = 1 /\ run'[r].found = f
         /\ run'[r].pc = new.pc /\ run'[r] \in Runs
    BY <1>11, <1>12, <1>13
  <1> HIDE DEF hit
  <1>15. hit.events = Matched(c, k)
    BY DEF hit
  <1> QED
    BY <1>1, <1>6, <1>8, <1>11, <1>13, <1>14, <1>15 DEF hit, c

\* The turn to the next detection to save, and after the last one to the first
\* provenance.
LEMMA NextSaveFacts ==
  ASSUME RunInv, NEW r \in Requests, run[r].pc \in {"insert", "annotate"}
  PROVE  LET n == NextSave(run[r])
             j == run[r].j
         IN /\ n \in Runs
            /\ n.k = run[r].k /\ n.cache = run[r].cache /\ n.found = run[r].found
            /\ \/ n.pc = "insert" /\ n.j = j + 1 /\ j + 1 \in DOMAIN run[r].found
               \/ n.pc = "provenance" /\ n.j = 1 /\ j = Len(run[r].found)
            /\ j \in DOMAIN run[r].found /\ 1 \in DOMAIN run[r].found
  <1>1. /\ run[r] \in Runs /\ run[r].j \in DOMAIN run[r].found
        /\ Len(run[r].found) \in Nat /\ DOMAIN run[r].found = 1..Len(run[r].found)
    BY RunFacts DEF RunInv, Positions
  <1>2. CASE run[r].j < Len(run[r].found)
    <2>1. NextSave(run[r]) = [run[r] EXCEPT !.pc = "insert", !.j = @ + 1]
      BY <1>2 DEF NextSave
    <2>2. run[r].j + 1 \in DOMAIN run[r].found /\ run[r].j + 1 \in Nat \ {0} /\ 1 \in DOMAIN run[r].found
      BY <1>1, <1>2
    <2> QED
      BY <1>1, <2>1, <2>2 DEF Runs
  <1>3. CASE ~(run[r].j < Len(run[r].found))
    <2>1. NextSave(run[r]) = [run[r] EXCEPT !.pc = "provenance", !.j = 1]
      BY <1>3 DEF NextSave
    <2>2. run[r].j = Len(run[r].found) /\ 1 \in DOMAIN run[r].found
      BY <1>1, <1>3
    <2>3. 1 \in Nat \ {0}
      OBVIOUS
    <2>4. /\ NextSave(run[r]) \in Runs
          /\ NextSave(run[r]).k = run[r].k /\ NextSave(run[r]).cache = run[r].cache
          /\ NextSave(run[r]).found = run[r].found
          /\ NextSave(run[r]).pc = "provenance" /\ NextSave(run[r]).j = 1
      BY <1>1, <2>1, <2>3 DEF Runs
    <2> QED
      BY <1>1, <2>2, <2>4
  <1> QED
    BY <1>2, <1>3

\* The provenance of one detection after the other, and the answer.
LEMMA ProvenanceFacts ==
  ASSUME RunInv, NEW r \in Requests, Provenance(r)
  PROVE  LET n == run'[r]
             j == run[r].j
         IN /\ n \in Runs /\ j \in DOMAIN run[r].found /\ run[r].pc = "provenance"
            /\ n.k = run[r].k /\ n.cache = run[r].cache /\ n.found = run[r].found
            /\ \/ n.pc = "provenance" /\ n.j = j + 1 /\ j + 1 \in DOMAIN run[r].found /\ handed' = handed
               \/ /\ n.pc = "done" /\ j = Len(run[r].found)
                  /\ handed' = handed \union
                       {IdOf(r, i) : i \in {i \in DOMAIN run[r].found : RULES[run[r].found[i].rule].high}}
            /\ \A q \in Requests : q # r => run'[q] = run[q]
  <1> DEFINE rec == run[r]
             last == rec.j = Len(rec.found)
             new == [rec EXCEPT !.pc = IF last THEN "done" ELSE @, !.j = IF last THEN @ ELSE @ + 1]
  <1>1. /\ rec \in Runs /\ rec.j \in DOMAIN rec.found /\ rec.pc = "provenance"
        /\ Len(rec.found) \in Nat /\ DOMAIN rec.found = 1..Len(rec.found)
    BY RunFacts DEF RunInv, Positions, Provenance
  <1>2. /\ new \in Runs
        /\ new.k = rec.k /\ new.cache = rec.cache /\ new.found = rec.found
        /\ \/ new.pc = "provenance" /\ new.j = rec.j + 1 /\ rec.j + 1 \in DOMAIN rec.found /\ ~last
           \/ new.pc = "done" /\ last
    <2>1. CASE last
      <3>1. new = [rec EXCEPT !.pc = "done", !.j = @]
        BY <2>1
      <3> QED
        BY <1>1, <2>1, <3>1 DEF Runs
    <2>2. CASE ~last
      <3>1. new = [rec EXCEPT !.pc = @, !.j = @ + 1]
        BY <2>2
      <3>2. rec.j + 1 \in DOMAIN rec.found /\ rec.j + 1 \in Nat \ {0}
        BY <1>1, <2>2
      <3> QED
        BY <1>1, <2>2, <3>1, <3>2 DEF Runs
    <2> QED
      BY <2>1, <2>2
  <1>3. Set(r, new)
    BY DEF Provenance
  <1>4. run'[r] = new /\ \A q \in Requests : q # r => run'[q] = run[q]
    BY <1>3, SetFacts DEF RunInv
  <1>5. handed' = IF last THEN handed \union
            {IdOf(r, i) : i \in {i \in DOMAIN rec.found : RULES[rec.found[i].rule].high}} ELSE handed
    BY DEF Provenance
  <1> HIDE DEF new
  <1> QED
    BY <1>1, <1>2, <1>4, <1>5

\* Steps that do not move a request, and those of one request.
LEMMA RunsKept ==
  ASSUME RunInv, NEW r \in Requests, run'[r] \in Runs, run' \in [Requests -> Runs],
         /\ run'[r].pc = "match" => run'[r].k \in Hits /\ run'[r].j = 1
         /\ run'[r].pc \in {"insert", "annotate", "provenance"} => run'[r].j \in DOMAIN run'[r].found,
         \A q \in Requests : q # r => run'[q] = run[q]
  PROVE  Positions'
  BY DEF RunInv, Positions

-----------------------------------------------------------------------------
\* A matcher of its own for every request, with nothing in it.
LEMMA FreshFacts ==
  /\ Fresh \in Runs /\ Fresh.pc = "idle" /\ Fresh.k = 1 /\ Fresh.j = 1
  /\ Fresh.cache = <<>> /\ Fresh.found = <<>>
  /\ \A x \in {"match", "done"} :
       LET f == [Fresh EXCEPT !.pc = x]
       IN /\ f \in Runs /\ f.pc = x /\ f.k = 1 /\ f.j = 1
          /\ f.cache = <<>> /\ f.found = <<>>
  <1>1. /\ Fresh \in Runs /\ Fresh.pc = "idle" /\ Fresh.k = 1 /\ Fresh.j = 1
        /\ Fresh.cache = <<>> /\ Fresh.found = <<>>
    <2>1. 1 \in 1..(Len(RULES) + 1)
      BY RulesFacts
    <2>2. <<>> \in [{} -> {NONE} \union Hits]
      OBVIOUS
    <2>3. <<>> \in UNION {[D -> {NONE} \union Hits] : D \in SUBSET RuleIds}
      BY <2>2
    <2>4. <<>> \in Seq([rule : Hits, events : SUBSET Events])
      OBVIOUS
    <2> QED
      BY <2>1, <2>3, <2>4 DEF Fresh, Runs
  <1> QED
    BY <1>1 DEF Runs

LEMMA InitRunInv == Init => RunInv
  <1> SUFFICES ASSUME Init PROVE RunInv
    OBVIOUS
  <1>2. Positions
    BY FreshFacts DEF Positions, Init
  <1>3. TypeOK
    <2>1. run \in [Requests -> Runs]
      BY FreshFacts DEF Init
    <2>2. DOMAIN <<>> = {} /\ <<>> \in Seq(Ids) /\ <<>> \in [{} -> Row] /\ <<>> \in [{} -> Hits]
      OBVIOUS
    <2>3. triage \in [Triages -> [pc : {"idle", "asking", "answered", "saved"}, batch : SUBSET Ids]]
      BY DEF Init, Resting
    <2> QED
      BY <2>1, <2>2, <2>3, DetectionsAssumption DEF Init, TypeOK
  <1> QED
    BY <1>2, <1>3 DEF RunInv

\* One more fault is still within the bound.
LEMMA FaultType ==
  ASSUME faults \in 0..MaxFaults, Fault \/ UNCHANGED faults
  PROVE  faults' \in 0..MaxFaults
  BY DetectionsAssumption DEF Fault, MayFail

\* A row that is appended keeps both the list of ids and the table.
LEMMA NewRowType ==
  ASSUME TypeOK, NEW id \in Ids, NEW v \in Row,
         order' = Append(order, id), row' = Extend(row, id, v)
  PROVE  /\ order' \in Seq(Ids)
         /\ row' \in [DOMAIN row' -> Row] /\ DOMAIN row' = {order'[i] : i \in DOMAIN order'}
  <1>1. order \in Seq(Ids) /\ row \in [DOMAIN row -> Row] /\ DOMAIN row = {order[i] : i \in DOMAIN order}
    BY DEF TypeOK
  <1>2. order' \in Seq(Ids)
    BY <1>1
  <1>3. DOMAIN row' = DOMAIN row \union {id} /\ row' \in [DOMAIN row \union {id} -> Row]
    BY <1>1, ExtendFacts, ExtendType
  <1>4. /\ Len(order) \in Nat /\ DOMAIN order = 1..Len(order) /\ DOMAIN order' = 1..(Len(order) + 1)
        /\ \A i \in 1..Len(order) : order'[i] = order[i]
        /\ order'[Len(order) + 1] = id
    BY <1>1, AppendProperties
  <1>5. {order'[i] : i \in DOMAIN order'} = {order[i] : i \in DOMAIN order} \union {id}
    <2>1. \A i \in DOMAIN order' : i \in DOMAIN order \/ i = Len(order) + 1
      BY <1>4
    <2>2. DOMAIN order \subseteq DOMAIN order' /\ Len(order) + 1 \in DOMAIN order'
      BY <1>4
    <2> QED
      BY <1>4, <2>1, <2>2
  <1> QED
    BY <1>1, <1>2, <1>3, <1>5

LEMMA StoreEventRunInv == RunInv /\ StoreEvent => RunInv'
  BY DEF StoreEvent, RunInv, TypeOK, Positions, tables

LEMMA StartRunInv ==
  ASSUME RunInv, NEW r \in Requests, Start(r)
  PROVE  RunInv'
  <1> DEFINE new == [Fresh EXCEPT !.pc = "match"]
  <1>1. new \in Runs /\ new.pc = "match" /\ new.k = 1 /\ new.j = 1
    BY FreshFacts
  <1>2. Set(r, new) /\ UNCHANGED <<stored, tables, handed, triage, saved, hurt, faults>>
    BY DEF Start
  <1>3. /\ run'[r] = new /\ run' \in [Requests -> Runs]
        /\ \A q \in Requests : q # r => run'[q] = run[q]
    BY <1>1, <1>2, SetFacts DEF RunInv
  <1>4. 1 \in Hits
    BY RulesFacts
  <1> HIDE DEF new
  <1>5. Positions'
    BY <1>1, <1>3, <1>4, RunsKept
  <1>6. TypeOK'
    BY <1>2, <1>3 DEF RunInv, TypeOK, tables
  <1> QED
    BY <1>5, <1>6 DEF RunInv

LEMMA MatchRuleRunInv ==
  ASSUME RunInv, NEW r \in Requests, MatchRule(r)
  PROVE  RunInv'
  <1>1. /\ run'[r] \in Runs
        /\ run'[r].pc = "match" => run'[r].k \in Hits /\ run'[r].j = 1
        /\ run'[r].pc \in {"insert", "annotate", "provenance"} => run'[r].found # <<>> /\ run'[r].j = 1
        /\ \A q \in Requests : q # r => run'[q] = run[q]
    BY MatchRuleFacts
  <1>2. run' \in [Requests -> Runs]
    BY <1>1 DEF MatchRule, Set, RunInv, TypeOK
  <1>3. run'[r].found # <<>> => 1 \in DOMAIN run'[r].found
    <2>1. run'[r].found \in Seq([rule : Hits, events : SUBSET Events])
      BY <1>1 DEF Runs
    <2> QED
      BY <2>1, EmptySeq
  <1>4. Positions'
    BY <1>1, <1>2, <1>3, RunsKept
  <1>5. TypeOK'
    BY <1>2, FaultType DEF MatchRule, RunInv, TypeOK, tables
  <1> QED
    BY <1>4, <1>5 DEF RunInv

\* Either of the steps that save a detection goes on to the next one.
LEMMA NextSaveRunInv ==
  ASSUME RunInv, NEW r \in Requests, run[r].pc \in {"insert", "annotate"}, Set(r, NextSave(run[r]))
  PROVE  Positions' /\ run' \in [Requests -> Runs]
  <1> DEFINE n == NextSave(run[r])
  <1>1. /\ n \in Runs /\ n.pc # "match" /\ n.j \in DOMAIN n.found
    BY NextSaveFacts
  <1>2. /\ run'[r] = n /\ run' \in [Requests -> Runs]
        /\ \A q \in Requests : q # r => run'[q] = run[q]
    BY <1>1, SetFacts DEF RunInv
  <1> HIDE DEF n
  <1> QED
    BY <1>1, <1>2, RunsKept

LEMMA InsertRunInv ==
  ASSUME RunInv, NEW r \in Requests, Insert(r)
  PROVE  RunInv'
  <1> DEFINE id == IdOf(r, run[r].j)
             hit == run[r].found[run[r].j]
             v == [rule |-> hit.rule, events |-> hit.events, tags |-> FALSE, car |-> FALSE, triaged |-> FALSE]
  <1>1. /\ TypeOK /\ run[r].pc = "insert" /\ run[r].j \in DOMAIN run[r].found /\ run[r] \in Runs
        /\ id \in Ids /\ hit.rule \in Hits /\ hit.events \subseteq Events
    BY RunFacts DEF RunInv, Positions, Insert
  <1>2. UNCHANGED <<stored, prov, handed, triage, saved>>
    BY DEF Insert
  <1>3. CASE /\ order' = Append(order, id) /\ row' = Extend(row, id, v)
             /\ Set(r, [run[r] EXCEPT !.pc = "annotate"]) /\ UNCHANGED <<hurt, faults>>
    <2> DEFINE new == [run[r] EXCEPT !.pc = "annotate"]
    <2>1. new \in Runs /\ new.pc = "annotate" /\ new.j = run[r].j /\ new.found = run[r].found
      BY <1>1 DEF Runs
    <2>2. /\ run'[r] = new /\ run' \in [Requests -> Runs]
          /\ \A q \in Requests : q # r => run'[q] = run[q]
      BY <1>1, <1>3, <2>1, SetFacts
    <2>3. v \in Row
      BY <1>1 DEF Row
    <2> HIDE DEF new, v, id
    <2>4. Positions'
      BY <1>1, <2>1, <2>2, RunsKept
    <2>5. TypeOK'
      BY <1>1, <1>2, <1>3, <2>2, <2>3, NewRowType DEF TypeOK
    <2> QED
      BY <2>4, <2>5 DEF RunInv
  <1>4. CASE /\ Fault /\ hurt' = hurt \union {id} /\ Set(r, NextSave(run[r])) /\ UNCHANGED <<order, row>>
    <2>1. Positions' /\ run' \in [Requests -> Runs]
      BY <1>1, <1>4, NextSaveRunInv
    <2> HIDE DEF id
    <2>2. TypeOK'
      BY <1>1, <1>2, <1>4, <2>1, FaultType DEF TypeOK
    <2> QED
      BY <2>1, <2>2 DEF RunInv
  <1> QED
    BY <1>3, <1>4 DEF Insert

\* Annotation changes the tags of one row and nothing else of the table: both,
\* or one of them if the other fails.
WithBoth(f, id, a) == [f EXCEPT ![id].tags = a, ![id].car = a]
WithTags(f, id) == [f EXCEPT ![id].tags = TRUE]
WithCar(f, id) == [f EXCEPT ![id].car = TRUE]
Annotated(f, id, a) == {WithBoth(f, id, a), WithTags(f, id), WithCar(f, id)}

LEMMA AnnotatedFacts ==
  ASSUME NEW f, f \in [DOMAIN f -> Row], NEW id, NEW a \in BOOLEAN,
         NEW g \in Annotated(f, id, a)
  PROVE  /\ g \in [DOMAIN f -> Row]
         /\ \A y \in DOMAIN f : /\ y # id => g[y] = f[y]
                                /\ g[y].rule = f[y].rule /\ g[y].events = f[y].events
                                /\ g[y].triaged = f[y].triaged
         /\ id \in DOMAIN f /\ g = WithBoth(f, id, a) => g[id].tags = a /\ g[id].car = a
  <1> DEFINE both == [f[id] EXCEPT !.tags = a, !.car = a]
             tags == [f[id] EXCEPT !.tags = TRUE]
             car == [f[id] EXCEPT !.car = TRUE]
  <1>1. /\ WithBoth(f, id, a) = [f EXCEPT ![id] = both]
        /\ WithTags(f, id) = [f EXCEPT ![id] = tags]
        /\ WithCar(f, id) = [f EXCEPT ![id] = car]
    BY DEF WithBoth, WithTags, WithCar
  <1>2. id \in DOMAIN f => /\ \A v \in {both, tags, car} :
                                /\ v \in Row /\ v.rule = f[id].rule
                                /\ v.events = f[id].events /\ v.triaged = f[id].triaged
                           /\ both.tags = a /\ both.car = a
    BY DEF Row
  <1> HIDE DEF both, tags, car
  <1> QED
    BY <1>1, <1>2 DEF Annotated

LEMMA AnnotateRunInv ==
  ASSUME RunInv, NEW r \in Requests, Annotate(r)
  PROVE  RunInv'
  <1> DEFINE id == IdOf(r, run[r].j)
             tagged == RULES[run[r].found[run[r].j].rule].tagged
  <1>1. /\ TypeOK /\ run[r].pc = "annotate" /\ run[r].j \in DOMAIN run[r].found
        /\ id \in Ids /\ tagged \in BOOLEAN
    BY RunFacts, RulesFacts DEF RunInv, Positions, Annotate
  <1>2. Positions' /\ run' \in [Requests -> Runs]
    BY <1>1, NextSaveRunInv DEF Annotate
  <1>3. /\ row' \in [DOMAIN row -> Row] /\ hurt' \subseteq Ids /\ faults' \in 0..MaxFaults
        /\ UNCHANGED <<stored, order, prov, handed, triage, saved>>
    <2>1. UNCHANGED <<stored, order, prov, handed, triage, saved>>
      BY DEF Annotate
    <2>2. CASE row' = [row EXCEPT ![id].tags = tagged, ![id].car = tagged] /\ UNCHANGED <<hurt, faults>>
      <3>1. row' \in Annotated(row, id, tagged)
        BY <2>2 DEF Annotated, WithBoth
      <3> HIDE DEF id, tagged
      <3>2. row' \in [DOMAIN row -> Row]
        BY <1>1, <3>1, AnnotatedFacts DEF TypeOK
      <3> QED
        BY <1>1, <2>1, <2>2, <3>2 DEF TypeOK
    <2>3. CASE /\ Fault /\ hurt' = hurt \union {id}
               /\ row' \in {[row EXCEPT ![id].tags = TRUE], [row EXCEPT ![id].car = TRUE]}
      <3> HIDE DEF id, tagged
      <3>1. row' \in Annotated(row, id, tagged)
        BY <2>3 DEF Annotated, WithTags, WithCar
      <3>2. row' \in [DOMAIN row -> Row]
        BY <1>1, <3>1, AnnotatedFacts DEF TypeOK
      <3> QED
        BY <1>1, <2>1, <2>3, <3>2, FaultType DEF TypeOK
    <2> QED
      BY <2>2, <2>3 DEF Annotate
  <1>4. TypeOK'
    BY <1>1, <1>2, <1>3 DEF TypeOK
  <1> QED
    BY <1>2, <1>4 DEF RunInv

LEMMA ProvenanceRunInv ==
  ASSUME RunInv, NEW r \in Requests, Provenance(r)
  PROVE  RunInv'
  <1> DEFINE id == IdOf(r, run[r].j)
             rule == run[r].found[run[r].j].rule
  <1>1. /\ run'[r] \in Runs /\ run[r].j \in DOMAIN run[r].found /\ run'[r].pc # "match"
        /\ run'[r].pc \in {"insert", "annotate", "provenance"} => run'[r].j \in DOMAIN run'[r].found
        /\ \A q \in Requests : q # r => run'[q] = run[q]
    BY ProvenanceFacts
  <1>2. run' \in [Requests -> Runs]
    BY <1>1 DEF Provenance, Set, RunInv, TypeOK
  <1>3. Positions'
    BY <1>1, <1>2, RunsKept
  <1>4. TypeOK /\ id \in Ids /\ rule \in Hits /\ HashedRule(rule) \in Hits
    BY <1>1, RunFacts, HashedRuleFacts DEF RunInv
  <1>5. prov' \in [DOMAIN prov' -> Hits] /\ DOMAIN prov' \subseteq Ids
    <2>1. prov' = prov \/ prov' = Extend(prov, id, HashedRule(rule))
      BY DEF Provenance
    <2>2. CASE prov' = prov
      BY <1>4, <2>2 DEF TypeOK
    <2>3. CASE prov' = Extend(prov, id, HashedRule(rule))
      <3> DEFINE h == HashedRule(rule)
      <3>1. prov \in [DOMAIN prov -> Hits] /\ DOMAIN prov \subseteq Ids /\ h \in Hits /\ prov' = Extend(prov, id, h)
        BY <1>4, <2>3 DEF TypeOK
      <3> HIDE DEF h, id, rule
      <3>2. DOMAIN prov' = DOMAIN prov \union {id}
        BY <3>1, ExtendFacts
      <3>3. prov' \in [DOMAIN prov \union {id} -> Hits]
        BY <3>1, ExtendType
      <3> QED
        BY <1>4, <3>1, <3>2, <3>3
    <2> QED
      BY <2>1, <2>2, <2>3
  <1>6. handed' \subseteq Ids
    <2>1. \A i \in DOMAIN run[r].found : IdOf(r, i) \in Ids
      BY <1>4, RunFacts
    <2>2. handed' = handed \/ handed' = handed \union
            {IdOf(r, i) : i \in {i \in DOMAIN run[r].found : RULES[run[r].found[i].rule].high}}
      BY ProvenanceFacts
    <2> QED
      BY <1>4, <2>1, <2>2 DEF TypeOK
  <1>7. hurt' \subseteq Ids /\ faults' \in 0..MaxFaults /\ UNCHANGED <<stored, order, row, triage, saved>>
    BY <1>4, FaultType DEF Provenance, TypeOK
  <1>8. TypeOK'
    BY <1>2, <1>4, <1>5, <1>6, <1>7 DEF TypeOK
  <1> QED
    BY <1>3, <1>8 DEF RunInv

LEMMA CreateDetectionRunInv ==
  ASSUME RunInv, NEW q \in Manual, CreateDetection(q)
  PROVE  RunInv'
  <1> DEFINE id == <<q, NONE>>
             v == [rule |-> NONE, events |-> {}, tags |-> FALSE, car |-> FALSE, triaged |-> FALSE]
  <1>1. /\ order' = Append(order, id) /\ row' = Extend(row, id, v)
        /\ UNCHANGED <<stored, run, prov, handed, triage, saved, hurt, faults>>
    BY DEF CreateDetection
  <1>2. id \in Ids /\ v \in Row
    BY DEF Ids, Row
  <1> HIDE DEF id, v
  <1>3. TypeOK'
    BY <1>1, <1>2, NewRowType DEF RunInv, TypeOK
  <1> QED
    BY <1>1, <1>3 DEF RunInv, Positions

LEMMA TriageRunInv ==
  ASSUME RunInv, NEW t \in Triages, Triage(t)
  PROVE  RunInv'
  <1>1. /\ TypeOK /\ UNCHANGED <<stored, run, order, prov, handed, hurt>>
        /\ Positions
    BY DEF RunInv, Triage, Fetch, Ask, SaveResult, MarkTriaged, tables
  <1>2. /\ triage[t] \in [pc : {"idle", "asking", "answered", "saved"}, batch : SUBSET Ids]
        /\ \A i \in DOMAIN order : order[i] \in Ids
    BY <1>1 DEF TypeOK
  <1> DEFINE T == [pc : {"idle", "asking", "answered", "saved"}, batch : SUBSET Ids]
  <1>3. triage' \in [Triages -> T]
    <2>1. triage \in [Triages -> T]
      BY <1>1 DEF TypeOK
    <2>2. \/ triage' = [triage EXCEPT ![t] = [pc |-> "asking", batch |-> {order[i] : i \in Newest(Untriaged)}]]
          \/ triage' = [triage EXCEPT ![t] = Resting]
          \/ triage' = [triage EXCEPT ![t].pc = "answered"]
          \/ triage' = [triage EXCEPT ![t].pc = "saved"]
      BY DEF Triage, Fetch, Ask, SaveResult, MarkTriaged
    <2>3. [pc |-> "asking", batch |-> {order[i] : i \in Newest(Untriaged)}] \in T
      BY <1>2 DEF Newest, Untriaged
    <2>4. Resting \in T
      BY DEF Resting
    <2>5. [triage[t] EXCEPT !.pc = "answered"] \in T /\ [triage[t] EXCEPT !.pc = "saved"] \in T
      BY <1>2
    <2> HIDE DEF T
    <2> QED
      BY <2>1, <2>2, <2>3, <2>4, <2>5
  <1>4. faults' \in 0..MaxFaults
    BY <1>1, FaultType DEF TypeOK, Triage, Fetch, Ask, SaveResult, MarkTriaged
  <1>5. row' \in [DOMAIN row -> Row]
    <2>1. row \in [DOMAIN row -> Row]
      BY <1>1 DEF TypeOK
    <2>2. \/ row' = row
          \/ row' = [id \in DOMAIN row |-> IF id \in Marks(t) THEN [row[id] EXCEPT !.triaged = TRUE] ELSE row[id]]
      BY DEF Triage, Fetch, Ask, SaveResult, MarkTriaged, tables
    <2>3. \A id \in DOMAIN row : row[id] \in Row /\ [row[id] EXCEPT !.triaged = TRUE] \in Row
      BY <2>1 DEF Row
    <2> QED
      BY <2>1, <2>2, <2>3
  <1>6. saved' \subseteq SUBSET Ids
    BY <1>1, <1>2 DEF TypeOK, Triage, Fetch, Ask, SaveResult, MarkTriaged
  <1>7. TypeOK'
    BY <1>1, <1>3, <1>4, <1>5, <1>6 DEF TypeOK
  <1> QED
    BY <1>1, <1>7 DEF RunInv, Positions

LEMMA CrashRunInv == RunInv /\ Crash => RunInv'
  <1> SUFFICES ASSUME RunInv, Crash PROVE RunInv'
    OBVIOUS
  <1>1. /\ TypeOK /\ Positions
        /\ run' = [r \in Requests |-> IF run[r].pc = "idle" THEN run[r] ELSE [Fresh EXCEPT !.pc = "done"]]
    BY DEF RunInv, Crash
  <1>2. run' \in [Requests -> Runs]
    BY <1>1, FreshFacts DEF TypeOK
  <1>3. \A r \in Requests : run'[r].pc \in {"idle", "done"}
    BY <1>1, FreshFacts
  <1>4. triage' \in [Triages -> [pc : {"idle", "asking", "answered", "saved"}, batch : SUBSET Ids]]
    BY DEF Crash, Resting
  <1>5. hurt' \subseteq Ids /\ faults' \in 0..MaxFaults
    BY <1>1, FaultType DEF TypeOK, Crash, Ids
  <1>6. TypeOK'
    BY <1>1, <1>2, <1>4, <1>5 DEF TypeOK, Crash, tables
  <1> QED
    BY <1>3, <1>6 DEF RunInv, Positions

LEMMA NextRunInv == RunInv /\ [Next]_vars => RunInv'
  <1> SUFFICES ASSUME RunInv, [Next]_vars PROVE RunInv'
    OBVIOUS
  <1>1. CASE UNCHANGED vars
    BY <1>1 DEF vars, tables, RunInv, TypeOK, Positions
  <1>2. ASSUME NEW r \in Requests, Detect(r) PROVE RunInv'
    BY <1>2, StartRunInv, MatchRuleRunInv, InsertRunInv, AnnotateRunInv, ProvenanceRunInv DEF Detect
  <1> QED
    BY <1>1, <1>2, StoreEventRunInv, CreateDetectionRunInv, TriageRunInv, CrashRunInv DEF Next

\* Every reachable state of detection runs and triage is well typed, and the
\* loops of run_all and save_detections never point past their lists, for any
\* rules, events, requests, triages and bound on faults.
THEOREM TypeCorrect == Spec => [](TypeOK /\ Positions)
  BY InitRunInv, NextRunInv, PTL DEF Spec, RunInv

-----------------------------------------------------------------------------
\* The two steps that put a row into the table.
LEMMA NewRow ==
  ASSUME RunInv, NEW id, NEW v, row' = Extend(row, id, v)
  PROVE  /\ DOMAIN row' = DOMAIN row \union {id} /\ row'[id] = v
         /\ \A y \in DOMAIN row : y # id => row'[y] = row[y]
  BY DEF Extend

\* What Insert puts there, and where its request goes.
LEMMA InsertFacts ==
  ASSUME RunInv, NEW r \in Requests, Insert(r)
  PROVE  LET j == run[r].j
             id == IdOf(r, j)
             hit == run[r].found[j]
             n == run'[r]
         IN /\ run[r].pc = "insert" /\ j \in DOMAIN run[r].found
            /\ n.k = run[r].k /\ n.cache = run[r].cache /\ n.found = run[r].found
            /\ \A q \in Requests : q # r => run'[q] = run[q]
            /\ \/ /\ n.pc = "annotate" /\ n.j = j /\ hurt' = hurt
                  /\ DOMAIN row' = DOMAIN row \union {id}
                  /\ \A y \in DOMAIN row : y # id => row'[y] = row[y]
                  /\ row'[id].rule = hit.rule /\ row'[id].events = hit.events
                  /\ ~row'[id].tags /\ ~row'[id].car /\ ~row'[id].triaged
               \/ /\ row' = row /\ hurt' = hurt \union {id}
                  /\ \/ n.pc = "insert" /\ n.j = j + 1
                     \/ n.pc = "provenance" /\ n.j = 1 /\ j = Len(run[r].found)
  <1> DEFINE j == run[r].j
             id == IdOf(r, j)
             hit == run[r].found[j]
             v == [rule |-> hit.rule, events |-> hit.events, tags |-> FALSE, car |-> FALSE, triaged |-> FALSE]
             new == [run[r] EXCEPT !.pc = "annotate"]
  <1>1. TypeOK /\ run[r].pc = "insert" /\ run[r] \in Runs /\ j \in DOMAIN run[r].found
    BY RunFacts DEF RunInv, Positions, Insert
  <1>2. CASE order' = Append(order, id) /\ row' = Extend(row, id, v) /\ Set(r, new) /\ UNCHANGED <<hurt, faults>>
    <2>1. new.pc = "annotate" /\ new.k = run[r].k /\ new.cache = run[r].cache
          /\ new.found = run[r].found /\ new.j = j
      BY <1>1 DEF Runs
    <2>2. run'[r] = new /\ \A q \in Requests : q # r => run'[q] = run[q]
      BY <1>1, <1>2, SetFacts
    <2>3. /\ v.rule = hit.rule /\ v.events = hit.events
          /\ ~v.tags /\ ~v.car /\ ~v.triaged
      OBVIOUS
    <2> HIDE DEF new, v, id, hit
    <2>4. /\ DOMAIN row' = DOMAIN row \union {id} /\ row'[id] = v
          /\ \A y \in DOMAIN row : y # id => row'[y] = row[y]
      BY <1>2, NewRow
    <2> QED
      BY <1>1, <1>2, <2>1, <2>2, <2>3, <2>4 DEF hit, id
  <1>3. CASE Fault /\ hurt' = hurt \union {id} /\ Set(r, NextSave(run[r])) /\ UNCHANGED <<order, row>>
    <2>1. run'[r] = NextSave(run[r]) /\ \A q \in Requests : q # r => run'[q] = run[q]
      BY <1>1, <1>3, SetFacts
    <2> HIDE DEF id, hit
    <2> QED
      BY <1>1, <1>3, <2>1, NextSaveFacts DEF id, hit
  <1> QED
    BY <1>2, <1>3 DEF Insert

\* What Annotate leaves of the table, and where its request goes.
LEMMA AnnotateFacts ==
  ASSUME RunInv, NEW r \in Requests, Annotate(r)
  PROVE  LET j == run[r].j
             id == IdOf(r, j)
             tagged == RULES[run[r].found[j].rule].tagged
             n == run'[r]
         IN /\ run[r].pc = "annotate" /\ j \in DOMAIN run[r].found
            /\ n.k = run[r].k /\ n.cache = run[r].cache /\ n.found = run[r].found
            /\ \/ n.pc = "insert" /\ n.j = j + 1
               \/ n.pc = "provenance" /\ n.j = 1 /\ j = Len(run[r].found)
            /\ \A q \in Requests : q # r => run'[q] = run[q]
            /\ DOMAIN row' = DOMAIN row
            /\ \A y \in DOMAIN row : /\ y # id => row'[y] = row[y]
                                     /\ row'[y].rule = row[y].rule /\ row'[y].events = row[y].events
                                     /\ row'[y].triaged = row[y].triaged
            /\ \/ hurt' = hurt \union {id}
               \/ hurt' = hurt /\ (id \in DOMAIN row => row'[id].tags = tagged /\ row'[id].car = tagged)
  <1> DEFINE j == run[r].j
             id == IdOf(r, j)
             tagged == RULES[run[r].found[j].rule].tagged
  <1>1. TypeOK /\ run[r].pc = "annotate" /\ j \in DOMAIN run[r].found /\ tagged \in BOOLEAN
    BY RunFacts, RulesFacts DEF RunInv, Positions, Annotate
  <1>2. run'[r] = NextSave(run[r]) /\ \A q \in Requests : q # r => run'[q] = run[q]
    BY <1>1, SetFacts DEF Annotate
  <1>3. row \in [DOMAIN row -> Row]
    BY <1>1 DEF TypeOK
  <1>4. \/ row' = WithBoth(row, id, tagged) /\ hurt' = hurt
        \/ row' \in Annotated(row, id, tagged) /\ hurt' = hurt \union {id}
    BY DEF Annotate, WithBoth, WithTags, WithCar, Annotated
  <1>5. row' \in Annotated(row, id, tagged)
    BY <1>4 DEF Annotated
  <1> HIDE DEF id, tagged
  <1>6. /\ DOMAIN row' = DOMAIN row
        /\ \A y \in DOMAIN row : /\ y # id => row'[y] = row[y]
                                 /\ row'[y].rule = row[y].rule /\ row'[y].events = row[y].events
                                 /\ row'[y].triaged = row[y].triaged
        /\ id \in DOMAIN row /\ row' = WithBoth(row, id, tagged) => row'[id].tags = tagged /\ row'[id].car = tagged
    BY <1>1, <1>3, <1>5, AnnotatedFacts
  <1> QED
    BY <1>1, <1>2, <1>4, <1>6, NextSaveFacts DEF id, tagged

\* What a triage may do to the table: mark rows that it has saved a result for.
LEMMA TriageFacts ==
  ASSUME RunInv, NEW t \in Triages, Triage(t)
  PROVE  /\ UNCHANGED <<stored, run, order, prov, handed, hurt>>
         /\ DOMAIN row' = DOMAIN row
         /\ \A y \in DOMAIN row :
              /\ row'[y].rule = row[y].rule /\ row'[y].events = row[y].events
              /\ row'[y].tags = row[y].tags /\ row'[y].car = row[y].car
              /\ row'[y].triaged => row[y].triaged \/ (triage[t].pc = "saved" /\ y \in triage[t].batch)
  <1>1. row \in [DOMAIN row -> Row]
    BY DEF RunInv, TypeOK
  <1>2. UNCHANGED <<stored, run, order, prov, handed, hurt>>
    BY DEF Triage, Fetch, Ask, SaveResult, MarkTriaged, tables
  <1>3. \/ row' = row
        \/ /\ row' = [id \in DOMAIN row |-> IF id \in Marks(t) THEN [row[id] EXCEPT !.triaged = TRUE] ELSE row[id]]
           /\ triage[t].pc = "saved"
    BY DEF Triage, Fetch, Ask, SaveResult, MarkTriaged, tables
  <1>4. \A y \in DOMAIN row : LET m == [row[y] EXCEPT !.triaged = TRUE]
                              IN m.rule = row[y].rule /\ m.events = row[y].events
                                 /\ m.tags = row[y].tags /\ m.car = row[y].car
    BY <1>1 DEF Row
  <1> QED
    BY <1>2, <1>3, <1>4 DEF Marks

-----------------------------------------------------------------------------
LEMMA TriageInvHolds == TriageInv /\ [Next]_vars => TriageInv'
  <1> SUFFICES ASSUME TriageInv, [Next]_vars PROVE TriagedIsSaved' /\ MarkIsSaved'
    BY NextRunInv DEF TriageInv
  <1>1. RunInv /\ TriagedIsSaved /\ MarkIsSaved
    BY DEF TriageInv
  <1>2. CASE UNCHANGED <<row, triage, saved>>
    BY <1>1, <1>2 DEF TriagedIsSaved, MarkIsSaved
  <1>3. ASSUME NEW r \in Requests, Insert(r) PROVE TriagedIsSaved' /\ MarkIsSaved'
    <2> DEFINE id == IdOf(r, run[r].j)
    <2>1. \A y \in DOMAIN row' : row'[y].triaged => y \in DOMAIN row /\ row[y].triaged
      <3>1. \/ row' = row
            \/ /\ DOMAIN row' = DOMAIN row \union {id} /\ ~row'[id].triaged
               /\ \A y \in DOMAIN row : y # id => row'[y] = row[y]
        BY <1>1, <1>3, InsertFacts
      <3> HIDE DEF id
      <3> QED
        BY <3>1
    <2>2. UNCHANGED <<triage, saved>>
      BY <1>3 DEF Insert
    <2> QED
      BY <1>1, <2>1, <2>2 DEF TriagedIsSaved, MarkIsSaved
  <1>4. ASSUME NEW r \in Requests, Annotate(r) PROVE TriagedIsSaved' /\ MarkIsSaved'
    <2>1. \A y \in DOMAIN row' : row'[y].triaged => y \in DOMAIN row /\ row[y].triaged
      BY <1>1, <1>4, AnnotateFacts
    <2>2. UNCHANGED <<triage, saved>>
      BY <1>4 DEF Annotate
    <2> QED
      BY <1>1, <2>1, <2>2 DEF TriagedIsSaved, MarkIsSaved
  <1>5. ASSUME NEW q \in Manual, CreateDetection(q) PROVE TriagedIsSaved' /\ MarkIsSaved'
    <2> DEFINE v == [rule |-> NONE, events |-> {}, tags |-> FALSE, car |-> FALSE, triaged |-> FALSE]
    <2>1. row' = Extend(row, <<q, NONE>>, v) /\ UNCHANGED <<triage, saved>>
      BY <1>5 DEF CreateDetection
    <2>2. ~v.triaged
      OBVIOUS
    <2> HIDE DEF v
    <2>3. \A y \in DOMAIN row' : (y \in DOMAIN row /\ row'[y] = row[y]) \/ row'[y] = v
      BY <2>1 DEF Extend
    <2>4. \A y \in DOMAIN row' : row'[y].triaged => y \in DOMAIN row /\ row[y].triaged
      BY <2>2, <2>3
    <2> QED
      BY <1>1, <2>1, <2>4 DEF TriagedIsSaved, MarkIsSaved
  <1>6. ASSUME NEW t \in Triages, Triage(t) PROVE TriagedIsSaved' /\ MarkIsSaved'
    <2>1. saved \subseteq saved'
      BY <1>6 DEF Triage, Fetch, Ask, SaveResult, MarkTriaged
    <2>2. TriagedIsSaved'
      BY <1>1, <1>6, <2>1, TriageFacts DEF TriagedIsSaved, MarkIsSaved
    <2>3. \A u \in Triages : triage'[u].pc = "saved" =>
             \/ triage'[u] = triage[u]
             \/ triage'[u].batch \in saved'
      BY <1>1, <1>6 DEF Triage, Fetch, Ask, SaveResult, MarkTriaged, RunInv, TypeOK, Resting
    <2>4. MarkIsSaved'
      BY <1>1, <2>1, <2>3 DEF MarkIsSaved
    <2> QED
      BY <2>2, <2>4
  <1>7. CASE Crash
    <2>1. row' = row /\ saved' = saved /\ \A t \in Triages : triage'[t].pc # "saved"
      BY <1>7 DEF Crash, tables, Resting
    <2> QED
      BY <1>1, <2>1 DEF TriagedIsSaved, MarkIsSaved
  <1>8. ASSUME NEW r \in Requests, Start(r) \/ MatchRule(r) \/ Provenance(r)
        PROVE  UNCHANGED <<row, triage, saved>>
    BY <1>8 DEF Start, MatchRule, Provenance, tables
  <1>9. StoreEvent \/ UNCHANGED vars => UNCHANGED <<row, triage, saved>>
    BY DEF StoreEvent, tables, vars
  <1> QED
    BY <1>2, <1>3, <1>4, <1>5, <1>6, <1>7, <1>8, <1>9 DEF Next, Detect

\* Nothing is marked triaged that is not in a saved result, whatever is stored
\* while the model is thinking and whoever else triages, for any batch size and
\* any number of triages, failures and crashes.
THEOREM TriageIsTrue == Spec => []TriagedIsSaved
  <1>1. Init => TriageInv
    BY InitRunInv DEF Init, TriageInv, TriagedIsSaved, MarkIsSaved, Resting
  <1>2. TriageInv => TriagedIsSaved
    BY DEF TriageInv
  <1> QED
    BY <1>1, <1>2, TriageInvHolds, PTL DEF Spec

-----------------------------------------------------------------------------
LEMMA UniqueHash ==
  ASSUME UniqueIds, NEW p \in Hits
  PROVE  HashedRule(p) = p
  BY HashedRuleFacts DEF UniqueIds, Hits

\* Events are never taken out of the store.
LEMMA StoredGrows == [Next]_vars => stored \subseteq stored'
  <1>1. \A r \in Requests : Detect(r) => stored' = stored
    BY DEF Detect, Start, MatchRule, Insert, Annotate, Provenance
  <1>2. \A t \in Triages : Triage(t) => stored' = stored
    BY DEF Triage, Fetch, Ask, SaveResult, MarkTriaged
  <1>3. \A q \in Manual : CreateDetection(q) => stored' = stored
    BY DEF CreateDetection
  <1>4. Crash \/ UNCHANGED vars => stored' = stored
    BY DEF Crash, vars
  <1>5. StoreEvent => stored \subseteq stored'
    BY DEF StoreEvent
  <1> QED
    BY <1>1, <1>2, <1>3, <1>4, <1>5 DEF Next

LEMMA CacheIsOwnHolds ==
  ASSUME UniqueIds, TruthInv, NEW r \in Requests, MatchRule(r)
  PROVE  CacheIsOwn' /\ FoundIsTrue'
  <1> DEFINE k == run[r].k
             c == Cached(run[r].cache, k)
             hit == [rule |-> k, events |-> Matched(c, k)]
  <1>1. /\ RunInv /\ TypeOK /\ CacheIsOwn /\ FoundIsTrue /\ stored' = stored
    BY DEF TruthInv, RunInv, MatchRule
  <1>2. /\ k \in Hits /\ run'[r].cache = c
        /\ \/ run'[r].found = run[r].found
           \/ run'[r].found = Append(run[r].found, hit) /\ hit.events # {}
              /\ hit \in [rule : Hits, events : SUBSET Events]
        /\ \A q \in Requests : q # r => run'[q] = run[q]
    BY <1>1, MatchRuleFacts
  <1>3. /\ DOMAIN c = DOMAIN run[r].cache \union {RULES[k].id}
        /\ \A x \in DOMAIN run[r].cache : c[x] = run[r].cache[x]
        /\ RULES[k].id \notin DOMAIN run[r].cache => c[RULES[k].id] \in {NONE, k}
    BY <1>1, <1>2, CachedFacts
  <1> HIDE DEF c
  <1>4. \A p \in Hits : RULES[p].id \in DOMAIN c => c[RULES[p].id] \in {NONE, p}
    <2> SUFFICES ASSUME NEW p \in Hits, RULES[p].id \in DOMAIN c
                 PROVE  c[RULES[p].id] \in {NONE, p}
      OBVIOUS
    <2>1. CASE RULES[p].id \in DOMAIN run[r].cache
      BY <1>1, <1>3, <2>1 DEF CacheIsOwn
    <2>2. CASE RULES[p].id \notin DOMAIN run[r].cache
      <3>1. p = k
        BY <1>2, <1>3, <2>2 DEF UniqueIds, Hits
      <3> QED
        BY <1>3, <2>2, <3>1
    <2> QED
      BY <2>1, <2>2
  <1>5. CacheIsOwn'
    BY <1>1, <1>2, <1>4 DEF CacheIsOwn
  <1>6. hit.rule = k /\ hit.events \subseteq stored \intersect Matching[k][k]
    <2>1. c[RULES[k].id] \in {NONE, k}
      BY <1>2, <1>3, <1>4
    <2> QED
      BY <2>1 DEF Matched, CacheKey
  <1>7. \A i \in DOMAIN run'[r].found :
          \/ i \in DOMAIN run[r].found /\ run'[r].found[i] = run[r].found[i]
          \/ run'[r].found[i] = hit /\ hit.events # {}
    <2> DEFINE H == [rule : Hits, events : SUBSET Events]
               f == run[r].found
    <2>1. f \in Seq(H) /\ Len(f) \in Nat /\ DOMAIN f = 1..Len(f)
      BY <1>1, RunFacts DEF Runs
    <2>2. CASE run'[r].found = f
      BY <2>2
    <2>3. CASE run'[r].found = Append(f, hit) /\ hit.events # {} /\ hit \in H
      <3> HIDE DEF H, f, hit
      <3>1. /\ DOMAIN run'[r].found = 1..(Len(f) + 1)
            /\ \A i \in 1..Len(f) : run'[r].found[i] = f[i]
            /\ run'[r].found[Len(f) + 1] = hit
        BY <2>1, <2>3, AppendProperties
      <3> QED
        BY <2>1, <2>3, <3>1 DEF f
    <2> QED
      BY <1>2, <2>2, <2>3
  <1> HIDE DEF hit
  <1>8. FoundIsTrue'
    <2>1. ASSUME NEW i \in DOMAIN run'[r].found
          PROVE  LET h == run'[r].found[i]
                 IN h.events # {} /\ h.events \subseteq stored' \intersect Matching[h.rule][h.rule]
      BY <1>1, <1>6, <1>7 DEF FoundIsTrue
    <2> QED
      BY <1>1, <1>2, <2>1 DEF FoundIsTrue
  <1> QED
    BY <1>5, <1>8

LEMMA TruthInvHolds ==
  ASSUME UniqueIds, TruthInv, [Next]_vars
  PROVE  TruthInv'
  <1>1. /\ RunInv /\ RunInv' /\ TypeOK /\ stored \subseteq stored'
        /\ CacheIsOwn /\ FoundIsTrue /\ IdsNameRules /\ RowsAreTrue
    BY NextRunInv, StoredGrows DEF TruthInv, RunInv
  <1>2. ASSUME UNCHANGED run PROVE CacheIsOwn' /\ FoundIsTrue'
    BY <1>1, <1>2 DEF CacheIsOwn, FoundIsTrue
  <1>3. ASSUME NEW r \in Requests, run'[r].found = run[r].found, run'[r].cache = run[r].cache,
               \A q \in Requests : q # r => run'[q] = run[q]
        PROVE  CacheIsOwn' /\ FoundIsTrue'
    BY <1>1, <1>3 DEF CacheIsOwn, FoundIsTrue
  <1>4. ASSUME UNCHANGED <<row, prov>> PROVE IdsNameRules' /\ RowsAreTrue'
    BY <1>1, <1>4 DEF IdsNameRules, RowsAreTrue
  <1>5. CASE StoreEvent \/ UNCHANGED vars
    BY <1>1, <1>2, <1>4, <1>5 DEF StoreEvent, tables, vars, TruthInv
  <1>6. ASSUME NEW r \in Requests, Start(r) PROVE TruthInv'
    <2>1. /\ run'[r] = [Fresh EXCEPT !.pc = "match"]
          /\ \A q \in Requests : q # r => run'[q] = run[q]
          /\ UNCHANGED <<row, prov>>
      BY <1>1, <1>6, SetFacts DEF Start, tables
    <2>2. run'[r].cache = <<>> /\ run'[r].found = <<>>
      BY <2>1, FreshFacts
    <2>3. CacheIsOwn' /\ FoundIsTrue'
      <3>1. \A q \in Requests : run'[q] = run[q] \/ (run'[q].cache = <<>> /\ run'[q].found = <<>>)
        BY <2>1, <2>2
      <3> QED
        BY <1>1, <3>1 DEF CacheIsOwn, FoundIsTrue
    <2> QED
      BY <1>1, <1>4, <2>1, <2>3 DEF TruthInv
  <1>7. ASSUME NEW r \in Requests, MatchRule(r) PROVE TruthInv'
    <2>1. UNCHANGED <<row, prov>>
      BY <1>7 DEF MatchRule, tables
    <2> QED
      BY <1>1, <1>4, <1>7, <2>1, CacheIsOwnHolds DEF TruthInv
  <1>8. ASSUME NEW r \in Requests, Insert(r) PROVE TruthInv'
    <2> DEFINE id == IdOf(r, run[r].j)
               hit == run[r].found[run[r].j]
    <2>1. CacheIsOwn' /\ FoundIsTrue' /\ prov' = prov
      BY <1>1, <1>3, <1>8, InsertFacts DEF Insert
    <2>2. \/ row' = row
          \/ /\ DOMAIN row' = DOMAIN row \union {id}
             /\ \A y \in DOMAIN row : y # id => row'[y] = row[y]
             /\ row'[id].rule = hit.rule /\ row'[id].events = hit.events
      BY <1>1, <1>8, InsertFacts
    <2>3. id[2] = hit.rule
      BY DEF IdOf
    <2>4. hit.events # {} /\ hit.events \subseteq stored \intersect Matching[hit.rule][hit.rule]
      BY <1>1, <1>8, InsertFacts DEF FoundIsTrue
    <2> HIDE DEF id, hit
    <2>5. IdsNameRules'
      BY <1>1, <2>1, <2>2, <2>3 DEF IdsNameRules
    <2>6. RowsAreTrue'
      BY <1>1, <2>2, <2>4 DEF RowsAreTrue
    <2> QED
      BY <1>1, <2>1, <2>5, <2>6 DEF TruthInv
  <1>9. ASSUME NEW r \in Requests, Annotate(r) PROVE TruthInv'
    <2>1. CacheIsOwn' /\ FoundIsTrue' /\ prov' = prov
      BY <1>1, <1>3, <1>9, AnnotateFacts DEF Annotate
    <2>2. /\ DOMAIN row' = DOMAIN row
          /\ \A y \in DOMAIN row : row'[y].rule = row[y].rule /\ row'[y].events = row[y].events
      BY <1>1, <1>9, AnnotateFacts
    <2>3. IdsNameRules' /\ RowsAreTrue'
      BY <1>1, <2>1, <2>2 DEF IdsNameRules, RowsAreTrue
    <2> QED
      BY <1>1, <2>1, <2>3 DEF TruthInv
  <1>10. ASSUME NEW r \in Requests, Provenance(r) PROVE TruthInv'
    <2> DEFINE id == IdOf(r, run[r].j)
               rule == run[r].found[run[r].j].rule
    <2>1. CacheIsOwn' /\ FoundIsTrue'
      BY <1>1, <1>3, <1>10, ProvenanceFacts
    <2>2. rule \in Hits /\ id[2] = rule
      BY <1>1, <1>10, ProvenanceFacts, RunFacts DEF IdOf
    <2>3. HashedRule(rule) = rule /\ row' = row
      BY <1>10, <2>2, UniqueHash DEF Provenance
    <2>4. prov' = prov \/ prov' = Extend(prov, id, HashedRule(rule))
      BY <1>10 DEF Provenance
    <2> HIDE DEF id, rule
    <2>5. IdsNameRules'
      BY <1>1, <2>2, <2>3, <2>4 DEF IdsNameRules, Extend
    <2>6. RowsAreTrue'
      BY <1>1, <2>3 DEF RowsAreTrue
    <2> QED
      BY <1>1, <2>1, <2>5, <2>6 DEF TruthInv
  <1>11. ASSUME NEW q \in Manual, CreateDetection(q) PROVE TruthInv'
    <2> DEFINE id == <<q, NONE>>
               v == [rule |-> NONE, events |-> {}, tags |-> FALSE, car |-> FALSE, triaged |-> FALSE]
    <2>1. row' = Extend(row, id, v) /\ UNCHANGED <<run, prov>> /\ v.rule = NONE /\ id[2] = NONE
      BY <1>11 DEF CreateDetection
    <2> HIDE DEF id, v
    <2>2. IdsNameRules' /\ RowsAreTrue'
      BY <1>1, <2>1 DEF IdsNameRules, RowsAreTrue, Extend
    <2> QED
      BY <1>1, <1>2, <2>1, <2>2 DEF TruthInv
  <1>12. ASSUME NEW t \in Triages, Triage(t) PROVE TruthInv'
    <2>1. UNCHANGED <<run, prov>> /\ DOMAIN row' = DOMAIN row
          /\ \A y \in DOMAIN row : row'[y].rule = row[y].rule /\ row'[y].events = row[y].events
      BY <1>1, <1>12, TriageFacts
    <2>2. IdsNameRules' /\ RowsAreTrue'
      BY <1>1, <2>1 DEF IdsNameRules, RowsAreTrue
    <2> QED
      BY <1>1, <1>2, <2>1, <2>2 DEF TruthInv
  <1>13. CASE Crash
    <2>1. /\ \A r \in Requests : run'[r] = run[r] \/ run'[r] = [Fresh EXCEPT !.pc = "done"]
          /\ UNCHANGED <<row, prov>>
      BY <1>13 DEF Crash, tables
    <2>2. \A r \in Requests : run'[r] = run[r] \/ (run'[r].cache = <<>> /\ run'[r].found = <<>>)
      BY <2>1, FreshFacts
    <2>3. CacheIsOwn' /\ FoundIsTrue'
      BY <1>1, <2>2 DEF CacheIsOwn, FoundIsTrue
    <2> QED
      BY <1>1, <1>4, <2>1, <2>3 DEF TruthInv
  <1> QED
    BY <1>5, <1>6, <1>7, <1>8, <1>9, <1>10, <1>11, <1>12, <1>13 DEF Next, Detect

\* If no two rules have the same id, as none of the repository do, a stored
\* detection names events that are stored and that match its own rule, and its
\* provenance is of that rule, for any rules and events and any requests that
\* overlap, fail and crash while events arrive.
THEOREM DetectionsAreTrue ==
  ASSUME UniqueIds
  PROVE  Spec => []DetectionIsTrue
  <1>1. Init => TruthInv
    <2> SUFFICES ASSUME Init PROVE TruthInv
      OBVIOUS
    <2>1. RunInv /\ \A r \in Requests : run[r] = Fresh
      BY InitRunInv DEF Init
    <2>2. CacheIsOwn /\ FoundIsTrue
      BY <2>1, FreshFacts DEF CacheIsOwn, FoundIsTrue
    <2>3. IdsNameRules /\ RowsAreTrue
      BY DEF Init, IdsNameRules, RowsAreTrue
    <2> QED
      BY <2>1, <2>2, <2>3 DEF TruthInv
  <1>2. TruthInv /\ [Next]_vars => TruthInv'
    BY TruthInvHolds
  <1>3. TruthInv => DetectionIsTrue
    BY DEF TruthInv, IdsNameRules, RowsAreTrue, DetectionIsTrue
  <1> QED
    BY <1>1, <1>2, <1>3, PTL DEF Spec

-----------------------------------------------------------------------------
\* Detections of different requests and of different rules have different ids.
LEMMA IdsDiffer ==
  ASSUME RunInv, NEW r \in Requests, NEW q \in Requests, FoundInOrder(r),
         NEW i \in DOMAIN run[r].found, NEW l \in DOMAIN run[q].found, IdOf(r, i) = IdOf(q, l)
  PROVE  r = q /\ i = l
  <1>1. r = q /\ run[r].found[i].rule = run[q].found[l].rule
    BY DEF IdOf
  <1>2. /\ i \in Nat /\ l \in Nat
        /\ run[r].found[i].rule \in Nat /\ run[r].found[l].rule \in Nat
    <2>1. TypeOK /\ i \in DOMAIN run[r].found /\ l \in DOMAIN run[r].found
      BY <1>1 DEF RunInv
    <2>2. run[r].found[i].rule \in Hits /\ run[r].found[l].rule \in Hits
          /\ DOMAIN run[r].found = 1..Len(run[r].found) /\ Len(run[r].found) \in Nat
      BY <2>1, RunFacts
    <2> QED
      BY <2>1, <2>2, RulesFacts
  <1>3. ~(i < l) /\ ~(l < i)
    BY <1>1, <1>2 DEF FoundInOrder
  <1> QED
    BY <1>1, <1>2, <1>3

\* What other steps may do without disturbing a request: they store more, and
\* leave the tags of the request's rows alone.
LEMMA OthersWhole ==
  ASSUME NEW r \in Requests, WholeAt(r), run'[r] = run[r],
         hurt \subseteq hurt', DOMAIN prov \subseteq DOMAIN prov', handed \subseteq handed',
         DOMAIN row \subseteq DOMAIN row',
         \A i \in DOMAIN run[r].found : IdOf(r, i) \in DOMAIN row =>
           row'[IdOf(r, i)].tags = row[IdOf(r, i)].tags /\ row'[IdOf(r, i)].car = row[IdOf(r, i)].car
  PROVE  WholeAt(r)'
  <1>1. \A i : IdOf(r, i)' = IdOf(r, i)
    BY DEF IdOf
  <1>2. FoundInOrder(r)' /\ HandedAll(r)'
    BY <1>1 DEF WholeAt, FoundInOrder, HandedAll
  <1>3. SavedBefore(r)'
    BY <1>1 DEF WholeAt, SavedBefore, Saved
  <1>4. InsertedNow(r)' /\ ProvenBefore(r)'
    BY <1>1 DEF WholeAt, InsertedNow, ProvenBefore
  <1> QED
    BY <1>2, <1>3, <1>4 DEF WholeAt

\* A request that has found nothing yet has nothing to keep.
LEMMA EmptyWhole ==
  ASSUME NEW r \in Requests, run'[r].found = <<>>, run'[r].pc # "annotate"
  PROVE  WholeAt(r)'
  BY DEF WholeAt, FoundInOrder, SavedBefore, InsertedNow, ProvenBefore, HandedAll

LEMMA MatchRuleWhole ==
  ASSUME WholeInv, NEW r \in Requests, MatchRule(r)
  PROVE  WholeAt(r)'
  <1> DEFINE k == run[r].k
             f == run[r].found
             g == run'[r].found
             hit == [rule |-> k, events |-> Matched(Cached(run[r].cache, k), k)]
             H == [rule : Hits, events : SUBSET Events]
  <1>1. /\ RunInv /\ FoundInOrder(r)
        /\ k \in Hits /\ run'[r].k = k + 1 /\ run'[r].j = 1
        /\ g = f \/ (g = Append(f, hit) /\ hit \in H)
        /\ run'[r].pc \in {"match", "insert"} \/ (g = <<>> /\ run'[r].pc = "done")
    <2>1. RunInv /\ FoundInOrder(r)
      BY DEF WholeInv, WholeAt
    <2> QED
      BY <2>1, MatchRuleFacts
  <1>2. /\ f \in Seq(H) /\ Len(f) \in Nat /\ DOMAIN f = 1..Len(f) /\ k \in Nat
        /\ \A i \in DOMAIN f : f[i].rule \in Nat
    BY <1>1, RunFacts, RulesFacts DEF Runs, RunInv
  <1>3. /\ \A i \in DOMAIN g : g[i].rule < k + 1 /\ i >= 1
        /\ \A i, l \in DOMAIN g : i < l => g[i].rule < g[l].rule
    <2>1. \A i \in DOMAIN f : f[i].rule < k
      BY <1>1 DEF FoundInOrder
    <2>2. \A i, l \in DOMAIN f : i < l => f[i].rule < f[l].rule
      BY <1>1 DEF FoundInOrder
    <2>3. CASE g = f
      <3> HIDE DEF f, g, k
      <3> QED
        BY <1>2, <2>1, <2>2, <2>3
    <2>4. CASE g = Append(f, hit) /\ hit \in H
      <3>1. hit.rule = k
        OBVIOUS
      <3> HIDE DEF f, g, k, hit, H
      <3>2. /\ DOMAIN g = 1..(Len(f) + 1) /\ g[Len(f) + 1] = hit
            /\ \A i \in 1..Len(f) : g[i] = f[i]
        BY <1>2, <2>4, AppendProperties
      <3>3. \A i \in DOMAIN g : (i \in DOMAIN f /\ g[i] = f[i]) \/ (i = Len(f) + 1 /\ g[i].rule = k)
        <4>1. \A i \in 1..(Len(f) + 1) : i \in 1..Len(f) \/ i = Len(f) + 1
          BY <1>2
        <4> QED
          BY <1>2, <3>1, <3>2, <4>1
      <3>4. \A i \in DOMAIN g : g[i].rule < k + 1 /\ i >= 1
        BY <1>2, <2>1, <3>2, <3>3
      <3>5. \A i, l \in DOMAIN g : i < l => g[i].rule < g[l].rule
        <4> SUFFICES ASSUME NEW i \in DOMAIN g, NEW l \in DOMAIN g, i < l
                     PROVE  g[i].rule < g[l].rule
          OBVIOUS
        <4>1. i \in DOMAIN f /\ g[i] = f[i]
          BY <1>2, <3>2, <3>3
        <4>2. CASE l \in DOMAIN f
          BY <1>2, <2>2, <3>2, <4>1, <4>2
        <4>3. CASE l \notin DOMAIN f
          BY <2>1, <3>3, <4>1, <4>3
        <4> QED
          BY <4>2, <4>3
      <3> QED
        BY <3>4, <3>5
    <2> QED
      BY <1>1, <2>3, <2>4
  <1>4. FoundInOrder(r)'
    BY <1>1, <1>3 DEF FoundInOrder
  <1>5. SavedBefore(r)' /\ InsertedNow(r)' /\ ProvenBefore(r)' /\ HandedAll(r)'
    <2>1. \A i \in DOMAIN run'[r].found : run'[r].j <= i
      BY <1>1, <1>3
    <2>2. run'[r].pc \in {"match", "insert"} \/ (run'[r].found = <<>> /\ run'[r].pc = "done")
      BY <1>1
    <2> HIDE DEF g
    <2> QED
      BY <2>1, <2>2 DEF SavedBefore, InsertedNow, ProvenBefore, HandedAll
  <1> QED
    BY <1>4, <1>5 DEF WholeAt

\* A step that saves detection j, or fails to, and goes on.
LEMMA SavingWhole ==
  ASSUME WholeInv, NEW r \in Requests, Insert(r) \/ Annotate(r)
  PROVE  WholeAt(r)'
  <1> DEFINE j == run[r].j
             id == IdOf(r, j)
             f == run[r].found
             tagged(i) == RULES[f[i].rule].tagged
  <1>1. RunInv /\ TypeOK /\ WholeAt(r)
    BY DEF WholeInv, RunInv
  <1>2. /\ j \in DOMAIN f /\ Len(f) \in Nat /\ DOMAIN f = 1..Len(f)
        /\ run[r].pc \in {"insert", "annotate"}
        /\ run'[r].k = run[r].k /\ run'[r].found = f
        /\ DOMAIN row \subseteq DOMAIN row' /\ hurt \subseteq hurt' /\ prov' = prov /\ handed' = handed
        /\ \A y \in DOMAIN row : y # id => row'[y] = row[y]
    <2>1. prov' = prov /\ handed' = handed
      BY DEF Insert, Annotate
    <2>2. j \in DOMAIN f /\ Len(f) \in Nat /\ DOMAIN f = 1..Len(f)
      BY <1>1, InsertFacts, AnnotateFacts, RunFacts
    <2>3. CASE Insert(r)
      BY <1>1, <2>1, <2>2, <2>3, InsertFacts
    <2>4. CASE Annotate(r)
      BY <1>1, <2>1, <2>2, <2>4, AnnotateFacts
    <2> QED
      BY <2>3, <2>4
  <1>3. \A i : IdOf(r, i)' = IdOf(r, i)
    BY <1>2 DEF IdOf
  <1>4. FoundInOrder(r)'
    BY <1>1, <1>2 DEF WholeAt, FoundInOrder
  <1>5. \/ run'[r].pc = "annotate" /\ run'[r].j = j /\ id \in DOMAIN row'
        \/ /\ \/ run'[r].pc = "insert" /\ run'[r].j = j + 1
              \/ run'[r].pc = "provenance" /\ run'[r].j = 1 /\ j = Len(f)
           /\ \/ id \in hurt'
              \/ id \in DOMAIN row' /\ row'[id].tags = tagged(j) /\ row'[id].car = tagged(j)
    <2>1. CASE Insert(r)
      BY <1>1, <2>1, InsertFacts
    <2>2. CASE Annotate(r)
      <3>1. id \in DOMAIN row
        BY <1>1, <2>2 DEF WholeAt, InsertedNow, Annotate
      <3> QED
        BY <1>1, <2>2, <3>1, AnnotateFacts
    <2> QED
      BY <2>1, <2>2
  <1>6. ASSUME NEW i \in DOMAIN f, i < j
        PROVE  \/ IdOf(r, i) \in hurt'
               \/ /\ IdOf(r, i) \in DOMAIN row'
                  /\ row'[IdOf(r, i)].tags = tagged(i) /\ row'[IdOf(r, i)].car = tagged(i)
    <2>1. IdOf(r, i) # id /\ ~(j <= i)
      BY <1>1, <1>2, <1>6, IdsDiffer DEF WholeAt
    <2>2. IdOf(r, i) \in hurt \/ Saved(r, i)
      BY <1>1, <1>2, <2>1 DEF WholeAt, SavedBefore
    <2> HIDE DEF id
    <2> QED
      BY <1>2, <2>1, <2>2 DEF Saved
  <1> HIDE DEF id
  <1>7. SavedBefore(r)'
    <2> SUFFICES ASSUME NEW i \in DOMAIN f
                 PROVE  \/ IdOf(r, i) \in hurt'
                        \/ /\ IdOf(r, i) \in DOMAIN row'
                           /\ row'[IdOf(r, i)].tags = tagged(i) /\ row'[IdOf(r, i)].car = tagged(i)
                        \/ run'[r].pc \in {"insert", "annotate"} /\ run'[r].j <= i
      BY <1>2, <1>3 DEF SavedBefore, Saved
    <2>1. CASE i < j
      BY <1>6, <2>1
    <2>2. CASE i = j
      BY <1>2, <1>5, <2>2 DEF id
    <2>3. CASE j < i
      BY <1>2, <1>5, <2>3
    <2> QED
      BY <1>2, <2>1, <2>2, <2>3
  <1>8. InsertedNow(r)'
    BY <1>3, <1>5 DEF InsertedNow, id
  <1>9. ProvenBefore(r)' /\ HandedAll(r)'
    <2>1. \A i \in DOMAIN f : 1 <= i
      BY <1>2
    <2>2. run'[r].pc \in {"insert", "annotate"} \/ (run'[r].pc = "provenance" /\ run'[r].j = 1)
      BY <1>5
    <2> QED
      BY <1>2, <2>1, <2>2 DEF ProvenBefore, HandedAll
  <1> QED
    BY <1>4, <1>7, <1>8, <1>9 DEF WholeAt

LEMMA ProvenanceWhole ==
  ASSUME WholeInv, NEW r \in Requests, Provenance(r)
  PROVE  WholeAt(r)' /\ HandedIsHigh'
  <1> DEFINE j == run[r].j
             id == IdOf(r, j)
             f == run[r].found
  <1>1. RunInv /\ TypeOK /\ WholeAt(r) /\ HandedIsHigh
    BY DEF WholeInv, RunInv
  <1>2. /\ j \in DOMAIN f /\ run[r].pc = "provenance"
        /\ run'[r].k = run[r].k /\ run'[r].found = f
        /\ \/ run'[r].pc = "provenance" /\ run'[r].j = j + 1 /\ handed' = handed
           \/ /\ run'[r].pc = "done" /\ j = Len(f)
              /\ handed' = handed \union {IdOf(r, i) : i \in {i \in DOMAIN f : RULES[f[i].rule].high}}
    BY <1>1, ProvenanceFacts
  <1>3. Len(f) \in Nat /\ DOMAIN f = 1..Len(f)
    BY <1>1, RunFacts
  <1>4. row' = row /\ hurt \subseteq hurt' /\ DOMAIN prov \subseteq DOMAIN prov'
        /\ (id \in hurt' \/ id \in DOMAIN prov')
    <2>1. row' = row
      BY DEF Provenance
    <2>2. \/ prov' = Extend(prov, id, HashedRule(f[j].rule)) /\ hurt' = hurt
          \/ hurt' = hurt \union {id} /\ prov' = prov
      BY DEF Provenance
    <2> HIDE DEF id, f
    <2> QED
      BY <2>1, <2>2 DEF Extend
  <1>5. \A i : IdOf(r, i)' = IdOf(r, i)
    BY <1>2 DEF IdOf
  <1>6. FoundInOrder(r)' /\ InsertedNow(r)'
    BY <1>1, <1>2 DEF WholeAt, FoundInOrder, InsertedNow
  <1>7. SavedBefore(r)'
    BY <1>1, <1>2, <1>4, <1>5 DEF WholeAt, SavedBefore, Saved
  <1>8. ProvenBefore(r)'
    <2> SUFFICES ASSUME NEW i \in DOMAIN f
                 PROVE  \/ IdOf(r, i) \in hurt' \/ IdOf(r, i) \in DOMAIN prov'
                        \/ run'[r].pc = "provenance" /\ run'[r].j <= i
      BY <1>2, <1>5 DEF ProvenBefore
    <2>1. CASE i < j
      BY <1>1, <1>2, <1>3, <1>4, <2>1 DEF WholeAt, ProvenBefore
    <2>2. CASE i = j
      BY <1>4, <2>2
    <2>3. CASE j < i
      BY <1>2, <1>3, <2>3
    <2> QED
      BY <1>2, <1>3, <2>1, <2>2, <2>3
  <1>9. HandedAll(r)'
    BY <1>2, <1>5 DEF HandedAll
  <1>10. HandedIsHigh'
    <2>1. \A i \in DOMAIN f : IdOf(r, i)[2] = f[i].rule
      BY DEF IdOf
    <2> HIDE DEF f
    <2> QED
      BY <1>1, <1>2, <2>1 DEF HandedIsHigh
  <1> QED
    BY <1>6, <1>7, <1>8, <1>9, <1>10 DEF WholeAt

LEMMA WholeInvHolds ==
  ASSUME WholeInv, [Next]_vars
  PROVE  WholeInv'
  <1>1. RunInv /\ RunInv' /\ TypeOK /\ HandedIsHigh /\ \A r \in Requests : WholeAt(r)
    BY NextRunInv DEF WholeInv, RunInv
  <1>2. ASSUME UNCHANGED <<run, row, prov, handed, hurt>>
        PROVE  WholeInv'
    <2>1. \A r \in Requests : WholeAt(r)'
      BY <1>1, <1>2, OthersWhole
    <2> QED
      BY <1>1, <1>2, <2>1 DEF WholeInv, HandedIsHigh
  <1>3. StoreEvent \/ UNCHANGED vars => WholeInv'
    BY <1>2 DEF StoreEvent, tables, vars
  <1>4. ASSUME NEW r \in Requests, Start(r) \/ MatchRule(r) PROVE WholeInv'
    <2>1. /\ UNCHANGED <<row, prov, handed, hurt>>
          /\ \A q \in Requests : q # r => run'[q] = run[q]
      BY <1>1, <1>4, SetFacts, MatchRuleFacts DEF Start, MatchRule, tables
    <2>2. CASE Start(r)
      <3>1. run'[r] = [Fresh EXCEPT !.pc = "match"]
        BY <1>1, <2>2, SetFacts DEF Start
      <3>2. WholeAt(r)'
        BY <3>1, FreshFacts, EmptyWhole
      <3> QED
        BY <1>1, <2>1, <3>2, OthersWhole DEF WholeInv, HandedIsHigh
    <2>3. CASE MatchRule(r)
      <3>1. WholeAt(r)'
        BY <2>3, MatchRuleWhole
      <3> QED
        BY <1>1, <2>1, <3>1, OthersWhole DEF WholeInv, HandedIsHigh
    <2> QED
      BY <1>4, <2>2, <2>3
  <1>5. ASSUME NEW r \in Requests, Insert(r) \/ Annotate(r) PROVE WholeInv'
    <2> DEFINE id == IdOf(r, run[r].j)
    <2>1. /\ \A q \in Requests : q # r => run'[q] = run[q]
          /\ DOMAIN row \subseteq DOMAIN row' /\ hurt \subseteq hurt'
          /\ \A y \in DOMAIN row : y # id => row'[y] = row[y]
      <3>1. CASE Insert(r)
        BY <1>1, <3>1, InsertFacts
      <3>2. CASE Annotate(r)
        BY <1>1, <3>2, AnnotateFacts
      <3> QED
        BY <1>5, <3>1, <3>2
    <2>2. prov' = prov /\ handed' = handed
      BY <1>5 DEF Insert, Annotate
    <2>3. \A q \in Requests : q # r => \A i \in DOMAIN run[q].found : IdOf(q, i) # id
      BY DEF IdOf
    <2> HIDE DEF id
    <2>4. \A q \in Requests : q # r => WholeAt(q)'
      BY <1>1, <2>1, <2>2, <2>3, OthersWhole
    <2>5. WholeAt(r)'
      BY <1>5, SavingWhole
    <2> QED
      BY <1>1, <2>2, <2>4, <2>5 DEF WholeInv, HandedIsHigh
  <1>6. ASSUME NEW r \in Requests, Provenance(r) PROVE WholeInv'
    <2>1. \A q \in Requests : q # r => run'[q] = run[q]
      BY <1>1, <1>6, ProvenanceFacts
    <2>2. row' = row /\ hurt \subseteq hurt' /\ DOMAIN prov \subseteq DOMAIN prov' /\ handed \subseteq handed'
      BY <1>6 DEF Provenance, Extend
    <2>3. \A q \in Requests : q # r => WholeAt(q)'
      BY <1>1, <2>1, <2>2, OthersWhole
    <2>4. WholeAt(r)' /\ HandedIsHigh'
      BY <1>6, ProvenanceWhole
    <2> QED
      BY <1>1, <2>3, <2>4 DEF WholeInv
  <1>7. ASSUME NEW q \in Manual, CreateDetection(q) PROVE WholeInv'
    <2>1. UNCHANGED <<run, prov, handed, hurt>>
      BY <1>7 DEF CreateDetection
    <2>2. DOMAIN row \subseteq DOMAIN row' /\ \A y \in DOMAIN row : row'[y] = row[y]
      BY <1>7 DEF CreateDetection, Extend
    <2>3. \A r \in Requests : WholeAt(r)'
      BY <1>1, <2>1, <2>2, OthersWhole
    <2> QED
      BY <1>1, <2>1, <2>3 DEF WholeInv, HandedIsHigh
  <1>8. ASSUME NEW t \in Triages, Triage(t) PROVE WholeInv'
    <2>1. /\ UNCHANGED <<run, prov, hurt>> /\ DOMAIN row' = DOMAIN row
          /\ \A y \in DOMAIN row : row'[y].tags = row[y].tags /\ row'[y].car = row[y].car
      BY <1>1, <1>8, TriageFacts
    <2>2. handed' = handed
      BY <1>8 DEF Triage, Fetch, Ask, SaveResult, MarkTriaged
    <2>3. \A r \in Requests : WholeAt(r)'
      BY <1>1, <2>1, <2>2, OthersWhole
    <2> QED
      BY <1>1, <2>2, <2>3 DEF WholeInv, HandedIsHigh
  <1>9. ASSUME Crash PROVE WholeInv'
    <2>1. UNCHANGED <<row, prov, handed>> /\ hurt \subseteq hurt'
      BY <1>9 DEF Crash, tables
    <2>2. \A r \in Requests : run'[r] = run[r] \/ run'[r] = [Fresh EXCEPT !.pc = "done"]
      BY <1>9 DEF Crash
    <2>3. \A r \in Requests : run'[r] = run[r] \/ (run'[r].found = <<>> /\ run'[r].pc = "done")
      BY <2>2, FreshFacts
    <2>4. \A r \in Requests : WholeAt(r)'
      BY <1>1, <2>1, <2>3, OthersWhole, EmptyWhole
    <2> QED
      BY <1>1, <2>1, <2>4 DEF WholeInv, HandedIsHigh
  <1> QED
    BY <1>3, <1>4, <1>5, <1>6, <1>7, <1>8, <1>9 DEF Next, Detect

\* When POST /detect/run has answered, each detection of the answer is stored
\* with its tags and its provenance unless an error or a crash hit that very
\* detection, and exactly the high ones are with TheHive's client, for any rules
\* and any requests that overlap each other, triages and arriving events.
THEOREM AnswersAreWhole == Spec => []AnsweredIsWhole
  <1>1. Init => WholeInv
    <2> SUFFICES ASSUME Init PROVE WholeInv
      OBVIOUS
    <2>1. RunInv /\ handed = {} /\ \A r \in Requests : run[r] = Fresh
      BY InitRunInv DEF Init
    <2>2. \A r \in Requests : run[r].found = <<>> /\ run[r].pc = "idle"
      BY <2>1, FreshFacts
    <2>3. \A r \in Requests : WholeAt(r)
      BY <2>2 DEF WholeAt, FoundInOrder, SavedBefore, InsertedNow, ProvenBefore, HandedAll
    <2> QED
      BY <2>1, <2>3 DEF WholeInv, HandedIsHigh
  <1>2. WholeInv /\ [Next]_vars => WholeInv'
    BY WholeInvHolds
  <1>3. WholeInv => AnsweredIsWhole
    <2> SUFFICES ASSUME WholeInv, NEW r \in Requests, run[r].pc = "done", NEW i \in DOMAIN run[r].found
                 PROVE  LET id == IdOf(r, i) rule == RULES[run[r].found[i].rule]
                        IN /\ id \notin hurt => /\ id \in DOMAIN row /\ id \in DOMAIN prov
                                                /\ row[id].tags = rule.tagged /\ row[id].car = rule.tagged
                           /\ rule.high <=> id \in handed
      BY DEF AnsweredIsWhole
    <2>1. WholeAt(r) /\ HandedIsHigh
      BY DEF WholeInv
    <2>2. IdOf(r, i) \in hurt \/ (Saved(r, i) /\ IdOf(r, i) \in DOMAIN prov)
      BY <2>1 DEF WholeAt, SavedBefore, ProvenBefore
    <2>3. RULES[run[r].found[i].rule].high => IdOf(r, i) \in handed
      BY <2>1 DEF WholeAt, HandedAll
    <2>4. IdOf(r, i) \in handed => RULES[run[r].found[i].rule].high
      BY <2>1 DEF HandedIsHigh, IdOf
    <2> QED
      BY <2>2, <2>3, <2>4 DEF Saved
  <1> QED
    BY <1>1, <1>2, <1>3, PTL DEF Spec

-----------------------------------------------------------------------------
(* Conditions.  The compiler and the reference are recursive functions over *)
(* sequences; that they exist, and what they satisfy, is shown by hand: a   *)
(* set of numbers has a least element, so there is no shortest condition    *)
(* that fails.                                                              *)

\* Every set of numbers that is not empty has a least element.
LEMMA LeastOf ==
  ASSUME NEW S \in SUBSET Nat, S # {}
  PROVE  \E x \in S : \A y \in S : x <= y
  <1> DEFINE R == OpToRel(<, Nat)
  <1>1. IsWellFoundedOn(R, Nat)
    BY NatLessThanWellFounded
  <1>2. \A x, y \in Nat : x < y => <<x, y>> \in R
    BY DEF OpToRel
  <1> HIDE DEF R
  <1>3. PICK x \in S : \A y \in S : <<y, x>> \notin R
    BY <1>1, WFMin
  <1>4. ASSUME NEW y \in S, ~(x <= y) PROVE FALSE
    <2>1. x \in Nat /\ y \in Nat /\ y < x
      BY <1>4
    <2> QED
      BY <1>2, <1>3, <2>1
  <1> QED
    BY <1>4

\* Induction on the length of a sequence.
LEMMA ByLength ==
  ASSUME NEW S, NEW G,
         \A c \in S : Len(c) \in Nat,
         \A c \in S : (\A d \in S : Len(d) < Len(c) => d \in G) => c \in G
  PROVE  \A c \in S : c \in G
  <1> DEFINE U == {l \in Nat : \E c \in S : Len(c) = l /\ c \notin G}
  <1> SUFFICES ASSUME U # {} PROVE FALSE
    OBVIOUS
  <1> U \in SUBSET Nat
    OBVIOUS
  <1>1. PICK l \in U : \A k \in U : l <= k
    <2> HIDE DEF U
    <2> QED
      BY LeastOf
  <1>2. PICK c \in S : Len(c) = l /\ c \notin G
    BY <1>1
  <1>3. ASSUME NEW d \in S, Len(d) < Len(c), d \notin G PROVE FALSE
    <2>1. Len(d) \in Nat /\ Len(c) \in Nat
      OBVIOUS
    <2>2. Len(d) \in U
      BY <1>3, <2>1
    <2>3. ~(l <= Len(d))
      BY <1>2, <1>3, <2>1
    <2> QED
      BY <1>1, <2>2, <2>3
  <1> QED
    BY <1>2, <1>3

\* F determines the value of a sequence from the values of shorter ones.
ByShorter(F, S, V) ==
  /\ V # {}
  /\ \A c \in S : Len(c) \in Nat
  /\ F \in [[S -> V] \X S -> V]
  /\ \A f, g \in [S -> V], c \in S :
       (\A d \in S : Len(d) < Len(c) => f[d] = g[d]) => F[<<f, c>>] = F[<<g, c>>]

\* A definition by recursion on the length of a sequence defines a function.
LEMMA RecursionOnLength ==
  ASSUME NEW S, NEW V, NEW F, ByShorter(F, S, V)
  PROVE  \E f \in [S -> V] : \A c \in S : f[c] = F[<<f, c>>]
  <1> \A c \in S : Len(c) \in Nat
    BY DEF ByShorter
  <1> PICK v0 \in V : TRUE
    BY DEF ByShorter
  <1>0. /\ F \in [[S -> V] \X S -> V]
        /\ \A f, g \in [S -> V], c \in S :
             (\A d \in S : Len(d) < Len(c) => f[d] = g[d]) => F[<<f, c>>] = F[<<g, c>>]
    BY DEF ByShorter
  <1> DEFINE Sol(n) == {f \in [S -> V] : \A c \in S : Len(c) < n => f[c] = F[<<f, c>>]}
             None == {n \in Nat : Sol(n) = {}}
  <1>1. \A n \in Nat : Sol(n) # {}
    <2> SUFFICES ASSUME None # {} PROVE FALSE
      OBVIOUS
    <2> None \in SUBSET Nat
      OBVIOUS
    <2>1. PICK n \in None : \A k \in None : n <= k
      <3> HIDE DEF None
      <3> QED
        BY LeastOf
    <2>2. n \in Nat /\ Sol(n) = {}
      BY <2>1
    <2>3. n # 0
      <3> DEFINE z == [c \in S |-> v0]
      <3>1. z \in [S -> V]
        OBVIOUS
      <3>2. \A c \in S : ~(Len(c) < 0)
        OBVIOUS
      <3>3. z \in Sol(0)
        BY <3>1, <3>2
      <3> QED
        BY <3>3, <2>2
    <2>4. n - 1 \in Nat /\ ~(n <= n - 1)
      BY <2>2, <2>3
    <2>5. n - 1 \notin None
      BY <2>1, <2>4
    <2>6. PICK f \in Sol(n - 1) : TRUE
      BY <2>4, <2>5
    <2> DEFINE g == [c \in S |-> F[<<f, c>>]]
    <2>7. f \in [S -> V] /\ \A c \in S : Len(c) < n - 1 => f[c] = F[<<f, c>>]
      BY <2>6
    <2>8. \A c \in S : F[<<f, c>>] \in V
      BY <2>7, <1>0
    <2>9. g \in [S -> V]
      BY <2>8
    <2>10. ASSUME NEW c \in S, Len(c) < n PROVE g[c] = F[<<g, c>>]
      <3>1. \A d \in S : Len(d) < Len(c) => Len(d) < n - 1
        BY <2>10, <2>2
      <3>2. \A d \in S : Len(d) < Len(c) => f[d] = g[d]
        BY <3>1, <2>7
      <3>3. F[<<f, c>>] = F[<<g, c>>]
        <4> HIDE DEF g
        <4> QED
          BY <3>2, <2>7, <2>9, <1>0
      <3> QED
        BY <3>3
    <2>11. g \in Sol(n)
      <3> HIDE DEF g
      <3> QED
        BY <2>9, <2>10
    <2> QED
      BY <2>2, <2>11
  <1> DEFINE at == [c \in S |-> CHOOSE f \in Sol(Len(c) + 1) : TRUE]
             h == [c \in S |-> at[c][c]]
  <1>2. \A c \in S : at[c] \in Sol(Len(c) + 1)
    <2> SUFFICES ASSUME NEW c \in S PROVE at[c] \in Sol(Len(c) + 1)
      OBVIOUS
    <2>1. Len(c) + 1 \in Nat
      OBVIOUS
    <2>2. Sol(Len(c) + 1) # {}
      BY <1>1, <2>1
    <2> HIDE DEF Sol
    <2> QED
      BY <2>2
  <1>3. \A c \in S : at[c] \in [S -> V] /\ \A d \in S : Len(d) < Len(c) + 1 => at[c][d] = F[<<at[c], d>>]
    <2> HIDE DEF at
    <2> QED
      BY <1>2
  <1> HIDE DEF at
  <1>4. h \in [S -> V]
    BY <1>3
  <1>5. \A c \in S : h[c] = at[c][c]
    OBVIOUS
  <1> HIDE DEF h
  <1>6. ASSUME NEW c \in S PROVE h[c] = F[<<h, c>>]
    <2>1. ASSUME NEW d \in S, Len(d) < Len(c) PROVE at[d][d] = at[c][d]
      <3> DEFINE G == {b \in S : Len(b) <= Len(d) => at[d][b] = at[c][b]}
      <3>1. ASSUME NEW b \in S, \A k \in S : Len(k) < Len(b) => k \in G PROVE b \in G
        <4>1. Len(b) \in Nat /\ Len(d) \in Nat /\ Len(c) \in Nat /\ \A k \in S : Len(k) \in Nat
          OBVIOUS
        <4> SUFFICES ASSUME Len(b) <= Len(d) PROVE at[d][b] = at[c][b]
          OBVIOUS
        <4>2. \A k \in S : Len(k) < Len(b) => at[d][k] = at[c][k]
          BY <3>1, <4>1
        <4>3. F[<<at[d], b>>] = F[<<at[c], b>>]
          BY <4>2, <1>3, <1>0
        <4>4. Len(b) < Len(d) + 1 /\ Len(b) < Len(c) + 1
          BY <2>1, <4>1
        <4> QED
          BY <4>3, <4>4, <1>3
      <3>2. \A b \in S : b \in G
        <4> HIDE DEF G
        <4> QED
          BY <3>1, ByLength
      <3>3. Len(d) \in Nat
        OBVIOUS
      <3> QED
        BY <3>2, <3>3
    <2>2. \A d \in S : Len(d) < Len(c) => h[d] = at[c][d]
      BY <2>1, <1>5
    <2>3. F[<<h, c>>] = F[<<at[c], c>>]
      BY <2>2, <1>3, <1>4, <1>0
    <2>4. Len(c) < Len(c) + 1
      <3> Len(c) \in Nat
        OBVIOUS
      <3> QED
        OBVIOUS
    <2> QED
      BY <2>3, <2>4, <1>3, <1>5
  <1> QED
    BY <1>4, <1>6

-----------------------------------------------------------------------------
\* What the two evaluations yield, and what a condition is made of.
Vals == {"none", "raise", "T", "F", "N"}
Tokens == Atoms \union {AND, OR, NOT, OPEN, CLOSE}

\* The words of the grammar are no atoms, and differ from each other.
LEMMA TokensDiffer ==
  /\ AND # OR /\ AND # NOT /\ AND # OPEN /\ AND # CLOSE
  /\ OR # NOT /\ OR # OPEN /\ OR # CLOSE
  /\ NOT # OPEN /\ NOT # CLOSE /\ OPEN # CLOSE
  /\ \A t \in Atoms : t \notin {AND, OR, NOT, OPEN, CLOSE}
  <1>1. \A n \in Names : <<n>> \notin {AND, OR, NOT, OPEN, CLOSE}
    BY SigmaAssumption DEF AND, OR, NOT, OPEN, CLOSE
  <1>2. ASSUME NEW t \in Quantified PROVE t \notin {AND, OR, NOT, OPEN, CLOSE}
    <2>1. PICK x \in {"1", "2", "all"}, y \in DOMAIN Prefix \union {"them"} : t = <<x, y>>
      BY DEF Quantified
    <2>2. Len(t) = 2
      BY <2>1
    <2>3. \A u \in {AND, OR, NOT, OPEN, CLOSE} : Len(u) = 1
      BY DEF AND, OR, NOT, OPEN, CLOSE
    <2> QED
      BY <2>2, <2>3
  <1>3. \A t \in Atoms : t \notin {AND, OR, NOT, OPEN, CLOSE}
    BY <1>1, <1>2 DEF Atoms
  <1>4. AND # OR /\ AND # NOT /\ AND # OPEN /\ AND # CLOSE
    BY DEF AND, OR, NOT, OPEN, CLOSE
  <1>5. OR # NOT /\ OR # OPEN /\ OR # CLOSE
    BY DEF AND, OR, NOT, OPEN, CLOSE
  <1>6. NOT # OPEN /\ NOT # CLOSE /\ OPEN # CLOSE
    BY DEF AND, OR, NOT, OPEN, CLOSE
  <1> QED
    BY <1>3, <1>4, <1>5, <1>6

\* Joining and negating yields one of the five values, whatever is joined.
LEMMA ValsTypes ==
  ASSUME NEW S
  PROVE  /\ And3(S) \in Vals /\ Or3(S) \in Vals
         /\ \A v \in Vals : Not3(v) \in Vals
  BY DEF And3, Or3, Not3, Vals

\* So do the atoms.
LEMMA AtomSqlType ==
  ASSUME NEW a, NEW e
  PROVE  AtomSql(a, e) \in Vals /\ SigmaAtom(a, e) \in Vals
  <1>1. \A n, x : DetectionSql(n, x) \in Vals
    BY ValsTypes DEF DetectionSql
  <1>2. AtomSql(a, e) \in Vals
    BY <1>1, ValsTypes DEF AtomSql
  <1>3. SigmaAtom(a, e) \in Vals
    BY ValsTypes DEF SigmaAtom, Vals
  <1> QED
    BY <1>2, <1>3

\* What an event lacks may turn an F of Sigma into an N of SQL, and nothing else;
\* of a complete event the two are equal.
Alike(e, a, b) == a = b \/ (~Total(e) /\ a = "N" /\ b = "F")

\* The values of f, and two functions whose values are alike.
Image(f, P) == {f[x] : x \in P}
AllAlike(e, P, f, g) == \A x \in P : f[x] \in Vals /\ g[x] \in Vals /\ Alike(e, f[x], g[x])

\* Joining what is alike yields what is alike.
LEMMA JoinsAlike ==
  ASSUME NEW e, NEW P, NEW f, NEW g, AllAlike(e, P, f, g)
  PROVE  /\ Alike(e, And3(Image(f, P)), And3(Image(g, P)))
         /\ Alike(e, Or3(Image(f, P)), Or3(Image(g, P)))
  <1> DEFINE A == {f[x] : x \in P}
             B == {g[x] : x \in P}
  <1> \A x \in P : f[x] \in Vals /\ g[x] \in Vals /\ Alike(e, f[x], g[x])
    BY DEF AllAlike
  <1>1. CASE Total(e)
    <2>1. \A x \in P : f[x] = g[x]
      BY <1>1 DEF Alike
    <2>2. A = B
      BY <2>1
    <2> QED
      BY <2>2 DEF Alike, Image
  <1>2. CASE ~Total(e)
    <2>1. \A x \in P : f[x] = g[x] \/ (f[x] = "N" /\ g[x] = "F")
      BY <1>2 DEF Alike
    <2>2. \A v \in {"raise", "none", "T"} : v \in A <=> v \in B
      BY <2>1
    <2>3. ("F" \in A => "F" \in B) /\ ("N" \in B => "N" \in A)
      BY <2>1
    <2>4. ("F" \in B => "F" \in A \/ "N" \in A) /\ ("N" \in A => "N" \in B \/ "F" \in B)
      BY <2>1
    <2>5. A \subseteq Vals /\ B \subseteq Vals
      OBVIOUS
    <2> HIDE DEF A, B
    <2>6. Kept(A) = {} <=> Kept(B) = {}
      BY <2>2, <2>3, <2>4, <2>5 DEF Kept, Vals
    <2>7. Kept(A) # {} => "T" \in A \/ "F" \in A \/ "N" \in A \/ "raise" \in A
      BY <2>5 DEF Kept, Vals
    <2>8. And3(A) = And3(B) \/ (And3(A) = "N" /\ And3(B) = "F")
      BY <2>2, <2>3, <2>4, <2>6, <2>7 DEF And3
    <2>9. Or3(A) = Or3(B) \/ (Or3(A) = "N" /\ Or3(B) = "F")
      BY <2>2, <2>3, <2>4, <2>6, <2>7 DEF Or3
    <2>10. Alike(e, And3(A), And3(B)) /\ Alike(e, Or3(A), Or3(B))
      BY <1>2, <2>8, <2>9 DEF Alike
    <2> QED
      BY <2>10 DEF A, B, Image
  <1> QED
    BY <1>1, <1>2

\* The event as Sigma sees it: what is NULL equals nothing.
Present(e) == [f \in DOMAIN e |-> IF e[f] = NULL THEN {} ELSE e[f]]

\* A detection of an event and of the same event as Sigma sees it are alike.
LEMMA DetectionsAlike ==
  ASSUME NEW e \in Rows, NEW n
  PROVE  /\ DetectionSql(n, e) \in Vals /\ DetectionSql(n, Present(e)) \in Vals
         /\ Alike(e, DetectionSql(n, e), DetectionSql(n, Present(e)))
  <1>1. \A item, x : ItemSql(item, x) \in Vals
    BY ValsTypes DEF ItemSql, Vals
  <1>2. \A m, x : DetectionSql(m, x) \in Vals
    BY ValsTypes DEF DetectionSql
  <1>3. ASSUME NEW field \in Mapped, NEW v
        PROVE  /\ ValueSql(field, v, e) \in Vals /\ ValueSql(field, v, Present(e)) \in Vals
               /\ Alike(e, ValueSql(field, v, e), ValueSql(field, v, Present(e)))
    <2>1. field \in DOMAIN e
      BY SigmaAssumption
    <2>2. Present(e)[field] = IF e[field] = NULL THEN {} ELSE e[field]
      BY <2>1 DEF Present
    <2>3. Total(e) => e[field] # NULL
      BY <2>1 DEF Total
    <2>4. ValueSql(field, v, e) \in Vals /\ ValueSql(field, v, Present(e)) \in Vals
      BY DEF ValueSql, Vals
    <2>5. CASE v \in Skipped \/ e[field] # NULL
      <3>1. ValueSql(field, v, e) = ValueSql(field, v, Present(e))
        BY <2>2, <2>5 DEF ValueSql
      <3> QED
        BY <2>4, <3>1 DEF Alike
    <2>6. CASE v \notin Skipped /\ e[field] = NULL
      <3>1. ValueSql(field, v, e) = "N"
        BY <2>6 DEF ValueSql
      <3>2. ValueSql(field, v, Present(e)) \in {"N", "F"}
        BY <2>2, <2>6 DEF ValueSql
      <3> QED
        BY <2>3, <2>4, <2>6, <3>1, <3>2 DEF Alike
    <2> QED
      BY <2>5, <2>6
  <1>4. ASSUME NEW item PROVE Alike(e, ItemSql(item, e), ItemSql(item, Present(e)))
    <2> DEFINE P == item.values
               f == [v \in P |-> ValueSql(item.field, v, e)]
               g == [v \in P |-> ValueSql(item.field, v, Present(e))]
    <2>1. CASE ~item.supported \/ item.field \notin Mapped
      <3>1. ItemSql(item, e) = ItemSql(item, Present(e))
        BY <2>1 DEF ItemSql
      <3> QED
        BY <3>1 DEF Alike
    <2>2. CASE ~(~item.supported \/ item.field \notin Mapped)
      <3>1. AllAlike(e, P, f, g)
        BY <1>3, <2>2 DEF AllAlike
      <3>2. Image(f, P) = {ValueSql(item.field, v, e) : v \in item.values}
        BY DEF Image
      <3>3. Image(g, P) = {ValueSql(item.field, v, Present(e)) : v \in item.values}
        BY DEF Image
      <3>4. ItemSql(item, e) = IF item.all THEN And3(Image(f, P)) ELSE Or3(Image(f, P))
        BY <2>2, <3>2 DEF ItemSql
      <3>5. ItemSql(item, Present(e)) = IF item.all THEN And3(Image(g, P)) ELSE Or3(Image(g, P))
        BY <2>2, <3>3 DEF ItemSql
      <3> HIDE DEF f, g, P
      <3>6. /\ Alike(e, And3(Image(f, P)), And3(Image(g, P)))
            /\ Alike(e, Or3(Image(f, P)), Or3(Image(g, P)))
        BY <3>1, JoinsAlike
      <3> QED
        BY <3>4, <3>5, <3>6
    <2> QED
      BY <2>1, <2>2
  <1> DEFINE d == Selections[n]
             D == DOMAIN d.items
             f == [i \in D |-> ItemSql(d.items[i], e)]
             g == [i \in D |-> ItemSql(d.items[i], Present(e))]
  <1>5. AllAlike(e, D, f, g)
    BY <1>1, <1>4 DEF AllAlike
  <1>6. DetectionSql(n, e) = IF d.link = "and" THEN And3(Image(f, D)) ELSE Or3(Image(f, D))
    <2>1. Image(f, D) = {ItemSql(d.items[i], e) : i \in DOMAIN d.items}
      BY DEF Image
    <2> QED
      BY <2>1 DEF DetectionSql
  <1>7. DetectionSql(n, Present(e)) = IF d.link = "and" THEN And3(Image(g, D)) ELSE Or3(Image(g, D))
    <2>1. Image(g, D) = {ItemSql(d.items[i], Present(e)) : i \in DOMAIN d.items}
      BY DEF Image
    <2> QED
      BY <2>1 DEF DetectionSql
  <1> HIDE DEF f, g, D
  <1>8. /\ Alike(e, And3(Image(f, D)), And3(Image(g, D)))
        /\ Alike(e, Or3(Image(f, D)), Or3(Image(g, D)))
    BY <1>5, JoinsAlike
  <1> QED
    BY <1>2, <1>6, <1>7, <1>8

\* What both read alike in an atom.
PlainAtom(a) == Len(a) = 2 => a[1] # "2" /\ (a[2] = "them" \/ Prefix[a[2]] \intersect Capital = {})

\* And so are the compiled atom and Sigma's, if the two name the same detections.
LEMMA AtomsAlike ==
  ASSUME NEW e \in Rows, NEW a \in Atoms, PlainAtom(a)
  PROVE  Alike(e, AtomSql(a, e), SigmaAtom(a, e))
  <1>2. CASE \E n \in Names : a = <<n>>
    <2>1. Len(a) = 1
      BY <1>2
    <2>2. AtomSql(a, e) = DetectionSql(a[1], e)
      BY <2>1 DEF AtomSql
    <2>3. SigmaAtom(a, e) = And3({DetectionSql(n, Present(e)) : n \in {a[1]}})
      BY <2>1 DEF SigmaAtom, Present
    <2>4. {DetectionSql(n, Present(e)) : n \in {a[1]}} = {DetectionSql(a[1], Present(e))}
      OBVIOUS
    <2>5. \A v \in Vals : And3({v}) = v
      BY DEF And3, Kept, Vals
    <2> QED
      BY <2>2, <2>3, <2>4, <2>5, DetectionsAlike
  <1>3. CASE a \in Quantified
    <2>1. PICK q \in {"1", "2", "all"}, t \in DOMAIN Prefix \union {"them"} : a = <<q, t>>
      BY <1>3 DEF Quantified
    <2>2. Len(a) = 2 /\ a[1] = q /\ a[2] = t
      BY <2>1
    <2>3. q \in {"1", "all"} /\ (t = "them" \/ Prefix[t] \intersect Capital = {})
      BY <2>2 DEF PlainAtom
    <2> DEFINE names == IF t = "them" THEN Names ELSE Prefix[t]
               f == [n \in names |-> DetectionSql(n, e)]
               g == [n \in names |-> DetectionSql(n, Present(e))]
               A == Image(f, names)
               B == Image(g, names)
    <2>4. TargetNames(t) = names
      BY <2>3 DEF TargetNames
    <2>5. A = {DetectionSql(n, e) : n \in names} /\ B = {DetectionSql(n, Present(e)) : n \in names}
      BY DEF Image
    <2>6. AllAlike(e, names, f, g)
      BY DetectionsAlike DEF AllAlike
    <2>7. Alike(e, And3(A), And3(B)) /\ Alike(e, Or3(A), Or3(B))
      <3> HIDE DEF f, g, names
      <3> QED
        BY <2>6, JoinsAlike
    <2> HIDE DEF A, B, f, g
    <2>8. AtomSql(a, e) = IF q = "all" THEN And3(A) ELSE Or3(A)
      BY <2>2, <2>4, <2>5 DEF AtomSql
    <2>9. SigmaAtom(a, e) = IF q = "1" THEN Or3(B) ELSE And3(B)
      BY <2>2, <2>3, <2>5 DEF SigmaAtom, Present
    <2> QED
      BY <2>3, <2>7, <2>8, <2>9
  <1> QED
    BY <1>2, <1>3 DEF Atoms

-----------------------------------------------------------------------------
\* How often a token occurs up to a position.
Count(c, t, i) == Cardinality({j \in 1..i : c[j] = t})

\* Counting goes one position at a time.
LEMMA CountStep ==
  ASSUME NEW c, NEW t, NEW i \in Nat
  PROVE  /\ Count(c, t, 0) = 0
         /\ Count(c, t, i) \in Nat
         /\ Count(c, t, i + 1) = IF c[i + 1] = t THEN Count(c, t, i) + 1 ELSE Count(c, t, i)
  <1> DEFINE upto(k) == {j \in 1..k : c[j] = t}
  <1>1. upto(0) = {}
    OBVIOUS
  <1>2. Count(c, t, 0) = 0
    BY <1>1, FS_EmptySet DEF Count
  <1>3. IsFiniteSet(upto(i)) /\ Cardinality(upto(i)) \in Nat
    <2>1. IsFiniteSet(1..i)
      BY FS_Interval
    <2>2. upto(i) \in SUBSET (1..i)
      OBVIOUS
    <2> HIDE DEF upto
    <2> QED
      BY <2>1, <2>2, FS_Subset, FS_CardinalityType
  <1>4. i + 1 \notin upto(i)
    OBVIOUS
  <1>5. CASE c[i + 1] = t
    <2>1. upto(i + 1) = upto(i) \union {i + 1}
      BY <1>5
    <2> HIDE DEF upto
    <2>2. Cardinality(upto(i + 1)) = Cardinality(upto(i)) + 1
      BY <1>3, <1>4, <2>1, FS_AddElement
    <2> QED
      BY <1>2, <1>3, <1>5, <2>2 DEF Count, upto
  <1>6. CASE c[i + 1] # t
    <2>1. upto(i + 1) = upto(i)
      BY <1>6
    <2> QED
      BY <1>2, <1>3, <1>6, <2>1 DEF Count
  <1> QED
    BY <1>5, <1>6

\* What is counted in a piece is the difference of two counts in the whole.
LEMMA CountShift ==
  ASSUME NEW c, NEW s, NEW t, NEW k \in Nat, NEW n \in Nat,
         \A j \in 1..n : s[j] = c[k + j]
  PROVE  \A i \in 0..n : Count(c, t, k + i) = Count(c, t, k) + Count(s, t, i)
  <1> DEFINE U == {i \in Nat : i <= n /\ Count(c, t, k + i) # Count(c, t, k) + Count(s, t, i)}
  <1> SUFFICES ASSUME U # {} PROVE FALSE
    OBVIOUS
  <1> U \in SUBSET Nat
    OBVIOUS
  <1>1. PICK i \in U : \A j \in U : i <= j
    <2> HIDE DEF U
    <2> QED
      BY LeastOf
  <1>2. i \in Nat /\ i <= n /\ Count(c, t, k + i) # Count(c, t, k) + Count(s, t, i)
    BY <1>1
  <1>3. i # 0
    <2> SUFFICES ASSUME i = 0 PROVE FALSE
      OBVIOUS
    <2>1. Count(s, t, 0) = 0 /\ Count(c, t, k) \in Nat
      BY CountStep
    <2>2. k + 0 = k
      OBVIOUS
    <2> QED
      BY <1>2, <2>1, <2>2
  <1> DEFINE l == i - 1
  <1>4. l \in Nat /\ l < i /\ l <= n /\ i = l + 1 /\ k + i = (k + l) + 1 /\ k + l \in Nat /\ i \in 1..n
    BY <1>2, <1>3
  <1>5. l \notin U
    BY <1>1, <1>4
  <1>6. Count(c, t, k + l) = Count(c, t, k) + Count(s, t, l)
    BY <1>4, <1>5
  <1>7. s[i] = c[k + i]
    BY <1>4
  <1> HIDE DEF l, U
  <1>8. Count(s, t, i) = IF s[i] = t THEN Count(s, t, l) + 1 ELSE Count(s, t, l)
    BY <1>4, CountStep
  <1>9. Count(c, t, k + i) = IF s[i] = t THEN Count(c, t, k + l) + 1 ELSE Count(c, t, k + l)
    BY <1>4, <1>7, CountStep
  <1>10. Count(c, t, k) \in Nat /\ Count(s, t, l) \in Nat
    BY <1>4, CountStep
  <1> QED
    BY <1>2, <1>6, <1>8, <1>9, <1>10

-----------------------------------------------------------------------------
\* How many parentheses are open after a position.
Depth(c, i) == Opened(c, i) - Closed(c, i)

\* Depth changes by one at a parenthesis, and nowhere else.
LEMMA DepthStep ==
  ASSUME NEW c, NEW i \in Nat
  PROVE  /\ Depth(c, 0) = 0
         /\ Depth(c, i) \in Int
         /\ Opened(c, i) \in Nat /\ Closed(c, i) \in Nat
         /\ c[i + 1] = OPEN => Depth(c, i + 1) = Depth(c, i) + 1
         /\ c[i + 1] = CLOSE => Depth(c, i + 1) = Depth(c, i) - 1
         /\ c[i + 1] \notin {OPEN, CLOSE} => Depth(c, i + 1) = Depth(c, i)
  <1>1. \A j : Opened(c, j) = Count(c, OPEN, j) /\ Closed(c, j) = Count(c, CLOSE, j)
    BY DEF Opened, Closed, Count
  <1>2. /\ Count(c, OPEN, 0) = 0 /\ Count(c, CLOSE, 0) = 0
        /\ Count(c, OPEN, i) \in Nat /\ Count(c, CLOSE, i) \in Nat
        /\ Count(c, OPEN, i + 1) = IF c[i + 1] = OPEN THEN Count(c, OPEN, i) + 1 ELSE Count(c, OPEN, i)
        /\ Count(c, CLOSE, i + 1) = IF c[i + 1] = CLOSE THEN Count(c, CLOSE, i) + 1 ELSE Count(c, CLOSE, i)
    BY CountStep
  <1>3. OPEN # CLOSE
    BY TokensDiffer
  <1> QED
    BY <1>1, <1>2, <1>3 DEF Depth

\* The first n of s are those of c after k.
SameAfter(c, s, k, n) == \A j \in 1..n : s[j] = c[k + j]

\* The depth in a piece is the difference of two depths in the whole.
LEMMA DepthShift ==
  ASSUME NEW c, NEW s, NEW k \in Nat, NEW n \in Nat, SameAfter(c, s, k, n)
  PROVE  \A i \in 0..n : Depth(c, k + i) = Depth(c, k) + Depth(s, i)
  <1>1. \A d, j : Opened(d, j) = Count(d, OPEN, j) /\ Closed(d, j) = Count(d, CLOSE, j)
    BY DEF Opened, Closed, Count
  <1>2. \A i \in 0..n : Count(c, OPEN, k + i) = Count(c, OPEN, k) + Count(s, OPEN, i)
    BY CountShift DEF SameAfter
  <1>5. \A i \in 0..n : Count(c, CLOSE, k + i) = Count(c, CLOSE, k) + Count(s, CLOSE, i)
    BY CountShift DEF SameAfter
  <1> SUFFICES ASSUME NEW i \in 0..n PROVE Depth(c, k + i) = Depth(c, k) + Depth(s, i)
    OBVIOUS
  <1>3. i \in Nat /\ k \in Nat
    OBVIOUS
  <1>4. /\ Count(c, OPEN, k) \in Nat /\ Count(s, OPEN, i) \in Nat
        /\ Count(c, CLOSE, k) \in Nat /\ Count(s, CLOSE, i) \in Nat
    BY <1>3, CountStep
  <1> QED
    BY <1>1, <1>2, <1>5, <1>4 DEF Depth

\* Balanced and the cuts, by depth.
LEMMA ByDepth ==
  ASSUME NEW c \in Conditions
  PROVE  /\ Balanced(c) <=> (\A i \in 1..Len(c) : Depth(c, i) >= 0) /\ Depth(c, Len(c)) = 0
         /\ \A op : Cuts(c, op) = {i \in 1..Len(c) : c[i] = op /\ Depth(c, i) = 0}
  <1>1. Len(c) \in Nat
    BY DEF Conditions
  <1>2. \A i \in 0..Len(c) : Opened(c, i) \in Nat /\ Closed(c, i) \in Nat
    BY <1>1, DepthStep
  <1>3. \A i \in 0..Len(c) : (Closed(c, i) <= Opened(c, i) <=> Depth(c, i) >= 0)
                            /\ (Closed(c, i) = Opened(c, i) <=> Depth(c, i) = 0)
    BY <1>2 DEF Depth
  <1>4. Len(c) \in 0..Len(c) /\ \A i \in 1..Len(c) : i \in 0..Len(c)
    BY <1>1
  <1>5. Balanced(c) <=> (\A i \in 1..Len(c) : Depth(c, i) >= 0) /\ Depth(c, Len(c)) = 0
    BY <1>3, <1>4 DEF Balanced
  <1>6. \A op : Cuts(c, op) = {i \in 1..Len(c) : c[i] = op /\ Depth(c, i) = 0}
    BY <1>3, <1>4 DEF Cuts
  <1> QED
    BY <1>5, <1>6

\* A piece of a condition.
LEMMA Piece ==
  ASSUME NEW c \in Conditions, NEW m \in Nat \ {0}, NEW n \in Nat, n <= Len(c)
  PROVE  /\ SubSeq(c, m, n) \in Conditions
         /\ Len(SubSeq(c, m, n)) = IF m <= n THEN n - m + 1 ELSE 0
         /\ \A i \in 1..Len(SubSeq(c, m, n)) : SubSeq(c, m, n)[i] = c[(m - 1) + i]
  <1>1. \A i \in m..n : c[i] \in Tokens
    BY DEF Conditions, Tokens
  <1>2. /\ SubSeq(c, m, n) \in Seq(Tokens)
        /\ Len(SubSeq(c, m, n)) = IF m <= n THEN n - m + 1 ELSE 0
        /\ \A i \in 1..n - m + 1 : SubSeq(c, m, n)[i] = c[m + i - 1]
    BY <1>1, SubSeqProperties
  <1>3. \A i \in 1..Len(SubSeq(c, m, n)) : i \in 1..n - m + 1 /\ m + i - 1 = (m - 1) + i
    BY <1>2
  <1> QED
    BY <1>2, <1>3 DEF Conditions, Tokens

\* What sequences have, for conditions.
LEMMA Ordinary ==
  ASSUME NEW c \in Conditions
  PROVE  /\ Len(c) \in Nat
         /\ c # <<>> <=> Len(c) >= 1
         /\ \A i \in 1..Len(c) : c[i] \in Tokens
         /\ c # <<>> => /\ Tail(c) \in Conditions
                       /\ Len(Tail(c)) = Len(c) - 1
                       /\ Tail(c) = SubSeq(c, 2, Len(c))
  <1>1. Len(c) \in Nat /\ \A i \in 1..Len(c) : c[i] \in Tokens
    BY DEF Conditions, Tokens
  <1>2. c # <<>> <=> Len(c) >= 1
    BY EmptySeq DEF Conditions
  <1>3. c # <<>> => Tail(c) = SubSeq(c, 2, Len(c))
    BY TailIsSubSeq DEF Conditions
  <1>4. c # <<>> => Tail(c) \in Conditions /\ Len(Tail(c)) = Len(c) - 1
    BY HeadTailProperties DEF Conditions
  <1> QED
    BY <1>1, <1>2, <1>3, <1>4

\* What is between two parentheses is shorter.
LEMMA InnerIsPiece ==
  ASSUME NEW c \in Conditions, c # <<>>
  PROVE  Inner(c) \in Conditions /\ Len(Inner(c)) < Len(c)
  <1>1. Len(c) \in Nat /\ Len(c) - 1 \in Nat /\ Len(c) - 1 <= Len(c) /\ 2 \in Nat \ {0}
    BY Ordinary
  <1>2. /\ SubSeq(c, 2, Len(c) - 1) \in Conditions
        /\ Len(SubSeq(c, 2, Len(c) - 1)) = IF 2 <= Len(c) - 1 THEN Len(c) - 1 - 2 + 1 ELSE 0
    BY <1>1, Piece
  <1> QED
    BY <1>1, <1>2, Ordinary DEF Inner

\* Every finite set of positions has a last one.
LEMMA LastOf ==
  ASSUME NEW n \in Nat, NEW P \in SUBSET (1..n), P # {}
  PROVE  \E x \in P : \A y \in P : y <= x
  <1> DEFINE U == {k \in Nat : \A y \in P : y <= k}
  <1>1. n \in U
    OBVIOUS
  <1> U \in SUBSET Nat /\ U # {}
    BY <1>1
  <1>2. PICK k \in U : \A l \in U : k <= l
    <2> HIDE DEF U
    <2> QED
      BY LeastOf
  <1>3. k \in Nat /\ \A y \in P : y <= k /\ y \in Nat \ {0}
    BY <1>2
  <1>4. k \in P
    <2> SUFFICES ASSUME k \notin P PROVE FALSE
      OBVIOUS
    <2>1. PICK y \in P : TRUE
      OBVIOUS
    <2>2. k - 1 \in Nat /\ ~(k <= k - 1)
      BY <1>3, <2>1
    <2>3. \A z \in P : z <= k - 1
      BY <1>3
    <2> QED
      BY <1>2, <2>2, <2>3
  <1> QED
    BY <1>3, <1>4

\* A part lies between two cuts, or the ends; it is shorter than what is cut.
LEMMA PartLies ==
  ASSUME NEW c \in Conditions, NEW op, NEW p \in Parts(c, op)
  PROVE  \E m \in Nat \ {0}, n \in Nat :
           /\ p = SubSeq(c, m, n) /\ m <= n + 1 /\ n <= Len(c)
           /\ m = 1 \/ m - 1 \in Cuts(c, op)
           /\ n = Len(c) \/ n + 1 \in Cuts(c, op)
           /\ Cuts(c, op) # {} => m > 1 \/ n < Len(c)
           /\ Cuts(c, op) = {} => m = 1 /\ n = Len(c)
  <1> DEFINE start(j) == LET before == {i \in Cuts(c, op) : i < j}
                         IN IF before = {} THEN 1
                            ELSE 1 + CHOOSE i \in before : \A k \in before : k <= i
  <1>1. PICK j \in Cuts(c, op) \union {Len(c) + 1} : p = SubSeq(c, start(j), j - 1)
    BY DEF Parts
  <1> DEFINE before == {i \in Cuts(c, op) : i < j}
             x == CHOOSE i \in before : \A k \in before : k <= i
  <1>2. Len(c) \in Nat /\ Cuts(c, op) \in SUBSET (1..Len(c))
    BY Ordinary DEF Cuts
  <1>3. j \in Nat \ {0} /\ j - 1 \in Nat /\ j - 1 <= Len(c) /\ (j - 1) + 1 = j
    BY <1>2
  <1>4. j - 1 = Len(c) \/ (j - 1) + 1 \in Cuts(c, op)
    BY <1>2, <1>3
  <1>5. CASE before = {}
    <2>1. start(j) = 1
      BY <1>5
    <2>2. Cuts(c, op) # {} => j - 1 < Len(c)
      <3> SUFFICES ASSUME NEW i \in Cuts(c, op), ~(j - 1 < Len(c)) PROVE FALSE
        OBVIOUS
      <3>1. i < j
        BY <1>2, <1>3
      <3> QED
        BY <3>1, <1>5
    <2>3. Cuts(c, op) = {} => j - 1 = Len(c)
      BY <1>2
    <2> HIDE DEF start
    <2>4. p = SubSeq(c, 1, j - 1)
      BY <1>1, <2>1
    <2>5. 1 \in Nat \ {0} /\ 1 <= (j - 1) + 1
      BY <1>3
    <2> QED
      BY <1>3, <1>4, <2>2, <2>3, <2>4, <2>5
  <1>6. CASE before # {}
    <2>1. before \in SUBSET (1..Len(c))
      BY <1>2
    <2>2. x \in before
      <3> HIDE DEF before
      <3>1. \E i \in before : \A k \in before : k <= i
        BY <1>2, <1>6, <2>1, LastOf
      <3> QED
        BY <3>1
    <2>3. start(j) = 1 + x
      BY <1>6
    <2>4. x \in Cuts(c, op) /\ x < j
      BY <2>2
    <2> HIDE DEF start, x, before
    <2>5. x \in Nat \ {0} /\ (1 + x) - 1 = x /\ 1 + x > 1 /\ 1 + x <= (j - 1) + 1 /\ 1 + x \in Nat \ {0}
      BY <1>2, <1>3, <2>4
    <2>6. p = SubSeq(c, 1 + x, j - 1)
      BY <1>1, <2>3
    <2>7. (1 + x) - 1 \in Cuts(c, op) /\ Cuts(c, op) # {}
      BY <2>4, <2>5
    <2> QED
      BY <1>3, <1>4, <2>5, <2>6, <2>7
  <1> QED
    BY <1>5, <1>6

\* A part is shorter than what is cut, unless there is no cut.
LEMMA PartsAreShorter ==
  ASSUME NEW c \in Conditions, NEW op, NEW p \in Parts(c, op)
  PROVE  p \in Conditions /\ Len(p) <= Len(c) /\ (Cuts(c, op) # {} \/ p # c => Len(p) < Len(c))
  <1>1. PICK m \in Nat \ {0}, n \in Nat :
           /\ p = SubSeq(c, m, n) /\ m <= n + 1 /\ n <= Len(c)
           /\ Cuts(c, op) # {} => m > 1 \/ n < Len(c)
           /\ Cuts(c, op) = {} => m = 1 /\ n = Len(c)
    BY PartLies
  <1>2. p \in Conditions /\ Len(p) = IF m <= n THEN n - m + 1 ELSE 0
    BY <1>1, Piece
  <1>3. Len(c) \in Nat
    BY Ordinary
  <1>4. Cuts(c, op) = {} => p = c
    BY <1>1, SubSeqFull DEF Conditions
  <1>5. Len(p) <= Len(c)
    BY <1>1, <1>2, <1>3
  <1>6. m > 1 \/ n < Len(c) => Len(p) < Len(c)
    <2> SUFFICES ASSUME m > 1 \/ n < Len(c) PROVE Len(p) < Len(c)
      OBVIOUS
    <2>1. CASE m <= n
      BY <1>1, <1>2, <1>3, <2>1
    <2>2. CASE ~(m <= n)
      <3>1. Len(p) = 0
        BY <1>2, <2>2
      <3>2. Len(c) >= 1
        BY <1>1, <1>3
      <3> QED
        BY <3>1, <3>2
    <2> QED
      BY <2>1, <2>2
  <1> QED
    BY <1>1, <1>2, <1>4, <1>5, <1>6

\* Taking parentheses off makes no condition longer.
LEMMA UnwrappedIsNoLonger ==
  ASSUME NEW c \in Conditions
  PROVE  Unwrapped(c) \in Conditions /\ Len(Unwrapped(c)) <= Len(c)
  <1>1. CASE c = <<>>
    <2>1. Len(c) = 0
      BY <1>1
    <2> QED
      BY <2>1 DEF Unwrapped
  <1>2. CASE c # <<>>
    <2>1. Inner(c) \in Conditions /\ Len(Inner(c)) < Len(c) /\ Len(c) \in Nat /\ Len(Inner(c)) \in Nat
      BY <1>2, InnerIsPiece, Ordinary
    <2> QED
      BY <2>1 DEF Unwrapped
  <1> QED
    BY <1>1, <1>2

-----------------------------------------------------------------------------
\* A step uses the values of shorter conditions only.
LEMMA SqlStepLocal ==
  ASSUME NEW e, NEW f, NEW g, NEW c0 \in Conditions,
         \A d \in Conditions : Len(d) < Len(c0) => f[d] = g[d]
  PROVE  SqlStep(f, c0, e) = SqlStep(g, c0, e)
  <1> DEFINE c == Unwrapped(c0)
  <1>1. c \in Conditions /\ Len(c) <= Len(c0) /\ Len(c) \in Nat /\ Len(c0) \in Nat
    BY UnwrappedIsNoLonger, Ordinary
  <1> HIDE DEF c
  <1>2. \A op : Cuts(c, op) # {} => \A p \in Parts(c, op) : f[p] = g[p]
    <2> SUFFICES ASSUME NEW op, Cuts(c, op) # {}, NEW p \in Parts(c, op) PROVE f[p] = g[p]
      OBVIOUS
    <2>1. p \in Conditions /\ Len(p) < Len(c)
      BY <1>1, PartsAreShorter
    <2>2. Len(p) \in Nat
      BY <2>1, Ordinary
    <2> QED
      BY <1>1, <2>1, <2>2
  <1>3. Cuts(c, AND) # {} => {f[p] : p \in Parts(c, AND)} = {g[p] : p \in Parts(c, AND)}
    BY <1>2
  <1>4. Cuts(c, OR) # {} => {f[p] : p \in Parts(c, OR)} = {g[p] : p \in Parts(c, OR)}
    BY <1>2
  <1>5. Len(c) > 1 => f[Tail(c)] = g[Tail(c)]
    <2> SUFFICES ASSUME Len(c) > 1 PROVE f[Tail(c)] = g[Tail(c)]
      OBVIOUS
    <2>1. c # <<>> /\ Tail(c) \in Conditions /\ Len(Tail(c)) = Len(c) - 1
      BY <1>1, Ordinary
    <2>2. Len(Tail(c)) < Len(c0)
      BY <1>1, <2>1
    <2> QED
      BY <2>1, <2>2
  <1> QED
    BY <1>3, <1>4, <1>5 DEF SqlStep, c

\* A step yields one of the five values if shorter conditions do.
LEMMA SqlStepType ==
  ASSUME NEW e, NEW f, NEW c0 \in Conditions,
         \A d \in Conditions : Len(d) < Len(c0) => f[d] \in Vals
  PROVE  SqlStep(f, c0, e) \in Vals
  <1> DEFINE c == Unwrapped(c0)
  <1>1. c \in Conditions /\ Len(c) <= Len(c0) /\ Len(c) \in Nat /\ Len(c0) \in Nat
    BY UnwrappedIsNoLonger, Ordinary
  <1> HIDE DEF c
  <1>2. Len(c) > 1 => Not3(f[Tail(c)]) \in Vals
    <2> SUFFICES ASSUME Len(c) > 1 PROVE Not3(f[Tail(c)]) \in Vals
      OBVIOUS
    <2>1. c # <<>> /\ Tail(c) \in Conditions /\ Len(Tail(c)) = Len(c) - 1
      BY <1>1, Ordinary
    <2>3. Len(Tail(c)) < Len(c0)
      BY <1>1, <2>1
    <2>2. f[Tail(c)] \in Vals
      BY <2>1, <2>3
    <2> QED
      BY <2>2, ValsTypes
  <1>3. AtomSql(c[1], e) \in Vals /\ "none" \in Vals
    BY AtomSqlType DEF Vals
  <1>4. And3({f[p] : p \in Parts(c, AND)}) \in Vals
    BY ValsTypes
  <1>5. Or3({f[p] : p \in Parts(c, OR)}) \in Vals
    BY ValsTypes
  <1> QED
    BY <1>2, <1>3, <1>4, <1>5 DEF SqlStep, c

\* SqlValues is the function its definition asks for.
LEMMA SqlValuesDef ==
  ASSUME NEW e
  PROVE  \A c \in Conditions : /\ SqlValues(e)[c] = SqlStep(SqlValues(e), c, e)
                             /\ SqlValues(e)[c] \in Vals
  <1> DEFINE F == [x \in [Conditions -> Vals] \X Conditions |-> SqlStep(x[1], x[2], e)]
             V == SqlValues(e)
  <1>1. \A c \in Conditions : Len(c) \in Nat
    BY Ordinary
  <1>2. \A f \in [Conditions -> Vals], c \in Conditions : F[<<f, c>>] = SqlStep(f, c, e)
    OBVIOUS
  <1>3. F \in [[Conditions -> Vals] \X Conditions -> Vals]
    <2>1. \A x \in [Conditions -> Vals] \X Conditions : SqlStep(x[1], x[2], e) \in Vals
      BY SqlStepType
    <2> QED
      BY <2>1
  <1>4. ASSUME NEW f \in [Conditions -> Vals], NEW g \in [Conditions -> Vals], NEW c \in Conditions,
               \A d \in Conditions : Len(d) < Len(c) => f[d] = g[d]
        PROVE  F[<<f, c>>] = F[<<g, c>>]
    <2>1. SqlStep(f, c, e) = SqlStep(g, c, e)
      BY <1>4, SqlStepLocal
    <2> QED
      BY <1>2, <2>1
  <1>5. "none" \in Vals
    BY DEF Vals
  <1> HIDE DEF F
  <1>6. PICK f \in [Conditions -> Vals] : \A c \in Conditions : f[c] = F[<<f, c>>]
    <2>1. ByShorter(F, Conditions, Vals)
      BY <1>1, <1>3, <1>4, <1>5 DEF ByShorter
    <2> QED
      BY <2>1, RecursionOnLength
  <1>7. f = [c \in Conditions |-> SqlStep(f, c, e)]
    BY <1>2, <1>6
  <1>8. V = [c \in Conditions |-> SqlStep(V, c, e)]
    BY <1>7 DEF SqlValues
  <1> HIDE DEF V
  <1>9. \A c \in Conditions : V[c] = SqlStep(V, c, e)
    BY <1>8
  <1> DEFINE G == {c \in Conditions : V[c] \in Vals}
  <1>10. ASSUME NEW c \in Conditions, \A d \in Conditions : Len(d) < Len(c) => d \in G PROVE c \in G
    <2>1. SqlStep(V, c, e) \in Vals
      BY <1>10, SqlStepType
    <2> QED
      BY <1>9, <2>1
  <1>11. \A c \in Conditions : c \in G
    <2> HIDE DEF G
    <2> QED
      BY <1>1, <1>10, ByLength
  <1> QED
    BY <1>9, <1>11 DEF V

\* The same of the reference.
LEMMA SigmaStepLocal ==
  ASSUME NEW e, NEW f, NEW g, NEW c \in Conditions,
         \A d \in Conditions : Len(d) < Len(c) => f[d] = g[d]
  PROVE  SigmaStep(f, c, e) = SigmaStep(g, c, e)
  <1>1. CASE c = <<>>
    BY <1>1 DEF SigmaStep
  <1>2. CASE c # <<>>
    <2>1. \A op : Cuts(c, op) # {} => \A p \in Parts(c, op) : f[p] = g[p]
      BY PartsAreShorter
    <2>2. Cuts(c, AND) # {} => {f[p] : p \in Parts(c, AND)} = {g[p] : p \in Parts(c, AND)}
      BY <2>1
    <2>3. Cuts(c, OR) # {} => {f[p] : p \in Parts(c, OR)} = {g[p] : p \in Parts(c, OR)}
      BY <2>1
    <2>4. f[Tail(c)] = g[Tail(c)]
      <3>1. Tail(c) \in Conditions /\ Len(Tail(c)) < Len(c)
        BY <1>2, Ordinary
      <3> QED
        BY <3>1
    <2>5. f[Inner(c)] = g[Inner(c)]
      <3>1. Inner(c) \in Conditions /\ Len(Inner(c)) < Len(c)
        BY <1>2, InnerIsPiece
      <3> QED
        BY <3>1
    <2> QED
      BY <2>2, <2>3, <2>4, <2>5 DEF SigmaStep
  <1> QED
    BY <1>1, <1>2

\* The same of the reference's values.
LEMMA SigmaStepType ==
  ASSUME NEW e, NEW f, NEW c \in Conditions,
         \A d \in Conditions : Len(d) < Len(c) => f[d] \in Vals
  PROVE  SigmaStep(f, c, e) \in Vals
  <1>1. CASE c = <<>>
    BY <1>1 DEF SigmaStep, Vals
  <1>2. CASE c # <<>>
    <2>1. And3({f[p] : p \in Parts(c, AND)}) \in Vals
      BY ValsTypes
    <2>2. Or3({f[p] : p \in Parts(c, OR)}) \in Vals
      BY ValsTypes
    <2>3. Not3(f[Tail(c)]) \in Vals
      <3>1. Tail(c) \in Conditions /\ Len(Tail(c)) < Len(c)
        BY <1>2, Ordinary
      <3>2. f[Tail(c)] \in Vals
        BY <3>1
      <3> QED
        BY <3>2, ValsTypes
    <2>4. f[Inner(c)] \in Vals
      <3>1. Inner(c) \in Conditions /\ Len(Inner(c)) < Len(c)
        BY <1>2, InnerIsPiece
      <3> QED
        BY <3>1
    <2>5. SigmaAtom(c[1], e) \in Vals
      BY AtomSqlType
    <2> QED
      BY <1>2, <2>1, <2>2, <2>3, <2>4, <2>5 DEF SigmaStep
  <1> QED
    BY <1>1, <1>2

\* SigmaValues is the function its definition asks for.
LEMMA SigmaValuesDef ==
  ASSUME NEW e
  PROVE  \A c \in Conditions : /\ SigmaValues(e)[c] = SigmaStep(SigmaValues(e), c, e)
                             /\ SigmaValues(e)[c] \in Vals
  <1> DEFINE F == [x \in [Conditions -> Vals] \X Conditions |-> SigmaStep(x[1], x[2], e)]
             V == SigmaValues(e)
  <1>1. \A c \in Conditions : Len(c) \in Nat
    BY Ordinary
  <1>2. \A f \in [Conditions -> Vals], c \in Conditions : F[<<f, c>>] = SigmaStep(f, c, e)
    OBVIOUS
  <1>3. F \in [[Conditions -> Vals] \X Conditions -> Vals]
    <2>1. \A x \in [Conditions -> Vals] \X Conditions : SigmaStep(x[1], x[2], e) \in Vals
      BY SigmaStepType
    <2> QED
      BY <2>1
  <1>4. ASSUME NEW f \in [Conditions -> Vals], NEW g \in [Conditions -> Vals], NEW c \in Conditions,
               \A d \in Conditions : Len(d) < Len(c) => f[d] = g[d]
        PROVE  F[<<f, c>>] = F[<<g, c>>]
    <2>1. SigmaStep(f, c, e) = SigmaStep(g, c, e)
      BY <1>4, SigmaStepLocal
    <2> QED
      BY <1>2, <2>1
  <1>5. "none" \in Vals
    BY DEF Vals
  <1> HIDE DEF F
  <1>6. PICK f \in [Conditions -> Vals] : \A c \in Conditions : f[c] = F[<<f, c>>]
    <2>1. ByShorter(F, Conditions, Vals)
      BY <1>1, <1>3, <1>4, <1>5 DEF ByShorter
    <2> QED
      BY <2>1, RecursionOnLength
  <1>7. f = [c \in Conditions |-> SigmaStep(f, c, e)]
    BY <1>2, <1>6
  <1>8. V = [c \in Conditions |-> SigmaStep(V, c, e)]
    BY <1>7 DEF SigmaValues
  <1> HIDE DEF V
  <1>9. \A c \in Conditions : V[c] = SigmaStep(V, c, e)
    BY <1>8
  <1> DEFINE G == {c \in Conditions : V[c] \in Vals}
  <1>10. ASSUME NEW c \in Conditions, \A d \in Conditions : Len(d) < Len(c) => d \in G PROVE c \in G
    <2>1. SigmaStep(V, c, e) \in Vals
      BY <1>10, SigmaStepType
    <2> QED
      BY <1>9, <2>1
  <1>11. \A c \in Conditions : c \in G
    <2> HIDE DEF G
    <2> QED
      BY <1>1, <1>10, ByLength
  <1> QED
    BY <1>9, <1>11 DEF V

\* The same of what is called plain.
LEMMA PlainStepLocal ==
  ASSUME NEW f, NEW g, NEW c \in Conditions,
         \A d \in Conditions : Len(d) < Len(c) => f[d] = g[d]
  PROVE  PlainStep(f, c) = PlainStep(g, c)
  <1>1. CASE c = <<>>
    BY <1>1 DEF PlainStep
  <1>2. CASE c # <<>>
    <2>1. \A p \in Parts(c, OR) \union Parts(c, AND) : p # c => f[p] = g[p]
      BY PartsAreShorter
    <2>2. f[Tail(c)] = g[Tail(c)]
      <3>1. Tail(c) \in Conditions /\ Len(Tail(c)) < Len(c)
        BY <1>2, Ordinary
      <3> QED
        BY <3>1
    <2>3. f[Inner(c)] = g[Inner(c)]
      <3>1. Inner(c) \in Conditions /\ Len(Inner(c)) < Len(c)
        BY <1>2, InnerIsPiece
      <3> QED
        BY <3>1
    <2>4. (\A p \in Parts(c, OR) \union Parts(c, AND) : p # c => f[p])
           = (\A p \in Parts(c, OR) \union Parts(c, AND) : p # c => g[p])
      BY <2>1, Zenon
    <2> QED
      BY <2>2, <2>3, <2>4, Zenon DEF PlainStep
  <1> QED
    BY <1>1, <1>2

\* Whether a condition is plain is a Boolean if it is one for shorter conditions.
LEMMA PlainStepType ==
  ASSUME NEW f, NEW c \in Conditions,
         \A d \in Conditions : Len(d) < Len(c) => f[d] \in BOOLEAN
  PROVE  PlainStep(f, c) \in BOOLEAN
  <1>1. c # <<>> => f[Tail(c)] \in BOOLEAN
    <2> SUFFICES ASSUME c # <<>> PROVE f[Tail(c)] \in BOOLEAN
      OBVIOUS
    <2>1. Tail(c) \in Conditions /\ Len(Tail(c)) < Len(c)
      BY Ordinary
    <2> QED
      BY <2>1
  <1> QED
    BY <1>1, Zenon DEF PlainStep

\* PlainConditions is the function its definition asks for.
LEMMA PlainDef ==
  \A c \in Conditions : /\ PlainConditions[c] = PlainStep(PlainConditions, c)
                           /\ PlainConditions[c] \in BOOLEAN
  <1> DEFINE F == [x \in [Conditions -> BOOLEAN] \X Conditions |-> PlainStep(x[1], x[2])]
             V == PlainConditions
  <1>1. \A c \in Conditions : Len(c) \in Nat
    BY Ordinary
  <1>2. \A f \in [Conditions -> BOOLEAN], c \in Conditions : F[<<f, c>>] = PlainStep(f, c)
    OBVIOUS
  <1>3. F \in [[Conditions -> BOOLEAN] \X Conditions -> BOOLEAN]
    <2>1. \A x \in [Conditions -> BOOLEAN] \X Conditions : PlainStep(x[1], x[2]) \in BOOLEAN
      BY PlainStepType
    <2> QED
      BY <2>1
  <1>4. ASSUME NEW f \in [Conditions -> BOOLEAN], NEW g \in [Conditions -> BOOLEAN], NEW c \in Conditions,
               \A d \in Conditions : Len(d) < Len(c) => f[d] = g[d]
        PROVE  F[<<f, c>>] = F[<<g, c>>]
    <2>1. PlainStep(f, c) = PlainStep(g, c)
      BY <1>4, PlainStepLocal
    <2> QED
      BY <1>2, <2>1
  <1>5. FALSE \in BOOLEAN
    OBVIOUS
  <1> HIDE DEF F
  <1>6. PICK f \in [Conditions -> BOOLEAN] : \A c \in Conditions : f[c] = F[<<f, c>>]
    <2>1. ByShorter(F, Conditions, BOOLEAN)
      BY <1>1, <1>3, <1>4, <1>5 DEF ByShorter
    <2> QED
      BY <2>1, RecursionOnLength
  <1>7. f = [c \in Conditions |-> PlainStep(f, c)]
    BY <1>2, <1>6
  <1>8. V = [c \in Conditions |-> PlainStep(V, c)]
    BY <1>7 DEF PlainConditions
  <1> HIDE DEF V
  <1>9. \A c \in Conditions : V[c] = PlainStep(V, c)
    BY <1>8
  <1> DEFINE G == {c \in Conditions : V[c] \in BOOLEAN}
  <1>10. ASSUME NEW c \in Conditions, \A d \in Conditions : Len(d) < Len(c) => d \in G PROVE c \in G
    <2>1. PlainStep(V, c) \in BOOLEAN
      BY <1>10, PlainStepType
    <2> QED
      BY <1>9, <2>1
  <1>11. \A c \in Conditions : c \in G
    <2> HIDE DEF G
    <2> QED
      BY <1>1, <1>10, ByLength
  <1> QED
    BY <1>9, <1>11 DEF V

-----------------------------------------------------------------------------
\* What may come first, and what may come last, in a condition.
First == Atoms \union {NOT, OPEN}
Last == Atoms \union {CLOSE}

\* Operators stand between operands, and parentheses match.
WellFormed(c) ==
  /\ c \in Conditions
  /\ Len(c) >= 1
  /\ c[1] \in First
  /\ c[Len(c)] \in Last
  /\ \A i \in 1..(Len(c) - 1) : c[i] \in Last <=> c[i + 1] \notin First
  /\ \A i \in 1..Len(c) : Depth(c, i) >= 0
  /\ Depth(c, Len(c)) = 0
SigmaInv == WellFormed(cond)


\* The tokens that do not begin, and those that do not end, a condition.
LEMMA FirstAndLast ==
  /\ First \subseteq Tokens /\ Last \subseteq Tokens
  /\ \A t \in Tokens : t \notin First <=> t \in {AND, OR, CLOSE}
  /\ \A t \in Tokens : t \notin Last <=> t \in {AND, OR, NOT, OPEN}
  BY TokensDiffer DEF First, Last, Tokens

\* A piece of a well-formed condition that begins and ends well, at the depth
\* it has before it and never below, is well formed.
LEMMA WellFormedPiece ==
  ASSUME NEW c, WellFormed(c), NEW m \in Nat \ {0}, NEW n \in Nat, m <= n, n <= Len(c),
         c[m] \in First, c[n] \in Last,
         Depth(c, n) = Depth(c, m - 1),
         \A i \in m..n : Depth(c, i) >= Depth(c, m - 1)
  PROVE  WellFormed(SubSeq(c, m, n))
  <1> DEFINE s == SubSeq(c, m, n)
             k == m - 1
  <1>1. c \in Conditions
    BY DEF WellFormed
  <1>2. s \in Conditions /\ Len(s) = n - m + 1 /\ \A i \in 1..Len(s) : s[i] = c[k + i]
    BY <1>1, Piece
  <1> HIDE DEF s
  <1>3. k \in Nat /\ Len(s) \in Nat /\ Len(s) >= 1 /\ k + 1 = m /\ k + Len(s) = n
    BY <1>2
  <1>4. \A i \in 0..Len(s) : Depth(c, k + i) = Depth(c, k) + Depth(s, i)
    <2>1. SameAfter(c, s, k, Len(s))
      BY <1>2 DEF SameAfter
    <2> HIDE DEF k
    <2> QED
      BY <1>3, <2>1, DepthShift
  <1>5. \A i \in 0..Len(s) : Depth(s, i) \in Int /\ Depth(c, k) \in Int
    BY <1>3, DepthStep
  <1>6. s[1] \in First /\ s[Len(s)] \in Last
    <2>1. 1 \in 1..Len(s) /\ Len(s) \in 1..Len(s)
      BY <1>3
    <2> QED
      BY <1>2, <1>3, <2>1
  <1>7. \A i \in 1..(Len(s) - 1) : s[i] \in Last <=> s[i + 1] \notin First
    <2> SUFFICES ASSUME NEW i \in 1..(Len(s) - 1) PROVE s[i] \in Last <=> s[i + 1] \notin First
      OBVIOUS
    <2>1. i \in 1..Len(s) /\ i + 1 \in 1..Len(s) /\ k + (i + 1) = (k + i) + 1
      BY <1>3
    <2>2. k + i \in 1..(Len(c) - 1)
      BY <1>2, <1>3
    <2>3. c[k + i] \in Last <=> c[(k + i) + 1] \notin First
      BY <2>2 DEF WellFormed
    <2>4. s[i] = c[k + i] /\ s[i + 1] = c[k + (i + 1)]
      BY <1>2, <2>1
    <2> HIDE DEF k
    <2> QED
      BY <2>1, <2>3, <2>4
  <1>8. \A i \in 1..Len(s) : Depth(s, i) >= 0
    <2> SUFFICES ASSUME NEW i \in 1..Len(s) PROVE Depth(s, i) >= 0
      OBVIOUS
    <2>1. k + i \in m..n /\ i \in 0..Len(s)
      BY <1>2, <1>3
    <2>2. Depth(c, k + i) >= Depth(c, k)
      BY <2>1
    <2> QED
      BY <1>4, <1>5, <2>1, <2>2
  <1>9. Depth(s, Len(s)) = 0
    <2>1. Len(s) \in 0..Len(s)
      BY <1>3
    <2>2. Depth(c, k + Len(s)) = Depth(c, k) + Depth(s, Len(s))
      BY <1>4, <2>1
    <2>3. Depth(c, k + Len(s)) = Depth(c, k)
      BY <1>3
    <2>4. Depth(s, Len(s)) \in Int /\ Depth(c, k) \in Int
      BY <1>5, <2>1
    <2> HIDE DEF k
    <2> QED
      BY <2>2, <2>3, <2>4
  <1>10. WellFormed(s)
    BY <1>2, <1>3, <1>6, <1>7, <1>8, <1>9 DEF WellFormed
  <1> QED
    BY <1>10 DEF s

\* What holds of a run of tokens within a well-formed condition: its depth,
\* counted from where it begins, is never below lo, and d at its end.
Shape(c, lo, d) ==
  /\ c \in Conditions
  /\ Len(c) >= 1
  /\ \A i \in 1..(Len(c) - 1) : c[i] \in Last <=> c[i + 1] \notin First
  /\ \A i \in 1..Len(c) : Depth(c, i) >= lo
  /\ Depth(c, Len(c)) = d

\* One token may follow the other.
Joint(a, b) == a[Len(a)] \in Last <=> b[1] \notin First

\* Two runs of tokens that fit together.
LEMMA ShapeOfTwo ==
  ASSUME NEW a, NEW b, NEW d1 \in Int, NEW d2 \in Int, NEW d3 \in Int, NEW lo \in Int,
         Shape(a, 0, d1), Shape(b, lo, d2), d3 = d1 + d2, d1 + lo >= 0, Joint(a, b)
  PROVE  /\ Shape(a \o b, 0, d3)
         /\ (a \o b)[1] = a[1]
         /\ (a \o b)[Len(a \o b)] = b[Len(b)]
  <1>0. /\ a \in Conditions /\ b \in Conditions /\ Len(a) >= 1 /\ Len(b) >= 1
        /\ \A i \in 1..(Len(a) - 1) : a[i] \in Last <=> a[i + 1] \notin First
        /\ \A i \in 1..(Len(b) - 1) : b[i] \in Last <=> b[i + 1] \notin First
        /\ \A i \in 1..Len(a) : Depth(a, i) >= 0
        /\ \A i \in 1..Len(b) : Depth(b, i) >= lo
        /\ Depth(a, Len(a)) = d1 /\ Depth(b, Len(b)) = d2
        /\ a[Len(a)] \in Last <=> b[1] \notin First
    BY DEF Shape, Joint
  <1> DEFINE c == a \o b
  <1>1. /\ c \in Conditions
        /\ Len(c) = Len(a) + Len(b)
        /\ \A i \in 1..Len(a) + Len(b) : c[i] = IF i <= Len(a) THEN a[i] ELSE b[i - Len(a)]
    BY <1>0, ConcatProperties DEF Conditions
  <1>2. Len(a) \in Nat /\ Len(b) \in Nat /\ Len(a) >= 1 /\ Len(b) >= 1
    BY <1>0, Ordinary
  <1> HIDE DEF c
  <1>3. \A i \in 1..Len(a) : c[i] = a[i] /\ a[i] = c[0 + i]
    BY <1>1, <1>2
  <1>4. \A i \in 1..Len(b) : b[i] = c[Len(a) + i]
    <2> SUFFICES ASSUME NEW i \in 1..Len(b) PROVE b[i] = c[Len(a) + i]
      OBVIOUS
    <2>1. Len(a) + i \in 1..Len(a) + Len(b) /\ ~(Len(a) + i <= Len(a)) /\ (Len(a) + i) - Len(a) = i
      BY <1>2
    <2> QED
      BY <1>1, <2>1
  <1>5. \A i \in 0..Len(a) : Depth(c, i) = Depth(a, i)
    <2>0. SameAfter(c, a, 0, Len(a)) /\ 0 \in Nat
      BY <1>3 DEF SameAfter
    <2>1. \A i \in 0..Len(a) : Depth(c, 0 + i) = Depth(c, 0) + Depth(a, i)
      BY <1>2, <2>0, DepthShift
    <2>2. Depth(c, 0) = 0
      BY <2>0, DepthStep
    <2>3. \A i \in 0..Len(a) : i \in Nat /\ 0 + i = i
      BY <1>2
    <2>4. \A i \in 0..Len(a) : Depth(a, i) \in Int
      BY <2>3, DepthStep
    <2> QED
      BY <2>1, <2>2, <2>3, <2>4
  <1>6. \A i \in 0..Len(b) : Depth(c, Len(a) + i) = d1 + Depth(b, i)
    <2>0. SameAfter(c, b, Len(a), Len(b))
      BY <1>4 DEF SameAfter
    <2>1. \A i \in 0..Len(b) : Depth(c, Len(a) + i) = Depth(c, Len(a)) + Depth(b, i)
      BY <1>2, <2>0, DepthShift
    <2>2. Len(a) \in 0..Len(a)
      BY <1>2
    <2> QED
      BY <1>0, <1>5, <2>1, <2>2
  <1>7. \A i \in 0..Len(b) : Depth(b, i) \in Int
    BY <1>2, DepthStep
  <1>8. c[1] = a[1]
    <2>1. 1 \in 1..Len(a)
      BY <1>2
    <2> QED
      BY <1>3, <2>1
  <1>9. c[Len(c)] = b[Len(b)]
    <2>1. Len(b) \in 1..Len(b)
      BY <1>2
    <2> QED
      BY <1>1, <1>4, <2>1
  <1>10. \A i \in 1..(Len(c) - 1) : c[i] \in Last <=> c[i + 1] \notin First
    <2> SUFFICES ASSUME NEW i \in 1..(Len(c) - 1) PROVE c[i] \in Last <=> c[i + 1] \notin First
      OBVIOUS
    <2>1. CASE i < Len(a)
      <3>1. i \in 1..(Len(a) - 1) /\ i \in 1..Len(a) /\ i + 1 \in 1..Len(a)
        BY <1>2, <2>1
      <3> QED
        BY <1>0, <1>3, <3>1
    <2>2. CASE i = Len(a)
      <3>1. i \in 1..Len(a) /\ 1 \in 1..Len(b)
        BY <1>2, <2>2
      <3>2. c[i] = a[Len(a)] /\ c[i + 1] = b[1]
        BY <1>3, <1>4, <2>2, <3>1
      <3> QED
        BY <1>0, <3>2
    <2>3. CASE i > Len(a)
      <3> DEFINE j == i - Len(a)
      <3>1. j \in 1..(Len(b) - 1) /\ j \in 1..Len(b) /\ j + 1 \in 1..Len(b) /\ i = Len(a) + j /\ i + 1 = Len(a) + (j + 1)
        BY <1>1, <1>2, <2>3
      <3> HIDE DEF j
      <3>2. c[i] = b[j] /\ c[i + 1] = b[j + 1]
        BY <1>4, <3>1
      <3> QED
        BY <1>0, <3>1, <3>2
    <2>4. i < Len(a) \/ i = Len(a) \/ i > Len(a)
      BY <1>1, <1>2
    <2> QED
      BY <2>1, <2>2, <2>3, <2>4
  <1>11. \A i \in 1..Len(c) : Depth(c, i) >= 0
    <2> SUFFICES ASSUME NEW i \in 1..Len(c) PROVE Depth(c, i) >= 0
      OBVIOUS
    <2>1. CASE i <= Len(a)
      <3>1. i \in 1..Len(a) /\ i \in 0..Len(a)
        BY <1>2, <2>1
      <3> QED
        BY <1>0, <1>5, <3>1
    <2>2. CASE ~(i <= Len(a))
      <3> DEFINE j == i - Len(a)
      <3>1. j \in 1..Len(b) /\ j \in 0..Len(b) /\ i = Len(a) + j
        BY <1>1, <1>2, <2>2
      <3> HIDE DEF j
      <3>2. Depth(c, i) = d1 + Depth(b, j) /\ Depth(b, j) >= lo /\ Depth(b, j) \in Int
        BY <1>0, <1>6, <1>7, <3>1
      <3> QED
        BY <3>2
    <2> QED
      BY <2>1, <2>2
  <1>12. Depth(c, Len(c)) = d3
    <2>1. Len(b) \in 0..Len(b)
      BY <1>2
    <2>2. Depth(c, Len(c)) = d1 + Depth(b, Len(b))
      BY <1>1, <1>6, <2>1
    <2> QED
      BY <1>0, <2>2
  <1>13. Len(c) >= 1
    BY <1>1, <1>2
  <1>14. Shape(c, 0, d3)
    BY <1>1, <1>10, <1>11, <1>12, <1>13 DEF Shape
  <1> QED
    BY <1>8, <1>9, <1>14 DEF c

\* A token by itself.
LEMMA ShapeOfOne ==
  ASSUME NEW t \in Tokens
  PROVE  /\ <<t>>[1] = t /\ Len(<<t>>) = 1 /\ <<t>> \in Conditions
         /\ t = OPEN => Shape(<<t>>, 0, 1)
         /\ t = CLOSE => Shape(<<t>>, -1, -1)
         /\ t \notin {OPEN, CLOSE} => Shape(<<t>>, 0, 0)
  <1> DEFINE c == <<t>>
  <1>1. c \in Conditions /\ Len(c) = 1 /\ c[1] = t
    BY DEF Conditions, Tokens
  <1> HIDE DEF c
  <1>2. 0 \in Nat /\ 0 + 1 = 1
    OBVIOUS
  <1>3. /\ Depth(c, 0) = 0
        /\ c[0 + 1] = OPEN => Depth(c, 0 + 1) = Depth(c, 0) + 1
        /\ c[0 + 1] = CLOSE => Depth(c, 0 + 1) = Depth(c, 0) - 1
        /\ c[0 + 1] \notin {OPEN, CLOSE} => Depth(c, 0 + 1) = Depth(c, 0)
    BY <1>2, DepthStep
  <1>4. /\ t = OPEN => Depth(c, 1) = 1
        /\ t = CLOSE => Depth(c, 1) = -1
        /\ t \notin {OPEN, CLOSE} => Depth(c, 1) = 0
    BY <1>1, <1>2, <1>3
  <1>5. /\ t = OPEN => Shape(c, 0, 1)
        /\ t = CLOSE => Shape(c, -1, -1)
        /\ t \notin {OPEN, CLOSE} => Shape(c, 0, 0)
    BY <1>1, <1>4 DEF Shape
  <1> QED
    BY <1>1, <1>5 DEF c

\* Well-formed, by shape.
LEMMA WellFormedShape ==
  ASSUME NEW c
  PROVE  WellFormed(c) <=> Shape(c, 0, 0) /\ c[1] \in First /\ c[Len(c)] \in Last
  BY DEF WellFormed, Shape

\* Negating it keeps a condition well formed.
LEMMA NotOfWellFormed ==
  ASSUME NEW c, WellFormed(c)
  PROVE  WellFormed(<<NOT>> \o c)
  <1>1. NOT \in Tokens /\ NOT \in First /\ NOT \notin Last /\ NOT \notin {OPEN, CLOSE}
    BY TokensDiffer DEF Tokens, First, Last
  <1>2. <<NOT>>[1] = NOT /\ Len(<<NOT>>) = 1 /\ Shape(<<NOT>>, 0, 0)
    BY <1>1, ShapeOfOne
  <1>3. Shape(c, 0, 0) /\ c[1] \in First /\ c[Len(c)] \in Last
    BY WellFormedShape
  <1> DEFINE a == <<NOT>>
  <1> HIDE DEF a
  <1>4. a[1] = NOT /\ Len(a) = 1 /\ Shape(a, 0, 0)
    BY <1>2 DEF a
  <1> DEFINE m == a \o c
  <1>5. Joint(a, c)
    BY <1>1, <1>3, <1>4 DEF Joint
  <1>6. 0 \in Int /\ 0 = 0 + 0 /\ 0 + 0 >= 0
    OBVIOUS
  <1>7. Shape(m, 0, 0) /\ m[1] = a[1] /\ m[Len(m)] = c[Len(c)]
    BY <1>3, <1>4, <1>5, <1>6, ShapeOfTwo
  <1> HIDE DEF m
  <1>8. WellFormed(m)
    BY <1>1, <1>3, <1>4, <1>7, WellFormedShape
  <1> QED
    BY <1>8 DEF m, a

\* A pair of parentheses around it keeps a condition well formed.
LEMMA GroupOfWellFormed ==
  ASSUME NEW c, WellFormed(c)
  PROVE  WellFormed(<<OPEN>> \o c \o <<CLOSE>>)
  <1>1. /\ OPEN \in Tokens /\ OPEN \in First /\ OPEN \notin Last
        /\ CLOSE \in Tokens /\ CLOSE \notin First /\ CLOSE \in Last
    BY TokensDiffer DEF Tokens, First, Last
  <1> DEFINE a == <<OPEN>>
             b == <<CLOSE>>
  <1>2. a[1] = OPEN /\ Len(a) = 1 /\ Shape(a, 0, 1)
    BY <1>1, ShapeOfOne
  <1>3. b[1] = CLOSE /\ Len(b) = 1 /\ Shape(b, -1, -1)
    BY <1>1, ShapeOfOne
  <1>4. Shape(c, 0, 0) /\ c[1] \in First /\ c[Len(c)] \in Last
    BY WellFormedShape
  <1> DEFINE m == a \o c
             w == m \o b
  <1> HIDE DEF a, b
  <1>5. 0 \in Int /\ 1 \in Int /\ -1 \in Int /\ 1 = 1 + 0 /\ 1 + 0 >= 0 /\ 0 = 1 + (-1) /\ 1 + (-1) >= 0
    OBVIOUS
  <1>6. Joint(a, c)
    BY <1>1, <1>2, <1>4 DEF Joint
  <1>7. Shape(m, 0, 1) /\ m[1] = a[1] /\ m[Len(m)] = c[Len(c)]
    BY <1>2, <1>4, <1>5, <1>6, ShapeOfTwo
  <1> HIDE DEF m
  <1>8. Joint(m, b)
    BY <1>1, <1>3, <1>4, <1>7 DEF Joint
  <1>9. Shape(w, 0, 0) /\ w[1] = m[1] /\ w[Len(w)] = b[Len(b)]
    BY <1>3, <1>5, <1>7, <1>8, ShapeOfTwo
  <1> HIDE DEF w
  <1>10. WellFormed(w)
    BY <1>1, <1>2, <1>3, <1>7, <1>9, WellFormedShape
  <1> QED
    BY <1>10 DEF w, m, a, b

\* And so does an operator between two.
LEMMA JoinOfWellFormed ==
  ASSUME NEW a, NEW c, WellFormed(a), WellFormed(c), NEW op \in {AND, OR}
  PROVE  WellFormed(a \o <<op>> \o c)
  <1>1. op \in Tokens /\ op \notin First /\ op \notin Last /\ op \notin {OPEN, CLOSE}
    BY TokensDiffer DEF Tokens, First, Last
  <1> DEFINE o == <<op>>
             m == a \o o
  <1>2. o[1] = op /\ Len(o) = 1 /\ Shape(o, 0, 0)
    BY <1>1, ShapeOfOne
  <1>3. /\ Shape(a, 0, 0) /\ a[1] \in First /\ a[Len(a)] \in Last
        /\ Shape(c, 0, 0) /\ c[1] \in First /\ c[Len(c)] \in Last
    BY WellFormedShape
  <1> HIDE DEF o
  <1>4. 0 \in Int /\ 0 = 0 + 0 /\ 0 + 0 >= 0
    OBVIOUS
  <1>5. Joint(a, o)
    BY <1>1, <1>2, <1>3 DEF Joint
  <1>6. Shape(m, 0, 0) /\ m[1] = a[1] /\ m[Len(m)] = o[Len(o)]
    BY <1>2, <1>3, <1>4, <1>5, ShapeOfTwo
  <1> DEFINE w == m \o c
  <1> HIDE DEF m
  <1>7. Joint(m, c)
    BY <1>1, <1>2, <1>3, <1>6 DEF Joint
  <1>8. Shape(w, 0, 0) /\ w[1] = m[1] /\ w[Len(w)] = c[Len(c)]
    BY <1>3, <1>4, <1>6, <1>7, ShapeOfTwo
  <1> HIDE DEF w
  <1>9. WellFormed(w)
    BY <1>3, <1>6, <1>8, WellFormedShape
  <1> QED
    BY <1>9 DEF w, m, o

\* An atom is a condition.
LEMMA AtomIsWellFormed ==
  ASSUME NEW t \in Atoms
  PROVE  WellFormed(<<t>>)
  <1>1. t \in Tokens /\ t \in First /\ t \in Last /\ t \notin {OPEN, CLOSE}
    BY TokensDiffer DEF Tokens, First, Last
  <1>2. <<t>>[1] = t /\ Len(<<t>>) = 1 /\ Shape(<<t>>, 0, 0)
    BY <1>1, ShapeOfOne
  <1> QED
    BY <1>1, <1>2, WellFormedShape

\* Every condition that Negate, Group and Join build, of any length, is well
\* formed, so that the branches of _build_condition_sql cut it where Sigma does.
THEOREM ConditionsAreWellFormed == SigmaSpec => []SigmaInv
  <1>1. SigmaInit => SigmaInv
    BY AtomIsWellFormed DEF SigmaInit, SigmaInv
  <1>2. SigmaInv /\ [SigmaNext]_cond => SigmaInv'
    <2> SUFFICES ASSUME SigmaInv, [SigmaNext]_cond PROVE WellFormed(cond')
      BY DEF SigmaInv
    <2>0. WellFormed(cond)
      BY DEF SigmaInv
    <2>1. CASE Negate
      BY <2>0, <2>1, NotOfWellFormed DEF Negate
    <2>2. CASE Group
      BY <2>0, <2>2, GroupOfWellFormed DEF Group
    <2>3. CASE Join
      <3>1. PICK t \in Atoms, op \in {AND, OR}, before \in BOOLEAN, n \in {<<>>, <<NOT>>} :
               cond' = IF before THEN n \o <<t, op>> \o cond ELSE cond \o <<op>> \o n \o <<t>>
        BY <2>3 DEF Join
      <3> DEFINE a == n \o <<t>>
      <3>2. WellFormed(<<t>>)
        BY AtomIsWellFormed
      <3>3. <<t>> \in Conditions /\ n \in Conditions /\ <<op>> \in Conditions /\ cond \in Conditions
        <4>1. t \in Tokens /\ op \in Tokens /\ NOT \in Tokens
          BY DEF Tokens
        <4>2. <<t>> \in Conditions /\ <<op>> \in Conditions /\ <<NOT>> \in Conditions
          BY <4>1, ShapeOfOne
        <4>3. <<>> \in Conditions
          BY DEF Conditions
        <4> QED
          BY <2>0, <4>2, <4>3 DEF WellFormed
      <3>4. WellFormed(a)
        <4>1. CASE n = <<>>
          <5>1. a = <<t>>
            BY <3>3, <4>1, ConcatEmptySeq DEF Conditions
          <5> QED
            BY <3>2, <5>1
        <4>2. CASE n = <<NOT>>
          BY <3>2, <4>2, NotOfWellFormed
        <4> QED
          BY <4>1, <4>2
      <3>5. WellFormed(a \o <<op>> \o cond) /\ WellFormed(cond \o <<op>> \o a)
        BY <2>0, <3>4, JoinOfWellFormed
      <3>6. n \o <<t, op>> = a \o <<op>>
        <4>1. <<t, op>> = <<t>> \o <<op>>
          <5>1. t \in Tokens /\ op \in Tokens
            BY DEF Tokens
          <5>2. <<t>> \in Seq(Tokens) /\ <<t, op>> = Append(<<t>>, op)
            BY <5>1
          <5> QED
            BY <5>1, <5>2, AppendIsConcat
        <4> QED
          BY <3>3, <4>1, ConcatAssociative DEF Conditions
      <3>7. cond \o <<op>> \o n \o <<t>> = cond \o <<op>> \o a
        <4>1. cond \o <<op>> \in Conditions
          BY <3>3, ConcatProperties DEF Conditions
        <4> QED
          BY <3>3, <4>1, ConcatAssociative DEF Conditions
      <3> HIDE DEF a
      <3>8. CASE before
        BY <3>1, <3>5, <3>6, <3>8
      <3>9. CASE ~before
        BY <3>1, <3>5, <3>7, <3>9
      <3> QED
        BY <3>8, <3>9
    <2>4. CASE UNCHANGED cond
      BY <2>0, <2>4
    <2> QED
      BY <2>1, <2>2, <2>3, <2>4 DEF SigmaNext
  <1> QED
    BY <1>1, <1>2, PTL DEF SigmaSpec

-----------------------------------------------------------------------------
\* The same, from the position before.
LEMMA DepthBefore ==
  ASSUME NEW c, NEW i \in Nat \ {0}
  PROVE  /\ Depth(c, i) \in Int /\ Depth(c, i - 1) \in Int
         /\ c[i] = OPEN => Depth(c, i) = Depth(c, i - 1) + 1
         /\ c[i] = CLOSE => Depth(c, i) = Depth(c, i - 1) - 1
         /\ c[i] \notin {OPEN, CLOSE} => Depth(c, i) = Depth(c, i - 1)
  <1> DEFINE j == i - 1
  <1>1. j \in Nat /\ j + 1 = i
    OBVIOUS
  <1>2. /\ Depth(c, j) \in Int
        /\ c[j + 1] = OPEN => Depth(c, j + 1) = Depth(c, j) + 1
        /\ c[j + 1] = CLOSE => Depth(c, j + 1) = Depth(c, j) - 1
        /\ c[j + 1] \notin {OPEN, CLOSE} => Depth(c, j + 1) = Depth(c, j)
    BY <1>1, DepthStep
  <1>3. Depth(c, i) \in Int
    BY DepthStep
  <1> QED
    BY <1>1, <1>2, <1>3

\* A cut of a well-formed condition is neither its first token nor its last, and
\* the operands before and after it are whole.
LEMMA CutsAreInside ==
  ASSUME NEW c, WellFormed(c), NEW op \in {AND, OR}, NEW i \in Cuts(c, op)
  PROVE  /\ i \in Nat /\ 1 < i /\ i < Len(c) /\ c[i] = op
         /\ Depth(c, i) = 0 /\ Depth(c, i - 1) = 0
         /\ c[i - 1] \in Last /\ c[i + 1] \in First
  <1>1. c \in Conditions /\ Len(c) \in Nat
    BY Ordinary DEF WellFormed
  <1>2. i \in 1..Len(c) /\ c[i] = op /\ Depth(c, i) = 0
    BY <1>1, ByDepth
  <1>3. op \notin First /\ op \notin Last /\ op \notin {OPEN, CLOSE}
    BY TokensDiffer DEF First, Last
  <1>4. i # 1 /\ i # Len(c)
    BY <1>2, <1>3 DEF WellFormed
  <1>5. i \in Nat \ {0} /\ 1 < i /\ i < Len(c)
    BY <1>1, <1>2, <1>4
  <1>6. Depth(c, i - 1) = 0
    BY <1>2, <1>3, <1>5, DepthBefore
  <1>7. i \in 1..(Len(c) - 1) /\ i - 1 \in 1..(Len(c) - 1) /\ (i - 1) + 1 = i
    BY <1>1, <1>5
  <1>8. c[i] \in Last <=> c[i + 1] \notin First
    BY <1>7 DEF WellFormed
  <1>9. c[i - 1] \in Last <=> c[(i - 1) + 1] \notin First
    BY <1>7 DEF WellFormed
  <1> QED
    BY <1>2, <1>3, <1>5, <1>6, <1>7, <1>8, <1>9

\* The parts of a well-formed condition are well formed.
LEMMA PartsAreWellFormed ==
  ASSUME NEW c, WellFormed(c), NEW op \in {AND, OR}, NEW p \in Parts(c, op)
  PROVE  WellFormed(p)
  <1>1. c \in Conditions /\ Len(c) \in Nat /\ Len(c) >= 1
    BY Ordinary DEF WellFormed
  <1>2. PICK m \in Nat \ {0}, n \in Nat :
           /\ p = SubSeq(c, m, n) /\ m <= n + 1 /\ n <= Len(c)
           /\ m = 1 \/ m - 1 \in Cuts(c, op)
           /\ n = Len(c) \/ n + 1 \in Cuts(c, op)
    BY <1>1, PartLies
  <1>3. c[m] \in First /\ Depth(c, m - 1) = 0
    <2>1. CASE m = 1
      <3>1. 0 \in Nat /\ 1 - 1 = 0
        OBVIOUS
      <3>2. Depth(c, 0) = 0
        BY <3>1, DepthStep
      <3> QED
        BY <2>1, <3>1, <3>2 DEF WellFormed
    <2>2. CASE m - 1 \in Cuts(c, op)
      <3>1. Depth(c, m - 1) = 0 /\ c[(m - 1) + 1] \in First
        BY <2>2, CutsAreInside
      <3>2. (m - 1) + 1 = m
        OBVIOUS
      <3> QED
        BY <3>1, <3>2
    <2> QED
      BY <1>2, <2>1, <2>2
  <1>4. n >= 1 /\ c[n] \in Last /\ Depth(c, n) = 0
    <2>1. CASE n = Len(c)
      BY <1>1, <2>1 DEF WellFormed
    <2>2. CASE n + 1 \in Cuts(c, op)
      <3>1. 1 < n + 1 /\ Depth(c, (n + 1) - 1) = 0 /\ c[(n + 1) - 1] \in Last
        BY <2>2, CutsAreInside
      <3>2. (n + 1) - 1 = n
        OBVIOUS
      <3> QED
        BY <3>1, <3>2
    <2> QED
      BY <1>2, <2>1, <2>2
  <1>5. m <= n
    <2> SUFFICES ASSUME m = n + 1 PROVE FALSE
      BY <1>2
    <2>1. m # 1 /\ m - 1 = n
      BY <1>4
    <2>2. n \in Cuts(c, op)
      BY <1>2, <2>1
    <2>3. c[n] = op /\ op \notin Last
      BY <2>2, CutsAreInside, TokensDiffer DEF Last
    <2> QED
      BY <1>4, <2>3
  <1>6. \A i \in m..n : Depth(c, i) >= 0
    BY <1>1, <1>2 DEF WellFormed
  <1>7. Depth(c, n) = Depth(c, m - 1) /\ \A i \in m..n : Depth(c, i) >= Depth(c, m - 1)
    BY <1>3, <1>4, <1>6
  <1> QED
    BY <1>2, <1>3, <1>4, <1>5, <1>7, WellFormedPiece

\* A well-formed condition that is cut is not one pair of parentheses.
LEMMA CutIsNotWrapped ==
  ASSUME NEW c, WellFormed(c), NEW op \in {AND, OR}, Cuts(c, op) # {}
  PROVE  Unwrapped(c) = c
  <1> SUFFICES ASSUME Len(c) > 1, c[1] = OPEN, c[Len(c)] = CLOSE, Balanced(Inner(c)) PROVE FALSE
    BY DEF Unwrapped
  <1>1. c \in Conditions /\ Len(c) \in Nat
    BY Ordinary DEF WellFormed
  <1>2. PICK i \in Cuts(c, op) : TRUE
    OBVIOUS
  <1>3. i \in Nat /\ 1 < i /\ i < Len(c) /\ Depth(c, i) = 0
    BY CutsAreInside
  <1> DEFINE s == Inner(c)
             j == i - 1
  <1>4. 2 \in Nat \ {0} /\ Len(c) - 1 \in Nat /\ Len(c) - 1 <= Len(c) /\ 2 <= Len(c) - 1
    BY <1>1, <1>3
  <1>5. /\ s \in Conditions
        /\ Len(s) = (Len(c) - 1) - 2 + 1
        /\ \A k \in 1..Len(s) : s[k] = c[(2 - 1) + k]
    BY <1>1, <1>4, Piece DEF Inner
  <1> HIDE DEF s
  <1>6. SameAfter(c, s, 1, Len(s)) /\ 1 \in Nat /\ Len(s) \in Nat
    BY <1>4, <1>5, <1>1 DEF SameAfter
  <1>7. \A k \in 0..Len(s) : Depth(c, 1 + k) = Depth(c, 1) + Depth(s, k)
    BY <1>6, DepthShift
  <1>8. Depth(c, 1) = 1
    <2>1. 1 \in Nat \ {0} /\ 1 - 1 = 0 /\ 0 \in Nat
      OBVIOUS
    <2>2. Depth(c, 1) = Depth(c, 1 - 1) + 1 /\ Depth(c, 0) = 0
      BY <2>1, DepthBefore, DepthStep
    <2> QED
      BY <2>1, <2>2
  <1>9. j \in 1..Len(s) /\ j \in 0..Len(s) /\ 1 + j = i
    BY <1>1, <1>3, <1>5
  <1>10. Depth(s, j) >= 0
    <2>1. \A k \in 1..Len(s) : Depth(s, k) >= 0
      BY <1>5, ByDepth DEF s
    <2> QED
      BY <1>9, <2>1
  <1> HIDE DEF j
  <1>11. Depth(c, 1 + j) = Depth(c, 1) + Depth(s, j)
    BY <1>7, <1>9
  <1>12. j \in Nat
    BY <1>9
  <1>13. Depth(s, j) \in Int
    BY <1>12, DepthStep
  <1> QED
    BY <1>3, <1>8, <1>9, <1>10, <1>11, <1>13

\* One that is not cut, and begins with a parenthesis, is a group.
LEMMA UncutIsGroup ==
  ASSUME NEW c, WellFormed(c), c[1] = OPEN, Cuts(c, AND) = {}, Cuts(c, OR) = {}
  PROVE  WellFormed(Inner(c)) /\ Unwrapped(c) = Inner(c)
  <1>1. c \in Conditions /\ Len(c) \in Nat /\ Len(c) >= 1 /\ \A i \in 1..Len(c) : c[i] \in Tokens
    BY Ordinary DEF WellFormed
  <1>2. \A i \in 1..Len(c) : c[i] \in {AND, OR} => Depth(c, i) # 0
    BY <1>1, ByDepth
  <1>3. \A i \in 1..Len(c) : Depth(c, i) >= 0 /\ Depth(c, i) \in Int
    BY <1>1, DepthStep DEF WellFormed
  <1>4. \A i \in 1..(Len(c) - 1) : c[i] \in Last <=> c[i + 1] \notin First
    BY DEF WellFormed
  <1>5. Depth(c, 1) = 1
    <2>1. 1 \in Nat \ {0} /\ 1 - 1 = 0 /\ 0 \in Nat
      OBVIOUS
    <2>2. Depth(c, 1) = Depth(c, 1 - 1) + 1 /\ Depth(c, 0) = 0
      BY <2>1, DepthBefore, DepthStep
    <2> QED
      BY <2>1, <2>2
  <1>6. Depth(c, Len(c)) = 0
    BY DEF WellFormed
  <1>7. Len(c) >= 2
    BY <1>1, <1>5, <1>6
  <1>8. \A i \in 1..(Len(c) - 1) : Depth(c, i) >= 1
    <2> DEFINE U == {i \in Nat : i \in 1..(Len(c) - 1) /\ ~(Depth(c, i) >= 1)}
    <2> SUFFICES ASSUME U # {} PROVE FALSE
      OBVIOUS
    <2> U \in SUBSET Nat
      OBVIOUS
    <2>1. PICK i \in U : \A j \in U : i <= j
      <3> HIDE DEF U
      <3> QED
        BY LeastOf
    <2>2. i \in Nat \ {0} /\ i \in 1..(Len(c) - 1) /\ i \in 1..Len(c) /\ i + 1 \in 1..Len(c) /\ i + 1 \in Nat \ {0}
      BY <1>1, <2>1
    <2>3. Depth(c, i) = 0
      BY <1>3, <2>1, <2>2
    <2>4. i # 1
      BY <1>5, <2>3
    <2>5. i - 1 \in 1..(Len(c) - 1) /\ i - 1 \in 1..Len(c) /\ (i - 1) + 1 = i /\ i - 1 \in Nat /\ ~(i <= i - 1)
      BY <1>1, <2>2, <2>4
    <2>6. Depth(c, i - 1) >= 1
      <3>1. i - 1 \notin U
        BY <2>1, <2>5
      <3> QED
        BY <2>5, <3>1
    <2>7. c[i] = CLOSE
      <3>1. c[i] = OPEN => Depth(c, i) = Depth(c, i - 1) + 1
        BY <2>2, DepthBefore
      <3>2. c[i] \notin {OPEN, CLOSE} => Depth(c, i) = Depth(c, i - 1)
        BY <2>2, DepthBefore
      <3>3. Depth(c, i - 1) \in Int
        BY <1>3, <2>5
      <3>4. c[i] # OPEN
        BY <2>3, <2>6, <3>1, <3>3
      <3>5. ~(c[i] \notin {OPEN, CLOSE})
        BY <2>3, <2>6, <3>2, <3>3
      <3> QED
        BY <3>4, <3>5
    <2>8. c[i + 1] \notin First
      BY <1>4, <2>2, <2>7 DEF Last
    <2>9. c[i + 1] \in {AND, OR, CLOSE}
      BY <1>1, <2>2, <2>8, FirstAndLast
    <2>10. (i + 1) - 1 = i
      BY <2>2
    <2>11. CASE c[i + 1] = CLOSE
      <3>1. Depth(c, i + 1) = Depth(c, (i + 1) - 1) - 1
        BY <2>2, <2>11, DepthBefore
      <3>2. Depth(c, i + 1) >= 0 /\ Depth(c, i + 1) \in Int
        BY <1>3, <2>2
      <3> QED
        BY <2>3, <2>10, <3>1, <3>2
    <2>12. CASE c[i + 1] \in {AND, OR}
      <3>1. c[i + 1] \notin {OPEN, CLOSE}
        BY <2>12, TokensDiffer
      <3>2. Depth(c, i + 1) = Depth(c, (i + 1) - 1)
        BY <2>2, <3>1, DepthBefore
      <3> QED
        BY <1>2, <2>2, <2>3, <2>10, <2>12, <3>2
    <2> QED
      BY <2>9, <2>11, <2>12
  <1>9. c[Len(c)] = CLOSE /\ Depth(c, Len(c) - 1) = 1
    <2>1. Len(c) \in Nat \ {0} /\ Len(c) - 1 \in 1..(Len(c) - 1) /\ Len(c) - 1 \in 1..Len(c)
      BY <1>1, <1>7
    <2>2. Depth(c, Len(c) - 1) >= 1 /\ Depth(c, Len(c) - 1) \in Int
      BY <1>3, <1>8, <2>1
    <2>3. c[Len(c)] = CLOSE => Depth(c, Len(c)) = Depth(c, Len(c) - 1) - 1
      BY <2>1, DepthBefore
    <2>4. c[Len(c)] \notin {OPEN, CLOSE} => Depth(c, Len(c)) = Depth(c, Len(c) - 1)
      BY <2>1, DepthBefore
    <2>5. c[Len(c)] # OPEN
      BY TokensDiffer DEF WellFormed, Last
    <2>6. c[Len(c)] = CLOSE
      BY <1>6, <2>2, <2>4, <2>5
    <2> QED
      BY <1>6, <2>2, <2>3, <2>6
  <1>10. OPEN \notin Last /\ CLOSE \notin First
    BY TokensDiffer DEF First, Last
  <1>11. c[2] \in First
    <2>1. 1 \in 1..(Len(c) - 1) /\ 1 + 1 = 2
      BY <1>1, <1>7
    <2>2. c[1] \in Last <=> c[1 + 1] \notin First
      BY <1>4, <2>1
    <2> QED
      BY <1>10, <2>1, <2>2
  <1>12. Len(c) # 2
    BY <1>9, <1>10, <1>11
  <1> DEFINE n == Len(c) - 1
  <1>13. n \in Nat /\ 2 <= n /\ n <= Len(c) /\ n + 1 = Len(c) /\ n \in 1..(Len(c) - 1) /\ 2 \in Nat \ {0} /\ 2 - 1 = 1
    <2>1. Len(c) >= 3
      <3>1. \A l \in Nat : l >= 2 /\ l # 2 => l >= 3
        OBVIOUS
      <3> QED
        BY <1>1, <1>7, <1>12, <3>1
    <2>2. n \in Nat /\ 2 <= n /\ n <= Len(c) /\ n + 1 = Len(c)
      BY <1>1, <2>1
    <2>3. n \in 1..(Len(c) - 1)
      BY <1>1, <2>1
    <2> HIDE DEF n
    <2> QED
      BY <2>2, <2>3
  <1>14. c[n] \in Last
    <2>1. c[n] \in Last <=> c[n + 1] \notin First
      BY <1>4, <1>13
    <2> QED
      BY <1>9, <1>10, <1>13, <2>1
  <1>15. Depth(c, n) = Depth(c, 2 - 1)
    BY <1>5, <1>9, <1>13
  <1>16. \A i \in 2..n : Depth(c, i) >= Depth(c, 2 - 1)
    BY <1>5, <1>8, <1>13
  <1>17. WellFormed(SubSeq(c, 2, n))
    <2> HIDE DEF n
    <2> QED
      BY <1>11, <1>13, <1>14, <1>15, <1>16, WellFormedPiece
  <1>18. WellFormed(Inner(c))
    BY <1>17 DEF Inner
  <1>19. Balanced(Inner(c))
    BY <1>18, ByDepth DEF WellFormed
  <1>20. Unwrapped(c) = Inner(c)
    BY <1>1, <1>7, <1>9, <1>19 DEF Unwrapped
  <1> QED
    BY <1>18, <1>20

\* What follows a leading "not" is well formed, and nothing is taken off before it.
LEMMA NotIsBeforeWellFormed ==
  ASSUME NEW c, WellFormed(c), c[1] = NOT
  PROVE  WellFormed(Tail(c)) /\ Len(c) > 1 /\ Unwrapped(c) = c
  <1>1. c \in Conditions /\ Len(c) \in Nat /\ Len(c) >= 1 /\ c # <<>>
    BY Ordinary DEF WellFormed
  <1>2. NOT \notin Last /\ NOT # OPEN /\ NOT # CLOSE
    BY TokensDiffer DEF Last
  <1>3. Len(c) # 1
    BY <1>2 DEF WellFormed
  <1>4. /\ 1 \in 1..(Len(c) - 1) /\ 1 + 1 = 2 /\ 2 \in Nat \ {0} /\ 2 <= Len(c) /\ 1 \in Nat \ {0}
        /\ 1 - 1 = 0 /\ 2 - 1 = 1 /\ 0 \in Nat
    BY <1>1, <1>3
  <1>5. c[2] \in First
    <2>1. c[1] \in Last <=> c[1 + 1] \notin First
      BY <1>4 DEF WellFormed
    <2> QED
      BY <1>2, <1>4, <2>1
  <1>6. Depth(c, 1) = 0
    <2>1. Depth(c, 1) = Depth(c, 1 - 1) /\ Depth(c, 0) = 0
      BY <1>2, <1>4, DepthBefore, DepthStep
    <2> QED
      BY <1>4, <2>1
  <1>7. c[Len(c)] \in Last /\ Depth(c, Len(c)) = Depth(c, 2 - 1)
    BY <1>4, <1>6 DEF WellFormed
  <1>8. \A i \in 2..Len(c) : Depth(c, i) >= Depth(c, 2 - 1)
    BY <1>1, <1>4, <1>6 DEF WellFormed
  <1>9. WellFormed(SubSeq(c, 2, Len(c)))
    BY <1>1, <1>4, <1>5, <1>7, <1>8, WellFormedPiece
  <1>10. Unwrapped(c) = c
    BY <1>2 DEF Unwrapped
  <1>11. Tail(c) = SubSeq(c, 2, Len(c))
    BY <1>1, Ordinary
  <1>12. Len(c) > 1
    BY <1>1, <1>3, SMTT(60)
  <1>13. WellFormed(Tail(c))
    BY <1>9, <1>11
  <1> QED
    BY <1>10, <1>12, <1>13

\* A piece that negates something is of a condition that does.
LEMMA PieceHasNot ==
  ASSUME NEW c \in Conditions, NEW m \in Nat \ {0}, NEW n \in Nat, n <= Len(c), HasNot(SubSeq(c, m, n))
  PROVE  HasNot(c)
  <1> DEFINE s == SubSeq(c, m, n)
  <1>1. /\ s \in Conditions
        /\ Len(s) = IF m <= n THEN n - m + 1 ELSE 0
        /\ \A i \in 1..Len(s) : s[i] = c[(m - 1) + i]
    BY Piece
  <1>2. DOMAIN s = 1..Len(s) /\ DOMAIN c = 1..Len(c) /\ Len(c) \in Nat
    BY <1>1, LenProperties DEF Conditions
  <1>3. PICK i \in DOMAIN s : s[i] = NOT
    BY DEF HasNot
  <1> HIDE DEF s
  <1>4. (m - 1) + i \in 1..Len(c)
    BY <1>1, <1>2, <1>3
  <1> QED
    BY <1>1, <1>2, <1>3, <1>4 DEF HasNot

\* The two evaluations of a condition agree, as far as they promise to.
Agree(c) ==
  \A e \in Rows : Total(e) \/ ~HasNot(c) => Alike(e, SqlValue(c, e), SigmaValue(c, e))

\* If the parts agree, what joins them agrees.
LEMMA CutsAgree ==
  ASSUME NEW c, WellFormed(c), NEW op \in {AND, OR}, Cuts(c, op) # {},
         \A p \in Parts(c, op) : Agree(p),
         NEW e \in Rows, Total(e) \/ ~HasNot(c)
  PROVE  /\ Alike(e, And3({SqlValues(e)[p] : p \in Parts(c, op)}), And3({SigmaValues(e)[p] : p \in Parts(c, op)}))
         /\ Alike(e, Or3({SqlValues(e)[p] : p \in Parts(c, op)}), Or3({SigmaValues(e)[p] : p \in Parts(c, op)}))
  <1> DEFINE P == Parts(c, op)
             f == SqlValues(e)
             g == SigmaValues(e)
  <1>0. c \in Conditions
    BY DEF WellFormed
  <1>1. ASSUME NEW p \in P PROVE f[p] \in Vals /\ g[p] \in Vals /\ Alike(e, f[p], g[p])
    <2>1. p \in Conditions
      BY <1>0, PartsAreShorter
    <2>2. f[p] \in Vals
      BY <2>1, SqlValuesDef
    <2>3. g[p] \in Vals
      BY <2>1, SigmaValuesDef
    <2>4. PICK m \in Nat \ {0}, n \in Nat : p = SubSeq(c, m, n) /\ n <= Len(c)
      BY <1>0, PartLies
    <2>5. HasNot(p) => HasNot(c)
      BY <1>0, <2>4, PieceHasNot
    <2>6. Alike(e, f[p], g[p])
      BY <2>5 DEF Agree, SqlValue, SigmaValue
    <2> QED
      BY <2>2, <2>3, <2>6
  <1>2. AllAlike(e, P, f, g)
    BY <1>1 DEF AllAlike
  <1>3. /\ Image(f, P) = {SqlValues(e)[p] : p \in Parts(c, op)}
        /\ Image(g, P) = {SigmaValues(e)[p] : p \in Parts(c, op)}
    BY DEF Image
  <1> HIDE DEF P, f, g
  <1>4. /\ Alike(e, And3(Image(f, P)), And3(Image(g, P)))
        /\ Alike(e, Or3(Image(f, P)), Or3(Image(g, P)))
    BY <1>2, JoinsAlike
  <1> QED
    BY <1>3, <1>4

\* Plain conditions of any length agree, by induction on it.
LEMMA PlainStepAgrees ==
  ASSUME NEW c, WellFormed(c), Plain(c),
         \A d \in Conditions : Len(d) < Len(c) => (WellFormed(d) /\ Plain(d) => Agree(d))
  PROVE  Agree(c)
  <1>1. c \in Conditions /\ Len(c) \in Nat /\ Len(c) >= 1 /\ c # <<>> /\ 1 \in 1..Len(c) /\ c[1] \in First
    BY Ordinary DEF WellFormed
  <1>2. PlainStep(PlainConditions, c)
    BY <1>1, PlainDef DEF Plain
  <1> SUFFICES ASSUME NEW e \in Rows, Total(e) \/ ~HasNot(c)
               PROVE  Alike(e, SqlValue(c, e), SigmaValue(c, e))
    BY DEF Agree
  <1>3. SqlValue(c, e) = SqlStep(SqlValues(e), c, e) /\ SqlValue(c, e) \in Vals
    BY <1>1, SqlValuesDef DEF SqlValue
  <1>4. SigmaValue(c, e) = SigmaStep(SigmaValues(e), c, e)
    BY <1>1, SigmaValuesDef DEF SigmaValue
  <1>5. CASE Cuts(c, OR) # {} \/ Cuts(c, AND) # {}
    <2>1. /\ Cuts(c, OR) = {} \/ Cuts(c, AND) = {}
          /\ c[1] # NOT
          /\ \A p \in Parts(c, OR) \union Parts(c, AND) : p # c => Plain(p)
      BY <1>1, <1>2, <1>5 DEF PlainStep, Plain
    <2>2. ASSUME NEW op \in {AND, OR}, Cuts(c, op) # {}, NEW p \in Parts(c, op) PROVE Agree(p)
      <3>1. p \in Conditions /\ Len(p) < Len(c)
        BY <1>1, <2>2, PartsAreShorter
      <3>2. p # c
        BY <1>1, <3>1
      <3>3. Plain(p)
        BY <2>1, <2>2, <3>2
      <3>4. WellFormed(p)
        BY <2>2, PartsAreWellFormed
      <3> QED
        BY <3>1, <3>3, <3>4
    <2>3. Unwrapped(c) = c
      BY <1>5, CutIsNotWrapped
    <2>4. CASE Cuts(c, AND) # {}
      <3>1. SqlValue(c, e) = And3({SqlValues(e)[p] : p \in Parts(c, AND)})
        BY <1>1, <1>3, <2>1, <2>3, <2>4 DEF SqlStep
      <3>2. SigmaValue(c, e) = And3({SigmaValues(e)[p] : p \in Parts(c, AND)})
        BY <1>1, <1>4, <2>1, <2>4 DEF SigmaStep
      <3>3. \A p \in Parts(c, AND) : Agree(p)
        BY <2>2, <2>4
      <3> QED
        BY <2>4, <3>1, <3>2, <3>3, CutsAgree
    <2>5. CASE Cuts(c, AND) = {}
      <3>0. Cuts(c, OR) # {}
        BY <1>5, <2>5
      <3>1. SqlValue(c, e) = Or3({SqlValues(e)[p] : p \in Parts(c, OR)})
        BY <1>1, <1>3, <2>1, <2>3, <2>5, <3>0 DEF SqlStep
      <3>2. SigmaValue(c, e) = Or3({SigmaValues(e)[p] : p \in Parts(c, OR)})
        BY <1>1, <1>4, <3>0 DEF SigmaStep
      <3>3. \A p \in Parts(c, OR) : Agree(p)
        BY <2>2, <3>0
      <3> QED
        BY <3>0, <3>1, <3>2, <3>3, CutsAgree
    <2> QED
      BY <2>4, <2>5
  <1>6. CASE Cuts(c, OR) = {} /\ Cuts(c, AND) = {}
    <2>1. CASE c[1] = NOT
      <3>1. WellFormed(Tail(c)) /\ Len(c) > 1 /\ Unwrapped(c) = c
        BY <2>1, NotIsBeforeWellFormed
      <3>2. Tail(c) \in Conditions /\ Len(Tail(c)) < Len(c)
        BY <1>1, Ordinary
      <3>3. Plain(Tail(c))
        BY <1>1, <1>2, <1>6, <2>1 DEF PlainStep, Plain
      <3>4. Agree(Tail(c))
        BY <3>1, <3>2, <3>3
      <3>5. HasNot(c)
        <4>1. DOMAIN c = 1..Len(c)
          BY <1>1, LenProperties DEF Conditions
        <4> QED
          BY <1>1, <2>1, <4>1 DEF HasNot
      <3>6. SqlValues(e)[Tail(c)] = SigmaValues(e)[Tail(c)]
        BY <3>4, <3>5 DEF Agree, Alike, SqlValue, SigmaValue
      <3>7. SqlValue(c, e) = Not3(SqlValues(e)[Tail(c)])
        BY <1>1, <1>3, <2>1, <3>1 DEF SqlStep
      <3>8. SigmaValue(c, e) = Not3(SigmaValues(e)[Tail(c)])
        BY <1>1, <1>4, <1>6, <2>1 DEF SigmaStep
      <3> QED
        BY <3>6, <3>7, <3>8 DEF Alike
    <2>2. CASE c[1] = OPEN
      <3>0. OPEN # NOT
        BY TokensDiffer
      <3>1. WellFormed(Inner(c)) /\ Unwrapped(c) = Inner(c)
        BY <1>6, <2>2, UncutIsGroup
      <3>2. Inner(c) \in Conditions /\ Len(Inner(c)) < Len(c)
        BY <1>1, InnerIsPiece
      <3>3. Unwrapped(Inner(c)) = Inner(c) /\ Plain(Inner(c))
        BY <1>1, <1>2, <1>6, <2>2, <3>0 DEF PlainStep, Plain
      <3>4. Agree(Inner(c))
        BY <3>1, <3>2, <3>3
      <3>5. HasNot(Inner(c)) => HasNot(c)
        <4>1. 2 \in Nat \ {0} /\ Len(c) - 1 \in Nat /\ Len(c) - 1 <= Len(c)
          BY <1>1
        <4> QED
          BY <1>1, <4>1, PieceHasNot DEF Inner
      <3>6. Alike(e, SqlValue(Inner(c), e), SigmaValue(Inner(c), e))
        BY <3>4, <3>5 DEF Agree
      <3>7. SqlValue(Inner(c), e) = SqlStep(SqlValues(e), Inner(c), e)
        BY <3>2, SqlValuesDef DEF SqlValue
      <3>8. SqlStep(SqlValues(e), Inner(c), e) = SqlStep(SqlValues(e), c, e)
        BY <3>1, <3>3 DEF SqlStep
      <3>9. SigmaValue(c, e) = SigmaValue(Inner(c), e)
        BY <1>1, <1>4, <1>6, <2>2, <3>0 DEF SigmaStep, SigmaValue
      <3> QED
        BY <1>3, <3>6, <3>7, <3>8, <3>9
    <2>3. CASE c[1] \in Atoms
      <3>0. c[1] # NOT /\ c[1] # OPEN
        BY <2>3, TokensDiffer
      <3>1. Unwrapped(c) = c
        BY <3>0 DEF Unwrapped
      <3>2. PlainAtom(c[1])
        BY <1>1, <1>2, <1>6, <3>0 DEF PlainStep, PlainAtom
      <3>3. SqlValue(c, e) = AtomSql(c[1], e)
        BY <1>1, <1>3, <1>6, <2>3, <3>0, <3>1 DEF SqlStep
      <3>4. SigmaValue(c, e) = SigmaAtom(c[1], e)
        BY <1>1, <1>4, <1>6, <3>0 DEF SigmaStep
      <3> QED
        BY <2>3, <3>2, <3>3, <3>4, AtomsAlike
    <2> QED
      BY <1>1, <2>1, <2>2, <2>3 DEF First
  <1> QED
    BY <1>5, <1>6

\* So all plain conditions agree.
LEMMA PlainConditionsAgree ==
  ASSUME NEW c, WellFormed(c), Plain(c)
  PROVE  Agree(c)
  <1> DEFINE G == {d \in Conditions : WellFormed(d) /\ Plain(d) => Agree(d)}
  <1>1. \A d \in Conditions : Len(d) \in Nat
    BY Ordinary
  <1>2. ASSUME NEW d \in Conditions, \A k \in Conditions : Len(k) < Len(d) => k \in G PROVE d \in G
    <2> SUFFICES ASSUME WellFormed(d), Plain(d) PROVE Agree(d)
      OBVIOUS
    <2>1. \A k \in Conditions : Len(k) < Len(d) => (WellFormed(k) /\ Plain(k) => Agree(k))
      BY <1>2
    <2> QED
      BY <2>1, PlainStepAgrees
  <1>3. \A d \in Conditions : d \in G
    <2> HIDE DEF G
    <2> QED
      BY <1>1, <1>2, ByLength
  <1> QED
    BY <1>3 DEF WellFormed

(* A plain condition combines detections as Sigma's precedence does and so *)
(* selects the same events, given what each selects alone, for any rule,   *)
(* any events and conditions of any length, unless it negates something    *)
(* and the event lacks fields.                                             *)
THEOREM PlainRulesCompile == SigmaSpec => []CompilesAsSigma
  <1>1. SigmaInv => CompilesAsSigma
    <2> SUFFICES ASSUME SigmaInv, Plain(cond), NEW e \in Rows, Total(e) \/ ~HasNot(cond)
                 PROVE  SqlMatches(cond, e) = SigmaMatches(cond, e)
      BY DEF CompilesAsSigma
    <2>1. Alike(e, SqlValue(cond, e), SigmaValue(cond, e))
      BY PlainConditionsAgree DEF SigmaInv, Agree
    <2>2. SqlValue(cond, e) = "T" <=> SigmaValue(cond, e) = "T"
      BY <2>1 DEF Alike
    <2> QED
      BY <2>2 DEF SqlMatches, SigmaMatches
  <1> QED
    BY <1>1, ConditionsAreWellFormed, PTL
=============================================================================
