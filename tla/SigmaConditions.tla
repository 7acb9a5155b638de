--------------------------- MODULE SigmaConditions ---------------------------
(***************************************************************************)
(* detections/matcher.py: how a Sigma rule becomes the WHERE clause of a   *)
(* query.  A condition is a sequence of tokens; it is compiled by cutting  *)
(* it up, and the names in it stand for detections, lists of items of a    *)
(* field and its values.  Compiling and evaluating are one recursion here: *)
(* SqlValue(c, e) is what the compiled clause of condition c yields for    *)
(* event e in SQL's three-valued logic, "none" when nothing was compiled,  *)
(* and "raise" when the rule uses something unsupported.  SigmaValue is    *)
(* the reference: the precedence of the Sigma specification, in which      *)
(* "not" binds tighter than "and" and "and" tighter than "or".  It is a    *)
(* reference for how detections are combined: what a single one selects is *)
(* DetectionSql in both, but for NULLs, which the reference does not have. *)
(***************************************************************************)
EXTENDS Naturals, Sequences, FiniteSets

CONSTANTS
  Selections,   \* the detections of the rule: name -> [link, items]
  Capital,      \* the names that have capital letters
  Prefix,       \* prefix -> the names that start with it, whatever their case
  Mapped,       \* the fields of SIGMA_FIELD_MAP
  Skipped,      \* the values that are wildcards only
  Rows,         \* the events: column -> the values it matches, or NULL
  NULL,
  MaxTokens     \* bound on the length of a condition

Names == DOMAIN Selections

(* The words of the grammar name no detection; an event has every column   *)
(* that a field is mapped to.                                              *)
ASSUME SigmaAssumption ==
  /\ Names \intersect {"and", "or", "not", "(", ")"} = {}
  /\ \A e \in Rows : Mapped \subseteq DOMAIN e
  /\ MaxTokens \in Nat

VARIABLE cond   \* the condition of the rule

Quantified == {"1", "2", "all"} \X (DOMAIN Prefix \union {"them"})
Atoms == {<<n>> : n \in Names} \union Quantified

AND == <<"and">>
OR == <<"or">>
NOT == <<"not">>
OPEN == <<"(">>
CLOSE == <<")">>

Conditions == Seq(Atoms \union {AND, OR, NOT, OPEN, CLOSE})

-----------------------------------------------------------------------------
(* Three-valued logic, and fragments that were not compiled. *)

Kept(vals) == vals \ {"none"}

And3(vals) ==
  IF "raise" \in vals THEN "raise"
  ELSE IF Kept(vals) = {} THEN "none"
  ELSE IF "F" \in vals THEN "F"
  ELSE IF "N" \in vals THEN "N"
  ELSE "T"

Or3(vals) ==
  IF "raise" \in vals THEN "raise"
  ELSE IF Kept(vals) = {} THEN "none"
  ELSE IF "T" \in vals THEN "T"
  ELSE IF "N" \in vals THEN "N"
  ELSE "F"

Not3(v) == IF v = "T" THEN "F" ELSE IF v = "F" THEN "T" ELSE v

(* _value_to_sql_fragment and _regex_to_sql_fragment: one comparison.  A   *)
(* column that is NULL makes it NULL; values of wildcards only are left    *)
(* out.                                                                    *)
ValueSql(field, v, e) ==
  IF v \in Skipped THEN "none"
  ELSE IF e[field] = NULL THEN "N"
  ELSE IF v \in e[field] THEN "T" ELSE "F"

(* _detection_item_to_fragments: an unsupported modifier raises, a field   *)
(* that is not mapped is dropped, the values are joined by OR or, with     *)
(* |all, by AND.                                                           *)
ItemSql(item, e) ==
  LET vals == {ValueSql(item.field, v, e) : v \in item.values}
  IN IF ~item.supported THEN "raise"
     ELSE IF item.field \notin Mapped THEN "none"
     ELSE IF item.all THEN And3(vals) ELSE Or3(vals)

(* _detection_to_sql: the items, joined as the rule links them. *)
DetectionSql(n, e) ==
  LET d == Selections[n]
      vals == {ItemSql(d.items[i], e) : i \in DOMAIN d.items}
  IN IF d.link = "and" THEN And3(vals) ELSE Or3(vals)

(* The names an "N of" speaks of.  The condition was put into lower case   *)
(* before, so a prefix finds no name with a capital letter.                *)
TargetNames(t) == IF t = "them" THEN Names ELSE Prefix[t] \ Capital

\* Mutant: "all of" is joined by OR as well.
AtomSqlAny(a, e) ==
  IF Len(a) = 1 THEN DetectionSql(a[1], e) ELSE Or3({DetectionSql(n, e) : n \in TargetNames(a[2])})

(* The last branches: "1 of x*", "all of them", or a name.  Every number   *)
(* is treated as 1.                                                        *)
AtomSql(a, e) ==
  IF Len(a) = 1 THEN DetectionSql(a[1], e)
  ELSE LET vals == {DetectionSql(n, e) : n \in TargetNames(a[2])}
       IN IF a[1] = "all" THEN And3(vals) ELSE Or3(vals)

-----------------------------------------------------------------------------
(* _balanced and _split_condition: parentheses, and the cuts outside them. *)

Opened(c, i) == Cardinality({j \in 1..i : c[j] = OPEN})
Closed(c, i) == Cardinality({j \in 1..i : c[j] = CLOSE})

Balanced(c) == /\ \A i \in 1..Len(c) : Closed(c, i) <= Opened(c, i)
               /\ Closed(c, Len(c)) = Opened(c, Len(c))

Cuts(c, op) == {i \in 1..Len(c) : c[i] = op /\ Opened(c, i) = Closed(c, i)}

Parts(c, op) ==
  LET ends == Cuts(c, op) \union {Len(c) + 1}
      start(j) == LET before == {i \in Cuts(c, op) : i < j}
                  IN IF before = {} THEN 1
                     ELSE 1 + CHOOSE i \in before : \A k \in before : k <= i
  IN {SubSeq(c, start(j), j - 1) : j \in ends}

Inner(c) == SubSeq(c, 2, Len(c) - 1)

Unwrapped(c) ==
  IF Len(c) > 1 /\ c[1] = OPEN /\ c[Len(c)] = CLOSE /\ Balanced(Inner(c))
    THEN Inner(c) ELSE c

(* _build_condition_sql, in the order of its branches, with the values of  *)
(* shorter conditions.  What no branch resolves, a second pair of          *)
(* parentheses for one, yields nothing.                                    *)
SqlStep(value, c0, e) ==
  LET c == Unwrapped(c0)
  IN IF c = <<>> THEN "none"
     ELSE IF Len(c) > 1 /\ c[1] = NOT THEN Not3(value[Tail(c)])
     ELSE IF Cuts(c, AND) # {} THEN And3({value[p] : p \in Parts(c, AND)})
     ELSE IF Cuts(c, OR) # {} THEN Or3({value[p] : p \in Parts(c, OR)})
     ELSE IF c[1] \in Atoms THEN AtomSql(c[1], e)
     ELSE "none"

SqlValues(e) == LET value[c \in Conditions] == SqlStep(value, c, e) IN value
SqlValue(c, e) == SqlValues(e)[c]

(* rule_to_sql and match_rule: a rule that compiles to nothing is skipped, *)
(* and an event matches when its clause is true, not when it is NULL.      *)
SqlMatches(c, e) == SqlValue(c, e) = "T"

-----------------------------------------------------------------------------
(* The reference.  A field that an event lacks equals nothing; a field     *)
(* that is not mapped is dropped, as matcher.py's docstring says, and an   *)
(* item with it, with a list of wildcards or with an unsupported modifier  *)
(* selects what the compiler makes it select.                              *)

SigmaAtom(a, e) ==
  LET present == [f \in DOMAIN e |-> IF e[f] = NULL THEN {} ELSE e[f]]
      names == IF Len(a) = 1 THEN {a[1]} ELSE IF a[2] = "them" THEN Names ELSE Prefix[a[2]]
      vals == {DetectionSql(n, present) : n \in names}
  IN IF Len(a) = 2 /\ a[1] = "1" THEN Or3(vals)
     ELSE IF Len(a) = 2 /\ a[1] = "2"
       THEN IF vals \intersect {"raise"} = {} /\ Cardinality({n \in names : DetectionSql(n, present) = "T"}) < 2
              THEN "F" ELSE Or3(vals)
     ELSE And3(vals)

SigmaStep(value, c, e) ==
  IF c = <<>> THEN "none"
  ELSE IF Cuts(c, OR) # {} THEN Or3({value[p] : p \in Parts(c, OR)})
  ELSE IF Cuts(c, AND) # {} THEN And3({value[p] : p \in Parts(c, AND)})
  ELSE IF c[1] = NOT THEN Not3(value[Tail(c)])
  ELSE IF c[1] = OPEN THEN value[Inner(c)]
  ELSE SigmaAtom(c[1], e)

SigmaValues(e) == LET value[c \in Conditions] == SigmaStep(value, c, e) IN value
SigmaValue(c, e) == SigmaValues(e)[c]

SigmaMatches(c, e) == SigmaValue(c, e) = "T"

-----------------------------------------------------------------------------
(* Every condition of up to MaxTokens tokens, built piece by piece. *)

SigmaInit == \E a \in Atoms : cond = <<a>>

Negate == cond' = <<NOT>> \o cond
Group == cond' = <<OPEN>> \o cond \o <<CLOSE>>
Join == \E a \in Atoms, op \in {AND, OR}, before \in BOOLEAN, n \in {<<>>, <<NOT>>} :
          cond' = IF before THEN n \o <<a, op>> \o cond ELSE cond \o <<op>> \o n \o <<a>>

SigmaNext == (Negate \/ Group \/ Join) /\ Len(cond') <= MaxTokens

SigmaSpec == SigmaInit /\ [][SigmaNext]_cond

(* What Sigma and the compiler read alike: no "and" beside an "or", no     *)
(* "not" in front of a chain, no group within a group of its own, no       *)
(* number but 1, and no prefix of names in capital letters.                *)
PlainStep(plain, c) ==
  IF c = <<>> THEN FALSE
  ELSE IF Cuts(c, OR) # {} \/ Cuts(c, AND) # {}
    THEN /\ Cuts(c, OR) = {} \/ Cuts(c, AND) = {}
         /\ c[1] # NOT
         /\ \A p \in Parts(c, OR) \union Parts(c, AND) : p # c => plain[p]
  ELSE IF c[1] = NOT THEN plain[Tail(c)]
  ELSE IF c[1] = OPEN THEN Unwrapped(Inner(c)) = Inner(c) /\ plain[Inner(c)]
  ELSE Len(c[1]) = 2 => /\ c[1][1] # "2"
                        /\ c[1][2] = "them" \/ Prefix[c[1][2]] \intersect Capital = {}

PlainConditions == LET plain[c \in Conditions] == PlainStep(plain, c) IN plain
Plain(c) == PlainConditions[c]

Total(e) == \A f \in DOMAIN e : e[f] # NULL
HasNot(c) == \E i \in DOMAIN c : c[i] = NOT

(* A plain condition combines detections as Sigma's precedence does: it    *)
(* selects the same events, given what each of them selects, whatever is   *)
(* nested in what, also for events that lack fields unless the condition   *)
(* negates something: NOT of a NULL is NULL, and matches nothing.          *)
CompilesAsSigma ==
  Plain(cond) => \A e \in Rows :
    Total(e) \/ ~HasNot(cond) => SqlMatches(cond, e) = SigmaMatches(cond, e)

(* rules/sigma/README.md: each file is parsed as a Sigma rule and compiled *)
(* to a query.  So the operators must bind as the Sigma specification has  *)
(* it, in every condition over names, for complete events.                 *)
OperatorsBindAsSigma ==
  (\A i \in DOMAIN cond : cond[i] \notin Quantified) =>
    \A e \in Rows : Total(e) => SqlMatches(cond, e) = SigmaMatches(cond, e)
=============================================================================
