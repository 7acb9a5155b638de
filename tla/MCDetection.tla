------------------------------ MODULE MCDetection ----------------------------
(* Detections for TLC: three rules and two events, one request to detect,  *)
(* one detection that an analyst enters and two who triage; and the        *)
(* conditions of one rule with six detections up to five tokens.           *)
EXTENDS Detections, SigmaConditions

\* Three rules, the second not convertible, the third without the tag.
MCRULES == <<[id |-> "a", convertible |-> TRUE,  high |-> TRUE,  tagged |-> TRUE],
             [id |-> "b", convertible |-> FALSE, high |-> FALSE, tagged |-> FALSE],
             [id |-> "c", convertible |-> TRUE,  high |-> FALSE, tagged |-> FALSE]>>
MCMatching == <<<<{"e1", "e2"}, {}, {"e1"}>>, <<{}, {}, {}>>, <<{"e2"}, {}, {"e2"}>>>>

Item(f, s, a, vs) == [field |-> f, supported |-> s, all |-> a, values |-> vs]
MCNamed ==
  [sel |-> [link |-> "and", items |-> <<Item("image", TRUE, FALSE, {"p", "w"}), Item("Initiated", TRUE, FALSE, {"p"})>>],
   xa  |-> [link |-> "or",  items |-> <<Item("image", TRUE, FALSE, {"w"}), Item("user", TRUE, TRUE, {"p", "w"})>>],
   xb  |-> [link |-> "and", items |-> <<Item("user", TRUE, FALSE, {"p", "*"})>>],
   Sh  |-> [link |-> "and", items |-> <<Item("user", TRUE, FALSE, {"w"})>>],
   off |-> [link |-> "and", items |-> <<Item("Initiated", TRUE, FALSE, {"p"})>>],
   b64 |-> [link |-> "and", items |-> <<Item("user", FALSE, FALSE, {"p"})>>]]
MCPrefixes == [x |-> {"xa", "xb"}, s |-> {"sel", "Sh"}]
MCRows == [{"image", "user"} -> {NULL, {}, {"p"}, {"p", "w"}}]

VARIABLES
  part

MCInit == /\ part \in {"detections", "conditions"}
          /\ Init
          /\ SigmaInit
          /\ part = "conditions" \/ cond = <<<<"sel">>>>

\* A part leaves the variables of the others alone.
DetectionsOnly == part = "detections" /\ UNCHANGED <<part, cond>>
ConditionsOnly == part = "conditions" /\ UNCHANGED <<part, vars>>

MCNext ==
  \/ DetectionsOnly /\ Next
  \/ ConditionsOnly /\ SigmaNext

\* One part runs, so that fairness to a disjunction over the parts is fairness
\* to the action of the part that runs.
Fair1 ==
  \/ DetectionsOnly /\ Triage(Worker)

allVars == <<part, vars, cond>>

MCSpec == /\ MCInit /\ [][MCNext]_allVars
          /\ WF_allVars(Fair1)
==============================================================================
