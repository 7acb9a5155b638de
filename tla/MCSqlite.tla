------------------------------ MODULE MCSqlite -------------------------------
(* The shared connection for TLC, with two methods and two sections of two *)
(* rows each; and the indicators with an event that has the address as its *)
(* source, one that has it as its destination, a guarded sync and the      *)
(* unguarded one of MISP.                                                  *)
EXTENDS SharedConnection, IocIntel

CONSTANTS m1, m2, s1, s2

MCSize == [c \in {m1, m2, s1, s2} |-> 2]

MCAddressOf == [i \in Iocs |-> "ip1"]
MCSrc == [e \in Events |-> IF e = "e1" THEN "ip1" ELSE "ip2"]
MCDst == [e \in Events |-> IF e = "e1" THEN "ip2" ELSE "ip1"]

VARIABLES
  part

MCInit == /\ part \in {"connection", "indicators"}
          /\ Init
          /\ IocInit

\* A part leaves the variables of the others alone.
ConnectionOnly == part = "connection" /\ UNCHANGED <<part, iocVars>>
IndicatorsOnly == part = "indicators" /\ UNCHANGED <<part, vars>>

MCNext ==
  \/ ConnectionOnly /\ Next
  \/ IndicatorsOnly /\ IocNext

\* One part runs, so that fairness to a disjunction over the parts is fairness
\* to the action of the part that runs.
Fair1 ==
  \/ IndicatorsOnly /\ Save("feodo")
Fair2 ==
  \/ IndicatorsOnly /\ Save("misp")
Fair3 ==
  \/ IndicatorsOnly /\ Scan("i1")
Fair4 ==
  \/ IndicatorsOnly /\ Ingest("e1")
Fair5 ==
  \/ IndicatorsOnly /\ Ingest("e2")

allVars == <<part, vars, iocVars>>

MCSpec == /\ MCInit /\ [][MCNext]_allVars
          /\ WF_allVars(Fair1)
          /\ WF_allVars(Fair2)
          /\ WF_allVars(Fair3)
          /\ WF_allVars(Fair4)
          /\ WF_allVars(Fair5)
==============================================================================
