------------------------------ MODULE MCResponse -----------------------------
(* Execution receipts for TLC: three receipts of two cases, two requests at*)
(* a time; and the cases of TheHive: two detections that call for one and  *)
(* one that does not, a client that answers and one that does not; and the *)
(* graph of three events.                                                  *)
EXTENDS Receipts, TheHive, ThreatGraph

CONSTANTS r1, r2, r3, k1, k2, h1, h2

MCReceiptIds == {r1, r2, r3}
MCCases == {k1, k2}
MCCaseOf == [r \in MCReceiptIds |-> IF r = r3 THEN k2 ELSE k1]
MCTaxonomyOf == [r \in MCReceiptIds |->
                   CASE r = r1 -> "noop_already_present"
                     [] r = r2 -> "rolled_back"
                     [] r = r3 -> "expired_rejected"]

\* A process, a line of the firewall, and a logon of the case; the case is drawn
\* in by an edge.
MCEvent ==
  LET nothing == [host |-> "h", user |-> "", proc |-> "", file |-> "", ip |-> "", domain |-> "",
                  zone |-> "", case |-> "", time |-> 1, logon |-> FALSE, firewall |-> FALSE,
                  blocked |-> FALSE, source |-> TRUE]
  IN  [run  |-> [nothing EXCEPT !.user = "u", !.proc = "p"],
       drop |-> [nothing EXCEPT !.ip = "i", !.zone = "z", !.time = 2, !.firewall = TRUE],
       log  |-> [nothing EXCEPT !.user = "u", !.case = "k", !.time = 3, !.logon = TRUE]]
MCEvents == DOMAIN MCEvent
MCDrawn == {<<<<"case", "k">>, "related_to", <<"host", "h">>>>}
MCBatches == {<<"log", "drop">>, <<"run">>}

VARIABLES
  part

MCInit == /\ part \in {"receipts", "thehive", "threats"}
          /\ Init
          /\ HiveInit
          /\ part = "thehive" \/ answers
          /\ GraphInit

\* A part leaves the variables of the others alone.
ReceiptsOnly == part = "receipts" /\ UNCHANGED <<part, hiveVars, graphVars>>
ThehiveOnly == part = "thehive" /\ UNCHANGED <<part, vars, graphVars>>
ThreatsOnly == part = "threats" /\ UNCHANGED <<part, vars, hiveVars>>

MCNext ==
  \/ ReceiptsOnly /\ Next
  \/ ThehiveOnly /\ HiveNext
  \/ ThreatsOnly /\ GraphNext

\* One part runs, so that fairness to a disjunction over the parts is fairness
\* to the action of the part that runs.
Fair1 ==
  \/ ReceiptsOnly /\ Handle(h1, r1)
  \/ ThehiveOnly /\ Drain
Fair2 ==
  \/ ReceiptsOnly /\ Handle(h1, r2)
  \/ ThehiveOnly /\ Sync
Fair3 ==
  \/ ReceiptsOnly /\ Handle(h1, r3)
  \/ ThehiveOnly /\ Create("d1")
Fair4 ==
  \/ ReceiptsOnly /\ Handle(h2, r1)
  \/ ThehiveOnly /\ Create("d2")
Fair5 ==
  \/ ReceiptsOnly /\ Handle(h2, r2)
  \/ ThehiveOnly /\ Create("d3")
Fair6 ==
  \/ ReceiptsOnly /\ Handle(h2, r3)

allVars == <<part, vars, hiveVars, graphVars>>

MCSpec == /\ MCInit /\ [][MCNext]_allVars
          /\ WF_allVars(Fair1)
          /\ WF_allVars(Fair2)
          /\ WF_allVars(Fair3)
          /\ WF_allVars(Fair4)
          /\ WF_allVars(Fair5)
          /\ WF_allVars(Fair6)
==============================================================================
