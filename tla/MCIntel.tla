------------------------------ MODULE MCIntel --------------------------------
(* Recommendations for TLC with one artifact, two operators and a clock of *)
(* three values; one OSINT investigation of two findings and two polls; a  *)
(* source that writes three records in two seconds, with pages of two; two *)
(* datasets of Malcolm that are polled one after the other, for each place *)
(* of the dispatch; and the Ubuntu pipeline over two days, with a line that*)
(* does not parse at the writer, one that does not at the collector, and   *)
(* one on which the collector raises.                                      *)
EXTENDS Recommendations, OsintInvestigation, Collectors, MalcolmPoll, UbuntuPipeline

\* Two neighbours in the order in which the datasets are polled.
Watched(i) == {DispatchTable[2 * i - 1][1], DispatchTable[2 * i][1]}
MCWatches == {Watched(i) : i \in 1..14}

VARIABLES
  part

MCInit == /\ part \in {"recommendation", "osint", "collector", "malcolm",
                    "ubuntu"}
          /\ Init
          /\ OsintInit
          /\ SourceInit
          /\ part = "collector" \/ kind = "tail"
          /\ MalcolmInit
          /\ part = "malcolm" \/ sets = Watched(1)
          /\ UbuntuInit

\* A part leaves the variables of the others alone.
RecommendationOnly ==
  /\ part = "recommendation"
  /\ UNCHANGED <<part, osintVars, sourceVars, malcolmVars, ubuntuVars>>
OsintOnly ==
  /\ part = "osint"
  /\ UNCHANGED <<part, vars, sourceVars, malcolmVars, ubuntuVars>>
CollectorOnly ==
  /\ part = "collector"
  /\ UNCHANGED <<part, vars, osintVars, malcolmVars, ubuntuVars>>
MalcolmOnly ==
  /\ part = "malcolm"
  /\ UNCHANGED <<part, vars, osintVars, sourceVars, ubuntuVars>>
UbuntuOnly ==
  /\ part = "ubuntu"
  /\ UNCHANGED <<part, vars, osintVars, sourceVars, malcolmVars>>

MCNext ==
  \/ RecommendationOnly /\ Next
  \/ OsintOnly /\ OsintNext
  \/ CollectorOnly /\ SourceNext
  \/ MalcolmOnly /\ MalcolmNext
  \/ UbuntuOnly /\ UbuntuNext

\* One part runs, so that fairness to a disjunction over the parts is fairness
\* to the action of the part that runs.
Fair1 ==
  \/ OsintOnly /\ OsintRequest
  \/ CollectorOnly /\ SourcePoll
  \/ MalcolmOnly /\ PollDatasets
  \/ UbuntuOnly /\ ProcessOnce
Fair2 ==
  \/ OsintOnly /\ Poller
  \/ UbuntuOnly /\ PollUbuntu
Fair3 ==
  \/ OsintOnly /\ CancelUpdate
Fair4 ==
  \/ OsintOnly /\ Stream

allVars == <<part, vars, osintVars, sourceVars, malcolmVars, ubuntuVars>>

MCSpec == /\ MCInit /\ [][MCNext]_allVars
          /\ WF_allVars(Fair1)
          /\ WF_allVars(Fair2)
          /\ WF_allVars(Fair3)
          /\ WF_allVars(Fair4)
==============================================================================
