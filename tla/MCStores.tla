------------------------------ MODULE MCStores -------------------------------
(* The way of the events into the store, for TLC: the write queue of DuckDB*)
(* with three concurrent callers and one place, so that callers block in   *)
(* put, overtake each other and are cancelled in every state of the worker;*)
(* and the loader with two calls of three events.                          *)
EXTENDS DuckWriteQueue, Ingestion

CONSTANTS o1, o2, o3

\* Batches that overlap, repeat an event and span more than one DuckDB batch.
MCBatches == {<<>>, <<"a", "b">>, <<"b", "a", "c">>, <<"c", "c">>}

VARIABLES
  part

MCInit == /\ part \in {"queue", "loader"}
          /\ Init
          /\ LoadInit

\* A part leaves the variables of the others alone.
QueueOnly == part = "queue" /\ UNCHANGED <<part, loadVars>>
LoaderOnly == part = "loader" /\ UNCHANGED <<part, vars>>

MCNext ==
  \/ QueueOnly /\ Next
  \/ LoaderOnly /\ LoadNext

\* One part runs, so that fairness to a disjunction over the parts is fairness
\* to the action of the part that runs.
Fair1 ==
  \/ QueueOnly /\ WorkerGet
  \/ LoaderOnly /\ LoadStep("i1")
Fair2 ==
  \/ QueueOnly /\ ExecuteSync
  \/ LoaderOnly /\ LoadStep("i2")
Fair3 ==
  \/ QueueOnly /\ WorkerForward
  \/ LoaderOnly /\ FireEmbed("i1")
Fair4 ==
  \/ QueueOnly /\ PutResumes(o1)
  \/ LoaderOnly /\ FireEmbed("i2")
Fair5 ==
  \/ QueueOnly /\ CallReturns(o1)
Fair6 ==
  \/ QueueOnly /\ PutResumes(o2)
Fair7 ==
  \/ QueueOnly /\ CallReturns(o2)
Fair8 ==
  \/ QueueOnly /\ PutResumes(o3)
Fair9 ==
  \/ QueueOnly /\ CallReturns(o3)

allVars == <<part, vars, loadVars>>

MCSpec == /\ MCInit /\ [][MCNext]_allVars
          /\ WF_allVars(Fair1)
          /\ WF_allVars(Fair2)
          /\ WF_allVars(Fair3)
          /\ WF_allVars(Fair4)
          /\ WF_allVars(Fair5)
          /\ WF_allVars(Fair6)
          /\ WF_allVars(Fair7)
          /\ WF_allVars(Fair8)
          /\ WF_allVars(Fair9)
==============================================================================
