------------------------------- MODULE TheHive -------------------------------
(***************************************************************************)
(* Case creation in TheHive (backend/services/thehive_client.py), its      *)
(* retry queue and the closure sync (backend/services/thehive_sync.py).    *)
(* run_detection starts one thread per High or Critical detection; two     *)
(* interval jobs of the scheduler drain the queue and poll for resolved    *)
(* cases, each with one instance at a time.  TheHive is external: a call   *)
(* may fail, also after the case was created.                              *)
(*                                                                         *)
(* The interval jobs call the client without awaiting it.  answers tells   *)
(* which client they are given: the one of their unit tests, which answers *)
(* when called (TRUE), or TheHiveClient, whose methods return a coroutine  *)
(* that has no "_id" and cannot be iterated (FALSE, as it is deployed).    *)
(***************************************************************************)
EXTENDS Naturals, FiniteSets

CONSTANTS Detections,  \* ids of saved detections
          Eligible,    \* those of severity high or critical, rule not suppressed
          Clients,     \* do the client's methods answer when called?
          MaxHiveFaults,   \* bound on failures and crashes
          NoRow

ASSUME TheHiveAssumption ==
  /\ Eligible \subseteq Detections
  /\ Clients \subseteq BOOLEAN
  /\ MaxHiveFaults \in Nat
  /\ NoRow \notin Detections

VARIABLES
  answers,   \* the client of the interval jobs, one of Clients
  task,      \* _maybe_create_thehive_case, one thread per detection
  remote,    \* how many cases TheHive has for a detection; <<d, n>> is the nth
  linked,    \* detections.thehive_case_id: which of them, 0 for NULL
  status,    \* detections.thehive_status
  pending,   \* thehive_pending_cases, one row per detection at most
  attempts,  \* its column attempts
  todo,      \* rows read by the drain in progress
  draining,  \* the row whose case the drain has just created, and its next step
  resolved,  \* cases closed by an analyst in TheHive
  syncing,   \* cases that the closure sync in progress has still to write
  hiveFaults, crashed

hiveVars == <<answers, task, remote, linked, status, pending, attempts, todo,
          draining, resolved, syncing, hiveFaults, crashed>>

MaxAttempts == 5

NoDrain == [row |-> NoRow, pc |-> "next"]

RemoteCases == {<<d, n>> : d \in Detections, n \in 1 .. MaxHiveFaults + 1}

HiveTypeOK == /\ answers \in Clients
              /\ task \in [Detections -> {"none", "create", "save", "enqueue", "end"}]
              /\ remote \in [Detections -> Nat]
              /\ linked \in [Detections -> Nat]
              /\ status \in [Detections -> {"NULL", "New", "Resolved"}]
              /\ pending \subseteq Detections
              /\ attempts \in [Detections -> 0 .. MaxAttempts]
              /\ todo \subseteq Detections
              /\ draining \in {NoDrain} \cup [row : Detections, pc : {"update", "delete"}]
              /\ resolved \subseteq RemoteCases
              /\ syncing \subseteq RemoteCases
              /\ hiveFaults \in 0 .. MaxHiveFaults
              /\ crashed \in BOOLEAN

HiveInit == /\ answers \in Clients
            /\ task = [d \in Detections |-> "none"]
            /\ remote = [d \in Detections |-> 0]
            /\ linked = [d \in Detections |-> 0]
            /\ status = [d \in Detections |-> "NULL"]
            /\ pending = {}
            /\ attempts = [d \in Detections |-> 0]
            /\ todo = {}
            /\ draining = NoDrain
            /\ resolved = {}
            /\ syncing = {}
            /\ hiveFaults = 0
            /\ crashed = FALSE

-----------------------------------------------------------------------------
HiveFault == /\ hiveFaults < MaxHiveFaults
             /\ hiveFaults' = hiveFaults + 1
             /\ UNCHANGED <<answers, crashed>>

NoHiveFault == UNCHANGED <<answers, hiveFaults, crashed>>

GotoTask(d, s) == task' = [task EXCEPT ![d] = s]

\* TheHive makes a case.
NewCase(d) == remote' = [remote EXCEPT ![d] = @ + 1]

\* The UPDATE of the detection's row, with the id of the case just made.
Link(d) == /\ linked' = [linked EXCEPT ![d] = remote[d]]
           /\ status' = [status EXCEPT ![d] = "New"]

drainVars == <<todo, draining>>
queueVars == <<pending, attempts, drainVars>>
caseVars == <<linked, status>>
syncVars == <<resolved, syncing>>

-----------------------------------------------------------------------------
\* run_detection: the detection is saved and its thread started.
Detect(d) ==
  /\ task[d] = "none"
  /\ GotoTask(d, IF d \in Eligible THEN "create" ELSE "end")
  /\ NoHiveFault
  /\ UNCHANGED <<remote, caseVars, queueVars, syncVars>>

\* case.create and the observables, whose errors are ignored.
CreateCase(d) ==
  /\ task[d] = "create"
  /\ \/ NewCase(d) /\ GotoTask(d, "save") /\ NoHiveFault
     \/ UNCHANGED remote /\ GotoTask(d, "enqueue") /\ HiveFault
     \/ NewCase(d) /\ GotoTask(d, "enqueue") /\ HiveFault
  /\ UNCHANGED <<caseVars, queueVars, syncVars>>

\* Mutant: only an error of TheHive is queued.
AfterSaveErrorEnd == "end"

\* An error of the save is handled like one of the call.
AfterSaveError == "enqueue"

\* _save_thehive_case_id
SaveCaseId(d) ==
  /\ task[d] = "save"
  /\ \/ Link(d) /\ GotoTask(d, "end") /\ NoHiveFault
     \/ UNCHANGED caseVars /\ GotoTask(d, AfterSaveError) /\ HiveFault
  /\ UNCHANGED <<remote, queueVars, syncVars>>

\* _enqueue_pending_case; an error ends in the wrapper's log line.
EnqueuePendingCase(d) ==
  /\ task[d] = "enqueue"
  /\ \/ pending' = pending \cup {d} /\ NoHiveFault
     \/ UNCHANGED pending /\ HiveFault
  /\ GotoTask(d, "end")
  /\ UNCHANGED <<remote, caseVars, attempts, drainVars, syncVars>>

-----------------------------------------------------------------------------
\* drain_pending_cases reads the whole queue.
DrainStart ==
  /\ todo = {} /\ pending # {}
  /\ todo' = pending
  /\ NoHiveFault
  /\ UNCHANGED <<task, remote, caseVars, pending, attempts, draining, syncVars>>

\* Mutant: a row is abandoned after its first attempt.
AbandonedEarly(d) == attempts[d] >= 1

\* Mutant: one attempt too many.
AbandonedLate(d) == attempts[d] > MaxAttempts

\* "max 5 then abandon": the row stays in the table.
Abandoned(d) == attempts[d] >= MaxAttempts

DrainSkip(d) ==
  /\ draining = NoDrain /\ d \in todo /\ Abandoned(d)
  /\ todo' = todo \ {d}
  /\ NoHiveFault
  /\ UNCHANGED <<task, remote, caseVars, pending, attempts, draining, syncVars>>

\* _increment_pending_attempts, on to the next row.
NextAttempt(d) == /\ attempts' = [attempts EXCEPT ![d] = @ + 1]
                  /\ todo' = todo \ {d}
                  /\ draining' = NoDrain

\* create_case, for a row with attempts left.  created["_id"] raises when the
\* client has not answered.
DrainCreate(d) ==
  /\ draining = NoDrain /\ d \in todo /\ ~ Abandoned(d)
  /\ \/ /\ answers
        /\ NewCase(d)
        /\ draining' = [row |-> d, pc |-> "update"]
        /\ UNCHANGED <<attempts, todo>>
        /\ NoHiveFault
     \/ answers /\ NextAttempt(d) /\ UNCHANGED remote /\ HiveFault
     \/ answers /\ NextAttempt(d) /\ NewCase(d) /\ HiveFault
     \/ ~ answers /\ NextAttempt(d) /\ UNCHANGED remote /\ NoHiveFault
  /\ UNCHANGED <<task, caseVars, pending, syncVars>>

\* The UPDATE of the detection; its error is ignored.
DrainUpdate(d) ==
  /\ draining = [row |-> d, pc |-> "update"]
  /\ draining' = [row |-> d, pc |-> "delete"]
  /\ \/ Link(d) /\ NoHiveFault
     \/ UNCHANGED caseVars /\ HiveFault
  /\ UNCHANGED <<task, remote, pending, attempts, todo, syncVars>>

\* Mutant: the row is kept after success.
RowsLeftAll(d) == pending

\* The queue without the row of d.
RowsLeft(d) == pending \ {d}

\* _delete_pending_case, a commit of its own; its error counts as an attempt.
DrainDelete(d) ==
  /\ draining = [row |-> d, pc |-> "delete"]
  /\ \/ /\ pending' = RowsLeft(d)
        /\ todo' = todo \ {d}
        /\ draining' = NoDrain
        /\ UNCHANGED attempts
        /\ NoHiveFault
     \/ UNCHANGED pending /\ NextAttempt(d) /\ HiveFault
  /\ UNCHANGED <<task, remote, caseVars, syncVars>>

-----------------------------------------------------------------------------
\* An analyst closes a case in TheHive.
Resolve(d, n) ==
  /\ n <= remote[d]
  /\ <<d, n>> \notin resolved
  /\ resolved' = resolved \cup {<<d, n>>}
  /\ NoHiveFault
  /\ UNCHANGED <<task, remote, caseVars, queueVars, syncing>>

\* sync_thehive_closures: find_resolved_cases, then one UPDATE per case.
SyncStart ==
  /\ answers
  /\ syncing = {} /\ resolved # {}
  /\ syncing' = resolved
  /\ NoHiveFault
  /\ UNCHANGED <<task, remote, caseVars, queueVars, resolved>>

\* Mutant: the verdict is written by detection, for its first case only.
IsLinkedToFirst(d, n) == linked[d] = n /\ n = 1

\* WHERE thehive_case_id = ?
IsLinkedTo(d, n) == linked[d] = n

\* An error ends the whole poll.
SyncCase(d, n) ==
  /\ <<d, n>> \in syncing
  /\ \/ /\ status' = [status EXCEPT ![d] = IF IsLinkedTo(d, n) THEN "Resolved" ELSE @]
        /\ syncing' = syncing \ {<<d, n>>}
        /\ NoHiveFault
     \/ UNCHANGED status /\ syncing' = {} /\ HiveFault
  /\ UNCHANGED <<task, remote, linked, queueVars, resolved>>

\* The process stops; TheHive and SQLite keep what they have.
HiveCrash ==
  /\ \/ \E d \in Detections : task[d] \notin {"none", "end"}
     \/ todo # {} \/ syncing # {}
  /\ hiveFaults < MaxHiveFaults
  /\ hiveFaults' = hiveFaults + 1
  /\ crashed' = TRUE
  /\ task' = [d \in Detections |-> IF task[d] = "none" THEN "none" ELSE "end"]
  /\ todo' = {}
  /\ draining' = NoDrain
  /\ syncing' = {}
  /\ UNCHANGED <<answers, remote, caseVars, pending, attempts, resolved>>

-----------------------------------------------------------------------------
Create(d) == CreateCase(d) \/ SaveCaseId(d) \/ EnqueuePendingCase(d)

Drain == \/ DrainStart
         \/ \E d \in Detections : \/ DrainSkip(d) \/ DrainCreate(d)
                                  \/ DrainUpdate(d) \/ DrainDelete(d)

Sync == SyncStart \/ \E d \in Detections, n \in 1 .. MaxHiveFaults + 1 : SyncCase(d, n)

HiveNext == \/ \E d \in Detections : Detect(d) \/ Create(d)
            \/ \E d \in Detections, n \in 1 .. MaxHiveFaults + 1 : Resolve(d, n)
            \/ Drain \/ Sync \/ HiveCrash

\* Threads run to their end and the scheduler fires both jobs for ever.
HiveFairness == /\ \A d \in Detections : WF_hiveVars(Create(d))
                /\ WF_hiveVars(Drain)
                /\ WF_hiveVars(Sync)

HiveSpec == HiveInit /\ [][HiveNext]_hiveVars /\ HiveFairness

-----------------------------------------------------------------------------
\* TheHive has a second case for a detection only when something failed: the
\* queue, the thread and the drain never both create it.
ExtraCasesAreFaults == \A d \in Detections : remote[d] <= 1 + hiveFaults

\* "Non-fatal: on any failure, enqueues the detection": one failing call, of
\* TheHive or of SQLite, loses no case.
OneFailureLosesNothing ==
  \A d \in Eligible :
    task[d] = "end" /\ hiveFaults <= 1 /\ ~ crashed => linked[d] > 0 \/ d \in pending

\* thehive_sync: "Retry pending case creation from thehive_pending_cases;
\* delete rows on success."  With the client of the unit tests, which answers,
\* five attempts are enough for fewer failures, although a crash restarts the
\* drain.  The deployed client is never awaited, and abandons every row.
PendingIsRetriedIfAnswered ==
  \A d \in Detections : answers /\ d \in pending ~> d \notin pending

\* The safety half of it: with that client an attempt is used up only by a
\* failure, so that no row is abandoned before the fifth one.
AttemptsAreFailures == answers => \A d \in Detections : attempts[d] <= hiveFaults

\* thehive_sync: "Poll TheHive for resolved cases; write
\* verdict/timestamp/analyst back to SQLite", with a client that answers.  The
\* detection may be linked to a new case by a retry meanwhile.
ClosureIsSynced ==
  \A d \in Detections :
    answers /\ <<d, linked[d]>> \in resolved
      ~> (status[d] = "Resolved" \/ <<d, linked[d]>> \notin resolved)

\* And a detection is called resolved only for the case that it is linked to now
\* and that an analyst has closed: not for an earlier one that a retry replaced
\* while the sync was on its way.
ResolvedIsClosed ==
  \A d \in Detections : status[d] = "Resolved" => <<d, linked[d]>> \in resolved
=============================================================================
