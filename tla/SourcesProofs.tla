--------------------------- MODULE SourcesProofs ----------------------------
(***************************************************************************)
(* Theorems about where the events and the intelligence come from: the     *)
(* indicators and their matches (IocIntel), the OSINT investigations       *)
(* (OsintInvestigation), the collectors of one source (Collectors) and the *)
(* poll of all the datasets of Malcolm (MalcolmPoll).  Each has an         *)
(* inductive invariant of its own; of the retroactive scans and of the     *)
(* polls a second one says that nothing new is left out.                   *)
(***************************************************************************)
EXTENDS IocIntel, OsintInvestigation, Collectors, MalcolmPoll,
        FiniteSetTheorems, WellFoundedInduction, SequenceTheorems, TLAPS

\* A part of 1..n that is not empty has a greatest element.
LEMMA Greatest ==
  ASSUME NEW n \in Nat, NEW T \in SUBSET (1..n), T # {}
  PROVE  \E x \in T : \A y \in T : y <= x
  <1> DEFINE R == StrictSubsetOrdering(1..n)
             above(x) == {y \in T : y > x}
             U == {above(x) : x \in T}
  <1>1. IsFiniteSet(1..n)
    BY FS_Interval
  <1>2. IsWellFoundedOn(R, SUBSET (1..n))
    BY <1>1, FS_FiniteSubsetsOfFinite, FS_StrictSubsetOrderingWellFounded
  <1>3. U \subseteq SUBSET (1..n) /\ U # {}
    OBVIOUS
  <1>4. \E m \in U : \A u \in U : <<u, m>> \notin R
    <2> HIDE DEF R, U
    <2> QED
      BY <1>2, <1>3, WFMin
  <1>5. PICK x \in T : \A u \in U : <<u, above(x)>> \notin R
    BY <1>4
  <1>6. \A y \in T : y <= x
    <2> SUFFICES ASSUME NEW y \in T, ~(y <= x)
                 PROVE  FALSE
      OBVIOUS
    <2>1. x \in Nat /\ y > x /\ \A z \in T : z \in Nat
      OBVIOUS
    <2>2. above(y) \subseteq above(x)
      <3>1. \A z \in T : z > y => z > x
        BY <2>1
      <3> QED
        BY <3>1
    <2>3. y \in above(x) /\ y \notin above(y)
      BY <2>1
    <2>4. above(y) \in SUBSET (1..n) /\ above(x) \in SUBSET (1..n) /\ above(y) \in U
      BY <1>3
    <2> HIDE DEF above, U
    <2>5. <<above(y), above(x)>> \in R
      BY <2>2, <2>3, <2>4 DEF StrictSubsetOrdering
    <2> QED
      BY <2>4, <2>5, <1>5
  <1> QED
    BY <1>6

-----------------------------------------------------------------------------
\* IocIntel: what the syncs, the scans and the events leave.

\* An event that goes on to the insert as matched has its hit on record; only
\* events in a call are matched.
MatchedIsHit ==
  \A e \in Events : matched[e] => /\ event[e] # "idle"
                                  /\ event[e] = "enriched" => [event |-> e, by |-> "ingest"] \in hits

\* What a sync found new, and what is scanned, is in the store.
NewIsStored ==
  \A i \in Iocs : /\ \A s \in Syncs : i \in sync[s].new => ioc[i].status # "absent"
                  /\ iocScan[i] # "none" => ioc[i].status # "absent"

IocInv == IocTypeOK /\ MatchedIsHit /\ NewIsStored /\ FlaggedIsHit /\ ScannedOnce /\ ActiveIffPositive

LEMMA IocInitInv == IocInit => IocInv
  <1> SUFFICES ASSUME IocInit PROVE IocInv
    OBVIOUS
  <1>1. IocTypeOK
    BY IocIntelAssumption DEF IocInit, IocTypeOK, Absent, Asleep
  <1>2. MatchedIsHit /\ NewIsStored /\ FlaggedIsHit /\ ScannedOnce /\ ActiveIffPositive
    BY DEF IocInit, MatchedIsHit, NewIsStored, FlaggedIsHit, ScannedOnce, ActiveIffPositive, Absent, Asleep
  <1> QED
    BY <1>1, <1>2 DEF IocInv

-----------------------------------------------------------------------------
\* The syncs.  A new indicator is new for one of them.

LEMMA FetchInv ==
  ASSUME IocInv, NEW s \in Syncs, Fetch(s)
  PROVE  IocInv'
  <1>1. PICK b \in SUBSET Iocs :
          sync' = [sync EXCEPT ![s] = [pc |-> IF b = {} THEN "stamp" ELSE "save", batch |-> b, new |-> {}]]
    BY DEF Fetch
  <1>2. UNCHANGED <<ioc, iocScan, rows, event, matched, flagged, duck, hits, iocFaults>>
    BY DEF Fetch, scanVars, ingestVars
  <1>3. IocTypeOK'
    BY <1>1, <1>2 DEF IocInv, IocTypeOK
  <1>4. \A t \in Syncs : sync'[t].new \subseteq sync[t].new
    BY <1>1 DEF IocInv, IocTypeOK
  <1>5. (NewIsStored /\ ScannedOnce)'
    BY <1>2, <1>4 DEF IocInv, NewIsStored, ScannedOnce
  <1> QED
    BY <1>2, <1>3, <1>5 DEF IocInv, MatchedIsHit, FlaggedIsHit, ActiveIffPositive

LEMMA UpsertInv ==
  ASSUME IocInv, NEW s \in Syncs, NEW i \in Iocs, Upsert(s, i)
  PROVE  IocInv'
  <1> DEFINE left == sync[s].batch \ {i}
             new == IF IsNew(i) THEN sync[s].new \cup {i} ELSE sync[s].new
  <1>1. /\ ioc' = [ioc EXCEPT ![i] = [status |-> "active", confidence |-> MaxConf]]
        /\ sync' = [sync EXCEPT ![s] = [pc |-> IF left = {} THEN "stamp" ELSE "save",
                                        batch |-> left, new |-> new]]
    BY DEF Upsert
  <1>2. UNCHANGED <<iocScan, rows, event, matched, flagged, duck, hits, iocFaults>>
    BY DEF Upsert, scanVars, ingestVars
  <1>3. left \subseteq Iocs /\ new \subseteq Iocs
    BY DEF IocInv, IocTypeOK
  <1>4. IocTypeOK'
    <2> HIDE DEF left, new
    <2> QED
      BY <1>1, <1>2, <1>3, IocIntelAssumption DEF IocInv, IocTypeOK
  <1>5. /\ ioc'[i].status = "active" /\ ioc'[i].confidence = MaxConf
        /\ \A j \in Iocs \ {i} : ioc'[j] = ioc[j]
    BY <1>1 DEF IocInv, IocTypeOK
  <1>6. /\ sync'[s].new = new
        /\ \A t \in Syncs \ {s} : sync'[t].new = sync[t].new
    <2> HIDE DEF left, new
    <2> QED
      BY <1>1 DEF IocInv, IocTypeOK
  <1>7. NewIsStored'
    BY <1>2, <1>5, <1>6 DEF IocInv, NewIsStored
  <1>8. ScannedOnce'
    <2>1. IsNew(i) => iocScan[i] = "none" /\ \A t \in Syncs : i \notin sync[t].new
      BY DEF IocInv, NewIsStored, IsNew
    <2> QED
      BY <1>2, <1>6, <2>1 DEF IocInv, ScannedOnce
  <1>9. ActiveIffPositive'
    BY <1>5, IocIntelAssumption DEF IocInv, ActiveIffPositive
  <1> QED
    BY <1>2, <1>4, <1>7, <1>8, <1>9 DEF IocInv, MatchedIsHit, FlaggedIsHit

\* Steps after which no sync takes more for new, and the store is as it was.
LEMMA ForgettingInv ==
  ASSUME IocInv, IocTypeOK',
         UNCHANGED <<ioc, iocScan, event, matched, flagged, hits>>,
         \A t \in Syncs : sync'[t].new \subseteq sync[t].new
  PROVE  IocInv'
  BY DEF IocInv, NewIsStored, ScannedOnce, MatchedIsHit, FlaggedIsHit, ActiveIffPositive

LEMMA SaveInv ==
  ASSUME IocInv, NEW s \in Syncs, Save(s)
  PROVE  IocInv'
  <1>1. ASSUME NEW i \in Iocs, Upsert(s, i) PROVE IocInv'
    BY <1>1, UpsertInv
  <1>2. CASE Stamp(s)
    <2>1. sync' = [sync EXCEPT ![s].pc = "trigger"] /\ sync \in [Syncs -> [pc : {"sleep", "save", "stamp", "trigger", "dead"}, batch : SUBSET Iocs, new : SUBSET Iocs]]
      BY <1>2 DEF Stamp, IocInv, IocTypeOK
    <2>2. UNCHANGED <<ioc, iocScan, rows, event, matched, flagged, duck, hits, iocFaults>>
      BY <1>2 DEF Stamp, scanVars, ingestVars
    <2>3. IocTypeOK' /\ \A t \in Syncs : sync'[t].new \subseteq sync[t].new
      BY <2>1, <2>2 DEF IocInv, IocTypeOK
    <2> QED
      BY <2>2, <2>3, ForgettingInv
  <1>3. CASE SaveFails(s)
    <2>1. sync' = [sync EXCEPT ![s] = AfterSaveError(s)]
      BY <1>3 DEF SaveFails
    <2>2. UNCHANGED <<ioc, iocScan, rows, event, matched, flagged, duck, hits>>
      BY <1>3 DEF SaveFails, scanVars, ingestVars
    <2>3. /\ AfterSaveError(s) \in [pc : {"sleep", "dead"}, batch : SUBSET Iocs, new : SUBSET Iocs]
          /\ AfterSaveError(s).new = {}
      BY DEF AfterSaveError, Asleep
    <2>4. iocFaults' \in 0 .. MaxIocFaults
      BY <1>3, IocIntelAssumption DEF SaveFails, IocFault, IocInv, IocTypeOK
    <2>5. IocTypeOK' /\ \A t \in Syncs : sync'[t].new \subseteq sync[t].new
      BY <2>1, <2>2, <2>3, <2>4 DEF IocInv, IocTypeOK
    <2> QED
      BY <2>2, <2>5, ForgettingInv
  <1>4. CASE Trigger(s)
    <2>1. /\ iocScan' = [i \in Iocs |-> IF i \in sync[s].new THEN "query" ELSE iocScan[i]]
          /\ sync' = [sync EXCEPT ![s] = Asleep]
      BY <1>4 DEF Trigger
    <2>2. UNCHANGED <<ioc, rows, event, matched, flagged, duck, hits, iocFaults>>
      BY <1>4 DEF Trigger, ingestVars
    <2>3. IocTypeOK'
      BY <2>1, <2>2 DEF IocInv, IocTypeOK, Asleep
    <2>4. sync'[s].new = {} /\ \A t \in Syncs \ {s} : sync'[t].new = sync[t].new
      BY <2>1 DEF IocInv, IocTypeOK, Asleep
    <2>5. NewIsStored' /\ ScannedOnce'
      BY <2>1, <2>2, <2>4 DEF IocInv, IocTypeOK, NewIsStored, ScannedOnce
    <2> QED
      BY <2>2, <2>3, <2>5 DEF IocInv, MatchedIsHit, FlaggedIsHit, ActiveIffPositive
  <1> QED
    BY <1>1, <1>2, <1>3, <1>4 DEF Save

-----------------------------------------------------------------------------
\* The scans.

LEMMA ScanInv ==
  ASSUME IocInv, NEW i \in Iocs, Scan(i)
  PROVE  IocInv'
  <1>0. /\ UNCHANGED <<ioc, sync, event, matched, flagged, duck>>
        /\ hits \subseteq hits'
        /\ iocScan[i] # "none"
        /\ \E p \in {"end", "record"} : iocScan' = [iocScan EXCEPT ![i] = p]
    BY DEF Scan, ScanQuery, ScanRecord, ScanFails, ingestVars
  <1>1. rows' \in [Iocs -> SUBSET Events]
    <2>1. CASE ScanQuery(i)
      <3>1. PICK some \in SUBSET duck : rows' = [rows EXCEPT ![i] = some]
        BY <2>1 DEF ScanQuery, kSubset
      <3> QED
        BY <3>1 DEF IocInv, IocTypeOK
    <2>2. ASSUME NEW e \in Events, ScanRecord(i, e) PROVE rows' \in [Iocs -> SUBSET Events]
      BY <2>2 DEF ScanRecord, IocInv, IocTypeOK
    <2>3. CASE ScanFails(i)
      BY <2>3 DEF ScanFails, IocInv, IocTypeOK
    <2> QED
      BY <2>1, <2>2, <2>3 DEF Scan
  <1>2. hits' \subseteq [event : Events, by : Iocs \cup {"ingest"}] /\ iocFaults' \in 0 .. MaxIocFaults
    BY IocIntelAssumption DEF Scan, ScanQuery, ScanRecord, ScanFails, IocFault, IocInv, IocTypeOK
  <1>3. IocTypeOK'
    BY <1>0, <1>1, <1>2 DEF IocInv, IocTypeOK
  <1>4. (NewIsStored /\ ScannedOnce)'
    BY <1>0 DEF IocInv, IocTypeOK, NewIsStored, ScannedOnce
  <1> QED
    BY <1>0, <1>3, <1>4 DEF IocInv, MatchedIsHit, FlaggedIsHit, ActiveIffPositive

-----------------------------------------------------------------------------
\* The events.

LEMMA EventInv ==
  ASSUME IocInv, NEW e \in Events, CheckIocMatch(e) \/ SkipIocMatch(e) \/ Ingest(e)
  PROVE  IocInv'
  <1>0. UNCHANGED <<ioc, sync, iocScan, rows>>
    BY DEF CheckIocMatch, SkipIocMatch, Ingest, RecordHit, StoreEvent, scanVars
  <1>1. (NewIsStored /\ ScannedOnce /\ ActiveIffPositive)'
    BY <1>0 DEF IocInv, NewIsStored, ScannedOnce, ActiveIffPositive
  <1>2. CASE CheckIocMatch(e)
    <2>1. IocTypeOK'
      BY <1>0, <1>2 DEF CheckIocMatch, AfterMatch, Matches, IocInv, IocTypeOK
    <2>2. MatchedIsHit' /\ FlaggedIsHit'
      BY <1>2 DEF CheckIocMatch, AfterMatch, IocInv, IocTypeOK, MatchedIsHit, FlaggedIsHit
    <2> QED
      BY <1>1, <2>1, <2>2 DEF IocInv
  <1>3. CASE SkipIocMatch(e)
    <2>1. IocTypeOK'
      BY <1>0, <1>3 DEF SkipIocMatch, IocInv, IocTypeOK
    <2>2. MatchedIsHit' /\ FlaggedIsHit'
      BY <1>3 DEF SkipIocMatch, IocInv, IocTypeOK, MatchedIsHit, FlaggedIsHit
    <2> QED
      BY <1>1, <2>1, <2>2 DEF IocInv
  <1>4. CASE RecordHit(e)
    <2>0. /\ event' \in [Events -> {"idle", "hit", "enriched"}] /\ matched' \in [Events -> BOOLEAN]
          /\ hits' \subseteq [event : Events, by : Iocs \cup {"ingest"}]
          /\ UNCHANGED <<flagged, duck>>
      <3>1. [event |-> e, by |-> "ingest"] \in [event : Events, by : Iocs \cup {"ingest"}]
        OBVIOUS
      <3>2. event' \in [Events -> {"idle", "hit", "enriched"}]
        BY <1>4 DEF RecordHit, IocInv, IocTypeOK
      <3>3. matched' \in [Events -> BOOLEAN]
        BY <1>4 DEF RecordHit, IocInv, IocTypeOK
      <3>4. hits' \subseteq [event : Events, by : Iocs \cup {"ingest"}]
        BY <1>4, <3>1 DEF RecordHit, IocInv, IocTypeOK
      <3> QED
        BY <1>4, <3>2, <3>3, <3>4 DEF RecordHit
    <2>a. iocFaults' \in 0 .. MaxIocFaults
      BY <1>4, IocIntelAssumption DEF RecordHit, IocFault, IocInv, IocTypeOK
    <2>1. IocTypeOK'
      BY <1>0, <2>0, <2>a DEF IocInv, IocTypeOK
    <2>2. MatchedIsHit' /\ FlaggedIsHit'
      BY <1>4 DEF RecordHit, IocInv, IocTypeOK, MatchedIsHit, FlaggedIsHit
    <2> QED
      BY <1>1, <2>1, <2>2 DEF IocInv
  <1>5. CASE StoreEvent(e)
    <2>1. IocTypeOK'
      BY <1>0, <1>5 DEF StoreEvent, IocInv, IocTypeOK
    <2>2. MatchedIsHit' /\ FlaggedIsHit'
      BY <1>5 DEF StoreEvent, IocInv, IocTypeOK, MatchedIsHit, FlaggedIsHit
    <2> QED
      BY <1>1, <2>1, <2>2 DEF IocInv
  <1> QED
    BY <1>2, <1>3, <1>4, <1>5 DEF Ingest

-----------------------------------------------------------------------------
\* Decay never makes an indicator absent.
LEMMA DecayedRecord ==
  ASSUME NEW r \in [status : {"absent", "active", "expired"}, confidence : 0 .. MaxConf]
  PROVE  /\ Decayed(r) \in [status : {"absent", "active", "expired"}, confidence : 0 .. MaxConf]
         /\ r.status # "absent" => Decayed(r).status # "absent"
         /\ (r.status = "active" <=> r.confidence > 0)
              => (Decayed(r).status = "active" <=> Decayed(r).confidence > 0)
  BY IocIntelAssumption DEF Decayed

LEMMA DecayInv ==
  ASSUME IocInv, DecayConfidence
  PROVE  IocInv'
  <1>1. UNCHANGED <<sync, iocScan, rows, event, matched, flagged, duck, hits, iocFaults>>
    BY DEF DecayConfidence, scanVars, ingestVars
  <1>2. \A i \in Iocs : ioc'[i] = Decayed(ioc[i])
    BY DEF DecayConfidence
  <1>3. IocTypeOK'
    BY <1>1, DecayedRecord DEF DecayConfidence, IocInv, IocTypeOK
  <1>4. NewIsStored' /\ ActiveIffPositive'
    BY <1>1, <1>2, DecayedRecord DEF IocInv, IocTypeOK, NewIsStored, ActiveIffPositive
  <1> QED
    BY <1>1, <1>3, <1>4 DEF IocInv, MatchedIsHit, FlaggedIsHit, ScannedOnce

LEMMA IocCrashInv ==
  ASSUME IocInv, IocCrash
  PROVE  IocInv'
  <1>1. UNCHANGED <<ioc, flagged, duck, hits>>
    BY DEF IocCrash
  <1>2. IocTypeOK'
    BY <1>1, IocIntelAssumption DEF IocCrash, IocFault, Asleep, IocInv, IocTypeOK
  <1>3. NewIsStored' /\ ScannedOnce'
    BY <1>1 DEF IocCrash, Asleep, IocInv, NewIsStored, ScannedOnce
  <1> QED
    BY <1>1, <1>2, <1>3 DEF IocCrash, IocInv, MatchedIsHit, FlaggedIsHit, ActiveIffPositive

LEMMA IocNextInv == IocInv /\ [IocNext]_iocVars => IocInv'
  <1>1. ASSUME IocInv, UNCHANGED iocVars PROVE IocInv'
    BY <1>1 DEF iocVars, scanVars, ingestVars, IocInv, IocTypeOK, MatchedIsHit, NewIsStored, FlaggedIsHit, ScannedOnce, ActiveIffPositive
  <1>2. ASSUME IocInv, IocNext PROVE IocInv'
    BY <1>2, FetchInv, SaveInv, ScanInv, EventInv, DecayInv, IocCrashInv DEF IocNext
  <1> QED
    BY <1>1, <1>2

\* A row that says ioc_matched has its hit on record, an indicator is new once
\* and scanned once, and its status agrees with its confidence, for any feeds,
\* indicators and events, and any failures, crashes and decay between.
THEOREM IndicatorsAreTrue ==
  IocSpec => [](IocTypeOK /\ FlaggedIsHit /\ ScannedOnce /\ ActiveIffPositive)
  <1>1. IocInv => IocTypeOK /\ FlaggedIsHit /\ ScannedOnce /\ ActiveIffPositive
    BY DEF IocInv
  <1> QED
    BY IocInitInv, IocNextInv, <1>1, PTL DEF IocSpec

-----------------------------------------------------------------------------
\* What is new is scanned.

\* Some sync has the indicator still to trigger.
ToTrigger(i) == \E s \in Syncs : i \in sync[s].new /\ sync[s].pc \in {"save", "stamp", "trigger"}

Remembered(i) == ioc[i].status # "absent" => iocScan[i] # "none" \/ ToTrigger(i)

LEMMA RememberedIs == NewIsRemembered <=> (iocFaults = 0 => \A i \in Iocs : Remembered(i))
  BY DEF NewIsRemembered, Remembered, ToTrigger

\* Rows are there only while they are recorded.
RowsAreRecorded == \A i \in Iocs : iocScan[i] # "record" => rows[i] = {}

ScanInvariant == IocInv /\ NewIsRemembered /\ RowsAreRecorded /\ IsFiniteSet(duck)

LEMMA ScanInitInv == IocInit => ScanInvariant
  <1> SUFFICES ASSUME IocInit PROVE ScanInvariant
    OBVIOUS
  <1>1. IsFiniteSet(duck)
    BY FS_EmptySet DEF IocInit
  <1>2. NewIsRemembered
    BY DEF IocInit, Absent, NewIsRemembered
  <1>3. RowsAreRecorded
    BY DEF IocInit, RowsAreRecorded
  <1> QED
    BY <1>1, <1>2, <1>3, IocInitInv DEF ScanInvariant

LEMMA FetchRemembers ==
  ASSUME IocInv, NEW s \in Syncs, Fetch(s), NEW i \in Iocs, Remembered(i)
  PROVE  Remembered(i)'
  <1>1. PICK b \in SUBSET Iocs :
          sync' = [sync EXCEPT ![s] = [pc |-> IF b = {} THEN "stamp" ELSE "save", batch |-> b, new |-> {}]]
    BY DEF Fetch
  <1>2. UNCHANGED <<ioc, iocScan>> /\ sync[s].pc = "sleep"
    BY DEF Fetch, At, scanVars
  <1>3. \A t \in Syncs \ {s} : sync'[t] = sync[t]
    BY <1>1 DEF IocInv, IocTypeOK
  <1>4. ToTrigger(i) => ToTrigger(i)'
    BY <1>2, <1>3 DEF ToTrigger
  <1> QED
    BY <1>2, <1>4 DEF Remembered

LEMMA UpsertRemembers ==
  ASSUME IocInv, NEW s \in Syncs, NEW j \in Iocs, Upsert(s, j), NEW i \in Iocs, Remembered(i)
  PROVE  Remembered(i)'
  <1> DEFINE left == sync[s].batch \ {j}
             new == IF IsNew(j) THEN sync[s].new \cup {j} ELSE sync[s].new
  <1>1. /\ ioc' = [ioc EXCEPT ![j] = [status |-> "active", confidence |-> MaxConf]]
        /\ sync' = [sync EXCEPT ![s] = [pc |-> IF left = {} THEN "stamp" ELSE "save",
                                        batch |-> left, new |-> new]]
        /\ UNCHANGED iocScan
    BY DEF Upsert, scanVars
  <1>2. /\ sync[s].new \subseteq new
        /\ ioc[j].status = "absent" => j \in new
    BY DEF IsNew
  <1> HIDE DEF left, new
  <1>3. /\ sync'[s].new = new /\ sync'[s].pc \in {"save", "stamp", "trigger"}
        /\ \A t \in Syncs \ {s} : sync'[t] = sync[t]
    BY <1>1 DEF IocInv, IocTypeOK
  <1>4. ToTrigger(i) => ToTrigger(i)'
    BY <1>2, <1>3 DEF ToTrigger
  <1>5. i = j /\ ioc[j].status = "absent" => ToTrigger(i)'
    BY <1>2, <1>3 DEF ToTrigger
  <1>6. i # j => ioc'[i] = ioc[i]
    BY <1>1 DEF IocInv, IocTypeOK
  <1> QED
    BY <1>1, <1>4, <1>5, <1>6 DEF Remembered

LEMMA StampRemembers ==
  ASSUME IocInv, NEW s \in Syncs, Stamp(s), NEW i \in Iocs, Remembered(i)
  PROVE  Remembered(i)'
  <1>1. sync' = [sync EXCEPT ![s].pc = "trigger"] /\ UNCHANGED <<ioc, iocScan>>
    BY DEF Stamp, scanVars
  <1>2. \A t \in Syncs : sync'[t].new = sync[t].new /\ (sync'[t].pc = sync[t].pc \/ sync'[t].pc = "trigger")
    BY <1>1 DEF IocInv, IocTypeOK
  <1>3. ToTrigger(i) => ToTrigger(i)'
    BY <1>2 DEF ToTrigger
  <1> QED
    BY <1>1, <1>3 DEF Remembered

LEMMA TriggerRemembers ==
  ASSUME IocInv, NEW s \in Syncs, Trigger(s), NEW i \in Iocs, Remembered(i)
  PROVE  Remembered(i)'
  <1>1. /\ iocScan' = [j \in Iocs |-> IF j \in sync[s].new THEN "query" ELSE iocScan[j]]
        /\ sync' = [sync EXCEPT ![s] = Asleep]
        /\ UNCHANGED ioc
    BY DEF Trigger
  <1>2. \A t \in Syncs \ {s} : sync'[t] = sync[t]
    BY <1>1 DEF IocInv, IocTypeOK
  <1>3. i \in sync[s].new => iocScan'[i] # "none"
    BY <1>1
  <1>4. ToTrigger(i) /\ i \notin sync[s].new => ToTrigger(i)'
    BY <1>2 DEF ToTrigger
  <1>5. iocScan[i] # "none" => iocScan'[i] # "none"
    BY <1>1
  <1> QED
    BY <1>1, <1>3, <1>4, <1>5 DEF Remembered

\* The steps of scans and events, and the decay, leave the syncs alone, and
\* neither makes an indicator new nor takes back a scan.
LEMMA OthersRemember ==
  ASSUME IocInv, NEW i \in Iocs, Remembered(i),
         \/ \E j \in Iocs : Scan(j)
         \/ \E e \in Events : CheckIocMatch(e) \/ SkipIocMatch(e) \/ Ingest(e)
         \/ DecayConfidence
         \/ UNCHANGED iocVars
  PROVE  Remembered(i)'
  <1>1. ASSUME NEW j \in Iocs, Scan(j)
        PROVE  UNCHANGED <<ioc, sync>> /\ (iocScan[i] # "none" => iocScan'[i] # "none")
    <2>1. UNCHANGED <<ioc, sync>> /\ \E p \in {"end", "record"} : iocScan' = [iocScan EXCEPT ![j] = p]
      BY <1>1 DEF Scan, ScanQuery, ScanRecord, ScanFails
    <2> QED
      BY <2>1 DEF IocInv, IocTypeOK
  <1>2. ASSUME NEW e \in Events, CheckIocMatch(e) \/ SkipIocMatch(e) \/ Ingest(e)
        PROVE  UNCHANGED <<ioc, sync, iocScan>>
    BY <1>2 DEF CheckIocMatch, SkipIocMatch, Ingest, RecordHit, StoreEvent, scanVars
  <1>3. ASSUME DecayConfidence
        PROVE  UNCHANGED <<sync, iocScan>> /\ (ioc[i].status = "absent" => ioc'[i].status = "absent")
    BY <1>3 DEF DecayConfidence, Decayed, scanVars
  <1>4. ASSUME UNCHANGED iocVars PROVE UNCHANGED <<ioc, sync, iocScan>>
    BY <1>4 DEF iocVars, scanVars
  <1>5. /\ UNCHANGED sync
        /\ ioc[i].status = "absent" => ioc'[i].status = "absent"
        /\ iocScan[i] # "none" => iocScan'[i] # "none"
    BY <1>1, <1>2, <1>3, <1>4
  <1>6. ToTrigger(i) => ToTrigger(i)'
    BY <1>5 DEF ToTrigger
  <1> QED
    BY <1>5, <1>6 DEF Remembered

LEMMA RowsInv ==
  ASSUME IocInv, RowsAreRecorded, [IocNext]_iocVars
  PROVE  RowsAreRecorded'
  <1>1. DOMAIN rows = Iocs /\ DOMAIN iocScan = Iocs
    BY DEF IocInv, IocTypeOK
  <1>2. ASSUME NEW i \in Iocs, Scan(i) PROVE RowsAreRecorded'
    <2>1. \/ rows' = [rows EXCEPT ![i] = {}]
          \/ iocScan' = [iocScan EXCEPT ![i] = IF rows'[i] = {} THEN "end" ELSE "record"]
      BY <1>2 DEF Scan, ScanQuery, ScanRecord, ScanFails
    <2>2. \A j \in Iocs \ {i} : rows'[j] = rows[j] /\ iocScan'[j] = iocScan[j]
      BY <1>1, <1>2 DEF Scan, ScanQuery, ScanRecord, ScanFails
    <2>3. iocScan'[i] # "record" => rows'[i] = {}
      BY <1>1, <2>1
    <2> QED
      BY <2>2, <2>3 DEF RowsAreRecorded
  <1>3. ASSUME NEW s \in Syncs, Trigger(s) PROVE RowsAreRecorded'
    <2>1. /\ iocScan' = [i \in Iocs |-> IF i \in sync[s].new THEN "query" ELSE iocScan[i]]
          /\ UNCHANGED rows
      BY <1>3 DEF Trigger
    <2>2. \A i \in Iocs : i \in sync[s].new => iocScan[i] = "none"
      BY DEF IocInv, ScannedOnce
    <2> QED
      BY <2>1, <2>2 DEF RowsAreRecorded
  <1>4. CASE IocCrash
    BY <1>4 DEF IocCrash, RowsAreRecorded
  <1>5. CASE UNCHANGED <<iocScan, rows>>
    BY <1>5 DEF RowsAreRecorded
  <1> QED
    BY <1>2, <1>3, <1>4, <1>5 DEF IocNext, Save, Fetch, Upsert, Stamp, SaveFails, CheckIocMatch, SkipIocMatch,
       Ingest, RecordHit, StoreEvent, DecayConfidence, iocVars, scanVars

LEMMA ScanNextInv == ScanInvariant /\ [IocNext]_iocVars => ScanInvariant'
  <1> SUFFICES ASSUME ScanInvariant, [IocNext]_iocVars PROVE ScanInvariant'
    OBVIOUS
  <1>1. IocInv /\ IocInv'
    BY IocNextInv DEF ScanInvariant
  <1>2. duck' = duck \/ \E e \in Events : duck' = duck \cup {e}
    BY DEF IocNext, Fetch, Save, Upsert, Stamp, SaveFails, Trigger, Scan, ScanQuery, ScanRecord, ScanFails,
           CheckIocMatch, SkipIocMatch, Ingest, RecordHit, StoreEvent, DecayConfidence, IocCrash, iocVars,
           ingestVars
  <1>3. IsFiniteSet(duck') /\ RowsAreRecorded'
    BY <1>1, <1>2, FS_AddElement, RowsInv DEF ScanInvariant
  <1>4. ASSUME IocFault PROVE iocFaults' # 0
    BY <1>1, <1>4, IocIntelAssumption DEF IocFault, IocInv, IocTypeOK
  <1>5. \/ IocFault
        \/ UNCHANGED iocFaults /\ \E s \in Syncs : Fetch(s) \/ (\E j \in Iocs : Upsert(s, j)) \/ Stamp(s) \/ Trigger(s)
        \/ UNCHANGED iocFaults /\ (\/ \E j \in Iocs : Scan(j)
                                   \/ \E e \in Events : CheckIocMatch(e) \/ SkipIocMatch(e) \/ Ingest(e)
                                   \/ DecayConfidence
                                   \/ UNCHANGED iocVars)
    BY DEF IocNext, Fetch, Save, Upsert, Stamp, SaveFails, Trigger, Scan, ScanQuery, ScanRecord, ScanFails,
           CheckIocMatch, SkipIocMatch, Ingest, RecordHit, StoreEvent, DecayConfidence, IocCrash, iocVars
  <1>6. ASSUME UNCHANGED iocFaults, iocFaults' = 0, ~IocFault, NEW i \in Iocs PROVE Remembered(i)'
    <2>1. Remembered(i)
      BY <1>6, RememberedIs DEF ScanInvariant
    <2> QED
      BY <1>1, <1>5, <1>6, <2>1, FetchRemembers, UpsertRemembers, StampRemembers, TriggerRemembers, OthersRemember
  <1>7. iocFaults' = 0 => \A i \in Iocs : Remembered(i)'
    BY <1>4, <1>5, <1>6
  <1>8. NewIsRemembered'
    BY <1>7 DEF NewIsRemembered, Remembered, ToTrigger
  <1> QED
    BY <1>1, <1>3, <1>8 DEF ScanInvariant

\* As long as nothing fails, an indicator that came into the store is with the
\* sync that found it new until its scan is started: no other sync, no expiry
\* and no return of it makes it forgotten.
THEOREM NewIndicatorsAreRemembered == IocSpec => []NewIsRemembered
  <1>1. ScanInvariant => NewIsRemembered
    BY DEF ScanInvariant
  <1> QED
    BY ScanInitInv, ScanNextInv, <1>1, PTL DEF IocSpec

\* The query of a scan finds all of the stored events, unless they are more
\* than its LIMIT.
LEMMA QueryFinds ==
  ASSUME ScanInvariant, NEW i \in Iocs, ScanQuery(i), Cardinality(StoredOf(i)) <= ScanLimit
  PROVE  StoredOf(i) \subseteq rows'[i]
  <1> DEFINE size == IF Cardinality(StoredOf(i)) < ScanLimit THEN Cardinality(StoredOf(i)) ELSE ScanLimit
  <1>1. PICK some \in kSubset(size, StoredOf(i)) : rows' = [rows EXCEPT ![i] = some]
    BY DEF ScanQuery, StoredOf
  <1>2. IsFiniteSet(StoredOf(i))
    <2>1. StoredOf(i) \subseteq duck
      BY DEF StoredOf
    <2> QED
      BY <2>1, FS_Subset DEF ScanInvariant
  <1>3. Cardinality(StoredOf(i)) \in Nat
    BY <1>2, FS_CardinalityType
  <1>4. size = Cardinality(StoredOf(i))
    BY <1>3, IocIntelAssumption
  <1> HIDE DEF size
  <1>5. some \in SUBSET StoredOf(i) /\ Cardinality(some) = Cardinality(StoredOf(i))
    BY <1>4 DEF kSubset
  <1>6. some = StoredOf(i)
    BY <1>2, <1>5, FS_Subset
  <1>7. rows'[i] = some
    BY <1>1 DEF ScanInvariant, IocInv, IocTypeOK
  <1> QED
    BY <1>6, <1>7

LEMMA StepMissesNothing ==
  ASSUME ScanInvariant, [IocNext]_iocVars, UNCHANGED iocFaults, NEW i \in Iocs
  PROVE  QueryFindsAll(i) /\ RowsBecomeHits(i)
  <1>1. ~IocFault
    BY IocIntelAssumption DEF IocFault, ScanInvariant, IocInv, IocTypeOK
  <1>2. DOMAIN rows = Iocs /\ DOMAIN iocScan = Iocs
    BY DEF ScanInvariant, IocInv, IocTypeOK
  <1>3. CASE \E j \in Iocs : Scan(j)
    <2>1. PICK j \in Iocs : ScanQuery(j) \/ \E e \in Events : ScanRecord(j, e)
      BY <1>1, <1>3 DEF Scan, ScanFails
    <2>2. CASE j # i
      <3>1. iocScan'[i] = iocScan[i] /\ rows'[i] = rows[i]
        BY <1>2, <2>1, <2>2 DEF ScanQuery, ScanRecord
      <3> QED
        BY <3>1 DEF QueryFindsAll, RowsBecomeHits
    <2>3. CASE j = i /\ ScanQuery(i)
      <3>1. QueryFindsAll(i)
        BY <2>3, QueryFinds DEF QueryFindsAll
      <3>2. rows[i] = {}
        BY <2>3 DEF ScanQuery, ScanInvariant, RowsAreRecorded
      <3> QED
        BY <3>1, <3>2 DEF RowsBecomeHits
    <2>4. ASSUME NEW e \in Events, j = i, ScanRecord(i, e) PROVE QueryFindsAll(i) /\ RowsBecomeHits(i)
      <3>1. /\ hits' = hits \cup {[event |-> e, by |-> i]}
            /\ rows' = [rows EXCEPT ![i] = @ \ {e}]
            /\ iocScan[i] = "record"
        BY <2>4 DEF ScanRecord
      <3>2. rows'[i] = rows[i] \ {e}
        BY <1>2, <3>1
      <3> QED
        BY <3>1, <3>2 DEF QueryFindsAll, RowsBecomeHits
    <2> QED
      BY <2>1, <2>2, <2>3, <2>4
  <1>4. CASE ~ \E j \in Iocs : Scan(j)
    <2>1. rows' = rows
      BY <1>1, <1>4 DEF IocNext, Fetch, Save, Upsert, Stamp, SaveFails, Trigger, CheckIocMatch, SkipIocMatch,
             Ingest, RecordHit, StoreEvent, DecayConfidence, IocCrash, iocVars, scanVars
    <2>2. iocScan[i] = "query" => iocScan'[i] = "query"
      BY <1>1, <1>4 DEF IocNext, Fetch, Save, Upsert, Stamp, SaveFails, Trigger, CheckIocMatch, SkipIocMatch,
             Ingest, RecordHit, StoreEvent, DecayConfidence, IocCrash, iocVars, scanVars
    <2> QED
      BY <2>1, <2>2 DEF QueryFindsAll, RowsBecomeHits
  <1> QED
    BY <1>3, <1>4

\* A scan within the LIMIT of its query misses no event that is stored when it
\* queries, and lets go of what it found only for a hit on record, unless a
\* store fails or the process stops.
THEOREM ScansMissNothing == IocSpec => ScanMissesNothing
  <1>1. ScanInvariant /\ [IocNext]_iocVars =>
          [UNCHANGED iocFaults => \A i \in Iocs : QueryFindsAll(i) /\ RowsBecomeHits(i)]_iocVars
    BY StepMissesNothing
  <1> QED
    BY ScanInitInv, ScanNextInv, <1>1, PTL DEF IocSpec, ScanMissesNothing

-----------------------------------------------------------------------------
\* OsintInvestigation: the start, the poller and the analyst.

\* Before the poller is launched there is nothing of it, and the row has its
\* placeholder id, so that no cancellation reaches SpiderFoot.
NotLaunched ==
  /\ start # "done" => poller = "none" /\ ~renamed /\ status \notin {"TIMEOUT", "FINISHED"}
  /\ start \in {"none", "scan"} => scan = "none"
  /\ ~renamed => scan # "deleted"

\* The findings, from SpiderFoot to the table, while nothing fails.
HarvestIsWhole ==
  osintFaults = 0 /\ scan # "deleted" =>
    /\ poller = "insert" => got = Findings
    /\ poller = "summary" => stored = Findings
    /\ poller = "update" /\ seen = "FINISHED" => stored = Findings

\* The poller has stopped the scan before it says so.
TimeoutIsStopped == poller = "timeout" /\ osintFaults = 0 => scan # "RUNNING"

OsintInv == /\ OsintTypeOK /\ NotLaunched /\ HarvestIsWhole /\ TimeoutIsStopped
            /\ FinishedIsHarvested /\ TimeoutStopsScan

LEMMA OsintInitInv == OsintInit => OsintInv
  <1> SUFFICES ASSUME OsintInit PROVE OsintInv
    OBVIOUS
  <1>1. renamed \in BOOLEAN /\ summary \in BOOLEAN
    BY Zenon DEF OsintInit
  <1>2. OsintTypeOK
    BY <1>1, OsintAssumption DEF OsintInit, OsintTypeOK
  <1> QED
    BY <1>2 DEF OsintInit, OsintInv, NotLaunched, HarvestIsWhole, TimeoutIsStopped,
       FinishedIsHarvested, TimeoutStopsScan

\* The flag of the summary, and the other variables, through a step.
LEMMA SummaryType ==
  ASSUME OsintTypeOK, OsintNext
  PROVE  summary' \in BOOLEAN
  <1>1. UNCHANGED summary \/ summary' = FALSE \/ summary' = (got # {})
    BY Zenon
    DEF OsintNext, CreateInvestigation, OsintRequest, StartScan, StartFailed, LaunchPoller,
        Poller, OsintPoll, Harvest, InsertFindings, UpdateSummary, UpdateFinal, StopScan, UpdateTimeout,
        ScanEnds, CancelScan, CancelUpdate, OpenStream, Stream, StreamFindings, StreamStatus, Disconnect,
        OsintCrash, UpdateStatus, NoUpdate
  <1>2. summary \in BOOLEAN
    BY DEF OsintTypeOK
  <1> QED
    BY <1>1, <1>2, Zenon

LEMMA OsintTypeInv ==
  ASSUME OsintInv, OsintNext
  PROVE  OsintTypeOK'
  <1> DEFINE Rest ==
        /\ start \in {"none", "scan", "rename", "failed", "done"}
        /\ status \in {"none", "RUNNING", "TIMEOUT"} \cup TERMINAL_STATES
        /\ renamed \in BOOLEAN
        /\ stored \subseteq Findings
        /\ scan \in {"none", "RUNNING", "deleted"} \cup TERMINAL_STATES
        /\ poller \in {"none", "poll", "harvest", "insert", "summary", "update", "stop", "timeout", "end"}
        /\ polls \in 0 .. Polls
        /\ seen \in {"none"} \cup TERMINAL_STATES
        /\ got \subseteq Findings
        /\ cancel \in {"none", "placeholder", "scan"}
        /\ stream \in {"none", "findings", "status", "closed", "left"}
        /\ osintFaults \in 0 .. MaxOsintFaults
  <1>0. Rest /\ OsintTypeOK
    BY DEF OsintInv, OsintTypeOK
  <1> SUFFICES Rest'
    BY <1>0, SummaryType DEF OsintTypeOK
  <1> USE <1>0, OsintAssumption
      DEF TERMINAL_STATES, requestVars, pollerVars, UpdateStatus, NoUpdate, OsintFault
  <1>1. CASE CreateInvestigation
    BY <1>1 DEF CreateInvestigation
  <1>2. CASE StartScan
    BY <1>2 DEF StartScan
  <1>3. CASE StartFailed
    BY <1>3 DEF StartFailed
  <1>4. CASE LaunchPoller
    BY <1>4 DEF LaunchPoller
  <1>5. CASE OsintPoll
    BY <1>5 DEF OsintPoll, InTime, PollsAfter
  <1>6. CASE Harvest
    BY <1>6 DEF Harvest, AfterFetch
  <1>7. CASE InsertFindings
    BY <1>7 DEF InsertFindings
  <1>8. CASE UpdateSummary
    BY <1>8 DEF UpdateSummary
  <1>9. CASE UpdateFinal
    BY <1>9 DEF UpdateFinal
  <1>10. CASE StopScan
    BY <1>10 DEF StopScan, Stopped
  <1>11. CASE UpdateTimeout
    BY <1>11 DEF UpdateTimeout
  <1>12. ASSUME NEW s \in TERMINAL_STATES, ScanEnds(s) PROVE Rest'
    BY <1>12 DEF ScanEnds
  <1>13. CASE CancelScan \/ CancelUpdate
    BY <1>13 DEF CancelScan, CancelUpdate
  <1>14. CASE OpenStream \/ Stream \/ Disconnect
    BY <1>14 DEF OpenStream, Stream, StreamFindings, StreamStatus, Disconnect
  <1>15. CASE OsintCrash
    BY <1>15 DEF OsintCrash
  <1> QED
    BY <1>1, <1>2, <1>3, <1>4, <1>5, <1>6, <1>7, <1>8, <1>9, <1>10, <1>11, <1>12, <1>13, <1>14, <1>15
    DEF OsintNext, OsintRequest, Poller

\* What a step does to the rest: one step per action of the poller, one for the
\* request, and the others, which leave the poller alone.
LEMMA OsintStepInv ==
  ASSUME OsintInv, OsintNext
  PROVE  (NotLaunched /\ HarvestIsWhole /\ TimeoutIsStopped /\ FinishedIsHarvested /\ TimeoutStopsScan)'
  <1> USE OsintAssumption
      DEF OsintInv, OsintTypeOK, TERMINAL_STATES, requestVars, pollerVars, UpdateStatus, NoUpdate,
          OsintFault, NotLaunched, HarvestIsWhole, TimeoutIsStopped, FinishedIsHarvested, TimeoutStopsScan
  <1>1. CASE CreateInvestigation
    BY <1>1 DEF CreateInvestigation
  <1>2. CASE StartScan
    BY <1>2 DEF StartScan
  <1>3. CASE StartFailed
    BY <1>3 DEF StartFailed
  <1>4. CASE LaunchPoller
    BY <1>4 DEF LaunchPoller
  <1>5. CASE OsintPoll
    BY <1>5 DEF OsintPoll, InTime, PollsAfter
  <1>6. CASE Harvest
    <2>1. CASE scan = "deleted"
      BY <1>6, <2>1 DEF Harvest, AfterFetch
    <2>2. CASE scan # "deleted" /\ got' = Findings
      BY <1>6, <2>2 DEF Harvest, AfterFetch
    <2>3. CASE scan # "deleted" /\ osintFaults' = osintFaults + 1
      BY <1>6, <2>3 DEF Harvest, AfterFetch
    <2> QED
      BY <1>6, <2>1, <2>2, <2>3 DEF Harvest
  <1>7. CASE InsertFindings
    BY <1>7 DEF InsertFindings
  <1>8. CASE UpdateSummary
    BY <1>8 DEF UpdateSummary
  <1>9. CASE UpdateFinal
    BY <1>9 DEF UpdateFinal
  <1>10. CASE StopScan
    BY <1>10 DEF StopScan, Stopped
  <1>11. CASE UpdateTimeout
    BY <1>11 DEF UpdateTimeout
  <1>12. ASSUME NEW s \in TERMINAL_STATES, ScanEnds(s)
         PROVE  (NotLaunched /\ HarvestIsWhole /\ TimeoutIsStopped /\ FinishedIsHarvested /\ TimeoutStopsScan)'
    BY <1>12 DEF ScanEnds
  <1>13. CASE CancelScan \/ CancelUpdate
    BY <1>13 DEF CancelScan, CancelUpdate
  <1>14. CASE OpenStream \/ Stream \/ Disconnect
    BY <1>14 DEF OpenStream, Stream, StreamFindings, StreamStatus, Disconnect
  <1>15. CASE OsintCrash
    BY <1>15 DEF OsintCrash
  <1> QED
    BY <1>1, <1>2, <1>3, <1>4, <1>5, <1>6, <1>7, <1>8, <1>9, <1>10, <1>11, <1>12, <1>13, <1>14, <1>15
    DEF OsintNext, OsintRequest, Poller

LEMMA OsintNextInv == OsintInv /\ [OsintNext]_osintVars => OsintInv'
  <1>1. ASSUME OsintInv, OsintNext PROVE OsintInv'
    BY <1>1, OsintTypeInv, OsintStepInv DEF OsintInv
  <1>2. ASSUME OsintInv, UNCHANGED osintVars PROVE OsintInv'
    BY <1>2 DEF osintVars, requestVars, pollerVars, OsintInv, OsintTypeOK, NotLaunched, HarvestIsWhole,
       TimeoutIsStopped, FinishedIsHarvested, TimeoutStopsScan
  <1> QED
    BY <1>1, <1>2

\* Whatever cancellations, streams and ends of the scan come between, an
\* investigation that is FINISHED without a failure has all findings in the
\* table, and one that is TIMEOUT has its scan stopped, for any findings, any
\* number of polls and any bound on failures.
THEOREM InvestigationsAreTrue ==
  OsintSpec => [](OsintTypeOK /\ FinishedIsHarvested /\ TimeoutStopsScan)
  <1>1. OsintInv => OsintTypeOK /\ FinishedIsHarvested /\ TimeoutStopsScan
    BY DEF OsintInv
  <1> QED
    BY OsintInitInv, OsintNextInv, <1>1, PTL DEF OsintSpec

\* Once the poller has seen the end of the scan it has a status to write.
SeenIsFinal == poller \in {"harvest", "insert", "summary", "update"} => seen \in TERMINAL_STATES

AttendedInv == RunningIsAttended /\ SeenIsFinal

\* While nothing fails, no step leaves an investigation without a final status to
\* nobody.
LEMMA AttendedStep ==
  ASSUME OsintInv, AttendedInv, OsintNext
  PROVE  AttendedInv'
  <1> USE OsintAssumption
      DEF OsintInv, OsintTypeOK, TERMINAL_STATES, requestVars, pollerVars, UpdateStatus, NoUpdate,
          OsintFault, RunningIsAttended, SeenIsFinal, AttendedInv, StreamEnds
  <1>1. CASE CreateInvestigation \/ StartScan \/ StartFailed \/ LaunchPoller
    BY <1>1 DEF CreateInvestigation, StartScan, StartFailed, LaunchPoller
  <1>2. CASE OsintPoll
    BY <1>2 DEF OsintPoll
  <1>3. CASE Harvest
    BY <1>3 DEF Harvest, AfterFetch
  <1>4. CASE InsertFindings \/ UpdateSummary
    BY <1>4 DEF InsertFindings, UpdateSummary
  <1>5. CASE UpdateFinal
    BY <1>5 DEF UpdateFinal
  <1>6. CASE StopScan \/ UpdateTimeout
    BY <1>6 DEF StopScan, UpdateTimeout
  <1>7. ASSUME NEW s \in TERMINAL_STATES, ScanEnds(s) PROVE AttendedInv'
    BY <1>7 DEF ScanEnds
  <1>8. CASE CancelScan \/ CancelUpdate
    BY <1>8 DEF CancelScan, CancelUpdate
  <1>9. CASE OpenStream \/ Stream \/ Disconnect
    BY <1>9 DEF OpenStream, Stream, StreamFindings, StreamStatus, Disconnect
  <1>10. CASE OsintCrash
    BY <1>10 DEF OsintCrash
  <1> QED
    BY <1>1, <1>2, <1>3, <1>4, <1>5, <1>6, <1>7, <1>8, <1>9, <1>10 DEF OsintNext, OsintRequest, Poller

\* Without failures somebody is still at work on every investigation that has no
\* final status, wherever a cancellation, a second one, or the end of the scan comes
\* in: what InvestigationEnds says of a standstill.
THEOREM InvestigationsAreAttended == OsintSpec => []RunningIsAttended
  <1>1. OsintInit => AttendedInv
    BY DEF OsintInit, AttendedInv, RunningIsAttended, SeenIsFinal
  <1>2. ASSUME OsintInv, AttendedInv, [OsintNext]_osintVars PROVE AttendedInv'
    <2>1. CASE UNCHANGED osintVars
      BY <1>2, <2>1 DEF osintVars, requestVars, pollerVars, AttendedInv, RunningIsAttended, SeenIsFinal, StreamEnds
    <2> QED
      BY <1>2, <2>1, AttendedStep
  <1>3. AttendedInv => RunningIsAttended
    BY DEF AttendedInv
  <1> QED
    BY <1>1, <1>2, <1>3, OsintInitInv, OsintNextInv, PTL DEF OsintSpec

-----------------------------------------------------------------------------
\* Collectors: the cursor, the page and the ingestion of one source.

\* Where a poll may be, with what it has read.
Places ==
  /\ pc \in {"save", "ingest", "cursor"} => batch # {}
  /\ pc = "save" => kind = "malcolm"
  /\ pc = "cursor" => kind = "winevent"
  /\ pc \in {"sleep", "beat"} => batch = {}

\* No more is in the source than was ever written.
Written == /\ Len(file) <= Len(time) /\ Len(time) <= MaxRecords
           /\ \A k \in 1 .. Len(file) : file[k] \in Records

SourceInv == SourceTypeOK /\ Places /\ Written

LEMMA SourceInitInv == SourceInit => SourceInv
  <1> SUFFICES ASSUME SourceInit PROVE SourceInv
    OBVIOUS
  <1>1. skipped \in BOOLEAN
    BY Zenon DEF SourceInit
  <1>2. file \in Seq(1 .. MaxRecords) /\ time \in Seq(1 .. MaxSourceTime) /\ Len(file) = 0 /\ Len(time) = 0
    BY DEF SourceInit
  <1> QED
    BY <1>1, <1>2, CollectorsAssumption DEF SourceInit, SourceInv, SourceTypeOK, Places, Written, Many

-----------------------------------------------------------------------------
\* What has been stored stays stored, and each new event counts once.
LEMMA StoreCopies ==
  ASSUME copies \in [1 .. MaxRecords -> 0 .. Many], NEW these, Store(these)
  PROVE  /\ copies' \in [1 .. MaxRecords -> 0 .. Many]
         /\ \A r \in 1 .. MaxRecords :
              /\ copies[r] > 0 => copies'[r] > 0
              /\ r \in these => copies'[r] > 0
              /\ r \notin these => copies'[r] = copies[r]
              /\ copies[r] = 0 => copies'[r] <= 1
  BY DEF Store, Many

\* The new cursor is the time of a record of the batch, and none is later.
LEMMA MovedCursor ==
  ASSUME SourceInv, batch # {}, MoveCursor
  PROVE  /\ \E r \in batch : cursor' = time[r]
         /\ \A r \in batch : time[r] <= cursor'
         /\ cursor' \in 1 .. MaxSourceTime
  <1> DEFINE times == {time[r] : r \in batch}
  <1>1. times \in SUBSET (1 .. MaxSourceTime) /\ times # {}
    <2>1. \A r \in 1 .. Len(time) : time[r] \in 1 .. MaxSourceTime
      BY ElementOfSeq DEF SourceInv, SourceTypeOK
    <2> QED
      BY <2>1 DEF SourceInv, SourceTypeOK, Records
  <1>2. \E m \in times : \A k \in times : k <= m
    <2> HIDE DEF times
    <2> QED
      BY <1>1, Greatest, CollectorsAssumption
  <1>3. \E t \in times : \A r \in batch : time[r] <= t
    BY <1>2
  <1>4. cursor' = CHOOSE t \in times : \A r \in batch : time[r] <= t
    BY DEF MoveCursor
  <1>5. cursor' \in times /\ \A r \in batch : time[r] <= cursor'
    <2> HIDE DEF times
    <2> QED
      BY <1>3, <1>4
  <1> QED
    BY <1>1, <1>5

LEMMA SourceNextTypes ==
  ASSUME SourceInv, SourceNext
  PROVE  SourceInv'
  <1> USE CollectorsAssumption DEF SourceInv, sourceLog, Many
  <1>f. sourceFaults' \in 0 .. MaxSourceFaults
    BY DEF SourceNext, WriteRecord, Rotate, SourcePoll, ReadNewLines, FetchIndex, GetEvents, IngestEvents,
        SaveCursor, SetCursor, Heartbeat, RestartCollector, SourceFault, SourceTypeOK
  <1>1. ASSUME NEW t \in 1 .. MaxSourceTime, WriteRecord(t) PROVE SourceInv'
    <2>1. /\ time' = Append(time, t) /\ file' = Append(file, Len(time'))
          /\ UNCHANGED <<kind, cursor, pc, batch, copies, sourceFaults>> /\ Len(time) < MaxRecords
      BY <1>1 DEF WriteRecord
    <2>2. /\ time' \in Seq(1 .. MaxSourceTime) /\ Len(time') = Len(time) + 1
          /\ file' \in Seq(1 .. MaxRecords) /\ Len(file') = Len(file) + 1
      BY <2>1 DEF SourceTypeOK, Written
    <2>3. skipped' \in BOOLEAN
      BY <1>1, Zenon DEF WriteRecord
    <2>4. Written' /\ batch' \subseteq Records'
      <3>1. /\ \A k \in 1 .. Len(file) : file'[k] = file[k]
            /\ file'[Len(file) + 1] = Len(time')
        BY <2>1, <2>2 DEF SourceTypeOK
      <3>2. Len(file) \in Nat /\ Len(time) \in Nat
        BY DEF SourceTypeOK
      <3>3. Records' = 1 .. (Len(time) + 1) /\ Records = 1 .. Len(time)
        BY <2>2 DEF Records
      <3>4. \A k \in 1 .. (Len(file) + 1) : k \in 1 .. Len(file) \/ k = Len(file) + 1
        BY <3>2
      <3>5. \A k \in 1 .. (Len(file) + 1) : file'[k] \in Records'
        <4> SUFFICES ASSUME NEW k \in 1 .. (Len(file) + 1) PROVE file'[k] \in Records'
          OBVIOUS
        <4>1. CASE k \in 1 .. Len(file)
          <5>1. file'[k] = file[k] /\ file[k] \in Records
            BY <3>1, <4>1 DEF Written
          <5> QED
            BY <5>1, <3>2, <3>3
        <4>2. CASE k = Len(file) + 1
          BY <2>2, <3>1, <3>2, <3>3, <4>2
        <4> QED
          BY <3>4, <4>1, <4>2
      <3>6. batch' \subseteq Records'
        BY <2>1, <3>2, <3>3 DEF SourceTypeOK
      <3> QED
        BY <2>1, <2>2, <3>2, <3>5, <3>6 DEF Written
    <2>5. SourceTypeOK'
      BY <2>1, <2>2, <2>3, <2>4 DEF SourceTypeOK
    <2> QED
      BY <2>1, <2>4, <2>5 DEF Places
  <1>2. CASE Rotate
    <2>1. file' = <<>> /\ UNCHANGED <<kind, time, cursor, pc, batch, copies, skipped>>
      BY <1>2 DEF Rotate
    <2>2. file' \in Seq(1 .. MaxRecords) /\ Len(file') = 0
      BY <2>1
    <2> QED
      BY <2>1, <2>2, <1>f DEF SourceTypeOK, Records, Written, Places
  <1>3. CASE ReadNewLines
    <2>1. /\ UNCHANGED <<kind, file, time, copies, skipped, sourceFaults>> /\ kind = "tail"
          /\ cursor' = OffsetAfter
          /\ pc' = IF batch' = {} THEN "beat" ELSE "ingest"
          /\ batch' \subseteq {file[k] : k \in 1 .. Len(file)}
      BY <1>3 DEF ReadNewLines
    <2>2. cursor' \in 0 .. MaxRecords
      BY <2>1 DEF OffsetAfter, SourceTypeOK, Written
    <2>3. batch' \subseteq Records
      BY <2>1 DEF Written
    <2> QED
      BY <2>1, <2>2, <2>3 DEF SourceTypeOK, Records, Written, Places
  <1>4. CASE FetchIndex
    <2>1. /\ UNCHANGED <<kind, file, time, cursor, copies, skipped>> /\ kind = "malcolm"
          /\ pc' = IF batch' = {} THEN "beat" ELSE "save"
          /\ batch' \subseteq Records
      BY <1>4 DEF FetchIndex, Oldest, Pages, kSubset, Since
    <2> QED
      BY <2>1, <1>f DEF SourceTypeOK, Records, Written, Places
  <1>5. CASE GetEvents
    <2>1. /\ UNCHANGED <<kind, file, time, cursor, copies>>
          /\ pc' = IF batch' = {} THEN "sleep" ELSE "ingest"
          /\ batch' \subseteq Records
      BY <1>5 DEF GetEvents, Newest, Pages, kSubset, Since
    <2>2. skipped' \in BOOLEAN
      BY <1>5, Zenon DEF GetEvents
    <2> QED
      BY <2>1, <2>2, <1>f DEF SourceTypeOK, Records, Written, Places
  <1>6. CASE IngestEvents
    <2>1. /\ UNCHANGED <<kind, file, time, cursor>>
          /\ pc' \in {AfterIngest, "sleep"}
          /\ batch' = IF pc' = "cursor" THEN batch ELSE {}
      BY <1>6 DEF IngestEvents, AfterIngestError
    <2>2. copies' \in [1 .. MaxRecords -> 0 .. Many]
      <3>1. UNCHANGED copies \/ \E these : Store(these)
        BY <1>6 DEF IngestEvents
      <3> QED
        BY <3>1, StoreCopies DEF SourceTypeOK
    <2>3. skipped' \in BOOLEAN
      <3>1. UNCHANGED skipped \/ skipped' = TRUE
        BY <1>6, Zenon DEF IngestEvents
      <3> QED
        BY <3>1, Zenon DEF SourceTypeOK
    <2>4. batch # {}
      BY <1>6 DEF IngestEvents, Places
    <2> QED
      BY <2>1, <2>2, <2>3, <2>4, <1>f DEF SourceTypeOK, Records, Written, Places, AfterIngest
  <1>7. CASE SaveCursor \/ SetCursor
    <2>1. /\ UNCHANGED <<kind, file, time, copies>> /\ batch # {} /\ kind # "tail"
          /\ pc' \in {"ingest", "sleep"} /\ (pc' = "ingest" => UNCHANGED batch) /\ (pc' = "sleep" => batch' = {})
          /\ MoveCursor \/ UNCHANGED <<cursor, skipped>>
      BY <1>7 DEF SaveCursor, SetCursor, Places
    <2>2. cursor' \in 0 .. MaxSourceTime
      BY <2>1, MovedCursor DEF SourceTypeOK
    <2>3. skipped' \in BOOLEAN
      <3>1. (skipped' \in BOOLEAN) \/ UNCHANGED skipped
        BY <2>1, Zenon DEF MoveCursor
      <3> QED
        BY <3>1, Zenon DEF SourceTypeOK
    <2> QED
      BY <2>1, <2>2, <2>3, <1>f DEF SourceTypeOK, Records, Written, Places
  <1>8. CASE Heartbeat
    BY <1>8 DEF Heartbeat, SourceTypeOK, Records, Written, Places
  <1>9. CASE RestartCollector
    <2>1. /\ UNCHANGED <<kind, file, time, skipped>>
          /\ pc' = "sleep" /\ batch' = {}
          /\ cursor' = IF kind = "tail" THEN 0 ELSE cursor
          /\ \E these : Store(these)
      BY <1>9 DEF RestartCollector
    <2>2. copies' \in [1 .. MaxRecords -> 0 .. Many]
      BY <2>1, StoreCopies DEF SourceTypeOK
    <2> QED
      BY <2>1, <2>2, <1>f DEF SourceTypeOK, Records, Written, Places
  <1> QED
    BY <1>1, <1>2, <1>3, <1>4, <1>5, <1>6, <1>7, <1>8, <1>9 DEF SourceNext, SourcePoll

-----------------------------------------------------------------------------
\* The floor of a second is a time.
LEMMA FloorIsNatural ==
  ASSUME NEW c \in Nat
  PROVE  Floor(c) \in Nat
  <1>1. (c \div 2) * 2 \in Nat
    OBVIOUS
  <1> QED
    BY <1>1 DEF Floor

\* A query starts at the cursor or, for a channel, before it.
LEMMA FloorFacts ==
  ASSUME SourceTypeOK
  PROVE  /\ Floor(cursor) \in Nat
         /\ kind # "winevent" => Floor(cursor) = cursor
         /\ kind = "winevent" => \A r \in Records : r \notin Since => time[r] <= Floor(cursor)
         /\ \A r \in Records : time[r] \in 1 .. MaxSourceTime
  <1>1. cursor \in Nat
    BY CollectorsAssumption DEF SourceTypeOK
  <1>2. Floor(cursor) \in Nat
    BY <1>1 DEF Floor
  <1>3. \A r \in Records : time[r] \in 1 .. MaxSourceTime
    BY ElementOfSeq DEF SourceTypeOK, Records
  <1> QED
    BY <1>2, <1>3, CollectorsAssumption DEF Floor, Since, IsSince

\* What has been ingested is in the stores, before the cursor of a channel moves.
BatchIsStored ==
  kind = "winevent" /\ pc = "cursor" /\ ~skipped => \A r \in batch : copies[r] > 0

GapInv == SourceInv /\ BatchIsStored /\ NoGap

LEMMA GapStep ==
  ASSUME GapInv, SourceNext
  PROVE  (BatchIsStored /\ NoGap)'
  <1> SUFFICES ASSUME kind = "winevent", ~skipped'
               PROVE  /\ pc' = "cursor" => \A r \in batch' : copies'[r] > 0
                      /\ \A r \in Records' : time'[r] <= Floor(cursor)' => copies'[r] > 0
    BY DEF BatchIsStored, NoGap, SourceNext, WriteRecord, Rotate, SourcePoll, ReadNewLines, FetchIndex,
       GetEvents, IngestEvents, SaveCursor, SetCursor, Heartbeat, RestartCollector, sourceLog
  <1> USE CollectorsAssumption DEF GapInv, SourceInv, sourceLog
  <1>0. ~skipped
    BY Zenon DEF SourceNext, WriteRecord, Rotate, SourcePoll, ReadNewLines, FetchIndex, GetEvents, IngestEvents,
       SaveCursor, SetCursor, MoveCursor, Heartbeat, RestartCollector
  <1>a. \A r \in Records : time[r] <= Floor(cursor) => copies[r] > 0
    BY <1>0 DEF NoGap
  <1>b. pc = "cursor" => \A r \in batch : copies[r] > 0
    BY <1>0 DEF BatchIsStored
  <1>1. ASSUME NEW t \in 1 .. MaxSourceTime, WriteRecord(t)
        PROVE  /\ pc' = "cursor" => \A r \in batch' : copies'[r] > 0
               /\ \A r \in Records' : time'[r] <= Floor(cursor)' => copies'[r] > 0
    <2>1. /\ time' = Append(time, t) /\ UNCHANGED <<kind, cursor, pc, batch, copies>>
          /\ ~(t <= Floor(cursor))
      <3>1. skipped' = (skipped \/ (kind # "tail" /\ t <= Floor(cursor)))
        BY <1>1 DEF WriteRecord
      <3>2. ~(t <= Floor(cursor))
        BY <3>1, Zenon
      <3> QED
        BY <1>1, <3>2 DEF WriteRecord
    <2>2. /\ Len(time) \in Nat /\ Len(time') = Len(time) + 1 /\ time'[Len(time) + 1] = t
          /\ \A r \in 1 .. Len(time) : time'[r] = time[r]
      BY <2>1 DEF SourceTypeOK
    <2>3. \A r \in Records' : r \in Records \/ r = Len(time) + 1
      BY <2>2 DEF Records
    <2>4. Floor(cursor)' = Floor(cursor)
      BY <2>1 DEF Floor
    <2> QED
      BY <1>a, <1>b, <2>1, <2>2, <2>3, <2>4 DEF Records
  <1>2. CASE Rotate \/ Heartbeat \/ ReadNewLines \/ FetchIndex
    BY <1>2, <1>a, <1>b DEF Rotate, Heartbeat, ReadNewLines, FetchIndex, Records, Floor
  <1>3. CASE GetEvents
    BY <1>3, <1>a DEF GetEvents, Records, Floor
  <1>4. CASE IngestEvents
    <2>1. /\ UNCHANGED <<kind, file, time, cursor>>
          /\ Store(batch) \/ UNCHANGED copies \/ \E these : Store(these)
          /\ pc' = "cursor" => Store(batch) /\ batch' = batch
      <3>1. skipped' # TRUE
        OBVIOUS
      <3> QED
        BY <1>4, <3>1 DEF IngestEvents, AfterIngest, AfterIngestError
    <2>2. \A r \in 1 .. MaxRecords : copies[r] > 0 => copies'[r] > 0
      BY <2>1, StoreCopies DEF SourceTypeOK
    <2>4. Records \subseteq 1 .. MaxRecords /\ batch \subseteq Records
      BY DEF Records, Written, SourceTypeOK
    <2>3. pc' = "cursor" => \A r \in batch' : copies'[r] > 0
      BY <2>1, <2>4, StoreCopies DEF SourceTypeOK
    <2> QED
      BY <1>a, <2>1, <2>2, <2>3, <2>4 DEF Records, Floor
  <1>5. CASE SaveCursor
    BY <1>5 DEF SaveCursor, Places
  <1>6. CASE SetCursor
    <2>1. /\ UNCHANGED <<kind, file, time, copies>> /\ pc = "cursor" /\ pc' = "sleep"
          /\ MoveCursor \/ UNCHANGED cursor
      BY <1>6 DEF SetCursor
    <2>2. CASE MoveCursor
      <3>1. \A r \in Since \ batch : ~(time[r] <= Floor(cursor'))
        <4>1. skipped' = (skipped \/ \E r \in Since \ batch : time[r] <= Floor(cursor'))
          BY <2>2 DEF MoveCursor
        <4> QED
          BY <4>1, Zenon
      <3>2. \A r \in Records : r \notin Since => time[r] <= Floor(cursor)
        BY FloorFacts
      <3>3. Floor(cursor)' = Floor(cursor') /\ Records' = Records
        BY <2>1 DEF Floor, Records
      <3> QED
        BY <1>a, <1>b, <2>1, <3>1, <3>2, <3>3
    <2> QED
      BY <1>a, <2>1, <2>2 DEF Records, Floor
  <1>7. CASE RestartCollector
    <2>1. UNCHANGED <<kind, file, time, cursor>> /\ pc' = "sleep" /\ \E these : Store(these)
      BY <1>7 DEF RestartCollector
    <2>2. \A r \in 1 .. MaxRecords : copies[r] > 0 => copies'[r] > 0
      BY <2>1, StoreCopies DEF SourceTypeOK
    <2>3. Records \subseteq 1 .. MaxRecords
      BY DEF Records, Written, SourceTypeOK
    <2> QED
      BY <1>a, <2>1, <2>2, <2>3 DEF Records, Floor
  <1> QED
    BY <1>1, <1>2, <1>3, <1>4, <1>5, <1>6, <1>7 DEF SourceNext, SourcePoll

-----------------------------------------------------------------------------
\* When a record counts as read: its line or its time lies before the cursor.
Passed(r) == IF kind = "tail" THEN r <= cursor ELSE time[r] <= cursor

\* The collectors that promise at most one event of a record.
PromisesOnce == kind = "malcolm" \/ (kind = "tail" /\ sourceFaults = 0)

\* A file that was never rotated has the records in the order of writing.
InOrder == /\ Len(file) = Len(time) /\ \A k \in 1 .. Len(file) : file[k] = k
           /\ cursor <= Len(file)

OnceInv ==
  /\ \A r \in 1 .. MaxRecords : r \notin Records => copies[r] = 0
  /\ PromisesOnce =>
       /\ kind = "tail" => InOrder
       /\ \A r \in Records : copies[r] <= 1 /\ (copies[r] > 0 => Passed(r))
       /\ pc = "save" => \A r \in batch : ~Passed(r)
       /\ pc = "ingest" => \A r \in batch : copies[r] = 0 /\ Passed(r)

\* Some or all of a batch that was not stored yet is stored once.
LEMMA StoredOnce ==
  ASSUME SourceInv, OnceInv, NEW these, Store(these), these \subseteq batch, pc = "ingest" \/ these = {},
         UNCHANGED <<kind, file, time>>, PromisesOnce
  PROVE  \A r \in Records : copies'[r] <= 1 /\ (copies'[r] > 0 => Passed(r))
  <1>1. Records \subseteq 1 .. MaxRecords
    BY CollectorsAssumption DEF SourceInv, SourceTypeOK, Written, Records
  <1> SUFFICES ASSUME NEW r \in Records
               PROVE  copies'[r] <= 1 /\ (copies'[r] > 0 => Passed(r))
    OBVIOUS
  <1>2. CASE r \in these
    <2>1. copies[r] = 0 /\ Passed(r)
      BY <1>2 DEF OnceInv
    <2> QED
      BY <1>1, <2>1, StoreCopies DEF SourceInv, SourceTypeOK
  <1>3. CASE r \notin these
    <2>1. copies'[r] = copies[r]
      BY <1>1, <1>3, StoreCopies DEF SourceInv, SourceTypeOK
    <2> QED
      BY <2>1 DEF OnceInv
  <1> QED
    BY <1>2, <1>3

LEMMA OnceStep ==
  ASSUME SourceInv, OnceInv, SourceNext
  PROVE  OnceInv'
  <1> USE CollectorsAssumption DEF sourceLog
  <1>a. Records \subseteq 1 .. MaxRecords /\ batch \subseteq Records /\ Len(time) \in Nat /\ Len(file) \in Nat /\ cursor \in Nat
    BY DEF SourceInv, SourceTypeOK, Written, Records
  <1>b. PromisesOnce' => PromisesOnce
    BY DEF SourceNext, WriteRecord, Rotate, SourcePoll, ReadNewLines, FetchIndex, GetEvents, IngestEvents,
       SaveCursor, SetCursor, Heartbeat, RestartCollector, SourceFault, PromisesOnce, SourceInv, SourceTypeOK
  <1>1. ASSUME NEW t \in 1 .. MaxSourceTime, WriteRecord(t) PROVE OnceInv'
    <2>1. /\ time' = Append(time, t) /\ file' = Append(file, Len(time'))
          /\ UNCHANGED <<kind, cursor, pc, batch, copies, sourceFaults>> /\ Len(time) < MaxRecords
      BY <1>1 DEF WriteRecord
    <2>2. /\ Len(time') = Len(time) + 1 /\ \A r \in 1 .. Len(time) : time'[r] = time[r]
          /\ Len(file') = Len(file) + 1 /\ \A k \in 1 .. Len(file) : file'[k] = file[k]
          /\ file'[Len(file) + 1] = Len(time) + 1
      BY <2>1 DEF SourceInv, SourceTypeOK
    <2>3. /\ Records = 1 .. Len(time) /\ Records' = 1 .. (Len(time) + 1)
          /\ \A r \in Records' : r \in Records \/ r = Len(time) + 1
          /\ Len(time) + 1 \in 1 .. MaxRecords /\ Len(time) + 1 \notin Records
      BY <1>a, <2>1, <2>2 DEF Records
    <2>4. \A r \in Records : Passed(r)' <=> Passed(r)
      BY <2>1, <2>2, <2>3 DEF Passed
    <2>5. \A r \in Records' : copies'[r] = copies[r] /\ (r \notin Records => copies[r] = 0)
      BY <2>1, <2>3 DEF OnceInv
    <2>6. ASSUME PromisesOnce, kind = "tail" PROVE InOrder'
      <3>1. InOrder
        BY <2>6 DEF OnceInv
      <3>2. \A k \in 1 .. (Len(file) + 1) : k \in 1 .. Len(file) \/ k = Len(file) + 1
        BY <1>a
      <3> QED
        BY <1>a, <2>1, <2>2, <3>1, <3>2 DEF InOrder
    <2>7. PromisesOnce => \A r \in Records' : copies'[r] <= 1 /\ (copies'[r] > 0 => Passed(r)')
      BY <2>4, <2>5 DEF OnceInv
    <2>8. \A r \in batch : Passed(r)' <=> Passed(r)
      BY <1>a, <2>4
    <2>9. \A r \in 1 .. MaxRecords : r \notin Records' => copies'[r] = 0
      BY <2>1, <2>3 DEF OnceInv
    <2> QED
      BY <1>b, <2>1, <2>6, <2>7, <2>8, <2>9 DEF OnceInv
  <1>2. CASE Rotate
    BY <1>2 DEF Rotate, SourceFault, OnceInv, PromisesOnce, Records, SourceInv, SourceTypeOK
  <1>3. CASE Heartbeat
    BY <1>3, <1>b DEF Heartbeat, OnceInv, PromisesOnce, Records, Passed, InOrder
  <1>4. CASE ReadNewLines
    <2>1. /\ UNCHANGED <<kind, file, time, copies, sourceFaults>> /\ kind = "tail"
          /\ cursor' = OffsetAfter
          /\ pc' = IF batch' = {} THEN "beat" ELSE "ingest"
          /\ batch' = {file[k] : k \in {k \in 1 .. Len(file) : k > cursor}}
      BY <1>4 DEF ReadNewLines
    <2>2. cursor' \in Nat /\ cursor' >= cursor /\ cursor' >= Len(file)
      BY <1>a, <2>1 DEF OffsetAfter
    <2> SUFFICES ASSUME PromisesOnce PROVE OnceInv'
      BY <1>b, <2>1 DEF OnceInv, Records
    <2>3. InOrder /\ InOrder'
      BY <2>1, <2>2 DEF OnceInv, InOrder, OffsetAfter
    <2>4. \A r \in batch' : r \in 1 .. Len(file) /\ r > cursor
      BY <2>1, <2>3 DEF InOrder
    <2>5. \A r \in batch' : r \in Records /\ copies'[r] = 0 /\ Passed(r)'
      <3> SUFFICES ASSUME NEW r \in batch' PROVE r \in Records /\ copies'[r] = 0 /\ Passed(r)'
        OBVIOUS
      <3>1. r \in Records /\ ~Passed(r) /\ Passed(r)'
        BY <1>a, <2>1, <2>2, <2>3, <2>4 DEF Records, Passed, InOrder
      <3>2. copies[r] \in Nat
        BY <1>a, <3>1 DEF SourceInv, SourceTypeOK, Many
      <3> QED
        BY <2>1, <3>1, <3>2 DEF OnceInv
    <2>6. \A r \in Records : Passed(r) => Passed(r)'
      BY <1>a, <2>1, <2>2 DEF Passed, Records
    <2> QED
      BY <2>1, <2>3, <2>5, <2>6 DEF OnceInv, Records
  <1>5. CASE FetchIndex
    <2>1. /\ UNCHANGED <<kind, file, time, cursor, copies>> /\ kind = "malcolm"
          /\ pc' = IF batch' = {} THEN "beat" ELSE "save"
          /\ batch' \subseteq Since
      BY <1>5 DEF FetchIndex, Oldest, Pages, kSubset
    <2>2. \A r \in batch' : ~Passed(r)'
      <3>1. Floor(cursor) = cursor
        BY <2>1 DEF Floor
      <3>2. \A r \in Records : time[r] \in Nat
        BY FloorFacts DEF SourceInv
      <3> QED
        BY <1>a, <2>1, <3>1, <3>2 DEF Since, IsSince, Passed, Records
    <2> QED
      BY <1>b, <2>1, <2>2 DEF OnceInv, Passed, Records
  <1>6. CASE GetEvents \/ SetCursor
    <2>1. UNCHANGED <<kind, time, copies>> /\ kind = "winevent"
      BY <1>6 DEF GetEvents, SetCursor, SourceInv, Places
    <2> QED
      BY <2>1 DEF OnceInv, PromisesOnce, Records
  <1>7. CASE IngestEvents
    <2>1. /\ UNCHANGED <<kind, file, time, cursor>> /\ pc = "ingest"
          /\ UNCHANGED copies \/ \E these \in SUBSET batch : Store(these)
          /\ pc' \in {"cursor", "beat", "sleep"}
      BY <1>7 DEF IngestEvents, AfterIngest, AfterIngestError
    <2>2. \A r \in 1 .. MaxRecords : r \notin Records => copies'[r] = 0
      BY <1>a, <2>1, StoreCopies DEF OnceInv, SourceInv, SourceTypeOK
    <2>3. PromisesOnce => \A r \in Records : copies'[r] <= 1 /\ (copies'[r] > 0 => Passed(r))
      BY <2>1, StoredOnce DEF OnceInv
    <2>4. Records' = Records /\ (InOrder => InOrder') /\ \A r : Passed(r) => Passed(r)'
      BY <2>1 DEF Records, InOrder, Passed
    <2>5. PromisesOnce' => (kind' = "tail" => InOrder')
      BY <1>b, <2>1, <2>4 DEF OnceInv
    <2>6. PromisesOnce' => \A r \in Records' : copies'[r] <= 1 /\ (copies'[r] > 0 => Passed(r)')
      BY <1>b, <2>3, <2>4
    <2> QED
      BY <2>1, <2>2, <2>4, <2>5, <2>6 DEF OnceInv
  <1>8. CASE SaveCursor
    <2>0. kind = "malcolm" /\ batch # {} /\ pc = "save"
      BY <1>8 DEF SaveCursor, SourceInv, Places
    <2>1. UNCHANGED <<kind, file, time, copies>>
      BY <1>8 DEF SaveCursor
    <2>2. CASE MoveCursor /\ pc' = "ingest" /\ UNCHANGED batch
      <3>1. \A r \in batch : time[r] <= cursor' /\ time[r] \in Nat /\ cursor' \in Nat
        BY <1>a, <2>0, <2>2, MovedCursor, FloorFacts DEF SourceInv
      <3>2. \A r \in batch : ~Passed(r) /\ Passed(r)' /\ copies[r] = 0
        <4> SUFFICES ASSUME NEW r \in batch PROVE ~Passed(r) /\ Passed(r)' /\ copies[r] = 0
          OBVIOUS
        <4>1. ~Passed(r)
          BY <2>0 DEF OnceInv, PromisesOnce
        <4>2. Passed(r)'
          BY <2>0, <2>1, <3>1 DEF Passed
        <4>3. r \in 1 .. MaxRecords
          BY <1>a
        <4>4. copies[r] \in Nat
          BY <4>3 DEF SourceInv, SourceTypeOK, Many
        <4> QED
          BY <4>4, <1>a, <2>0, <4>1, <4>2, <4>3 DEF OnceInv, PromisesOnce
      <3>3. cursor <= cursor'
        <4>1. PICK r \in batch : ~Passed(r)
          BY <2>0, <3>2
        <4> QED
          BY <1>a, <2>0, <3>1, <4>1 DEF Passed
      <3>4. \A r \in Records : Passed(r) => Passed(r)'
        <4>1. (\A r \in Records : time[r] \in Nat) /\ cursor' \in Nat
          BY <2>0, <3>1, FloorFacts DEF SourceInv
        <4>2. kind' = kind /\ time' = time /\ kind = "malcolm"
          BY <2>0, <2>1
        <4> QED
          BY <1>a, <3>3, <4>1, <4>2 DEF Passed
      <3> QED
        BY <1>b, <2>0, <2>1, <2>2, <3>2, <3>4 DEF OnceInv, Records
    <2>3. CASE UNCHANGED cursor /\ pc' = "sleep"
      BY <1>b, <2>0, <2>1, <2>3 DEF OnceInv, Records, Passed
    <2> QED
      BY <1>8, <2>2, <2>3 DEF SaveCursor
  <1>9. CASE RestartCollector
    <2>1. /\ UNCHANGED <<kind, file, time>> /\ pc' = "sleep" /\ (kind # "tail" => UNCHANGED cursor)
          /\ sourceFaults' = sourceFaults + 1
          /\ \E these \in SUBSET (IF pc = "ingest" THEN batch ELSE {}) : Store(these)
      BY <1>9 DEF RestartCollector, SourceFault
    <2>2. \A r \in 1 .. MaxRecords : r \notin Records => copies'[r] = 0
      BY <1>a, <2>1, StoreCopies DEF OnceInv, SourceInv, SourceTypeOK
    <2>3. PromisesOnce => \A r \in Records : copies'[r] <= 1 /\ (copies'[r] > 0 => Passed(r))
      BY <2>1, StoredOnce DEF OnceInv
    <2>4. PromisesOnce' => kind = "malcolm" /\ \A r : Passed(r) => Passed(r)'
      BY <2>1 DEF PromisesOnce, Passed, SourceInv, SourceTypeOK
    <2>5. Records' = Records /\ kind' = kind
      BY <2>1 DEF Records
    <2> QED
      BY <1>b, <2>1, <2>2, <2>3, <2>4, <2>5 DEF OnceInv
  <1> QED
    BY <1>1, <1>2, <1>3, <1>4, <1>5, <1>6, <1>7, <1>8, <1>9 DEF SourceNext, SourcePoll

-----------------------------------------------------------------------------
LEMMA CollectorInitInv == SourceInit => SourceInv /\ BatchIsStored /\ NoGap /\ OnceInv
  <1> SUFFICES ASSUME SourceInit PROVE SourceInv /\ BatchIsStored /\ NoGap /\ OnceInv
    OBVIOUS
  <1>1. Records = {}
    BY DEF SourceInit, Records
  <1> QED
    BY <1>1, SourceInitInv, CollectorsAssumption
    DEF SourceInit, BatchIsStored, NoGap, OnceInv, InOrder

LEMMA CollectorNextInv ==
  (SourceInv /\ BatchIsStored /\ NoGap /\ OnceInv) /\ [SourceNext]_sourceVars
    => (SourceInv /\ BatchIsStored /\ NoGap /\ OnceInv)'
  <1>1. ASSUME SourceInv, BatchIsStored, NoGap, OnceInv, SourceNext
        PROVE  (SourceInv /\ BatchIsStored /\ NoGap /\ OnceInv)'
    BY <1>1, SourceNextTypes, GapStep, OnceStep DEF GapInv
  <1>2. ASSUME SourceInv, BatchIsStored, NoGap, OnceInv, UNCHANGED sourceVars
        PROVE  (SourceInv /\ BatchIsStored /\ NoGap /\ OnceInv)'
    <2>1. SourceInv'
      BY <1>2 DEF sourceVars, SourceInv, SourceTypeOK, Places, Written, Records
    <2>2. (BatchIsStored /\ NoGap)'
      BY <1>2 DEF sourceVars, BatchIsStored, NoGap, Records, Floor
    <2>3. OnceInv'
      BY <1>2 DEF sourceVars, OnceInv, PromisesOnce, InOrder, Passed, Records
    <2> QED
      BY <2>1, <2>2, <2>3
  <1> QED
    BY <1>1, <1>2

LEMMA OnceIsAtMostOnce == SourceInv /\ OnceInv => AtMostOnce
  BY DEF OnceInv, PromisesOnce, AtMostOnce

\* Behind the cursor of a channel there is no gap, and a document of Malcolm, or
\* a line of a file while nothing fails, becomes at most one event, for any
\* number of records and times, any page size, any failures and restarts, and a
\* source that writes between any two steps of the poll.
THEOREM CollectorsAreTrue == SourceSpec => [](SourceTypeOK /\ NoGap /\ AtMostOnce)
  <1>1. SourceInv /\ BatchIsStored /\ NoGap /\ OnceInv => SourceTypeOK /\ NoGap /\ AtMostOnce
    BY OnceIsAtMostOnce DEF SourceInv
  <1> QED
    BY CollectorInitInv, CollectorNextInv, <1>1, PTL DEF SourceSpec

\* A record that is stored, in the batch, or found by the next query.
Findable(r) == IF kind = "tail" THEN r > cursor ELSE IsSince(r)
InReach(r) == copies[r] > 0 \/ r \in batch \/ Findable(r)

LEMMA PassedStep ==
  ASSUME SourceInv, BatchIsStored, OnceInv, PassedIsStored, SourceNext
  PROVE  PassedIsStored'
  <1> USE CollectorsAssumption DEF sourceLog
  <1> SUFFICES ASSUME ~skipped', sourceFaults' = 0, NEW r \in Records' PROVE InReach(r)'
    BY Zenon DEF PassedIsStored, InReach, Findable
  <1>0. ~skipped
    BY Zenon DEF SourceNext, WriteRecord, Rotate, SourcePoll, ReadNewLines, FetchIndex, GetEvents, IngestEvents,
       SaveCursor, SetCursor, MoveCursor, Heartbeat, RestartCollector
  <1>1. sourceFaults = 0 /\ ~SourceFault
    <2>1. sourceFaults \in Nat
      BY DEF SourceInv, SourceTypeOK
    <2>2. sourceFaults' = sourceFaults \/ SourceFault
      BY DEF SourceNext, WriteRecord, Rotate, SourcePoll, ReadNewLines, FetchIndex, GetEvents, IngestEvents,
         SaveCursor, SetCursor, Heartbeat, RestartCollector
    <2> QED
      BY <2>1, <2>2 DEF SourceFault
  <1>2. \A s \in Records : InReach(s)
    BY <1>0, <1>1, Zenon DEF PassedIsStored, InReach, Findable
  <1>3. /\ Records \subseteq 1 .. MaxRecords /\ batch \subseteq Records /\ Records = 1 .. Len(time)
        /\ Len(time) \in Nat /\ cursor \in Nat
    BY DEF SourceInv, SourceTypeOK, Written, Records
  <1>4. kind = "tail" => InOrder
    BY <1>1 DEF OnceInv, PromisesOnce
  <1>5. ASSUME NEW t \in 1 .. MaxSourceTime, WriteRecord(t) PROVE InReach(r)'
    <2>1. /\ time' = Append(time, t) /\ UNCHANGED <<kind, cursor, batch, copies>>
          /\ kind # "tail" => ~(t <= Floor(cursor))
      <3>1. skipped' = (skipped \/ (kind # "tail" /\ t <= Floor(cursor)))
        BY <1>5 DEF WriteRecord
      <3>2. kind # "tail" => ~(t <= Floor(cursor))
        BY <3>1, Zenon
      <3> QED
        BY <1>5, <3>2 DEF WriteRecord
    <2>2. /\ Len(time') = Len(time) + 1 /\ time'[Len(time) + 1] = t
          /\ \A s \in 1 .. Len(time) : time'[s] = time[s]
      BY <2>1 DEF SourceInv, SourceTypeOK
    <2>3. r \in Records \/ r = Len(time) + 1
      BY <1>3, <2>2 DEF Records
    <2>4. Floor(cursor)' = Floor(cursor) /\ Floor(cursor) \in Nat
      BY <2>1, FloorFacts DEF Floor, SourceInv
    <2>5. CASE r \in Records
      BY <1>2, <1>3, <2>1, <2>2, <2>4, <2>5 DEF InReach, Findable, IsSince
    <2>6. CASE r = Len(time) + 1
      <3>1. kind = "tail" => r > cursor
        BY <1>3, <1>4, <2>6 DEF InOrder
      <3>2. kind # "tail" => time'[r] > Floor(cursor)
        BY <2>1, <2>2, <2>4, <2>6
      <3> QED
        BY <2>1, <2>4, <3>1, <3>2 DEF InReach, Findable, IsSince
    <2> QED
      BY <2>3, <2>5, <2>6
  <1>6. CASE Rotate \/ RestartCollector
    BY <1>1, <1>6 DEF Rotate, RestartCollector
  <1>7. CASE Heartbeat \/ FetchIndex \/ GetEvents
    <2>1. UNCHANGED <<kind, time, cursor, copies>> /\ batch = {}
      BY <1>7 DEF Heartbeat, FetchIndex, GetEvents, SourceInv, Places
    <2>2. InReach(r)
      BY <1>2, <2>1 DEF Records
    <2> QED
      BY <2>1, <2>2 DEF InReach, Findable, IsSince, Floor
  <1>8. CASE ReadNewLines
    <2>1. /\ UNCHANGED <<kind, time, copies>> /\ kind = "tail" /\ batch = {}
          /\ batch' = {file[k] : k \in {k \in 1 .. Len(file) : k > cursor}}
      BY <1>8 DEF ReadNewLines, SourceInv, Places
    <2>2. InReach(r) /\ r \in 1 .. Len(file) /\ file[r] = r
      BY <1>2, <1>3, <1>4, <2>1 DEF Records, InOrder
    <2>3. CASE r > cursor
      BY <2>1, <2>2, <2>3 DEF InReach
    <2>4. CASE ~(r > cursor)
      BY <2>1, <2>2, <2>4 DEF InReach, Findable
    <2> QED
      BY <2>3, <2>4
  <1>9. CASE IngestEvents
    <2>1. UNCHANGED <<kind, time, cursor>> /\ Store(batch)
      BY <1>1, <1>9 DEF IngestEvents
    <2>2. r \in Records /\ InReach(r)
      BY <1>2, <2>1 DEF Records
    <2>3. /\ copies[r] > 0 => copies'[r] > 0
          /\ r \in batch => copies'[r] > 0
      BY <1>3, <2>1, <2>2, StoreCopies DEF SourceInv, SourceTypeOK
    <2> QED
      BY <2>1, <2>2, <2>3 DEF InReach, Findable, IsSince, Floor
  <1>10. CASE SaveCursor \/ SetCursor
    <2>1. /\ UNCHANGED <<kind, time, copies>> /\ kind # "tail" /\ MoveCursor
          /\ batch' = batch \/ (pc = "cursor" /\ kind = "winevent")
      BY <1>1, <1>10 DEF SaveCursor, SetCursor, SourceInv, Places
    <2>2. \A s \in Since \ batch : ~(time[s] <= Floor(cursor'))
      <3>1. skipped' = (skipped \/ \E s \in Since \ batch : time[s] <= Floor(cursor'))
        BY <2>1 DEF MoveCursor
      <3> QED
        BY <3>1, Zenon
    <2>3. r \in Records /\ InReach(r)
      BY <1>2, <2>1 DEF Records
    <2>4. r \in batch => r \in batch' \/ copies[r] > 0
      BY <1>0, <2>1 DEF BatchIsStored
    <2>5. r \notin batch /\ Findable(r) => Findable(r)'
      <3> SUFFICES ASSUME r \notin batch, Findable(r) PROVE Findable(r)'
        OBVIOUS
      <3>1. r \in Since \ batch
        BY <2>1, <2>3 DEF Findable, Since
      <3>2. ~(time[r] <= Floor(cursor')) /\ Floor(cursor)' = Floor(cursor')
        BY <2>1, <2>2, <3>1 DEF Floor
      <3>3. time[r] \in Nat /\ Floor(cursor') \in Nat
        <4>1. batch # {}
          BY <1>10 DEF SaveCursor, SetCursor, SourceInv, Places
        <4>2. cursor' \in Nat
          BY <2>1, <4>1, MovedCursor
        <4>3. Floor(cursor') \in Nat
          BY <4>2, FloorIsNatural
        <4>4. time[r] \in 1 .. MaxSourceTime
          BY <2>3, FloorFacts DEF SourceInv
        <4>5. time[r] \in Nat
          BY <4>4
        <4> QED
          BY <4>3, <4>5
      <3> QED
        BY <2>1, <3>2, <3>3 DEF Findable, IsSince
    <2> QED
      BY <2>1, <2>3, <2>4, <2>5 DEF InReach
  <1> QED
    BY <1>5, <1>6, <1>7, <1>8, <1>9, <1>10 DEF SourceNext, SourcePoll

\* Without failures, and but for what the code itself skips (NoGap), a record that
\* no query can find any more is stored or at hand, of
\* all three collectors, for any records, times and page size, and a source that
\* writes between any two steps: what WrittenIsIngested says of a standstill.
THEOREM PassedRecordsAreStored == SourceSpec => []PassedIsStored
  <1>1. SourceInit => PassedIsStored
    BY DEF SourceInit, PassedIsStored, Records
  <1>2. ASSUME SourceInv, BatchIsStored, NoGap, OnceInv, PassedIsStored, [SourceNext]_sourceVars
        PROVE  PassedIsStored'
    <2>1. CASE UNCHANGED sourceVars
      BY <1>2, <2>1 DEF sourceVars, PassedIsStored, Records, IsSince, Floor
    <2> QED
      BY <1>2, <2>1, PassedStep
  <1> QED
    BY <1>1, <1>2, CollectorInitInv, CollectorNextInv, PTL DEF SourceSpec

-----------------------------------------------------------------------------
\* MalcolmPoll: one poll of all the datasets.

Outcomes == {"dropped", "raised", "event"}

DocumentTypes ==
  /\ docs \in Seq([set : sets, outcome : Outcomes]) /\ Len(docs) <= MaxDocs
  /\ cursors \in [sets -> 0..MaxDocs]
  /\ page \subseteq 1..Len(docs)
  /\ eventsOf \in [1..MaxDocs -> 0..2]

\* The query of the document's own dataset has returned it.
Returned(k) == k <= cursors[docs[k].set]

\* No query returns a document of which there is an event, since every dataset
\* has its own documents and a cursor that never goes back; and what is in the
\* page has not been ingested by an earlier poll.
OnceReturned ==
  /\ \A k \in 1..MaxDocs : k > Len(docs) => eventsOf[k] = 0
  /\ \A k \in 1..Len(docs) : eventsOf[k] <= 1 /\ (eventsOf[k] > 0 => Returned(k))
  /\ \A k \in page : eventsOf[k] = 0 /\ Returned(k)

MalcolmInv == DocumentTypes /\ OnceReturned

LEMMA MalcolmInitInv == MalcolmInit => MalcolmInv
  BY MalcolmPollAssumption DEF MalcolmInit, MalcolmInv, DocumentTypes, OnceReturned

LEMMA DocumentFacts ==
  ASSUME DocumentTypes
  PROVE  /\ Len(docs) \in Nat /\ 1..Len(docs) \subseteq 1..MaxDocs
         /\ \A k \in 1..Len(docs) : docs[k].set \in sets /\ cursors[docs[k].set] \in 0..MaxDocs
  <1>1. \A k \in 1..Len(docs) : docs[k] \in [set : sets, outcome : Outcomes]
    BY ElementOfSeq DEF DocumentTypes
  <1> QED
    BY <1>1, MalcolmPollAssumption DEF DocumentTypes

LEMMA WriteDocumentInv ==
  ASSUME MalcolmInv, NEW d \in sets, WriteDocument(d)
  PROVE  MalcolmInv'
  <1>1. PICK o : docs' = Append(docs, [set |-> d, outcome |-> o]) /\ o \in Outcomes
    BY DEF WriteDocument, Outcome, Outcomes
  <1>2. UNCHANGED <<sets, cursors, page, eventsOf>> /\ Len(docs) < MaxDocs
    BY DEF WriteDocument
  <1>3. /\ docs' \in Seq([set : sets, outcome : Outcomes]) /\ Len(docs') = Len(docs) + 1
        /\ \A k \in 1..Len(docs) : docs'[k] = docs[k]
    BY <1>1 DEF MalcolmInv, DocumentTypes
  <1>4. Len(docs) \in Nat
    BY DocumentFacts DEF MalcolmInv
  <1>5. DocumentTypes'
    BY <1>2, <1>3, <1>4, MalcolmPollAssumption DEF MalcolmInv, DocumentTypes
  <1>6. \A k \in 1..Len(docs) : Returned(k) => Returned(k)'
    BY <1>2, <1>3 DEF Returned
  <1>7. \A k \in 1..Len(docs') : k \in 1..Len(docs) \/ (k > Len(docs) /\ k \in 1..MaxDocs)
    BY <1>2, <1>3, <1>4, MalcolmPollAssumption
  <1>8. \A k \in 1..MaxDocs : k > Len(docs') => k > Len(docs)
    BY <1>3, <1>4, MalcolmPollAssumption
  <1>9. OnceReturned'
    <2>1. \A k \in page' : eventsOf'[k] = 0 /\ Returned(k)'
      BY <1>2, <1>6 DEF MalcolmInv, DocumentTypes, OnceReturned
    <2>2. \A k \in 1..Len(docs') : eventsOf'[k] <= 1 /\ (eventsOf'[k] > 0 => Returned(k)')
      BY <1>2, <1>6, <1>7 DEF MalcolmInv, OnceReturned
    <2>3. \A k \in 1..MaxDocs : k > Len(docs') => eventsOf'[k] = 0
      BY <1>2, <1>8 DEF MalcolmInv, OnceReturned
    <2> QED
      BY <1>2, <2>1, <2>2, <2>3 DEF OnceReturned
  <1> QED
    BY <1>5, <1>9 DEF MalcolmInv

LEMMA FetchDatasetInv ==
  ASSUME MalcolmInv, FetchDataset
  PROVE  MalcolmInv'
  <1> DEFINE fetched == Fetched(Here)
  <1>1. /\ page' = fetched /\ fetched # {} /\ cursors' = CursorsAfterFetch
        /\ UNCHANGED <<sets, docs, eventsOf>>
    BY DEF FetchDataset
  <1>2. \A k \in fetched : k \in 1..Len(docs) /\ docs[k].set = Here /\ k > cursors[Here]
    BY DEF Fetched, Found, Selects
  <1>3. Here \in sets /\ cursors[Here] \in 0..MaxDocs
    BY <1>1, <1>2, DocumentFacts DEF MalcolmInv
  <1>4. fetched \in SUBSET (1..Len(docs)) /\ Len(docs) \in Nat
    BY <1>2, DocumentFacts DEF MalcolmInv
  <1>5. cursors' = [cursors EXCEPT ![Here] = CHOOSE k \in fetched : \A j \in fetched : j <= k]
    BY <1>1 DEF CursorsAfterFetch
  <1> HIDE DEF fetched
  <1>6. \E k \in fetched : \A j \in fetched : j <= k
    BY <1>1, <1>4, Greatest
  <1>7. PICK m \in fetched : (\A j \in fetched : j <= m) /\ cursors' = [cursors EXCEPT ![Here] = m]
    BY <1>5, <1>6
  <1>8. m \in 0..MaxDocs /\ m > cursors[Here]
    BY <1>2, DocumentFacts DEF MalcolmInv
  <1>9. \A k \in 1..Len(docs) : Returned(k) => Returned(k)'
    BY <1>1, <1>3, <1>7, <1>8, DocumentFacts DEF Returned, MalcolmInv, DocumentTypes
  <1>10. \A k \in fetched : Returned(k)' /\ eventsOf[k] = 0
    <2> SUFFICES ASSUME NEW k \in fetched PROVE Returned(k)' /\ eventsOf[k] = 0
      OBVIOUS
    <2>1. ~Returned(k)
      BY <1>2, <1>3 DEF Returned
    <2>2. k \in 1..MaxDocs /\ k \in 1..Len(docs)
      BY <1>2, DocumentFacts DEF MalcolmInv
    <2>3. eventsOf[k] \in 0..2
      BY <2>2 DEF MalcolmInv, DocumentTypes
    <2>4. Returned(k)'
      BY <1>1, <1>2, <1>3, <1>7 DEF Returned, MalcolmInv, DocumentTypes
    <2> QED
      BY <2>1, <2>2, <2>3, <2>4 DEF MalcolmInv, OnceReturned
  <1>11. DocumentTypes'
    BY <1>1, <1>4, <1>7, <1>8 DEF MalcolmInv, DocumentTypes
  <1>12. OnceReturned'
    BY <1>1, <1>9, <1>10 DEF MalcolmInv, OnceReturned
  <1> QED
    BY <1>11, <1>12 DEF MalcolmInv

LEMMA IngestPageInv ==
  ASSUME MalcolmInv, IngestPage
  PROVE  MalcolmInv'
  <1>1. /\ eventsOf' = [k \in DOMAIN eventsOf |-> IF k \in PageEvents /\ eventsOf[k] < 2 THEN eventsOf[k] + 1
                                                 ELSE eventsOf[k]]
        /\ page' = {} /\ UNCHANGED <<sets, docs, cursors>>
    BY DEF IngestPage
  <1>2. PageEvents \subseteq page
    BY DEF PageEvents
  <1>3. \A k \in 1..MaxDocs : eventsOf[k] \in 0..2 /\ eventsOf'[k] \in 0..2
    BY <1>1 DEF MalcolmInv, DocumentTypes
  <1>4. \A k \in 1..MaxDocs : k \in PageEvents => eventsOf'[k] = 1
    BY <1>1, <1>2 DEF MalcolmInv, DocumentTypes, OnceReturned
  <1>5. \A k \in 1..MaxDocs : k \notin PageEvents => eventsOf'[k] = eventsOf[k]
    BY <1>1 DEF MalcolmInv, DocumentTypes
  <1>6. DocumentTypes'
    BY <1>1, <1>3 DEF MalcolmInv, DocumentTypes
  <1>7. \A k \in 1..Len(docs) : k \in 1..MaxDocs
    BY DocumentFacts DEF MalcolmInv
  <1>8. \A k \in 1..Len(docs) : eventsOf'[k] <= 1 /\ (eventsOf'[k] > 0 => Returned(k))
    <2> SUFFICES ASSUME NEW k \in 1..Len(docs)
                 PROVE  eventsOf'[k] <= 1 /\ (eventsOf'[k] > 0 => Returned(k))
      OBVIOUS
    <2>1. CASE k \in PageEvents
      <3>1. eventsOf'[k] = 1
        BY <1>4, <1>7, <2>1
      <3>2. Returned(k)
        BY <1>2, <2>1 DEF MalcolmInv, OnceReturned
      <3> QED
        BY <3>1, <3>2
    <2>2. CASE k \notin PageEvents
      <3>1. eventsOf'[k] = eventsOf[k]
        BY <1>5, <1>7, <2>2
      <3>2. eventsOf[k] <= 1 /\ (eventsOf[k] > 0 => Returned(k))
        BY DEF MalcolmInv, OnceReturned
      <3> QED
        BY <3>1, <3>2
    <2> QED
      BY <2>1, <2>2
  <1>9. \A k \in 1..MaxDocs : k > Len(docs) => eventsOf'[k] = 0
    <2> SUFFICES ASSUME NEW k \in 1..MaxDocs, k > Len(docs)
                 PROVE  eventsOf'[k] = 0
      OBVIOUS
    <2>1. k \notin PageEvents
      BY <1>2, DocumentFacts DEF MalcolmInv, DocumentTypes
    <2>2. eventsOf'[k] = eventsOf[k]
      BY <1>5, <2>1
    <2> QED
      BY <2>2 DEF MalcolmInv, OnceReturned
  <1>10. \A k : Returned(k)' <=> Returned(k)
    BY <1>1 DEF Returned
  <1>11. OnceReturned'
    BY <1>1, <1>8, <1>9, <1>10 DEF OnceReturned
  <1> QED
    BY <1>6, <1>11 DEF MalcolmInv

LEMMA MalcolmNextInv == MalcolmInv /\ [MalcolmNext]_malcolmVars => MalcolmInv'
  <1>1. ASSUME MalcolmInv, UNCHANGED <<sets, docs, cursors, eventsOf>>, page' \subseteq page
        PROVE  MalcolmInv'
    BY <1>1 DEF MalcolmInv, DocumentTypes, OnceReturned, Returned
  <1>2. ASSUME MalcolmInv, Begin \/ FetchNothing \/ GiveUp \/ RestartMalcolm PROVE MalcolmInv'
    <2>1. UNCHANGED <<sets, docs, cursors, eventsOf>> /\ page' \subseteq page
      BY <1>2 DEF Begin, FetchNothing, GiveUp, RestartMalcolm
    <2> QED
      BY <1>1, <1>2, <2>1
  <1>3. ASSUME MalcolmInv, MalcolmNext PROVE MalcolmInv'
    BY <1>2, <1>3, WriteDocumentInv, FetchDatasetInv, IngestPageInv DEF MalcolmNext, PollDatasets
  <1>4. ASSUME MalcolmInv, UNCHANGED malcolmVars PROVE MalcolmInv'
    BY <1>1, <1>4 DEF malcolmVars
  <1> QED
    BY <1>3, <1>4

\* No document becomes two events, for any datasets that get documents, any
\* documents and page sizes, and polls that end in an exception, an error or a
\* restart at any place of the dispatch.
THEOREM DocumentsAreOnce == MalcolmSpec => []NoDoubleIngestion
  <1>1. MalcolmInv => NoDoubleIngestion
    <2> SUFFICES ASSUME MalcolmInv, NEW k \in 1..MaxDocs PROVE eventsOf[k] <= 1
      BY DEF NoDoubleIngestion, MalcolmInv, DocumentTypes
    <2>1. k > Len(docs) \/ k \in 1..Len(docs)
      BY DocumentFacts DEF MalcolmInv
    <2> QED
      BY <2>1 DEF MalcolmInv, OnceReturned
  <1> QED
    BY MalcolmInitInv, MalcolmNextInv, <1>1, PTL DEF MalcolmSpec
-----------------------------------------------------------------------------
\* What a poll passes over.

\* No cursor is ahead of the documents.
CursorsInside == \A d \in sets : cursors[d] <= Len(docs)

PassInv == MalcolmInv /\ CursorsInside /\ PassedIsTaken

\* What PassedIsTaken says of one document.
TakenCareOf(k) == \/ k \in page \union lost
                  \/ eventsOf[k] > 0
                  \/ docs[k].outcome = "dropped"

LEMMA PassedIs == PassedIsTaken <=> \A k \in 1..Len(docs) : Returned(k) => TakenCareOf(k)
  BY DEF PassedIsTaken, Returned, TakenCareOf

LEMMA PassInitInv == MalcolmInit => PassInv
  BY MalcolmInitInv DEF MalcolmInit, PassInv, CursorsInside, PassedIsTaken

\* What is found in a dataset as a whole with what comes before it in the page
\* is in the page: a page has no gap.
LEMMA PageHasNoGap ==
  ASSUME DocumentTypes, NEW d, NEW k \in Found(d), NEW m \in Fetched(d), k <= m
  PROVE  k \in Fetched(d)
  <1> DEFINE Upto(j) == {i \in Found(d) : i <= j}
  <1>1. Found(d) \subseteq 1..Len(docs) /\ Len(docs) \in Nat
    BY DocumentFacts DEF Found
  <1>2. m \in Found(d) /\ Cardinality(Upto(m)) <= PollSize
    BY DEF Fetched
  <1>3. Upto(k) \subseteq Upto(m)
    BY <1>1, <1>2
  <1>4. IsFiniteSet(Upto(m))
    <2>1. IsFiniteSet(1..Len(docs))
      BY <1>1, FS_Interval
    <2>2. Upto(m) \subseteq 1..Len(docs)
      BY <1>1
    <2> QED
      BY <2>1, <2>2, FS_Subset
  <1>5. /\ Cardinality(Upto(k)) \in Nat /\ Cardinality(Upto(m)) \in Nat
        /\ Cardinality(Upto(k)) <= Cardinality(Upto(m))
    BY <1>3, <1>4, FS_Subset, FS_CardinalityType
  <1>6. Cardinality(Upto(k)) <= PollSize
    BY <1>2, <1>5, MalcolmPollAssumption
  <1> QED
    BY <1>6 DEF Fetched

LEMMA WriteDocumentPass ==
  ASSUME PassInv, NEW d \in sets, WriteDocument(d)
  PROVE  PassInv'
  <1>1. MalcolmInv'
    BY WriteDocumentInv DEF PassInv
  <1>2. PICK o : docs' = Append(docs, [set |-> d, outcome |-> o]) /\ o \in Outcomes
    BY DEF WriteDocument, Outcome, Outcomes
  <1>3. UNCHANGED <<sets, cursors, page, lost, eventsOf>>
    BY DEF WriteDocument
  <1>4. /\ Len(docs) \in Nat /\ Len(docs') = Len(docs) + 1
        /\ \A k \in 1..Len(docs) : docs'[k] = docs[k]
        /\ docs'[Len(docs) + 1].set = d
    BY <1>2, DocumentFacts DEF PassInv, MalcolmInv, DocumentTypes
  <1>5. \A e \in sets : cursors[e] \in Nat /\ cursors[e] <= Len(docs)
    BY MalcolmPollAssumption DEF PassInv, MalcolmInv, DocumentTypes, CursorsInside
  <1>6. CursorsInside'
    BY <1>3, <1>4, <1>5 DEF CursorsInside
  <1>7. ASSUME NEW k \in 1..Len(docs'), Returned(k)' PROVE TakenCareOf(k)'
    <2>1. k # Len(docs) + 1
      BY <1>3, <1>4, <1>5, <1>7 DEF Returned
    <2>2. k \in 1..Len(docs)
      BY <1>4, <2>1
    <2>3. Returned(k)
      BY <1>3, <1>4, <1>7, <2>2 DEF Returned
    <2>4. TakenCareOf(k)
      BY <2>2, <2>3, PassedIs DEF PassInv
    <2> QED
      BY <1>3, <1>4, <2>2, <2>4 DEF TakenCareOf
  <1>8. PassedIsTaken'
    BY <1>7 DEF PassedIsTaken, Returned, TakenCareOf
  <1> QED
    BY <1>1, <1>6, <1>8 DEF PassInv

LEMMA FetchDatasetPass ==
  ASSUME PassInv, FetchDataset
  PROVE  PassInv'
  <1> DEFINE fetched == Fetched(Here)
  <1>1. MalcolmInv'
    BY FetchDatasetInv DEF PassInv
  <1>2. /\ page = {} /\ page' = fetched /\ fetched # {} /\ cursors' = CursorsAfterFetch
        /\ UNCHANGED <<sets, docs, lost, eventsOf>>
    BY DEF FetchDataset
  <1>3. \A k \in fetched : k \in 1..Len(docs) /\ docs[k].set = Here
    BY DEF Fetched, Found, Selects
  <1>4. Here \in sets /\ Len(docs) \in Nat
    BY <1>2, <1>3, DocumentFacts DEF PassInv, MalcolmInv
  <1>5. cursors' = [cursors EXCEPT ![Here] = CHOOSE k \in fetched : \A j \in fetched : j <= k]
    BY <1>2 DEF CursorsAfterFetch
  <1>6. \A k \in Found(Here), m \in fetched : k <= m => k \in fetched
    BY PageHasNoGap DEF PassInv, MalcolmInv
  <1>7. \A k \in 1..Len(docs) : docs[k].set = Here /\ ~Returned(k) => k \in Found(Here)
    <2>1. \A k \in 1..Len(docs) : docs[k].set \in sets /\ cursors[docs[k].set] \in Nat
      BY DocumentFacts, MalcolmPollAssumption DEF PassInv, MalcolmInv
    <2> QED
      BY <1>4, <2>1 DEF Found, Selects, Returned
  <1> HIDE DEF fetched
  <1>8. \E k \in fetched : \A j \in fetched : j <= k
    BY <1>2, <1>3, <1>4, Greatest
  <1>9. PICK m \in fetched : (\A j \in fetched : j <= m) /\ cursors' = [cursors EXCEPT ![Here] = m]
    BY <1>5, <1>8
  <1>10. DOMAIN cursors = sets
    BY DEF PassInv, MalcolmInv, DocumentTypes
  <1>11. CursorsInside'
    BY <1>2, <1>3, <1>4, <1>9, <1>10 DEF PassInv, CursorsInside
  <1>12. ASSUME NEW k \in 1..Len(docs), Returned(k)' PROVE TakenCareOf(k)'
    <2>1. CASE Returned(k)
      <3>1. TakenCareOf(k)
        BY <2>1, PassedIs DEF PassInv
      <3> QED
        BY <1>2, <3>1 DEF TakenCareOf
    <2>2. CASE ~Returned(k)
      <3>1. docs[k].set = Here /\ k <= m
        BY <1>2, <1>4, <1>9, <1>10, <1>12, <2>2, DocumentFacts DEF Returned, PassInv, MalcolmInv
      <3>2. k \in fetched
        BY <1>6, <1>7, <2>2, <3>1
      <3> QED
        BY <1>2, <3>2 DEF TakenCareOf
    <2> QED
      BY <2>1, <2>2
  <1>13. PassedIsTaken'
    BY <1>2, <1>12 DEF PassedIsTaken, Returned, TakenCareOf
  <1> QED
    BY <1>1, <1>11, <1>13 DEF PassInv

LEMMA IngestPagePass ==
  ASSUME PassInv, IngestPage
  PROVE  PassInv'
  <1>1. MalcolmInv'
    BY IngestPageInv DEF PassInv
  <1>2. /\ eventsOf' = [k \in DOMAIN eventsOf |-> IF k \in PageEvents /\ eventsOf[k] < 2 THEN eventsOf[k] + 1
                                                 ELSE eventsOf[k]]
        /\ page' = {} /\ UNCHANGED <<sets, docs, cursors, lost>>
    BY DEF IngestPage
  <1>3. \A k \in page : docs[k].outcome # "raised"
    BY DEF IngestPage, Poisoned
  <1>4. CursorsInside'
    BY <1>2 DEF PassInv, CursorsInside
  <1>5. ASSUME NEW k \in 1..Len(docs), Returned(k)' PROVE TakenCareOf(k)'
    <2>1. Returned(k)
      BY <1>2, <1>5 DEF Returned
    <2>2. TakenCareOf(k)
      BY <2>1, PassedIs DEF PassInv
    <2>3. k \in DOMAIN eventsOf /\ eventsOf[k] \in 0..2
      BY DocumentFacts DEF PassInv, MalcolmInv, DocumentTypes
    <2>4. eventsOf'[k] = IF k \in PageEvents /\ eventsOf[k] < 2 THEN eventsOf[k] + 1 ELSE eventsOf[k]
      BY <1>2, <2>3
    <2>5. docs[k].outcome \in Outcomes
      <3>1. docs[k] \in [set : sets, outcome : Outcomes]
        BY ElementOfSeq DEF PassInv, MalcolmInv, DocumentTypes
      <3> QED
        BY <3>1
    <2>6. k \in page => k \in PageEvents \/ docs[k].outcome = "dropped"
      BY <1>3, <2>5 DEF PageEvents, Outcomes
    <2>7. k \in PageEvents => eventsOf'[k] > 0
      BY <2>3, <2>4
    <2>8. eventsOf[k] > 0 => eventsOf'[k] > 0
      BY <2>3, <2>4
    <2> QED
      BY <1>2, <2>2, <2>6, <2>7, <2>8 DEF TakenCareOf
  <1>6. PassedIsTaken'
    BY <1>2, <1>5 DEF PassedIsTaken, Returned, TakenCareOf
  <1> QED
    BY <1>1, <1>4, <1>6 DEF PassInv

LEMMA PassNextInv == PassInv /\ [MalcolmNext]_malcolmVars => PassInv'
  <1>1. ASSUME PassInv, Begin \/ FetchNothing \/ GiveUp \/ RestartMalcolm \/ UNCHANGED malcolmVars
        PROVE  PassInv'
    <2>1. MalcolmInv'
      BY <1>1, MalcolmNextInv DEF PassInv, MalcolmNext, PollDatasets
    <2>2. UNCHANGED <<sets, docs, cursors, eventsOf>> /\ page \union lost \subseteq page' \union lost'
      BY <1>1 DEF Begin, FetchNothing, GiveUp, RestartMalcolm, malcolmVars
    <2>3. CursorsInside'
      BY <1>1, <2>2 DEF PassInv, CursorsInside
    <2>4. PassedIsTaken'
      BY <1>1, <2>2 DEF PassInv, PassedIsTaken
    <2> QED
      BY <2>1, <2>3, <2>4 DEF PassInv
  <1> QED
    BY <1>1, WriteDocumentPass, FetchDatasetPass, IngestPagePass DEF MalcolmNext, PollDatasets

\* A document that a query of its dataset has passed over is in the page, became
\* an event, was given up with its page or dropped by its normaliser: for any
\* datasets, documents and page sizes, and polls that end anywhere.
THEOREM PassedDocumentsAreTaken == MalcolmSpec => []PassedIsTaken
  <1>1. PassInv => PassedIsTaken
    BY DEF PassInv
  <1> QED
    BY PassInitInv, PassNextInv, <1>1, PTL DEF MalcolmSpec

\* There is at least one dataset to go through.
LEMMA SomethingIsPolled ==
  ASSUME sets \in Watches
  PROVE  Len(Polled) \in Nat \ {0} /\ DOMAIN Polled = 1..Len(Polled)
  <1>1. DOMAIN DispatchTable = 1..28
    BY DEF DispatchTable
  <1>2. IsFiniteSet(Dispatched)
    <2>1. \A n \in Nat : IsFiniteSet(1..n)
      BY FS_Interval
    <2>2. Dispatched \subseteq 1..28
      BY <1>1 DEF Dispatched
    <2> QED
      BY <2>1, <2>2, FS_Subset
  <1>3. Dispatched # {}
    <2>1. PICK d \in sets : d \in {DispatchTable[i][1] : i \in DOMAIN DispatchTable}
      BY MalcolmPollAssumption
    <2>2. PICK i \in DOMAIN DispatchTable : DispatchTable[i][1] = d
      BY <2>1
    <2> QED
      BY <2>2 DEF Dispatched
  <1>4. Cardinality(Dispatched) \in Nat \ {0}
    BY <1>2, <1>3, FS_CardinalityType, FS_EmptySet
  <1> QED
    BY <1>4 DEF Polled, SubsequenceAt

\* Every state of the poll is well typed: it never leaves the dispatch.
THEOREM PollIsTyped == MalcolmSpec => []MalcolmTypeOK
  <1> DEFINE Rest == /\ sets \in Watches
                     /\ place \in 0..Len(Polled)
                     /\ lost \subseteq 1..MaxDocs
                     /\ malcolmFaults \in 0..MaxMalcolmFaults
  <1>1. MalcolmInit => Rest
    BY SomethingIsPolled, MalcolmPollAssumption DEF MalcolmInit
  <1>2. MalcolmInv /\ Rest /\ [MalcolmNext]_malcolmVars => Rest'
    <2> SUFFICES ASSUME MalcolmInv, Rest, [MalcolmNext]_malcolmVars PROVE Rest'
      OBVIOUS
    <2>1. UNCHANGED sets
      BY DEF MalcolmNext, PollDatasets, WriteDocument, Begin, FetchDataset, FetchNothing, IngestPage,
             GiveUp, RestartMalcolm, malcolmVars
    <2>2. Polled' = Polled
      BY <2>1 DEF Polled, Dispatched, SubsequenceAt
    <2>3. Len(Polled) \in Nat \ {0}
      BY SomethingIsPolled
    <2>4. place' \in {0, 1, place} \/ ToNextDataset
      BY DEF MalcolmNext, PollDatasets, WriteDocument, Begin, FetchDataset, FetchNothing, IngestPage,
             GiveUp, RestartMalcolm, malcolmVars
    <2>5. place' \in 0..Len(Polled)'
      BY <2>2, <2>3, <2>4 DEF ToNextDataset
    <2>6. lost' = lost \/ lost' = lost \union page
      BY DEF MalcolmNext, PollDatasets, WriteDocument, Begin, FetchDataset, FetchNothing, IngestPage,
             GiveUp, RestartMalcolm, malcolmVars
    <2>7. page \subseteq 1..MaxDocs
      BY DocumentFacts DEF MalcolmInv, DocumentTypes
    <2>8. UNCHANGED malcolmFaults \/ MalcolmFault
      BY DEF MalcolmNext, PollDatasets, WriteDocument, Begin, FetchDataset, FetchNothing, IngestPage,
             GiveUp, RestartMalcolm, malcolmVars
    <2>9. malcolmFaults' \in 0..MaxMalcolmFaults
      BY <2>8, MalcolmPollAssumption DEF MalcolmFault
    <2> QED
      BY <2>1, <2>5, <2>6, <2>7, <2>9
  <1>3. MalcolmInv /\ Rest => MalcolmTypeOK
    <2> SUFFICES ASSUME MalcolmInv, Rest PROVE MalcolmTypeOK
      OBVIOUS
    <2>1. page \subseteq 1..MaxDocs
      BY DocumentFacts DEF MalcolmInv, DocumentTypes
    <2> QED
      BY <2>1 DEF MalcolmInv, DocumentTypes, Outcomes, MalcolmTypeOK
  <1> HIDE DEF Rest
  <1> QED
    BY MalcolmInitInv, MalcolmNextInv, <1>1, <1>2, <1>3, PTL DEF MalcolmSpec
=============================================================================
