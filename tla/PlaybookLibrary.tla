--------------------------- MODULE PlaybookLibrary ---------------------------
(***************************************************************************)
(* The playbook library: seed_builtin_playbooks, which every start of the  *)
(* process runs before it serves (backend/api/playbooks.py), the playbooks *)
(* that analysts add and run, and the playbooks that the coverage matrix   *)
(* names for a technique (backend/api/coverage.py).  Of ATT&CK techniques  *)
(* in events and detections the reports count with filters of their own;   *)
(* these counts are not modelled.                                          *)
(***************************************************************************)
EXTENDS BuiltinPlaybooks, Naturals, Sequences, FiniteSets, FiniteSetsExt

CONSTANTS Legacy,      \* names of the NIST starters of databases from before the library
          Added,       \* names that analysts give to their playbooks
          WithRuns     \* names of the playbooks that analysts run

ASSUME PlaybookLibraryAssumption ==
  Legacy \cap {BUILTIN_PLAYBOOKS[i].name : i \in DOMAIN BUILTIN_PLAYBOOKS} = {}

VARIABLES
  playbooks,   \* the table: a set of rows
  used,        \* playbook_id of the rows of playbook_runs
  seed,        \* where the start is, the next entry to insert, and existing_names
  failed       \* whether SQLite has failed in the seeding of this start

libraryVars == <<playbooks, used, seed, failed>>

Library == {BUILTIN_PLAYBOOKS[i] : i \in DOMAIN BUILTIN_PLAYBOOKS}

\* The default of the column "category".
NoCategory == ""

\* The playbooks with the source "custom" that every row got which was there
\* when the column was added.
LegacyRow(n) == [id |-> <<"legacy", n>>, name |-> n, builtin |-> TRUE, source |-> "custom", category |-> NoCategory]

BuiltinRow(p) == [id |-> <<"builtin", p.name>>, name |-> p.name, builtin |-> TRUE,
                  source |-> p.source, category |-> p.category]

AddedRow(n) == [id |-> <<"added", n>>, name |-> n, builtin |-> FALSE, source |-> "custom",
                category |-> NoCategory]

Begin == [at |-> "tag", next |-> 1, names |-> {}]

\* A new database, one with the starters and perhaps a run of one, or one of
\* the first library, which had no categories; analysts may have added to it.
LibraryInit ==
  /\ \E mine \in SUBSET Added :
       LET add == {AddedRow(n) : n \in mine} IN
       \/ playbooks = add /\ used = {}
       \/ /\ playbooks = add \cup {LegacyRow(n) : n \in Legacy}
          /\ used \in SUBSET {LegacyRow(n).id : n \in Legacy \cap WithRuns}
       \/ /\ playbooks = add \cup {BuiltinRow(p) : p \in {q \in Library : q.source = "cisa"}}
          /\ used = {}
  /\ seed = Begin
  /\ failed = FALSE

-----------------------------------------------------------------------------
\* Mutant: a playbook of an analyst stands for the built-in of its name.
NamesOfAll(rows) == {r.name : r \in rows}

\* Mutant: a table with built-ins is taken for one that was seeded to the end.
NamesOfBegun(rows) == IF \E r \in rows : r.builtin THEN {p.name : p \in Library} ELSE {}

\* SELECT name FROM playbooks WHERE is_builtin = 1.
ExistingNames(rows) == {r.name : r \in {x \in rows : x.builtin}}

CISA_CATEGORY_MAP ==
  [n \in {p.name : p \in {q \in Library : q.source = "cisa"}} |->
     CASE n \in {Phishing.name, WireFraud.name} -> "phishing"
       [] n = Ransomware.name -> "ransomware"
       [] n \in {AccountCompromise.name, ActiveDirectory.name} -> "identity"
       [] n \in {Malware.name, DestructiveWiper.name, AptLongDwell.name} -> "malware"
       [] n = Vulnerability.name -> "vulnerability"
       [] n = DenialOfService.name -> "network"
       [] n = SupplyChainCompromise.name -> "supply_chain"
       [] n = DataExfiltration.name -> "data_breach"
       [] n = WebApplicationAttack.name -> "web"
       [] n = InsiderThreat.name -> "insider"
       [] n \in {CloudAccountCompromise.name, M365TenantCompromise.name} -> "cloud"
       [] n = IcsOtIntrusion.name -> "ics_ot"
       [] n \in {Cryptojacking.name, LivingOffTheLand.name} -> "endpoint"]

\* What the text of the library fixes: a name is that of one playbook, no
\* source is that of a starter, and a playbook that comes without a category is
\* given one.
ASSUME LibraryIsGiven ==
  /\ BUILTIN_PLAYBOOKS \in Seq(Library)
  /\ \A i, j \in DOMAIN BUILTIN_PLAYBOOKS :
       BUILTIN_PLAYBOOKS[i].name = BUILTIN_PLAYBOOKS[j].name => i = j
  /\ \A p \in Library : /\ p.source \notin {"custom", "nist"}
                        /\ p.category = NoCategory => p.name \in DOMAIN CISA_CATEGORY_MAP
  /\ \A n \in DOMAIN CISA_CATEGORY_MAP : CISA_CATEGORY_MAP[n] # NoCategory

\* An exception of the seeding is logged, and the process serves without it.
SeedFails == seed' = [Begin EXCEPT !.at = "unseeded"]

\* Step 1: UPDATE ... SET source = 'nist'.
Tagged == {IF r.builtin /\ r.source = "custom" THEN [r EXCEPT !.source = "nist"] ELSE r : r \in playbooks}

TagLegacy ==
  /\ seed.at = "tag"
  /\ playbooks' = Tagged
  /\ seed' = [seed EXCEPT !.at = "delete"]
  /\ UNCHANGED <<used, failed>>

OldRows == {r \in playbooks : r.builtin /\ r.source = "nist"}

\* foreign_keys is on: a playbook that has a run cannot be deleted, and the
\* DELETE of several is one statement.
MayDelete(rows) == \A r \in rows : r.id \notin used

\* Steps 2 and 3: DELETE, commit, and the names of what is there.
DeleteLegacy ==
  /\ seed.at = "delete"
  /\ \/ /\ MayDelete(OldRows)
        /\ playbooks' = playbooks \ OldRows
        /\ seed' = [at |-> "insert", next |-> 1, names |-> ExistingNames(playbooks')]
     \/ /\ ~ MayDelete(OldRows)
        /\ SeedFails
        /\ UNCHANGED playbooks
  /\ UNCHANGED <<used, failed>>

Missing == {i \in seed.next .. Len(BUILTIN_PLAYBOOKS) : BUILTIN_PLAYBOOKS[i].name \notin seed.names}

\* Step 4: create_playbook of the next one that is not present; or the loop ends.
InsertMissing ==
  /\ seed.at = "insert"
  /\ \/ /\ Missing # {}
        /\ LET i == Min(Missing) IN
             /\ playbooks' = playbooks \cup {BuiltinRow(BUILTIN_PLAYBOOKS[i])}
             /\ seed' = [seed EXCEPT !.next = i + 1]
     \/ /\ Missing = {}
        /\ seed' = [seed EXCEPT !.at = "backfill"]
        /\ UNCHANGED playbooks
  /\ UNCHANGED <<used, failed>>

\* Step 5: the categories of the rows of these names that have none, whoever
\* made them.
Backfilled(names) == {IF r.name \in names /\ r.category = NoCategory
                      THEN [r EXCEPT !.category = CISA_CATEGORY_MAP[r.name]] ELSE r : r \in playbooks}

BackfillCategory ==
  /\ seed.at = "backfill"
  /\ playbooks' = Backfilled(DOMAIN CISA_CATEGORY_MAP)
  /\ seed' = [Begin EXCEPT !.at = "seeded"]
  /\ UNCHANGED <<used, failed>>

\* An error of SQLite.  The sections hold the lock of the connection but do
\* not roll back: what was executed is committed with somebody's next commit.
SeedError ==
  /\ \/ seed.at \in {"tag", "delete", "insert", "backfill"} /\ UNCHANGED playbooks
     \/ seed.at = "tag" /\ playbooks' = Tagged
     \/ seed.at = "delete" /\ MayDelete(OldRows) /\ playbooks' = playbooks \ OldRows
     \/ /\ seed.at = "backfill"
        /\ \E n \in 1 .. Cardinality(DOMAIN CISA_CATEGORY_MAP) :
             playbooks' = Backfilled({BUILTIN_PLAYBOOKS[i].name : i \in 1 .. n})
  /\ SeedFails
  /\ failed' = TRUE
  /\ UNCHANGED used

\* The process stops, at any point, and starts again.
Restart == /\ seed' = Begin
           /\ failed' = FALSE
           /\ UNCHANGED <<playbooks, used>>

-----------------------------------------------------------------------------
Serving == seed.at \in {"seeded", "unseeded"}

\* POST /api/playbooks: is_builtin is set to False, whatever the body says.
CreatePlaybook(n) ==
  /\ Serving
  /\ \A r \in playbooks : r.id # AddedRow(n).id
  /\ playbooks' = playbooks \cup {AddedRow(n)}
  /\ UNCHANGED <<used, seed, failed>>

\* POST /api/playbooks/{playbook_id}/run/{investigation_id}.
StartLibraryRun(r) ==
  /\ Serving
  /\ r.name \in WithRuns
  /\ used' = used \cup {r.id}
  /\ UNCHANGED <<playbooks, seed, failed>>

\* _build_playbook_coverage: from the source, not from the table.
PlaybookCoverage ==
  [t \in UNION {p.techniques : p \in Library} |-> {p.name : p \in {q \in Library : t \in q.techniques}}]

-----------------------------------------------------------------------------
LibraryNext ==
  \/ TagLegacy \/ DeleteLegacy \/ InsertMissing \/ BackfillCategory \/ SeedError \/ Restart
  \/ \E n \in Added : CreatePlaybook(n)
  \/ \E r \in playbooks : StartLibraryRun(r)

LibrarySpec == LibraryInit /\ [][LibraryNext]_libraryVars

-----------------------------------------------------------------------------
\* "idempotent across restarts": after a seeding that ran to its end, whatever
\* the database was and wherever earlier ones broke off, each built-in is there
\* once, with a category, beside the analysts' own playbooks of any name, and
\* no starter is left.
LibraryIsWhole ==
  seed.at = "seeded" =>
    /\ \A p \in Library :
         \E r \in playbooks : /\ r.builtin /\ r.name = p.name
                             /\ r.source = p.source /\ r.category # NoCategory
                             /\ \A x \in playbooks : x.builtin /\ x.name = p.name => x = r
    /\ \A r \in playbooks : r.builtin => \E p \in Library : p.name = r.name

\* The coverage matrix names playbooks of the source; while the process serves
\* each of them is in the table and can be run, though the seeding's errors are
\* swallowed: but for an error of SQLite in this start's seeding, and for a
\* starter that has a run, on which the seeding gives up.
NamedCanBeRun ==
  Serving /\ ~ failed /\ MayDelete(OldRows) =>
    \A t \in DOMAIN PlaybookCoverage : \A n \in PlaybookCoverage[t] :
      \E r \in playbooks : r.builtin /\ r.name = n

\* "old runs remain as historical records but cannot be advanced": a start on
\* which SQLite does not fail replaces the starters, with or without runs.
OldRunsDoNotMatter == seed.at = "unseeded" => failed
=============================================================================
