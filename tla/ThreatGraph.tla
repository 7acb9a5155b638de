----------------------------- MODULE ThreatGraph -----------------------------
(***************************************************************************)
(* The graph of entities: what entity_extractor makes of an event, the     *)
(* loader that writes it after the event is stored, and the routes that    *)
(* create, delete and restore (backfill) from the events of DuckDB.        *)
(*                                                                         *)
(* Every upsert and every insertion is a method of the SQLite store with a *)
(* commit of its own, so that the writers interleave row by row, and a     *)
(* crash or a row that is refused leaves what was written before.  Names   *)
(* and types are kept, attributes and properties left out.                 *)
(***************************************************************************)
EXTENDS Naturals, Sequences, FiniteSets, SequencesExt

CONSTANTS
  Events,         \* stored events
  Event,          \* the fields of each; Missing and FALSE for what it has not
  GraphCases,          \* cases an analyst can open
  Drawn,          \* edges that a request draws, between any two entities
  Batches,        \* what the loader is given
  Limit,          \* rows that a backfill reads
  MaxRequests,    \* bounds the requests that change the graph
  MaxGraphFaults  \* bounds errors and crashes

Missing == ""

ASSUME ThreatGraphAssumption ==
  /\ \A e \in Events : Event[e].case \in GraphCases \cup {Missing}
  /\ Batches \subseteq Seq(Events)
  /\ Limit \in Nat /\ MaxRequests \in Nat /\ MaxGraphFaults \in Nat

VARIABLES
  stored,          \* events in DuckDB
  entities,        \* rows of entities: the case of each id
  edges,           \* rows of edges: <<source, type, target>>
  cases,           \* rows of cases, which the foreign key refers to
  investigations,  \* rows of investigation_cases
  batch,           \* the events that the loader has still to write, with their rows
  fill,            \* the backfill: its state, its rows, events to come, deletions since
  restored,        \* the events that a backfill has completed, for BackfillIsWhole
  raced,           \* entities deleted before an edge to them was inserted
  requests,
  graphFaults

graphVars == <<stored, entities, edges, cases, investigations, batch, fill, restored, raced,
               requests, graphFaults>>

-----------------------------------------------------------------------------
(* What is extracted from an event.                                        *)

Has(e, field) == Event[e][field] # Missing

Host(e) == <<"host", Event[e].host>>
User(e) == <<"user", Event[e].user>>
Proc(e) == <<"proc", IF Has(e, "host") THEN Event[e].host ELSE "unknown", Event[e].proc>>
File(e) == <<"file", Event[e].file>>
Ip(e) == <<"ip", Event[e].ip>>
Domain(e) == <<"domain", Event[e].domain>>
Zone(e) == <<"firewall_zone", Event[e].zone>>

OneIf(condition, x) == IF condition THEN <<x>> ELSE <<>>

EntitiesOf(e) ==
  OneIf(Has(e, "host"), Host(e)) \o OneIf(Has(e, "user"), User(e)) \o
  OneIf(Has(e, "proc"), Proc(e)) \o OneIf(Has(e, "file"), File(e)) \o
  OneIf(Has(e, "ip"), Ip(e)) \o OneIf(Has(e, "domain"), Domain(e))

EdgesOf(e) ==
  OneIf(Has(e, "proc") /\ Has(e, "user"), <<Proc(e), "executed_by", User(e)>>) \o
  OneIf(Has(e, "proc") /\ Has(e, "host"), <<Proc(e), "ran_on", Host(e)>>) \o
  OneIf(Has(e, "proc") /\ Has(e, "file"), <<Proc(e), "accessed", File(e)>>) \o
  OneIf(Has(e, "proc") /\ Has(e, "ip"), <<Proc(e), "connected_to", Ip(e)>>) \o
  OneIf(Has(e, "domain") /\ Has(e, "ip"), <<Domain(e), "resolved_to", Ip(e)>>) \o
  OneIf(Has(e, "host") /\ Has(e, "ip") /\ ~Has(e, "proc"), <<Host(e), "connected_to", Ip(e)>>) \o
  OneIf(Has(e, "user") /\ Has(e, "host") /\ ~Has(e, "proc") /\ Event[e].logon,
        <<User(e), "logged_into", Host(e)>>)

\* Lines of the firewall have an address and perhaps a zone besides.
Perimeter(e) == Event[e].firewall /\ Has(e, "ip")

PerimeterEntities(e) == OneIf(Perimeter(e), Ip(e)) \o OneIf(Perimeter(e) /\ Has(e, "zone"), Zone(e))

PerimeterEdges(e) ==
  OneIf(Perimeter(e) /\ Has(e, "zone"),
        <<Zone(e), IF Event[e].blocked THEN "blocks"
                   ELSE IF Event[e].source THEN "traverses" ELSE "permits", Ip(e)>>)

Upserts(e, ids) == [i \in DOMAIN ids |-> [op |-> "entity", id |-> ids[i], case |-> Event[e].case]]
Inserts(es) == [i \in DOMAIN es |-> [op |-> "edge", edge |-> es[i]]]

\* Mutant: the edges of an event are inserted before its entities.
EdgesFirst(e) ==
  Inserts(EdgesOf(e)) \o Upserts(e, EntitiesOf(e)) \o
  Upserts(e, PerimeterEntities(e)) \o Inserts(PerimeterEdges(e))

\* The rows that the loader writes for an event, in their order.
RowsOf(e) ==
  Upserts(e, EntitiesOf(e)) \o Inserts(EdgesOf(e)) \o
  Upserts(e, PerimeterEntities(e)) \o Inserts(PerimeterEdges(e))

\* The backfill writes all entities of an event first.
FillRowsOf(e) ==
  Upserts(e, EntitiesOf(e) \o PerimeterEntities(e)) \o Inserts(EdgesOf(e) \o PerimeterEdges(e))

IdsOf(e) == ToSet(EntitiesOf(e)) \cup ToSet(PerimeterEntities(e))
LinksOf(e) == ToSet(EdgesOf(e)) \cup ToSet(PerimeterEdges(e))

-----------------------------------------------------------------------------
(* Rows.                                                                   *)

\* entities.case_id refers to cases, and foreign_keys is on.
Refused(row) == row.op = "entity" /\ row.case # Missing /\ row.case \notin cases

\* INSERT OR REPLACE of an entity, INSERT OR IGNORE of an edge.
Write(row) ==
  IF row.op = "entity"
  THEN /\ entities' = [x \in DOMAIN entities \cup {row.id} |->
                         IF x = row.id THEN row.case ELSE entities[x]]
       /\ UNCHANGED edges
  ELSE edges' = edges \cup {row.edge} /\ UNCHANGED entities

NoBatch == [todo |-> <<>>, rows |-> <<>>]
NoFill == [state |-> "idle", todo |-> <<>>, rows |-> <<>>, read |-> {}, spoiled |-> {}]

GraphInit ==
  /\ stored = {} /\ entities = [x \in {} |-> Missing] /\ edges = {}
  /\ cases = {} /\ investigations = {}
  /\ batch = NoBatch /\ fill = NoFill
  /\ restored = {} /\ raced = {}
  /\ requests = 0 /\ graphFaults = 0

GraphFault == graphFaults < MaxGraphFaults /\ graphFaults' = graphFaults + 1

-----------------------------------------------------------------------------
(* The loader.                                                             *)

\* The events of a batch are in DuckDB before their graph is written.
Store(es) ==
  /\ batch = NoBatch
  /\ Len(es) > 0 /\ ToSet(es) \cap stored = {}
  /\ stored' = stored \cup ToSet(es)
  /\ batch' = [todo |-> es, rows |-> RowsOf(es[1])]
  /\ UNCHANGED <<entities, edges, cases, investigations, fill, restored, raced, requests, graphFaults>>

NextOf(b) == IF Len(b.todo) <= 1 THEN NoBatch
             ELSE [todo |-> Tail(b.todo), rows |-> RowsOf(b.todo[2])]

WriteRow ==
  /\ batch.rows # <<>> /\ ~Refused(batch.rows[1])
  /\ Write(batch.rows[1])
  /\ batch' = [batch EXCEPT !.rows = Tail(@)]
  /\ UNCHANGED <<stored, cases, investigations, fill, restored, raced, requests, graphFaults>>

\* Each event has a try of its own: what is left of it is given up.
GiveUp ==
  /\ batch.rows # <<>>
  /\ \/ Refused(batch.rows[1]) /\ UNCHANGED graphFaults
     \/ GraphFault
  /\ batch' = NextOf(batch)
  /\ UNCHANGED <<stored, entities, edges, cases, investigations, fill, restored, raced, requests>>

NextEvent ==
  /\ batch.todo # <<>> /\ batch.rows = <<>>
  /\ batch' = NextOf(batch)
  /\ UNCHANGED <<stored, entities, edges, cases, investigations, fill, restored, raced, requests,
                 graphFaults>>

-----------------------------------------------------------------------------
(* The backfill.                                                           *)

\* ORDER BY timestamp DESC LIMIT: what the query may return, as events of one
\* time come in any order.
Newest(S) ==
  LET n == IF Limit < Cardinality(S) THEN Limit ELSE Cardinality(S)
  IN  {s \in [1 .. n -> S] :
         /\ \A i, j \in 1 .. n : i < j => s[i] # s[j] /\ Event[s[i]].time >= Event[s[j]].time
         /\ \A e \in S \ ToSet(s) : \A i \in 1 .. n : Event[s[i]].time >= Event[e].time}

Backfill(onlyFirewall) ==
  \E read \in Newest({e \in stored : onlyFirewall => Event[e].firewall}) :
    /\ fill.state # "running" /\ read # <<>>
    /\ fill' = [state |-> "running", todo |-> read, rows |-> FillRowsOf(read[1]),
                read |-> ToSet(read), spoiled |-> {}]
    /\ UNCHANGED <<stored, entities, edges, cases, investigations, batch, restored, raced, requests,
                   graphFaults>>

FillRow ==
  /\ fill.rows # <<>> /\ ~Refused(fill.rows[1])
  /\ Write(fill.rows[1])
  /\ fill' = [fill EXCEPT !.rows = Tail(@)]
  /\ UNCHANGED <<stored, cases, investigations, batch, restored, raced, requests, graphFaults>>

\* Mutant: an error ends the rows of one event, and the backfill goes on.
FillGoesOn(f) ==
  IF Len(f.todo) <= 1 THEN [f EXCEPT !.todo = <<>>, !.rows = <<>>]
  ELSE [f EXCEPT !.todo = Tail(@), !.rows = FillRowsOf(f.todo[2])]

\* No try around the rows: the first error ends the request with a 500.
AfterError(f) == [NoFill EXCEPT !.state = "aborted"]

FillFails ==
  /\ fill.rows # <<>>
  /\ \/ Refused(fill.rows[1]) /\ UNCHANGED graphFaults
     \/ GraphFault
  /\ fill' = AfterError(fill)
  /\ UNCHANGED <<stored, entities, edges, cases, investigations, batch, restored, raced, requests>>

FillNext ==
  /\ fill.state = "running" /\ fill.rows = <<>> /\ Len(fill.todo) > 1
  /\ fill' = [fill EXCEPT !.todo = Tail(@), !.rows = FillRowsOf(fill.todo[2])]
  /\ UNCHANGED <<stored, entities, edges, cases, investigations, batch, restored, raced, requests,
                 graphFaults>>

FillDone ==
  /\ fill.state = "running" /\ fill.rows = <<>> /\ Len(fill.todo) <= 1
  /\ restored' = restored \cup {e \in fill.read : IdsOf(e) \cap fill.spoiled = {}}
  /\ fill' = [NoFill EXCEPT !.state = "done"]
  /\ UNCHANGED <<stored, entities, edges, cases, investigations, batch, raced, requests, graphFaults>>

-----------------------------------------------------------------------------
(* Requests.                                                               *)

Asks == requests < MaxRequests /\ requests' = requests + 1

\* create_investigation_case fills investigation_cases.  create_case, which
\* fills cases, has no caller outside the tests.
OpenCase(c) ==
  /\ Asks
  /\ c \notin investigations
  /\ investigations' = investigations \cup {c}
  /\ UNCHANGED <<stored, entities, edges, cases, batch, fill, restored, raced, graphFaults>>

\* POST /graph/edge: the ends need not exist.
CreateEdge(edge) ==
  /\ Asks
  /\ edge \notin edges
  /\ Write([op |-> "edge", edge |-> edge])
  /\ UNCHANGED <<stored, cases, investigations, batch, fill, restored, raced, graphFaults>>

\* POST /graph/entity, of one end of a drawn edge.
CreateEntity(x) ==
  /\ Asks
  /\ x \notin DOMAIN entities
  /\ Write([op |-> "entity", id |-> x, case |-> Missing])
  /\ UNCHANGED <<stored, cases, investigations, batch, fill, restored, raced, graphFaults>>

\* The edges that a writer has still to insert.
ToCome(rows) == {rows[i].edge : i \in {j \in DOMAIN rows : rows[j].op = "edge"}}
Touches(edge, x) == x \in {edge[1], edge[3]}

\* Mutant: only the outgoing edges are deleted.
CutOutgoing(x) == {edge \in edges : edge[1] = x}

\* The edges that go with an entity.
Cut(x) == {edge \in edges : Touches(edge, x)}

\* DELETE /graph/entity: the edges and the row in one section.
DeleteEntity(x) ==
  /\ x \in DOMAIN entities
  /\ Asks
  /\ edges' = edges \ Cut(x)
  /\ entities' = [y \in DOMAIN entities \ {x} |-> entities[y]]
  /\ raced' = IF \E edge \in ToCome(batch.rows) \cup ToCome(fill.rows) : Touches(edge, x)
              THEN raced \cup {x} ELSE raced
  /\ restored' = {e \in restored : x \notin IdsOf(e)}
  /\ fill' = [fill EXCEPT !.spoiled = IF fill.state = "running" THEN @ \cup {x} ELSE @]
  /\ UNCHANGED <<stored, cases, investigations, batch, graphFaults>>

GraphCrash ==
  /\ GraphFault
  /\ batch # NoBatch \/ fill.state = "running"
  /\ batch' = NoBatch
  /\ fill' = NoFill
  /\ UNCHANGED <<stored, entities, edges, cases, investigations, restored, raced, requests>>

GraphNext ==
  \/ \E es \in Batches : Store(es)
  \/ WriteRow \/ GiveUp \/ NextEvent
  \/ \E only \in BOOLEAN : Backfill(only)
  \/ FillRow \/ FillFails \/ FillNext \/ FillDone
  \/ \E c \in GraphCases : OpenCase(c)
  \/ \E edge \in Drawn : CreateEdge(edge) \/ CreateEntity(edge[1])
  \/ \E x \in DOMAIN entities : DeleteEntity(x)
  \/ GraphCrash

GraphSpec == GraphInit /\ [][GraphNext]_graphVars

-----------------------------------------------------------------------------

\* An edge that was extracted from an event has both ends in the graph,
\* whatever fails and wherever the process dies, unless an end was deleted
\* between the upsert of the entity and the insertion of the edge.
EdgesHaveEnds ==
  \A edge \in edges \ Drawn : {edge[1], edge[3]} \subseteq DOMAIN entities \cup raced

\* What a backfill that answered has read is in the graph with every entity
\* and every edge, until one of its entities is deleted: a backfill repairs
\* what failures and crashes of the loader have left out.
BackfillIsWhole ==
  \A e \in restored : IdsOf(e) \subseteq DOMAIN entities /\ LinksOf(e) \subseteq edges

\* Nothing failed, and the only requests were those that opened cases.
Undisturbed == graphFaults = 0 /\ requests = Cardinality(investigations)

\* "Return the complete entity graph for a given investigation case"
\* (api/graph.py:331): when nothing failed and no other request came, the
\* entities of an event of an opened case are in the graph once the loader is done.
CaseGraphIsStored ==
  Undisturbed /\ batch = NoBatch =>
    \A e \in stored : Event[e].case \in investigations => IdsOf(e) \subseteq DOMAIN entities

\* What is true of it: an event without a case is in the graph with every entity
\* and every edge when the loader is through with it, whatever else its batch
\* holds and a backfill does (ingest_events gives each event a try of its own).
UncasedIsDrawn ==
  Undisturbed => \A e \in stored : Event[e].case = Missing =>
    \/ \E i \in DOMAIN batch.todo : batch.todo[i] = e
    \/ IdsOf(e) \subseteq DOMAIN entities /\ LinksOf(e) \subseteq edges

\* And the graph of any case is empty: no row gets a case_id, as none of the
\* opened cases is in the table that case_id refers to.
NoEntityHasCase == \A x \in DOMAIN entities : entities[x] = Missing

=============================================================================
