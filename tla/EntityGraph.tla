---------------------------- MODULE EntityGraph ----------------------------
(***************************************************************************)
(* The entity graph (crates/graph/src/lib.rs; the graph handlers of        *)
(* crates/daemon/src/api.rs; migrations 0005, 0021 and 0029).              *)
(*                                                                         *)
(* Entities have a normalized name, aliases that lead to them, and edges   *)
(* between them that say from when until when a fact held.  Extractions    *)
(* resolve the names they find by the name, by an alias, or by a judge     *)
(* that compares names; what the judge does not decide it queues for a     *)
(* human.  Every operation is one transaction on the writer thread.        *)
(*                                                                         *)
(* Names are numbers because the code sorts them; a fact is the hash of    *)
(* its text.  Kinds and summaries decide nothing and are left out.         *)
(***************************************************************************)
EXTENDS Naturals, FiniteSets, Sequences, SequencesExt

CONSTANTS
  Ids,           \* bound: the entity ids in use
  Names,         \* normalized names
  SameObject,    \* pairs of names the judge takes for one object
  SameFamily,    \* pairs of names with the same first term
  Relations,     \* relation names
  NotRelations,  \* those that state a plan or a constraint: refused
  FamilyOf,      \* FamilyOf[r]: the relation family of r, or None
  Facts,         \* fact hashes
  Extractions,   \* what a session can yield
  HumanFacts,    \* what people state by hand: a relation and a fact
  MaxEdges,      \* bound: rows of the edge table
  MaxTime,       \* bound: instants
  None

\* What an extraction yields: names with their aliases, and facts of the names.
ExtractionType ==
  [entities : Seq([name : Names, aliases : SUBSET Names]),
   facts : Seq([src : Names, dst : Names, rel : Relations, fact : Facts])]

ASSUME GraphAssumption ==
  /\ Ids \subseteq Nat \ {0} /\ Names \subseteq Nat /\ None \notin Nat
  /\ SameObject \subseteq Names \X Names /\ SameFamily \subseteq Names \X Names
  /\ \A p \in SameObject \cup SameFamily :
       <<p[2], p[1]>> \in (IF p \in SameObject THEN SameObject ELSE SameFamily)
  /\ NotRelations \subseteq Relations
  /\ Extractions \subseteq ExtractionType
  /\ HumanFacts \subseteq [rel : Relations, fact : Facts]
  /\ MaxEdges \in Nat /\ MaxTime \in Nat \ {0}

VARIABLES
  graph,  \* the tables entities, entity_aliases, entity_edges, resolution_pending
  now     \* the clock

graphVars == <<graph, now>>

Instants == 1..MaxTime

\* invalid is None while the fact holds.  by is history: whose fact it is.
Edges == [id : 1..MaxEdges, src : Ids, dst : Ids, rel : Relations, fact : Facts,
          valid : Instants, invalid : Instants \cup {None},
          by : {"human", "session", "document"}]

PartialFunctions(S, T) == UNION {[D -> T] : D \in SUBSET S}

\* The types, and what the schema enforces: names are unique, and aliases,
\* edges and pairs refer to entities that exist.
GraphTypeOK ==
  /\ graph.entity \in PartialFunctions(Ids, Names)
  /\ IsInjective(graph.entity)
  /\ DOMAIN graph.alias \subseteq Names
  /\ \A n \in DOMAIN graph.alias : graph.alias[n] \in DOMAIN graph.entity
  /\ graph.edges \subseteq Edges
  /\ \A e \in graph.edges : {e.src, e.dst} \subseteq DOMAIN graph.entity
  /\ \A e, f \in graph.edges : e.id = f.id => e = f
  /\ \A pair \in DOMAIN graph.pending :
       /\ pair \subseteq DOMAIN graph.entity /\ Cardinality(pair) = 2
       /\ graph.pending[pair] \in {"open", "dismissed"}
  /\ now \in Instants

Nothing == [x \in {} |-> None]

GraphInit ==
  /\ graph = [entity |-> Nothing, alias |-> Nothing, pending |-> Nothing, edges |-> {}]
  /\ now = 1

\* SQLite gives a row the id after the largest in use.
NewId(used) == 1 + Max(used \cup {0})

Current(g) == {e \in g.edges : e.invalid = None}

Single(x, y) == [z \in {x} |-> y]

\* f, and g where f says nothing.
Joined(f, g) ==
  [x \in DOMAIN f \cup DOMAIN g |-> IF x \in DOMAIN f THEN f[x] ELSE g[x]]

-----------------------------------------------------------------------------
(* Names *)

Named(g, n) == {i \in DOMAIN g.entity : g.entity[i] = n}

\* entity_id_by_norm: the entity of that name, or else the alias.
Resolved(g, n) ==
  IF Named(g, n) # {} THEN CHOOSE i \in Named(g, n) : TRUE
  ELSE IF n \in DOMAIN g.alias THEN g.alias[n] ELSE None

\* upsert_entity_in: a name that is there keeps its row.
WithEntity(g, n) ==
  IF Named(g, n) # {} THEN g
  ELSE [g EXCEPT !.entity = Joined(Single(NewId(DOMAIN @), n), @)]

\* add_alias_in: an alias that is there keeps its entity.
WithAliases(g, i, names) == [g EXCEPT !.alias = Joined(@, [n \in names |-> i])]

\* queue_pending_in: a pair that is there keeps its answer.
WithPair(g, i, j) == [g EXCEPT !.pending = Joined(@, Single({i, j}, "open"))]

\* judge_against: the first entity, by id, whose name is related to n.
Judged(g, n, relation) == {i \in DOMAIN g.entity : <<g.entity[i], n>> \in relation}

\* The probes of resolve_entity_in are sorted: the smallest name that is known
\* decides; if none is known, the judge does.
SameAs(g, n, aliases) ==
  LET known == {p \in {n} \cup aliases : Resolved(g, p) # None}
      same == Judged(g, n, SameObject)
  IN  IF known # {} THEN Resolved(g, Min(known))
      ELSE IF same # {} THEN Min(same) ELSE None

\* resolve_entity_in, when it creates the entity.
Created(g, n, aliases) ==
  LET h == WithEntity(g, n)
      id == Resolved(h, n)
      like == Judged(g, n, SameFamily)
      named == WithAliases(h, id, aliases)
  IN  IF like = {} THEN named ELSE WithPair(named, Min(like), id)

\* resolve_entity_in.
Resolve(g, n, aliases) ==
  LET same == SameAs(g, n, aliases)
  IN  IF same = None THEN Created(g, n, aliases)
      ELSE WithAliases(g, same, aliases \cup ({n} \ {g.entity[same]}))

-----------------------------------------------------------------------------
(* Facts *)

\* The UPDATE of insert_fact_in: what holds ends when the new fact begins.
Closed(edges, src, dst, rel, at) ==
  {IF e.src = src /\ e.dst = dst /\ e.rel = rel /\ e.invalid = None
     THEN [e EXCEPT !.invalid = at] ELSE e : e \in edges}

\* insert_fact_in.
WithFact(g, src, dst, f, at, by) ==
  [g EXCEPT !.edges =
     Closed(@, src, dst, f.rel, at)
       \cup {[id |-> NewId({e.id : e \in @}), src |-> src, dst |-> dst, rel |-> f.rel,
              fact |-> f.fact, valid |-> at, invalid |-> None, by |-> by]}]

\* Mutated form: a relation of the family counts only under its own name, and
\* only the wording of the one that was found is compared.
IsStatedInTheseWords(g, src, dst, f) ==
  \E e \in Current(g) :
    e.src = src /\ e.dst = dst /\ e.rel # f.rel /\ e.fact = f.fact

\* upsert_fact_in: the claim is there already.  Edges between the two ends, in
\* either direction, are searched for the same name first: the first one found
\* is a duplicate if it says the same.  The index on src answers one half of
\* the OR after the other, so edges in the fact's own direction come first.
FirstNamed(g, src, dst, rel) ==
  LET between(i, j) == {e \in Current(g) : e.src = i /\ e.dst = j /\ e.rel = rel}
      found == IF between(src, dst) # {} THEN between(src, dst) ELSE between(dst, src)
  IN  {e \in found : \A o \in found : e.id <= o.id}

IsStated(g, src, dst, f) ==
  LET named == FirstNamed(g, src, dst, f.rel)
      between == {e \in Current(g) : {e.src, e.dst} = {src, dst}}
  IN  /\ FamilyOf[f.rel] # None
      /\ IF named # {} THEN \E e \in named : e.fact = f.fact
         ELSE \E e \in between : FamilyOf[e.rel] = FamilyOf[f.rel]

\* upsert_fact_in.
Upserted(g, src, dst, f, at, by) ==
  IF f.rel \in NotRelations \/ IsStated(g, src, dst, f) THEN g
  ELSE WithFact(g, src, dst, f, at, by)

\* apply_extraction, one name: what ids says the names of the facts lead to.
AddEntity(acc, e) ==
  LET h == Resolve(acc.graph, e.name, e.aliases)
      same == SameAs(acc.graph, e.name, e.aliases)
      id == IF same # None THEN same ELSE Resolved(h, e.name)
  IN  [graph |-> h, ids |-> Joined(Single(e.name, id), acc.ids)]

\* One fact, if both its ends are among the names.
AddClaim(g, ids, f, at, by) ==
  IF {f.src, f.dst} \subseteq DOMAIN ids
  THEN Upserted(g, ids[f.src], ids[f.dst], f, at, by) ELSE g

\* What the first k names, and the first k facts, make of the graph.
AfterNames(g, entities) ==
  LET acc[k \in 0..Len(entities)] ==
        IF k = 0 THEN [graph |-> g, ids |-> Nothing] ELSE AddEntity(acc[k - 1], entities[k])
  IN  acc

AfterFacts(g, ids, facts, at, by) ==
  LET h[k \in 0..Len(facts)] ==
        IF k = 0 THEN g ELSE AddClaim(h[k - 1], ids, facts[k], at, by)
  IN  h

\* apply_extraction: the names one after the other, then the facts, in one
\* transaction.
Extracted(g, x, at, by) ==
  LET found == AfterNames(g, x.entities)[Len(x.entities)]
  IN  AfterFacts(found.graph, found.ids, x.facts, at, by)[Len(x.facts)]

-----------------------------------------------------------------------------
(* The operations *)

WithinBounds(g) ==
  /\ DOMAIN g.entity \subseteq Ids
  /\ \A e \in g.edges : e.id <= MaxEdges

Becomes(g) == WithinBounds(g) /\ graph' = g

\* The clock runs.
Tick == now < MaxTime /\ now' = now + 1 /\ UNCHANGED graph

\* A distillation writes what it extracted; an event time may lie in the past.
Extract(x, at) ==
  at <= now /\ Becomes(Extracted(graph, x, at, "session")) /\ UNCHANGED now

\* graph_create_entity.
CreateEntity(n) == Becomes(WithEntity(graph, n)) /\ UNCHANGED now

\* graph_add_fact: the ends are ids, or names resolved to ids.
AddFact(src, dst, f, at) ==
  /\ {src, dst} \subseteq DOMAIN graph.entity
  /\ Becomes(WithFact(graph, src, dst, f, at, "human"))
  /\ UNCHANGED now

\* dismiss_pair.
Dismiss(pair) ==
  /\ pair \in DOMAIN graph.pending /\ graph.pending[pair] = "open"
  /\ graph' = [graph EXCEPT !.pending[pair] = "dismissed"]
  /\ UNCHANGED now

Without(f, S) == [x \in DOMAIN f \ S |-> f[x]]

PairsWith(g, i) == {pair \in DOMAIN g.pending : i \in pair}

\* Mutated form: the aliases of the absorbed entity are dropped with it.
MergeDroppingAliases(keeper, absorbed) ==
  /\ {keeper, absorbed} \subseteq DOMAIN graph.entity /\ keeper # absorbed
  /\ LET follow(i) == IF i = absorbed THEN keeper ELSE i
         kept == Without(graph.alias, {n \in DOMAIN graph.alias : graph.alias[n] = absorbed})
     IN  graph' = [entity |-> Without(graph.entity, {absorbed}),
                   alias |-> Joined(kept, Single(graph.entity[absorbed], keeper)),
                   pending |-> Without(graph.pending,
                                 PairsWith(graph, keeper) \cup PairsWith(graph, absorbed)),
                   edges |-> {[e EXCEPT !.src = follow(@), !.dst = follow(@)]
                                : e \in graph.edges}]
  /\ UNCHANGED now

\* graph_resolution_merge, merge_entities: edges and aliases follow, the name
\* becomes an alias of the keeper unless it is somebody's alias already, the
\* pairs of both go, and so does the absorbed row.  The add_alias that the
\* handler sends afterwards finds the alias there.
Merge(keeper, absorbed) ==
  /\ {keeper, absorbed} \subseteq DOMAIN graph.entity /\ keeper # absorbed
  /\ LET follow(i) == IF i = absorbed THEN keeper ELSE i
         named == WithAliases(graph, keeper, {graph.entity[absorbed]})
     IN  graph' = [entity |-> Without(graph.entity, {absorbed}),
                   alias |-> [n \in DOMAIN named.alias |-> follow(named.alias[n])],
                   pending |-> Without(graph.pending,
                                 PairsWith(graph, keeper) \cup PairsWith(graph, absorbed)),
                   edges |-> {[e EXCEPT !.src = follow(@), !.dst = follow(@)]
                                : e \in graph.edges}]
  /\ UNCHANGED now

\* delete_entity: the entity with its edges, its aliases and its pairs.
WithoutEntity(g, i) ==
  [entity |-> Without(g.entity, {i}),
   alias |-> Without(g.alias, {n \in DOMAIN g.alias : g.alias[n] = i}),
   pending |-> Without(g.pending, PairsWith(g, i)),
   edges |-> {e \in g.edges : i \notin {e.src, e.dst}}]

DeleteEntity(i) ==
  i \in DOMAIN graph.entity /\ graph' = WithoutEntity(graph, i) /\ UNCHANGED now

GraphNext ==
  \/ Tick
  \/ \E x \in Extractions, at \in Instants : Extract(x, at)
  \/ \E n \in Names : CreateEntity(n)
  \/ \E src, dst \in Ids, f \in HumanFacts, at \in Instants : AddFact(src, dst, f, at)
  \/ \E pair \in DOMAIN graph.pending : Dismiss(pair)
  \/ \E keeper, absorbed \in Ids : Merge(keeper, absorbed)
  \/ \E i \in Ids : DeleteEntity(i)

GraphSpec == GraphInit /\ [][GraphNext]_graphVars

-----------------------------------------------------------------------------
(* Properties *)

\* Migration 0005: edges are invalidated, never deleted.  Whatever is
\* extracted, superseded and merged, a fact stays in the table until one of
\* its ends is deleted by hand, and once its end is known it is not moved.
HistoryIsKept ==
  [][(\A i \in Ids : ~DeleteEntity(i)) =>
       \A e \in graph.edges : \E h \in graph'.edges :
         /\ h.id = e.id /\ h.rel = e.rel /\ h.fact = e.fact /\ h.valid = e.valid
         /\ e.invalid # None => h.invalid = e.invalid]_graphVars

\* What a graph says holds, and its rows of relations that belong to a family.
Statements(g) == {<<e.src, e.dst, e.rel, e.fact>> : e \in Current(g)}
FamilyRows(g) == {e \in g.edges : FamilyOf[e.rel] # None}

OneTextPerRelation(x) ==
  \A i, j \in DOMAIN x.facts :
    x.facts[i].fact = x.facts[j].fact \/ x.facts[i].rel # x.facts[j].rel

\* upsert_fact: extracting the same session again leaves the graph saying what
\* it said, in whatever state people, merges and other sessions left it before,
\* and neither ends nor adds a row of a relation that has a family.  A relation
\* without one is not looked for: its row is ended and written anew.
ReExtractionSaysNothingNew ==
  \A x \in Extractions :
    LET once == Extracted(graph, x, now, "session")
        twice == Extracted(once, x, now, "session")
    IN  OneTextPerRelation(x) =>
          Statements(twice) = Statements(once) /\ FamilyRows(twice) = FamilyRows(once)

-----------------------------------------------------------------------------
(* What comments of the code say and the code does not do: TLC refutes each  *)
(* on a small instance, and no run keeps it (README, section 6).            *)

\* What the handler says of a merge: the absorbed name leads to the keeper.
MergedNamesFollow ==
  [][\A keeper, absorbed \in Ids :
       Merge(keeper, absorbed) =>
         Resolved(graph', graph.entity[absorbed]) = keeper]_graphVars

\* What queue_pending says of a pair: it is kept until somebody has decided.
QueuedPairsAreDecided ==
  [][\A pair \in DOMAIN graph.pending :
       pair \in DOMAIN graph'.pending
         \/ \E i \in pair : i \notin DOMAIN graph'.entity]_graphVars

\* What upsert_fact says of an exact re-statement: it is skipped.
ReStatementsAreSkipped ==
  \A x \in Extractions :
    LET once == Extracted(graph, x, now, "session")
    IN  OneTextPerRelation(x) => Extracted(once, x, now, "session").edges = once.edges

\* What migration 0005 says of history: a fact that was true from some instant
\* on is in force at that instant.
FactsHoldWhenTheyBegan ==
  \A e \in graph.edges : e.invalid # None => e.valid <= e.invalid
=============================================================================
