---------------------------- MODULE GraphIngest ----------------------------
(***************************************************************************)
(* Documents of the knowledge base in the entity graph                     *)
(* (crates/daemon/src/knowledge_graph.rs).                                 *)
(*                                                                         *)
(* A sweep every minute, and requests in between, take documents whose     *)
(* text is not the one in the ledger.  A pass over a document extracts its *)
(* entities and facts, writes them to the graph, prunes what the revision  *)
(* in the ledger stated and this one does not, and records the new         *)
(* revision: four calls to the store with awaits in between, over the      *)
(* graph that people and sessions work on.                                 *)
(*                                                                         *)
(* The index of the knowledge base is the list of its rows, newest first.  *)
(* A text stands for its hash and, through Yield, for what it claims.      *)
(***************************************************************************)
EXTENDS EntityGraph

CONSTANTS
  Docs,        \* documents
  Texts,       \* what a file can hold
  Blank,       \* a text without a paragraph: it is not indexed
  Yield,       \* Yield[t]: what the rules extract from t
  Unreadable,  \* documents the scan indexes and read_raw refuses by their name
  Ingesters,   \* who runs passes
  Sweeper,     \* the loop that sweeps; the others serve requests
  MaxDocs,     \* max_docs_per_pass
  MaxEdits,    \* bound: changes of files
  MaxUpsets    \* bound: failures, crashes, and what others do to the graph

ASSUME IngestAssumption ==
  /\ Blank \in Texts /\ None \notin Texts /\ Unreadable \subseteq Docs
  /\ \A t \in Texts : Yield[t] \in ExtractionType
  /\ Sweeper \in Ingesters /\ MaxDocs \in Nat \ {0}
  /\ MaxEdits \in Nat /\ MaxUpsets \in Nat

VARIABLES
  file,    \* the markdown tree
  rows,    \* the documents table, newest first
  ledger,  \* knowledge_graph_ingest: the text recorded for each document
  pass,    \* what each ingester holds between its awaits
  crossed, \* history: who is at work on a ledger read before another's write
  edits, upsets

counters == <<edits, upsets>>

ingestVars == <<file, rows, ledger, pass, crossed, counters, graphVars>>

Idle == [at |-> "idle", todo |-> <<>>, text |-> None, seen |-> None]

IngestTypeOK ==
  /\ GraphTypeOK
  /\ file \in [Docs -> Texts \cup {None}]
  /\ \A i \in DOMAIN rows : rows[i].doc \in Docs /\ rows[i].text \in Texts \ {Blank}
  /\ \A i, j \in DOMAIN rows : rows[i].doc = rows[j].doc => i = j
  /\ ledger \in [Docs -> Texts \cup {None}]
  /\ \A p \in Ingesters :
       /\ pass[p].at \in {"idle", "read", "ledger", "write", "prune", "record"}
       /\ pass[p].at = "idle" <=> pass[p].todo = <<>>
       /\ pass[p].at \in {"ledger", "write", "prune", "record"} => pass[p].text \in Texts
       /\ pass[p].at \in {"write", "prune", "record"} =>
            pass[p].seen \in [Docs -> Texts \cup {None}]
  /\ crossed \subseteq Ingesters
  /\ edits \in 0..MaxEdits /\ upsets \in 0..MaxUpsets

\* The capability is switched on for a tree of files that is there.
IngestInit ==
  /\ GraphInit
  /\ file \in [Docs -> Texts] /\ rows = <<>>
  /\ ledger = [d \in Docs |-> None]
  /\ pass = [p \in Ingesters |-> Idle]
  /\ crossed = {} /\ edits = 0 /\ upsets = 0

RowOf(d) == CHOOSE i \in DOMAIN rows : rows[i].doc = d

RowText(d) ==
  IF \E i \in DOMAIN rows : rows[i].doc = d THEN rows[RowOf(d)].text ELSE None

\* RevisionClaims.
FactsOf(t) == IF t = None THEN {} ELSE {f.fact : f \in ToSet(Yield[t].facts)}
NamesOf(t) == IF t = None THEN {} ELSE {e.name : e \in ToSet(Yield[t].entities)}

-----------------------------------------------------------------------------
(* Files and their index *)

Edit(d, t) ==
  /\ file[d] # t /\ edits < MaxEdits
  /\ file' = [file EXCEPT ![d] = t] /\ edits' = edits + 1
  /\ UNCHANGED <<rows, ledger, pass, crossed, upsets, graphVars>>

\* A text without a chunk is not indexed.
Indexed(d) == IF file[d] = Blank THEN None ELSE file[d]

\* The scan, or a save, takes one file: a text that changed gets a new row, one
\* without a chunk, and a file that is gone, lose theirs.
Index(d) ==
  LET rest == IF RowText(d) = None THEN rows ELSE RemoveAt(rows, RowOf(d))
  IN  /\ RowText(d) # Indexed(d)
      /\ rows' = IF Indexed(d) = None THEN rest
                 ELSE <<[doc |-> d, text |-> file[d]]>> \o rest
      /\ UNCHANGED <<file, ledger, pass, crossed, counters, graphVars>>

-----------------------------------------------------------------------------
(* A pass *)

Doc(p) == Head(pass[p].todo)

Goto(p, at) == pass' = [pass EXCEPT ![p].at = at]

\* The document is done with; a sweep goes on with the next.
Advance(p) ==
  pass' = [pass EXCEPT ![p] =
    IF Len(@.todo) = 1 THEN Idle ELSE [Idle EXCEPT !.at = "read", !.todo = Tail(pass[p].todo)]]

\* Who has read the ledger and is not done, p apart: a write of p crosses them.
Beside(p) == {q \in Ingesters \ {p} : pass[q].at \in {"write", "prune", "record"}}

\* sweep, one row: a document that is not recorded as it is indexed is taken,
\* until there are n.
Taken(docs, row, n) ==
  IF ledger[row.doc] = row.text \/ Len(docs) = n THEN docs ELSE Append(docs, row.doc)

\* sweep: the rows and the ledger are read once and gone through, newest first.
Selection(n) ==
  LET docs[k \in 0..Len(rows)] ==
        IF k = 0 THEN <<>> ELSE Taken(docs[k - 1], rows[k], n)
  IN  docs

Selected(n) == Selection(n)[Len(rows)]

\* The loop sweeps every minute, and so does a request without a name.  No lock
\* keeps passes apart.
SweepStarts(p) ==
  /\ pass[p].at = "idle" /\ Selected(MaxDocs) # <<>>
  /\ pass' = [pass EXCEPT ![p] = [Idle EXCEPT !.at = "read", !.todo = Selected(MaxDocs)]]
  /\ UNCHANGED <<file, rows, ledger, crossed, counters, graphVars>>

\* knowledge_graph_ingest with a document's name.
Request(p, d) ==
  /\ p # Sweeper /\ pass[p].at = "idle"
  /\ pass' = [pass EXCEPT ![p] = [Idle EXCEPT !.at = "read", !.todo = <<d>>]]
  /\ UNCHANGED <<file, rows, ledger, crossed, counters, graphVars>>

CanRead(d) == RowText(d) # None /\ file[d] # None /\ d \notin Unreadable

\* ingest_document: the row must be there and the file readable; the pass works
\* on the text of the file.
Read(p) ==
  /\ pass[p].at = "read" /\ CanRead(Doc(p))
  /\ pass' = [pass EXCEPT ![p].at = "ledger", ![p].text = file[Doc(p)]]
  /\ UNCHANGED <<file, rows, ledger, crossed, counters, graphVars>>

\* It is not: the document is skipped.
Skip(p) ==
  /\ pass[p].at = "read" /\ ~CanRead(Doc(p)) /\ Advance(p)
  /\ UNCHANGED <<file, rows, ledger, crossed, counters, graphVars>>

\* load_ledger: nothing to do for a text that is recorded.
LoadLedger(p) ==
  /\ pass[p].at = "ledger"
  /\ IF ledger[Doc(p)] = pass[p].text THEN Advance(p)
     ELSE pass' = [pass EXCEPT ![p].at = "write", ![p].seen = ledger]
  /\ UNCHANGED <<file, rows, ledger, crossed, counters, graphVars>>

\* Mutated form: a revision with nothing in it has nothing to prune either.
WriteAndLeave(p) ==
  /\ pass[p].at = "write"
  /\ Becomes(Extracted(graph, Yield[pass[p].text], now, "document"))
  /\ Goto(p, IF pass[p].seen[Doc(p)] = None \/ FactsOf(pass[p].text) = {}
             THEN "record" ELSE "prune")
  /\ crossed' = crossed \cup Beside(p)
  /\ UNCHANGED <<file, rows, ledger, counters, now>>

\* apply_extraction.
Write(p) ==
  /\ pass[p].at = "write"
  /\ Becomes(Extracted(graph, Yield[pass[p].text], now, "document"))
  /\ Goto(p, IF pass[p].seen[Doc(p)] = None THEN "record" ELSE "prune")
  /\ crossed' = crossed \cup Beside(p)
  /\ UNCHANGED <<file, rows, ledger, counters, now>>

\* prune_previous_revision: edges with a retracted hash end, whoever wrote
\* them; an entity of that name goes if nothing holds at it any more, no alias
\* of it is claimed, and all its edges are the old revision's own.  Whether
\* one goes does not depend on another that goes: they share own, ended edges.
Pruned(g, facts, names, claimed, own) ==
  LET edges == {IF e.fact \in facts /\ e.invalid = None THEN [e EXCEPT !.invalid = now] ELSE e
                  : e \in g.edges}
      at(i) == {e \in edges : i \in {e.src, e.dst}}
      gone == {i \in DOMAIN g.entity :
                 /\ g.entity[i] \in names
                 /\ \A e \in at(i) : e.invalid # None /\ e.fact \in own
                 /\ \A n \in DOMAIN g.alias : g.alias[n] = i => n \notin claimed}
  IN  [entity |-> Without(g.entity, gone),
       alias |-> Without(g.alias, {n \in DOMAIN g.alias : g.alias[n] \in gone}),
       pending |-> Without(g.pending, {pair \in DOMAIN g.pending : pair \cap gone # {}}),
       edges |-> edges \ UNION {at(i) : i \in gone}]

\* Mutated form: what other documents claim is looked for among the facts only.
PruneNames(p) ==
  LET old == pass[p].seen[Doc(p)]
      elsewhere == {pass[p].seen[d] : d \in Docs \ {Doc(p)}}
  IN  /\ pass[p].at = "prune"
      /\ graph' = Pruned(graph,
           (FactsOf(old) \ FactsOf(pass[p].text)) \ UNION {FactsOf(t) : t \in elsewhere},
           NamesOf(old) \ NamesOf(pass[p].text), {}, FactsOf(old))
      /\ Goto(p, "record")
      /\ UNCHANGED <<file, rows, ledger, crossed, counters, now>>

\* retractions over other_claims, then the prune: what the old revision claims
\* and neither this one nor, in the ledger as it was read, another document.
Prune(p) ==
  LET old == pass[p].seen[Doc(p)]
      elsewhere == {pass[p].seen[d] : d \in Docs \ {Doc(p)}}
      claimed == UNION {NamesOf(t) : t \in elsewhere}
  IN  /\ pass[p].at = "prune"
      /\ graph' = Pruned(graph,
           (FactsOf(old) \ FactsOf(pass[p].text)) \ UNION {FactsOf(t) : t \in elsewhere},
           (NamesOf(old) \ NamesOf(pass[p].text)) \ claimed, claimed, FactsOf(old))
      /\ Goto(p, "record")
      /\ UNCHANGED <<file, rows, ledger, crossed, counters, now>>

\* write_ledger_row.
Record(p) ==
  /\ pass[p].at = "record"
  /\ ledger' = [ledger EXCEPT ![Doc(p)] = pass[p].text]
  /\ Advance(p) /\ crossed' = (crossed \ {p}) \cup Beside(p)
  /\ UNCHANGED <<file, rows, counters, graphVars>>

\* A call to the store fails: a sweep logs it and goes on, a request answers.
Fails(p) ==
  /\ pass[p].at # "idle" /\ upsets < MaxUpsets
  /\ Advance(p) /\ upsets' = upsets + 1 /\ crossed' = crossed \ {p}
  /\ UNCHANGED <<file, rows, ledger, edits, graphVars>>

Crash ==
  /\ upsets < MaxUpsets /\ \E p \in Ingesters : pass[p] # Idle
  /\ pass' = [p \in Ingesters |-> Idle] /\ upsets' = upsets + 1 /\ crossed' = {}
  /\ UNCHANGED <<file, rows, ledger, edits, graphVars>>

PassStep(p) ==
  Read(p) \/ Skip(p) \/ LoadLedger(p) \/ Write(p) \/ Prune(p) \/ Record(p)

IngestNext ==
  \/ \E d \in Docs, t \in Texts \cup {None} : Edit(d, t)
  \/ \E d \in Docs : Index(d)
  \/ \E p \in Ingesters :
       SweepStarts(p) \/ PassStep(p) \/ Fails(p) \/ \E d \in Docs : Request(p, d)
  \/ Crash

\* Sessions and people work on the graph meanwhile.
OthersStep ==
  /\ upsets < MaxUpsets /\ upsets' = upsets + 1
  /\ GraphNext
  /\ UNCHANGED <<file, rows, ledger, pass, crossed, edits>>

IngestSpec == IngestInit /\ [][IngestNext \/ OthersStep]_ingestVars

\* The scan takes every file and the sweep follows it in one loop that never
\* ends; an await on the store ends.
IngestLiveSpec ==
  /\ IngestInit /\ [][IngestNext]_ingestVars
  /\ \A d \in Docs : WF_ingestVars(Index(d))
  /\ WF_ingestVars(SweepStarts(Sweeper)) /\ WF_ingestVars(PassStep(Sweeper))

-----------------------------------------------------------------------------
(* Properties *)

\* The revision rule on what other documents claim, while passes run beside
\* each other: pruning one document ends no fact and removes no name that the
\* row of another states, unless that row has changed since the pass read the
\* ledger; under whatever name merges and sessions left the entity.
OthersClaimsSurvive ==
  [][\A p \in Ingesters : Prune(p) =>
       \A d \in Docs \ {Doc(p)} : ledger[d] = pass[p].seen[d] =>
         /\ {e \in Current(graph) : e.fact \in FactsOf(ledger[d])} \subseteq graph'.edges
         /\ \A n \in NamesOf(ledger[d]) :
              Resolved(graph, n) # None => Resolved(graph', n) # None]_ingestVars

\* The facts that documents brought into the graph and that hold there.
Held(g) == {e.fact : e \in {e \in Current(g) : e.by = "document"}}

\* A row of the ledger states the fact, or the revision a pass has written and
\* is about to record.
Claimed(f) ==
  \/ \E d \in Docs : f \in FactsOf(ledger[d])
  \/ \E p \in Ingesters :
       pass[p].at \in {"prune", "record"} /\ f \in FactsOf(pass[p].text)

\* The revision rule on retraction, with failures, crashes and passes beside
\* each other: whatever takes the last claim on a fact that holds retracts it.
\* Two ways are left to lose track of one: a pass that has written it stops
\* before it is recorded, and a row that states it is replaced by a pass that
\* another has crossed.
RetractedWithItsClaim ==
  [][\A f \in Facts :
       f \in Held(graph') /\ (f \in Held(graph) => Claimed(f)) =>
         \/ Claimed(f)'
         \/ \E p \in Ingesters :
              /\ pass[p].at \in {"prune", "record"} /\ f \in FactsOf(pass[p].text)
              /\ Fails(p) \/ Crash
         \/ \E p \in crossed : Record(p) /\ f \in FactsOf(ledger[Doc(p)])]_ingestVars

\* A name that leads to an entity leads to one until an entity is deleted, by
\* hand or by a prune, and no extraction changes to which (resolve_entity_in,
\* add_alias_in: documents, sessions, people and merges hand out aliases, and
\* several may want the same one).
NamesStayKnown ==
  [][\A n \in Names : Resolved(graph, n) \notin {None, Resolved(graph', n)} =>
       /\ \A p \in Ingesters : ~Write(p)
       /\ \A x \in Extractions, at \in Instants : ~Extract(x, at)
       /\ Resolved(graph', n) = None =>
            (\E i \in Ids : DeleteEntity(i)) \/ (\E p \in Ingesters : Prune(p))]_ingestVars

-----------------------------------------------------------------------------
(* Stated for the record, part of no run (README, section 6): the first needs  *)
(* a budget above the number of files that fail, the others are what comments *)
(* say and the code does not do.                                             *)

\* What the revision rule says without a condition: what another document's row
\* states is left alone.  A row that is recorded between the reading of the
\* ledger and the prune is not.
WhatOthersStateIsLeftAlone ==
  [][\A p \in Ingesters : Prune(p) =>
       \A d \in Docs \ {Doc(p)} :
         {e \in Current(graph) : e.fact \in FactsOf(ledger[d])} \subseteq graph'.edges]_ingestVars

\* What it says of a fact the current revision does not state any more: it is
\* retracted, also after two passes over one document, or a failure.
FactsAreClaimed == \A f \in Held(graph) : Claimed(f)

\* What the sweep promises: a document whose name can be read comes to be
\* recorded as it is indexed, past files that cannot be read, failures and
\* crashes.
EverythingIsIngested ==
  \A d \in Docs \ Unreadable : []<>(RowText(d) \in {None, ledger[d]})

\* What the comment on claims says of a prune: claiming a fact that was there
\* already cannot make it retract the fact of a session or of a person.
SessionFactsSurvive ==
  [][\A p \in Ingesters : Prune(p) =>
       {e \in Current(graph) : e.by # "document"} \subseteq graph'.edges]_ingestVars

\* What the revision rule says of a document that is emptied: once nothing is
\* left for a sweep to do, no fact that documents brought holds without a file
\* that states it.
Settled ==
  /\ \A p \in Ingesters : pass[p] = Idle
  /\ \A d \in Docs : RowText(d) = Indexed(d)
  /\ Selected(1) = <<>>

EmptiedDocumentsRetract ==
  Settled /\ None \notin {file[d] : d \in Docs} =>
    \A e \in Current(graph) :
      e.by = "document" => \E d \in Docs : e.fact \in FactsOf(file[d])
=============================================================================
