--------------------------- MODULE KnowledgeIndex ---------------------------
(***************************************************************************)
(* The index of the knowledge base (crates/knowledge/src/files.rs and      *)
(* index_doc, delete_document of crates/knowledge/src/store.rs).           *)
(*                                                                         *)
(* The markdown files are the truth.  Each has a row in SQLite with the    *)
(* hash of the text it was indexed from, and a vector in LanceDB for its   *)
(* chunk.  A scan every minute follows the files; saves, edits, deletions  *)
(* and rebuilds change file and index.  Every one is a sequence of calls   *)
(* with awaits in between; index_doc holds a lock over its own, nobody     *)
(* else holds it over his.                                                 *)
(*                                                                         *)
(* A text has one chunk, so that a row's id is also its chunk's: both      *)
(* tables reuse the ids of rows that are gone.                             *)
(***************************************************************************)
EXTENDS Naturals

CONSTANTS
  Docs,      \* document names, in the order of the directory walk
  Texts,     \* what a file can hold
  Blank,     \* a text without a chunk: it is not indexed
  Torn,      \* what a file holds in the middle of a plain write
  Scanner,   \* the loop that scans
  Users,     \* requests at work at a time
  ByHand,    \* whether people change files behind the daemon's back
  MaxId,     \* bound: ids in use
  MaxOps,    \* bound: operations other than scans, and changes by hand
  MaxFaults, \* bound: failing calls and crashes
  None

ASSUME IndexAssumption ==
  /\ Docs \subseteq Nat /\ {Blank, Torn} \subseteq Texts /\ None \notin Texts
  /\ Scanner \notin Users /\ None \notin Users \cup {Scanner} /\ None \notin Docs /\ ByHand \in BOOLEAN
  /\ MaxId \in Nat /\ MaxOps \in Nat /\ MaxFaults \in Nat

Procs == Users \cup {Scanner}

VARIABLES
  file,     \* the markdown tree
  rows,     \* documents: id, name, text; whole unless the chunk is missing
  vectors,  \* LanceDB: id, and the text the vector was computed from
  lock,     \* index_lock: who holds it
  proc,     \* what each operation holds between its awaits
  alone,    \* history: the rebuild beside which nothing has been at work
  ops, faults

vars == <<file, rows, vectors, lock, proc, alone, ops, faults>>

Ids == 1..MaxId

Rows == [id : Ids, doc : Docs, text : Texts \ {Blank}, whole : BOOLEAN]

\* todo: documents to visit; present: documents read; ids: rows to drop; id: the
\* row at hand; chunk: it had one when read; clean: the report counts no error.
Operations ==
  [op : {"idle", "scan", "save", "edit", "delete", "rebuild"},
   at : {"idle", "read", "force", "write", "lock", "look", "drop", "erase", "vector",
         "insert", "embed", "gone", "unlink"},
   doc : Docs \cup {None}, text : Texts \cup {None}, todo : SUBSET Docs,
   present : SUBSET Docs, ids : SUBSET Ids, id : Ids \cup {None},
   chunk : BOOLEAN, clean : BOOLEAN]

Idle == [op |-> "idle", at |-> "idle", doc |-> None, text |-> None,
         todo |-> {}, present |-> {}, ids |-> {}, id |-> None,
         chunk |-> FALSE, clean |-> TRUE]

\* Who stands where, and what it has in hand there.
TypeOK ==
  /\ file \in [Docs -> Texts \cup {None}]
  /\ rows \subseteq Rows
  /\ \A r, s \in rows : r.id = s.id => r = s
  /\ vectors \subseteq [id : Ids, text : Texts \ {Blank}]
  /\ lock \in Procs \cup {None}
  /\ proc \in [Procs -> Operations]
  /\ \A p \in Procs :
       /\ proc[p].at = "read" => proc[p].todo # {}
       /\ proc[p].at \in {"force", "write", "lock", "look", "insert", "embed"} =>
            proc[p].doc \in Docs /\ proc[p].text \in Texts
       /\ proc[p].at \in {"insert", "embed"} => proc[p].text # Blank
       /\ proc[p].at \in {"erase", "vector", "embed"} => proc[p].id \in Ids
  /\ alone \in Users \cup {None} /\ ops \in 0..MaxOps /\ faults \in 0..MaxFaults

Init ==
  /\ file \in [Docs -> (Texts \ {Torn}) \cup {None}] /\ rows = {} /\ vectors = {}
  /\ lock = None /\ proc = [p \in Procs |-> Idle]
  /\ alone = None /\ ops = 0 /\ faults = 0

RowsOf(d) == {r \in rows : r.doc = d}

Indexed(d) == IF file[d] = Blank THEN None ELSE file[d]

\* SQLite gives a row the id after the largest in use.
IsNewId(id) ==
  /\ \A r \in rows : r.id < id
  /\ id = 1 \/ \E r \in rows : r.id = id - 1

Tree == {d \in Docs : file[d] # None}

\* A walk visits the documents in their order.
IsFirst(d, todo) == d \in todo /\ \A e \in todo : d <= e

-----------------------------------------------------------------------------
(* Control *)

At(p, op, at) == proc[p].at = at /\ (op = "any" \/ proc[p].op = op)

Goto(p, at) == proc' = [proc EXCEPT ![p].at = at]

\* A walk goes on with the next file; after the last, a scan looks for rows
\* whose file is gone and a rebuild ends.  Anything else ends.
NextOf(s) ==
  LET walk == [s EXCEPT !.doc = None, !.text = None, !.ids = {}, !.id = None, !.chunk = FALSE]
  IN  IF s.todo # {} THEN [walk EXCEPT !.at = "read"]
      ELSE IF s.op = "scan" THEN [walk EXCEPT !.at = "gone"] ELSE Idle

\* A person changes a file behind the daemon's back.
ChangeFile(d, t) ==
  /\ ByHand /\ ops < MaxOps /\ file[d] # t
  /\ file' = [file EXCEPT ![d] = t] /\ ops' = ops + 1 /\ alone' = None
  /\ UNCHANGED <<rows, vectors, lock, proc, faults>>

ScanStarts ==
  /\ proc[Scanner].at = "idle" /\ alone' = None
  /\ proc' = [proc EXCEPT ![Scanner] = NextOf([Idle EXCEPT !.op = "scan", !.todo = Tree])]
  /\ UNCHANGED <<file, rows, vectors, lock, ops, faults>>

Starts(p, s) ==
  /\ p \in Users /\ ops < MaxOps /\ proc[p].at = "idle"
  /\ proc' = [proc EXCEPT ![p] = s] /\ ops' = ops + 1
  /\ alone' = IF s.op = "rebuild" /\ \A q \in Procs : proc[q].at = "idle" THEN p ELSE None
  /\ UNCHANGED <<rows, vectors, lock, faults>>

RebuildStarts(p) ==
  /\ Tree # {} /\ UNCHANGED file
  /\ Starts(p, [Idle EXCEPT !.op = "rebuild", !.at = "read", !.todo = Tree])

\* save: the file is replaced in one step, then indexed.
SaveStarts(p, d, t) ==
  /\ file' = [file EXCEPT ![d] = t]
  /\ Starts(p, [Idle EXCEPT !.op = "save", !.at = "lock", !.doc = d, !.text = t])

\* edit_chunk, rollback_revision: a chunk that is found; the file is written in
\* place, and holds half of it meanwhile.
EditStarts(p, d, t) ==
  /\ \E r \in RowsOf(d) : r.whole
  /\ file[d] # None /\ file' = [file EXCEPT ![d] = Torn]
  /\ Starts(p, [Idle EXCEPT !.op = "edit", !.at = "write", !.doc = d, !.text = t])

EditWrites(p) ==
  /\ At(p, "edit", "write")
  /\ file' = [file EXCEPT ![proc[p].doc] = proc[p].text]
  /\ Goto(p, "lock") /\ UNCHANGED <<rows, vectors, lock, alone, ops, faults>>

\* delete_document_with_file.
DeleteStarts(p, r) ==
  /\ r \in rows /\ UNCHANGED file
  /\ Starts(p, [Idle EXCEPT !.op = "delete", !.at = "drop", !.doc = r.doc, !.ids = {r.id}])

Unlink(p) ==
  /\ At(p, "delete", "unlink")
  /\ file' = [file EXCEPT ![proc[p].doc] = None]
  /\ proc' = [proc EXCEPT ![p] = Idle]
  /\ UNCHANGED <<rows, vectors, lock, alone, ops, faults>>

-----------------------------------------------------------------------------
(* A walk over the tree *)

\* scan, rebuild: the next file is read, before the lock is asked for.
Read(p) ==
  /\ At(p, "any", "read")
  /\ \E d \in Docs :
       /\ IsFirst(d, proc[p].todo)
       /\ LET s == [proc[p] EXCEPT !.todo = @ \ {d}, !.doc = d, !.text = file[d]]
          IN  proc' = [proc EXCEPT ![p] =
                IF file[d] = None THEN NextOf([s EXCEPT !.clean = FALSE])
                ELSE [s EXCEPT !.present = @ \cup {d},
                               !.at = IF s.op = "scan" THEN "lock" ELSE "force"]]
  /\ UNCHANGED <<file, rows, vectors, lock, alone, ops, faults>>

\* Mutated form: the rows are left to index_doc.
LeaveRows(p) ==
  /\ At(p, "rebuild", "force") /\ Goto(p, "drop")
  /\ UNCHANGED <<file, rows, vectors, lock, alone, ops, faults>>

\* rebuild: the rows of that name, to be dropped without the lock.
FindRows(p) ==
  /\ At(p, "rebuild", "force")
  /\ proc' = [proc EXCEPT ![p].at = "drop", ![p].ids = {r.id : r \in RowsOf(proc[p].doc)}]
  /\ UNCHANGED <<file, rows, vectors, lock, alone, ops, faults>>

\* scan: the rows whose file was not read, to be dropped without the lock.
FindGone(p) ==
  /\ At(p, "scan", "gone")
  /\ LET gone == {r.id : r \in {r \in rows : r.doc \notin proc[p].present}}
     IN  proc' = [proc EXCEPT ![p] =
                    IF gone = {} THEN Idle ELSE [@ EXCEPT !.at = "drop", !.ids = gone]]
  /\ UNCHANGED <<file, rows, vectors, lock, alone, ops, faults>>

-----------------------------------------------------------------------------
(* index_doc and delete_document *)

\* Mutated form: nobody waits for the lock.
LockAnyway(p) ==
  /\ At(p, "any", "lock")
  /\ lock' = p /\ Goto(p, "look")
  /\ UNCHANGED <<file, rows, vectors, alone, ops, faults>>

Lock(p) ==
  /\ At(p, "any", "lock") /\ lock = None
  /\ lock' = p /\ Goto(p, "look")
  /\ UNCHANGED <<file, rows, vectors, alone, ops, faults>>

\* Mutated form: a name that has a row is taken for unchanged.
IsThere(p) == RowsOf(proc[p].doc) # {}

IsUnchanged(p) == \E r \in RowsOf(proc[p].doc) : r.text = proc[p].text

\* The rows of the name: nothing to do if the text is that of the row.
LookUp(p) ==
  /\ At(p, "any", "look")
  /\ IF IsUnchanged(p) THEN lock' = None /\ proc' = [proc EXCEPT ![p] = NextOf(@)]
     ELSE /\ UNCHANGED lock
          /\ proc' = [proc EXCEPT ![p].at = "drop",
                                  ![p].ids = {r.id : r \in RowsOf(proc[p].doc)}]
  /\ UNCHANGED <<file, rows, vectors, alone, ops, faults>>

\* delete_document: the chunk of the next row, if it has one; then chunk and row,
\* whoever has that id by now.
FindChunk(p) ==
  /\ At(p, "any", "drop")
  /\ \E id \in proc[p].ids :
       proc' = [proc EXCEPT ![p].at = "erase", ![p].id = id,
                            ![p].chunk = \E r \in rows : r.id = id /\ r.whole]
  /\ UNCHANGED <<file, rows, vectors, lock, alone, ops, faults>>

DropRow(p) ==
  /\ At(p, "any", "erase")
  /\ rows' = {r \in rows : r.id # proc[p].id}
  /\ proc' = [proc EXCEPT ![p].at = IF proc[p].chunk THEN "vector" ELSE "drop",
                          ![p].ids = @ \ {proc[p].id}, ![p].chunk = FALSE]
  /\ UNCHANGED <<file, vectors, lock, alone, ops, faults>>

\* The vector of the chunk that was read, a call later.
DropVector(p) ==
  /\ At(p, "any", "vector")
  /\ vectors' = {v \in vectors : v.id # proc[p].id}
  /\ proc' = [proc EXCEPT ![p].at = "drop", ![p].id = None]
  /\ UNCHANGED <<file, rows, lock, alone, ops, faults>>

\* No row left to drop: index_doc inserts, unless there is no chunk; a rebuild
\* goes on to index_doc, a deletion to the file, and a scan is done.
Dropped(p) ==
  /\ At(p, "any", "drop") /\ proc[p].ids = {}
  /\ IF lock = p /\ proc[p].text = Blank
     THEN lock' = None /\ proc' = [proc EXCEPT ![p] = NextOf(@)]
     ELSE /\ UNCHANGED lock
          /\ proc' = [proc EXCEPT ![p] =
               IF lock = p THEN [@ EXCEPT !.at = "insert"]
               ELSE IF @.op = "rebuild" THEN [@ EXCEPT !.at = "lock"]
               ELSE IF @.op = "delete" THEN [@ EXCEPT !.at = "unlink"] ELSE Idle]
  /\ UNCHANGED <<file, rows, vectors, alone, ops, faults>>

NewRow(p, id, whole) ==
  [id |-> id, doc |-> proc[p].doc, text |-> proc[p].text, whole |-> whole]

Insert(p) ==
  /\ At(p, "any", "insert")
  /\ \E id \in Ids :
       /\ IsNewId(id)
       /\ rows' = rows \cup {NewRow(p, id, TRUE)}
       /\ proc' = [proc EXCEPT ![p].at = "embed", ![p].id = id]
  /\ UNCHANGED <<file, vectors, lock, alone, ops, faults>>

Embed(p) ==
  /\ At(p, "any", "embed")
  /\ vectors' = vectors \cup {[id |-> proc[p].id, text |-> proc[p].text]}
  /\ lock' = None /\ proc' = [proc EXCEPT ![p] = NextOf(@)]
  /\ UNCHANGED <<file, rows, alone, ops, faults>>

-----------------------------------------------------------------------------
(* Failures *)

\* What an error ends: index_doc for one file of a walk, the deletion of one row
\* of a scan; anything else as a whole.
AfterError(p, id) ==
  LET s == [proc[p] EXCEPT !.clean = FALSE]
  IN  IF lock = p THEN NextOf(s)
      ELSE IF s.op = "scan" /\ id # None
      THEN [s EXCEPT !.at = "drop", !.ids = @ \ {id}] ELSE Idle

Errs(p, id) ==
  /\ faults < MaxFaults /\ faults' = faults + 1
  /\ lock' = IF lock = p THEN None ELSE lock
  /\ proc' = [proc EXCEPT ![p] = AfterError(p, id)]
  /\ UNCHANGED <<file, vectors, alone, ops>>

\* A call fails and changes nothing: the store, the embedder or LanceDB.  A row is
\* not dropped, for its chunk is not read or not deleted.
Fails(p) ==
  /\ proc[p].at \in {"force", "gone", "look", "erase", "vector", "insert", "embed"}
  /\ Errs(p, IF proc[p].at \in {"erase", "vector"} THEN proc[p].id ELSE None) /\ UNCHANGED rows

\* The statements of a call are no transaction: the row is there without its
\* chunk, or loses it and stays.
InsertsHalf(p) ==
  /\ At(p, "any", "insert")
  /\ \E id \in Ids : IsNewId(id) /\ rows' = rows \cup {NewRow(p, id, FALSE)}
  /\ Errs(p, None)

DropsHalf(p) ==
  /\ At(p, "any", "erase")
  /\ rows' = {[r EXCEPT !.whole = @ /\ r.id # proc[p].id] : r \in rows}
  /\ Errs(p, proc[p].id)

Crash ==
  /\ faults < MaxFaults /\ faults' = faults + 1
  /\ \E p \in Procs : proc[p] # Idle
  /\ proc' = [p \in Procs |-> Idle] /\ lock' = None /\ alone' = None
  /\ UNCHANGED <<file, rows, vectors, ops>>

Step(p) ==
  \/ Read(p) \/ FindRows(p) \/ FindGone(p) \/ EditWrites(p) \/ Unlink(p)
  \/ Lock(p) \/ LookUp(p) \/ FindChunk(p) \/ DropRow(p) \/ DropVector(p) \/ Dropped(p)
  \/ Insert(p) \/ Embed(p)

Request(p) ==
  \/ \E d \in Docs, t \in Texts \ {Torn} : SaveStarts(p, d, t) \/ EditStarts(p, d, t)
  \/ \E r \in rows : DeleteStarts(p, r)
  \/ RebuildStarts(p)

Next ==
  \/ \E d \in Docs, t \in (Texts \ {Torn}) \cup {None} : ChangeFile(d, t)
  \/ ScanStarts \/ Crash
  \/ \E p \in Users : Request(p)
  \/ \E p \in Procs : Step(p) \/ Fails(p) \/ InsertsHalf(p) \/ DropsHalf(p)

Spec == Init /\ [][Next]_vars

\* The scan loop never ends, awaits on the stores end, the lock is fair.
LiveSpec ==
  /\ Spec /\ WF_vars(ScanStarts) /\ \A p \in Procs : WF_vars(Step(p)) /\ SF_vars(Lock(p))

-----------------------------------------------------------------------------
(* Properties *)

\* index_doc: a document never has two rows, whatever scans, saves, rebuilds
\* and deletions do to it at the same time, and wherever they fail.
OneRowPerName == \A r, s \in rows : r.doc = s.doc => r = s

\* scan: once people and requests are done the index follows the files and
\* stays with them, after whatever races, errors and crashes.
RowsFollowFiles ==
  <>[](\A d \in Docs : {r.text : r \in RowsOf(d)} = {Indexed(d)} \ {None})

\* The row, the chunk and the vector of a file.
Complete(d) ==
  \E r \in RowsOf(d) :
    r.text = file[d] /\ r.whole /\ [id |-> r.id, text |-> r.text] \in vectors

\* rebuild: when no scan, request or edit by hand was at work beside it and it
\* reports no error, each file has its row, its chunk and its vector, whatever
\* overlapped, failed or crashed before.
RebuildRestores ==
  [][\A p \in Users :
       /\ alone = p /\ proc[p].op = "rebuild" /\ proc'[p] = Idle
       /\ proc[p].clean /\ faults' = faults
       => \A d \in Docs : Indexed(d) # None => Complete(d)']_vars

-----------------------------------------------------------------------------
(* Part of no run: what comments say and the code does not do.  TLC refutes   *)
(* each on a small instance (README, section 6).                             *)

\* What index_lock says of a scan and a save: when no request is at work on the
\* document any more, no row is written of a text its file does not hold.
NothingStaleIsIndexed ==
  [][\A r \in rows' \ rows :
       r.text = file[r.doc] \/ \E p \in Users : proc[p].doc = r.doc]_vars

\* What index_lock says of the two stores: no step takes the vector of a row that
\* is there and was given its vector, unless its document is being deleted.
LiveVectorsStay ==
  [][\A r \in rows \cap rows' :
       /\ [id |-> r.id, text |-> r.text] \in vectors
       /\ \A p \in Procs : ~At(p, "any", "embed") /\ ~(proc[p].op = "delete" /\ proc[p].doc = r.doc)
       => [id |-> r.id, text |-> r.text] \in vectors']_vars

\* What atomic_write says of the scanner: a document that is half written is
\* never indexed.
TornIsNeverIndexed == \A r \in rows : r.text # Torn
=============================================================================
