------------------------------- MODULE Memory -------------------------------
(***************************************************************************)
(* The memory table (crates/memory/src/write.rs, lifecycle.rs, episode.rs; *)
(* crates/daemon/src/api.rs, memory_write, memory_delete, memory_restore). *)
(*                                                                         *)
(* A fact is a content with the store and the namespace it is written to:  *)
(* the unique key of the table.  A row that a later one replaces is        *)
(* superseded, a row that is retracted becomes a tombstone; both keep      *)
(* their content and their key until they are purged.  Every operation is  *)
(* one closure on the writer thread, and no closure is a transaction: each *)
(* statement of it commits by itself.                                      *)
(***************************************************************************)
EXTENDS Naturals, FiniteSets

CONSTANTS
  Ids,        \* bound: the row ids in use
  Facts,      \* what can be written, with store and namespace
  ScopeOf,    \* ScopeOf[f]: the store and namespace of f
  Forbidden,  \* facts whose store may not write their namespace
  MaxPurges,  \* bound: purges, each of another fact
  None

ASSUME MemoryAssumption ==
  /\ Ids \subseteq Nat \ {0} /\ None \notin Ids \cup Facts
  /\ Forbidden \subseteq Facts /\ MaxPurges \in Nat
  /\ IsFiniteSet(Facts) /\ IsFiniteSet(Ids)

\* The bound on ids never stops an insert: a key has one row at a time.
ASSUME EnoughIds == Cardinality(Facts \ Forbidden) + MaxPurges <= Cardinality(Ids)

VARIABLES
  row,        \* row[i]: the memory with id i
  forgotten   \* history: the facts a purge has taken away

memVars == <<row, forgotten>>

\* supersedes is the row this one replaced, by the link it was inserted with.
Rows == [fact : Facts, supersedes : Ids \cup {None},
         superseded : BOOLEAN, deleted : BOOLEAN]

NoRow == [fact |-> None]

MemoryTypeOK == row \in [Ids -> Rows \cup {NoRow}] /\ forgotten \subseteq Facts

MemoryInit == row = [i \in Ids |-> NoRow] /\ forgotten = {}

Used == {i \in Ids : row[i] # NoRow}

\* What recall returns (query.rs, current_memories).
Current(i) == i \in Used /\ ~row[i].superseded /\ ~row[i].deleted

\* SQLite gives a new row the id after the largest in use: the id of a purged
\* last row is used again.
IsNewId(i) ==
  /\ i \notin Used
  /\ \A j \in Used : j < i
  /\ i = 1 \/ i - 1 \in Used

-----------------------------------------------------------------------------
(* write_memory: the closure, statement by statement *)

IsKnown(f) == \E i \in Used : Current(i) /\ row[i].fact = f

\* Mutated form: a row that is already superseded is superseded again.
SupersedableAnyway(t, f) ==
  t \in Used /\ ScopeOf[row[t].fact] = ScopeOf[f] /\ ~row[t].deleted

\* The row named to be replaced is a current one of the same scope.
Supersedable(t, f) ==
  t \in Used /\ ScopeOf[row[t].fact] = ScopeOf[f] /\ Current(t)

\* The table after the UPDATE that supersedes t.
WithSuperseded(t) ==
  IF t = None THEN row ELSE [row EXCEPT ![t].superseded = TRUE]

\* Identical current content: nothing is written.
SkipsDuplicate(f) == IsKnown(f) /\ UNCHANGED row

\* The key is held by a tombstone, which is revived.
RevivesTombstone(f, t) ==
  /\ ~IsKnown(f) /\ (t = None \/ Supersedable(t, f))
  /\ \E i \in Used :
       /\ row[i].fact = f /\ row[i].deleted /\ ~row[i].superseded
       /\ row' = [WithSuperseded(t) EXCEPT ![i].deleted = FALSE]

\* The key is free: a row is inserted.
InsertsRow(f, t) ==
  /\ ~IsKnown(f) /\ (t = None \/ Supersedable(t, f))
  /\ \A i \in Used : row[i].fact # f
  /\ \E i \in Ids :
       /\ IsNewId(i)
       /\ row' = [WithSuperseded(t) EXCEPT
                    ![i] = [fact |-> f, supersedes |-> t,
                            superseded |-> FALSE, deleted |-> FALSE]]

\* The row to be replaced is not there, or not current, or of another scope.
RefusesTarget(f, t) ==
  ~IsKnown(f) /\ t # None /\ ~Supersedable(t, f) /\ UNCHANGED row

\* The key is held by a superseded row: a tombstone is refused by name, any
\* other by the UNIQUE constraint.  The UPDATE before it stands.
RefusesKey(f, t) ==
  /\ ~IsKnown(f) /\ (t = None \/ Supersedable(t, f))
  /\ \E i \in Used : row[i].fact = f /\ row[i].superseded
  /\ row' = WithSuperseded(t)

Lands(f, t) ==
  /\ SkipsDuplicate(f) \/ RevivesTombstone(f, t) \/ InsertsRow(f, t)
  /\ UNCHANGED forgotten

Refuses(f, t) ==
  /\ RefusesTarget(f, t) \/ RefusesKey(f, t)
  /\ UNCHANGED forgotten

-----------------------------------------------------------------------------
(* What people do, over HTTP *)

WriteLands == \E f \in Facts \ Forbidden, t \in Ids \cup {None} : Lands(f, t)

WriteRefused == \E f \in Facts \ Forbidden, t \in Ids \cup {None} : Refuses(f, t)

\* delete_memory: a tombstone, on any row.
Delete(i) ==
  /\ i \in Used /\ ~row[i].deleted
  /\ row' = [row EXCEPT ![i].deleted = TRUE]
  /\ UNCHANGED forgotten

\* Mutated form: a restored row is current, whatever replaced it.
RestoreAsCurrent(i) ==
  /\ i \in Used /\ row[i].deleted
  /\ row' = [row EXCEPT ![i].deleted = FALSE, ![i].superseded = FALSE]
  /\ UNCHANGED forgotten

\* restore_memory.
Restore(i) ==
  /\ i \in Used /\ row[i].deleted
  /\ row' = [row EXCEPT ![i].deleted = FALSE]
  /\ UNCHANGED forgotten

\* purge_memory: the links to the row are cleared, and the row is gone.
Purge(i) ==
  /\ i \in Used
  /\ row[i].fact \notin forgotten /\ Cardinality(forgotten) < MaxPurges
  /\ row' = [j \in Ids |->
               IF j = i THEN NoRow
               ELSE IF j \in Used /\ row[j].supersedes = i
                 THEN [row[j] EXCEPT !.supersedes = None] ELSE row[j]]
  /\ forgotten' = forgotten \cup {row[i].fact}

-----------------------------------------------------------------------------
(* What the table promises *)

\* The supersede links are histories: a link leads to an older row that is
\* superseded, and no row is replaced twice, although a writer names the row it
\* replaces long after it looked at it, and ids are used again after a purge
\* (write.rs: nothing "may claim a supersede that did not happen").
LinksAreHistories ==
  \A i \in Used : row[i].supersedes # None =>
    LET t == row[i].supersedes IN
    /\ t \in Used /\ t < i /\ row[t].superseded
    /\ \A j \in Used : row[j].supersedes = t => j = i

-----------------------------------------------------------------------------
(* What a comment of the code says and the code does not do *)

\* write.rs, Step: a refusal means "nothing was written, and here is why".
RefusedWritesChangeNothing == [][WriteRefused => UNCHANGED row]_row
=============================================================================
