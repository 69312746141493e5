------------------------ MODULE Distillation_proofs ------------------------
(***************************************************************************)
(* What Memory.tla and Distillation.tla promise, for every number of       *)
(* passes, ids and facts.                                                  *)
(***************************************************************************)
EXTENDS Distillation, TLAPS

MemoryInv == MemoryTypeOK /\ LinksAreHistories

\* No row goes, and none changes its content.
RowsStay == \A i \in Used : i \in Used' /\ row'[i].fact = row[i].fact

-----------------------------------------------------------------------------
(* The table *)

\* A row in use is a row.
LEMMA UsedRows ==
  ASSUME MemoryTypeOK
  PROVE  /\ \A i \in Used : row[i] \in Rows
         /\ \A r \in Rows : r # NoRow
  BY MemoryAssumption DEF MemoryTypeOK, Used, Rows, NoRow

\* The UPDATE of write_memory marks one row and touches nothing else.
LEMMA SupersedeMarksOne ==
  ASSUME MemoryTypeOK, NEW t \in Used \cup {None}
  PROVE  /\ WithSuperseded(t) \in [Ids -> Rows \cup {NoRow}]
         /\ \A i \in Ids \ Used : WithSuperseded(t)[i] = NoRow
         /\ \A i \in Used :
              /\ WithSuperseded(t)[i] \in Rows
              /\ WithSuperseded(t)[i].fact = row[i].fact
              /\ WithSuperseded(t)[i].supersedes = row[i].supersedes
              /\ WithSuperseded(t)[i].superseded = (row[i].superseded \/ i = t)
<1>0. /\ row \in [Ids -> Rows \cup {NoRow}] /\ None \notin Ids
      /\ \A i \in Used : row[i] \in Rows /\ i \in Ids
  BY UsedRows, MemoryAssumption DEF MemoryTypeOK, Used
<1>1. CASE t = None
  BY <1>0, <1>1, Zenon DEF WithSuperseded, Used, Rows
<1>2. CASE t \in Used
  <2>1. t # None /\ WithSuperseded(t) = [row EXCEPT ![t].superseded = TRUE]
    BY <1>0, <1>2 DEF WithSuperseded
  <2>2. /\ [row[t] EXCEPT !.superseded = TRUE] \in Rows
        /\ [row[t] EXCEPT !.superseded = TRUE].fact = row[t].fact
        /\ [row[t] EXCEPT !.superseded = TRUE].supersedes = row[t].supersedes
        /\ [row[t] EXCEPT !.superseded = TRUE].superseded = TRUE
    BY <1>0, <1>2 DEF Rows
  <2>3. \A i \in Used : row[i].superseded \in BOOLEAN
    BY <1>0 DEF Rows
  <2> QED BY <1>0, <1>2, <2>1, <2>2, <2>3 DEF Used
<1> QED BY <1>1, <1>2

\* A link to t can be added beside a table whose links are histories if t was
\* not superseded: whoever linked to t before would have superseded it.
LEMMA FreshLink ==
  ASSUME MemoryInv, NEW t \in Used, ~row[t].superseded, NEW j \in Used
  PROVE  row[j].supersedes # t
  BY MemoryAssumption DEF MemoryInv, LinksAreHistories, Used

\* Links and marks that stay keep the histories.
LEMMA LinksStay ==
  ASSUME LinksAreHistories, Used' = Used,
         \A j \in Used : /\ row'[j].supersedes = row[j].supersedes
                         /\ row[j].superseded => row'[j].superseded
  PROVE  LinksAreHistories'
<1>1. ASSUME NEW j \in Used, row[j].supersedes # None
      PROVE  /\ row'[j].supersedes \in Used' /\ row'[j].supersedes < j
             /\ row'[row'[j].supersedes].superseded
             /\ \A k \in Used' : row'[k].supersedes = row'[j].supersedes => k = j
  <2>1. /\ row[j].supersedes \in Used /\ row[j].supersedes < j
        /\ row[row[j].supersedes].superseded
        /\ \A k \in Used : row[k].supersedes = row[j].supersedes => k = j
    BY <1>1 DEF LinksAreHistories
  <2>2. row'[j].supersedes = row[j].supersedes /\ row'[row[j].supersedes].superseded
    BY <2>1
  <2> QED BY <2>1, <2>2
<1> QED BY <1>1 DEF LinksAreHistories

\* The content is current already.
LEMMA SkippingKeeps ==
  ASSUME MemoryInv, NEW f \in Facts, SkipsDuplicate(f), UNCHANGED forgotten
  PROVE  MemoryInv' /\ RowsStay /\ \E i \in Used' : row'[i].fact = f
  BY DEF SkipsDuplicate, IsKnown, Current, MemoryInv, MemoryTypeOK,
         LinksAreHistories, RowsStay, Used

\* A superseded target and nothing else: what a refused key leaves behind.
LEMMA RefusingKeeps ==
  ASSUME MemoryInv, NEW f \in Facts, NEW t \in Ids \cup {None}, Refuses(f, t)
  PROVE  MemoryInv' /\ RowsStay
<1>1. CASE RefusesTarget(f, t)
  BY <1>1 DEF Refuses, RefusesTarget, MemoryInv, MemoryTypeOK,
              LinksAreHistories, RowsStay, Used
<1>2. CASE RefusesKey(f, t)
  <2>1. t \in Used \cup {None} /\ row' = WithSuperseded(t)
    BY <1>2 DEF RefusesKey, Supersedable
  <2>2. MemoryTypeOK' /\ Used' = Used /\ RowsStay
    BY <2>1, SupersedeMarksOne, UsedRows DEF MemoryInv, MemoryTypeOK, Used, RowsStay,
       Refuses
  <2>3. LinksAreHistories'
    BY <2>1, <2>2, SupersedeMarksOne, LinksStay DEF MemoryInv
  <2> QED BY <2>2, <2>3 DEF MemoryInv
<1> QED BY <1>1, <1>2 DEF Refuses

\* A tombstone of the content becomes current again.
LEMMA RevivingKeeps ==
  ASSUME MemoryInv, NEW f \in Facts, NEW t \in Ids \cup {None},
         RevivesTombstone(f, t), UNCHANGED forgotten
  PROVE  MemoryInv' /\ RowsStay /\ \E i \in Used' : row'[i].fact = f
<1>1. t \in Used \cup {None}
  BY DEF RevivesTombstone, Supersedable
<1>2. PICK i \in Used :
        /\ row[i].fact = f
        /\ row' = [WithSuperseded(t) EXCEPT ![i].deleted = FALSE]
  BY DEF RevivesTombstone
<1> DEFINE w == WithSuperseded(t)
<1>3. /\ w \in [Ids -> Rows \cup {NoRow}]
      /\ \A j \in Ids \ Used : w[j] = NoRow
      /\ \A j \in Used : w[j] \in Rows /\ w[j].fact = row[j].fact
                         /\ w[j].supersedes = row[j].supersedes
                         /\ w[j].superseded = (row[j].superseded \/ j = t)
  BY <1>1, SupersedeMarksOne DEF MemoryInv
<1> HIDE DEF w
<1>4. row' = [w EXCEPT ![i].deleted = FALSE]
  BY <1>2 DEF w
<1>5. /\ [w[i] EXCEPT !.deleted = FALSE] \in Rows
      /\ [w[i] EXCEPT !.deleted = FALSE].fact = w[i].fact
      /\ [w[i] EXCEPT !.deleted = FALSE].supersedes = w[i].supersedes
      /\ [w[i] EXCEPT !.deleted = FALSE].superseded = w[i].superseded
  BY <1>3 DEF Rows
<1>6. /\ \A j \in Used : /\ row'[j] \in Rows /\ row'[j].fact = row[j].fact
                         /\ row'[j].supersedes = row[j].supersedes
                         /\ row'[j].superseded = (row[j].superseded \/ j = t)
      /\ \A j \in Ids \ Used : row'[j] = NoRow
      /\ row' \in [Ids -> Rows \cup {NoRow}]
  BY <1>3, <1>4, <1>5 DEF Used
<1>7. Used' = Used
  BY <1>6, UsedRows DEF Used, MemoryInv
<1>8. MemoryTypeOK' /\ RowsStay /\ row'[i].fact = f
  BY <1>2, <1>6, <1>7 DEF MemoryInv, MemoryTypeOK, RowsStay
<1>9. LinksAreHistories'
  BY <1>6, <1>7, LinksStay DEF MemoryInv
<1> QED BY <1>2, <1>7, <1>8, <1>9 DEF MemoryInv

\* A new row, with the link to the row it replaces.
LEMMA InsertingKeeps ==
  ASSUME MemoryInv, NEW f \in Facts, NEW t \in Ids \cup {None},
         InsertsRow(f, t), UNCHANGED forgotten
  PROVE  MemoryInv' /\ RowsStay /\ \E i \in Used' : row'[i].fact = f
<1>1. t \in Used \cup {None} /\ (t # None => ~row[t].superseded)
  BY DEF InsertsRow, Supersedable, Current
<1> DEFINE w == WithSuperseded(t)
           new == [fact |-> f, supersedes |-> t, superseded |-> FALSE, deleted |-> FALSE]
<1>2. PICK i \in Ids : IsNewId(i) /\ row' = [w EXCEPT ![i] = new]
  BY DEF InsertsRow
<1>3. /\ w \in [Ids -> Rows \cup {NoRow}]
      /\ \A j \in Ids \ Used : w[j] = NoRow
      /\ \A j \in Used : w[j] \in Rows /\ w[j].fact = row[j].fact
                         /\ w[j].supersedes = row[j].supersedes
                         /\ w[j].superseded = (row[j].superseded \/ j = t)
  BY <1>1, SupersedeMarksOne DEF MemoryInv
<1>4. new \in Rows /\ i \notin Used /\ (\A j \in Used : j < i) /\ Used \subseteq Ids
  BY <1>2 DEF IsNewId, Rows, Used
<1> HIDE DEF w
<1>5. /\ \A j \in Used : /\ row'[j] \in Rows /\ row'[j].fact = row[j].fact
                         /\ row'[j].supersedes = row[j].supersedes
                         /\ row'[j].superseded = (row[j].superseded \/ j = t)
      /\ row'[i] = new
      /\ \A j \in Ids \ (Used \cup {i}) : row'[j] = NoRow
      /\ row' \in [Ids -> Rows \cup {NoRow}]
  BY <1>2, <1>3, <1>4
<1>6. Used' = Used \cup {i}
  BY <1>4, <1>5, UsedRows DEF Used, MemoryInv
<1>7. MemoryTypeOK' /\ RowsStay /\ row'[i].fact = f
  BY <1>5, <1>6 DEF MemoryInv, MemoryTypeOK, RowsStay
<1>8. LinksAreHistories'
  <2> SUFFICES ASSUME NEW j \in Used', row'[j].supersedes # None
               PROVE  LET u == row'[j].supersedes IN
                      /\ u \in Used' /\ u < j /\ row'[u].superseded
                      /\ \A k \in Used' : row'[k].supersedes = u => k = j
    BY DEF LinksAreHistories
  <2>1. CASE j = i
    <3>1. row'[j].supersedes = t /\ t \in Used /\ t < i
      BY <2>1, <1>1, <1>4, <1>5
    <3>2. row'[t].superseded
      BY <3>1, <1>5
    <3>3. ASSUME NEW k \in Used', row'[k].supersedes = t
          PROVE  k = i
      BY <3>1, <3>3, <1>1, <1>5, <1>6, FreshLink, MemoryAssumption DEF Used
    <3> QED BY <2>1, <3>1, <3>2, <3>3, <1>6
  <2>2. CASE j \in Used
    <3>1. /\ row'[j].supersedes = row[j].supersedes /\ row[j].supersedes # None
          /\ row[j].supersedes \in Used /\ row[j].supersedes < j
          /\ row[row[j].supersedes].superseded
      BY <2>2, <1>5 DEF MemoryInv, LinksAreHistories
    <3>2. row'[row[j].supersedes].superseded
      BY <3>1, <1>5
    <3>3. ASSUME NEW k \in Used', row'[k].supersedes = row[j].supersedes
          PROVE  k = j
      <4>1. CASE k = i
        BY <4>1, <3>1, <3>3, <1>1, <1>5
      <4>2. CASE k \in Used
        BY <4>2, <2>2, <3>1, <3>3, <1>5 DEF MemoryInv, LinksAreHistories
      <4> QED BY <4>1, <4>2, <1>6
    <3> QED BY <3>1, <3>2, <3>3, <1>6
  <2> QED BY <2>1, <2>2, <1>6
<1> QED BY <1>6, <1>7, <1>8 DEF MemoryInv

\* Writing: the table stays sound, keeps its rows, and has the fact.
LEMMA LandingKeeps ==
  ASSUME MemoryInv, NEW f \in Facts, NEW t \in Ids \cup {None}, Lands(f, t)
  PROVE  MemoryInv' /\ RowsStay /\ \E i \in Used' : row'[i].fact = f
  BY SkippingKeeps, RevivingKeeps, InsertingKeeps DEF Lands

\* The facts the table has a row for.
Present == {row[i].fact : i \in Used}

\* The table stays sound, and only a purge takes a fact away.
TableKeeps ==
  /\ MemoryInv' /\ forgotten \subseteq forgotten'
  /\ Present \ forgotten' \subseteq Present'

\* A tombstone is set or cleared.
LEMMA TombstonesKeep ==
  ASSUME MemoryInv, NEW i \in Ids, Delete(i) \/ Restore(i)
  PROVE  MemoryInv' /\ RowsStay
<1>1. PICK b \in BOOLEAN : row' = [row EXCEPT ![i].deleted = b]
  BY DEF Delete, Restore
<1>2. /\ row \in [Ids -> Rows \cup {NoRow}] /\ i \in Used /\ Used \subseteq Ids
      /\ \A j \in Used : row[j] \in Rows
      /\ \A r \in Rows : r # NoRow
  BY UsedRows DEF Delete, Restore, MemoryInv, MemoryTypeOK, Used
<1>3. /\ [row[i] EXCEPT !.deleted = b] \in Rows
      /\ [row[i] EXCEPT !.deleted = b].fact = row[i].fact
      /\ [row[i] EXCEPT !.deleted = b].supersedes = row[i].supersedes
      /\ [row[i] EXCEPT !.deleted = b].superseded = row[i].superseded
  BY <1>2 DEF Rows
<1>4. /\ row' \in [Ids -> Rows \cup {NoRow}]
      /\ \A j \in Ids \ Used : row'[j] = NoRow
      /\ \A j \in Used : /\ row'[j] \in Rows /\ row'[j].fact = row[j].fact
                         /\ row'[j].supersedes = row[j].supersedes
                         /\ row'[j].superseded = row[j].superseded
  BY <1>1, <1>2, <1>3 DEF Used
<1>5. Used' = Used
  BY <1>2, <1>4 DEF Used
<1>6. MemoryTypeOK' /\ RowsStay
  BY <1>4, <1>5 DEF MemoryInv, MemoryTypeOK, RowsStay, Delete, Restore
<1> QED BY <1>4, <1>5, <1>6, LinksStay DEF MemoryInv

\* A row goes, and no link leads to where it was.
LEMMA PurgeKeeps ==
  ASSUME MemoryInv, NEW i \in Ids, Purge(i)
  PROVE  TableKeeps
<1>1. /\ row \in [Ids -> Rows \cup {NoRow}] /\ i \in Used /\ Used \subseteq Ids
      /\ \A j \in Used : row[j] \in Rows
      /\ \A r \in Rows : r # NoRow
      /\ None \notin Ids
  BY UsedRows, MemoryAssumption DEF Purge, MemoryInv, MemoryTypeOK, Used
<1>2. \A j \in Used :
        /\ [row[j] EXCEPT !.supersedes = None] \in Rows
        /\ [row[j] EXCEPT !.supersedes = None].fact = row[j].fact
        /\ [row[j] EXCEPT !.supersedes = None].supersedes = None
        /\ [row[j] EXCEPT !.supersedes = None].superseded = row[j].superseded
  BY <1>1 DEF Rows
<1>3. /\ row'[i] = NoRow
      /\ \A j \in Ids \ Used : row'[j] = NoRow
      /\ \A j \in Used \ {i} :
           /\ row'[j] \in Rows /\ row'[j].fact = row[j].fact
           /\ row'[j].supersedes = IF row[j].supersedes = i THEN None
                                   ELSE row[j].supersedes
           /\ row'[j].superseded = row[j].superseded
      /\ DOMAIN row' = Ids
  BY <1>1, <1>2 DEF Purge, Used
<1>4. Used' = Used \ {i}
  BY <1>1, <1>3 DEF Used
<1>5. row' \in [Ids -> Rows \cup {NoRow}]
  <2>1. \A j \in Ids : row'[j] \in Rows \cup {NoRow}
    BY <1>3
  <2>2. row' = [j \in Ids |-> row'[j]]
    BY DEF Purge
  <2> QED BY <2>1, <2>2
<1>6. MemoryTypeOK'
  <2>1. row[i].fact \in Facts
    BY <1>1 DEF Rows
  <2> QED BY <2>1, <1>5 DEF MemoryTypeOK, MemoryInv, Purge
<1>7. LinksAreHistories'
  <2>1. ASSUME NEW j \in Used', row'[j].supersedes # None
        PROVE  /\ row'[j].supersedes \in Used' /\ row'[j].supersedes < j
               /\ row'[row'[j].supersedes].superseded
               /\ \A k \in Used' : row'[k].supersedes = row'[j].supersedes => k = j
    <3>1. /\ j \in Used \ {i} /\ row'[j].supersedes = row[j].supersedes
          /\ row[j].supersedes # i /\ row[j].supersedes # None
      BY <2>1, <1>3, <1>4
    <3>2. /\ row[j].supersedes \in Used /\ row[j].supersedes < j
          /\ row[row[j].supersedes].superseded
          /\ \A k \in Used : row[k].supersedes = row[j].supersedes => k = j
      BY <3>1 DEF MemoryInv, LinksAreHistories
    <3>3. row'[row[j].supersedes].superseded
      BY <3>1, <3>2, <1>3
    <3>4. ASSUME NEW k \in Used', row'[k].supersedes = row[j].supersedes
          PROVE  k = j
      BY <3>1, <3>2, <3>4, <1>3, <1>4
    <3> QED BY <3>1, <3>2, <3>3, <3>4, <1>4
  <2> QED BY <2>1 DEF LinksAreHistories
<1>8. Present \ forgotten' \subseteq Present'
  <2>1. \A j \in Used' : row'[j].fact = row[j].fact
    BY <1>3, <1>4
  <2>2. ASSUME NEW j \in Used, row[j].fact \notin forgotten'
        PROVE  j \in Used' /\ row'[j].fact = row[j].fact
    BY <1>4, <2>1, <2>2 DEF Purge
  <2> QED BY <2>2 DEF Present
<1> QED BY <1>6, <1>7, <1>8 DEF TableKeeps, MemoryInv, Purge

LEMMA StayingRowsKeep ==
  ASSUME MemoryInv', RowsStay, forgotten' = forgotten
  PROVE  TableKeeps
  BY DEF TableKeeps, RowsStay, Present

\* Whatever people do to the table.
LEMMA PeopleKeep ==
  ASSUME MemoryInv, People
  PROVE  TableKeeps
<1>1. CASE WriteLands
  <2>1. PICK f \in Facts \ Forbidden, t \in Ids \cup {None} : Lands(f, t)
    BY <1>1 DEF WriteLands
  <2> QED BY <2>1, LandingKeeps, StayingRowsKeep DEF Lands
<1>2. CASE WriteRefused
  <2>1. PICK f \in Facts \ Forbidden, t \in Ids \cup {None} : Refuses(f, t)
    BY <1>2 DEF WriteRefused
  <2> QED BY <2>1, RefusingKeeps, StayingRowsKeep DEF Refuses
<1>3. ASSUME NEW i \in Ids, Delete(i) \/ Restore(i)
      PROVE  TableKeeps
  BY <1>3, TombstonesKeep, StayingRowsKeep DEF Delete, Restore
<1> QED BY <1>1, <1>2, <1>3, PurgeKeeps DEF People

-----------------------------------------------------------------------------
(* The passes *)

\* The facts an attempt has still to write.
Ahead(p) == {todo[p][i] : i \in DOMAIN todo[p]}

\* Where an attempt is in its list of facts.
ListShape ==
  \A p \in Passes :
    /\ pc[p] \in {"judge", "write"} => todo[p] # <<>>
    /\ pc[p] = "graph" => todo[p] = <<>>

\* A fact of a running attempt is in the table, or still to come, or forbidden,
\* or was purged.
Accounted ==
  \A p \in Passes : pc[p] \in {"record", "judge", "write", "graph"} =>
    found[p] \ (Forbidden \cup forgotten) \subseteq Present \cup Ahead(p)

\* A pass is over when it is logged, and nothing of it was dropped if it is ok.
Delivered ==
  \A p \in Passes :
    /\ ledger[p] # "none" => pc[p] = "done"
    /\ ledger[p] = "ok" => found[p] \ (Forbidden \cup forgotten) \subseteq Present

\* An attempt that knows its episode has one, and only such an attempt voids it.
EpisodeFirst ==
  \A p \in Passes :
    /\ episode[p] => kind[SessionOf[p]] # "none"
    /\ pc[p] = "void" => episode[p]

PassInv ==
  /\ TypeOK /\ LinksAreHistories
  /\ ListShape /\ Accounted /\ Delivered
  /\ EpisodeFirst /\ FailedGraphsAreMarked

LEMMA PassInit == Init => PassInv
  BY DistillationAssumption, MemoryAssumption
     DEF Init, MemoryInit, PassInv, TypeOK, MemoryTypeOK, LinksAreHistories, Used,
         ListShape, Accounted, Delivered, EpisodeFirst, FailedGraphsAreMarked, Sessions

\* What the table does never disturbs a pass that does not move.
LEMMA TableMoves ==
  ASSUME PassInv, TableKeeps
  PROVE  /\ MemoryTypeOK' /\ LinksAreHistories'
         /\ \A p \in Passes : pc[p] \in {"record", "judge", "write", "graph"} =>
              found[p] \ (Forbidden \cup forgotten') \subseteq Present' \cup Ahead(p)
         /\ \A p \in Passes : ledger[p] = "ok" =>
              found[p] \ (Forbidden \cup forgotten') \subseteq Present'
  BY DEF PassInv, TableKeeps, MemoryInv, Accounted, Delivered

LEMMA PeopleKeepInv ==
  ASSUME PassInv, People
  PROVE  PassInv'
<1>1. TableKeeps
  BY PeopleKeep DEF PassInv, TypeOK, MemoryInv
<1>2. UNCHANGED passVars
  BY DEF People
<1> QED
  BY <1>1, <1>2, TableMoves
     DEF passVars, PassInv, TypeOK, ListShape, Accounted, Delivered, EpisodeFirst,
         FailedGraphsAreMarked, Ahead

\* The table stands still.
LEMMA TableStill ==
  ASSUME UNCHANGED memVars
  PROVE  Used' = Used /\ Present' = Present
         /\ (MemoryTypeOK => MemoryTypeOK') /\ (LinksAreHistories => LinksAreHistories')
  BY DEF memVars, Used, Present, MemoryTypeOK, LinksAreHistories

\* Starting, finding nothing, retrying, giving up: steps that leave the table,
\* the episode and what was written alone.
LEMMA QuietSteps ==
  ASSUME PassInv, NEW p \in Passes,
         Starts(p) \/ FindsNoContent(p) \/ Retries(p) \/ GivesUp(p)
  PROVE  PassInv'
<1>1. /\ UNCHANGED <<memVars, todo, found, target, episode, voids, kind>>
      /\ pc[p] \in {"idle", "read", "failed"} /\ ledger[p] = "none"
  BY DEF Starts, FindsNoContent, Retries, GivesUp, PassInv, Delivered
<1>2. /\ pc' \in [Passes -> {"idle", "read", "record", "judge", "write", "graph",
                             "void", "failed", "done"}]
      /\ pc'[p] \in {"read", "done"}
      /\ \A q \in Passes \ {p} : pc'[q] = pc[q]
  BY DEF Starts, FindsNoContent, Retries, GivesUp, Goto, Log, PassInv, TypeOK
<1>3. TypeOK'
  <2>1. retries' \in [Passes -> 0..RetryLimit]
    BY DistillationAssumption
       DEF Starts, FindsNoContent, Retries, GivesUp, PassInv, TypeOK
  <2>2. ledger' \in [Passes -> {"none", "ok", "empty", "failed"}]
    BY DEF Starts, FindsNoContent, Retries, GivesUp, Log, PassInv, TypeOK
  <2>3. MemoryTypeOK'
    BY <1>1, TableStill DEF PassInv, TypeOK
  <2> QED BY <1>1, <1>2, <2>1, <2>2, <2>3 DEF PassInv, TypeOK
<1>4. LinksAreHistories' /\ Present' = Present /\ forgotten' = forgotten
  BY <1>1, TableStill DEF PassInv, memVars
<1>5. ListShape' /\ Accounted'
  BY <1>1, <1>2, <1>4 DEF PassInv, ListShape, Accounted, Ahead
<1>6. /\ \A q \in Passes \ {p} : ledger'[q] = ledger[q]
      /\ ledger'[p] \in {"none", "empty", "failed"}
      /\ ledger'[p] # "none" => pc'[p] = "done"
  BY <1>1 DEF Starts, FindsNoContent, Retries, GivesUp, Goto, Log, PassInv, TypeOK
<1>7. Delivered'
  BY <1>1, <1>2, <1>4, <1>6 DEF PassInv, Delivered
<1>8. EpisodeFirst' /\ FailedGraphsAreMarked'
  BY <1>1, <1>2 DEF PassInv, EpisodeFirst, FailedGraphsAreMarked
<1> QED BY <1>3, <1>4, <1>5, <1>7, <1>8 DEF PassInv

LEMMA ExtractsKeepsInv ==
  ASSUME PassInv, NEW p \in Passes, Extracts(p)
  PROVE  PassInv'
<1>1. PICK facts \in Extractions :
        /\ todo' = [todo EXCEPT ![p] = facts]
        /\ found' = [found EXCEPT ![p] = {facts[i] : i \in DOMAIN facts}]
  BY DEF Extracts
<1>2. facts \in Seq(Facts) /\ \A i \in DOMAIN facts : facts[i] \in Facts
  BY DistillationAssumption
<1>3. /\ UNCHANGED <<memVars, target, retries, episode, voids, kind, ledger>>
      /\ pc[p] = "read" /\ pc' = [pc EXCEPT ![p] = "record"]
  BY DEF Extracts, Goto
<1>4. TypeOK'
  BY <1>1, <1>2, <1>3, TableStill DEF PassInv, TypeOK
<1>5. LinksAreHistories' /\ Present' = Present /\ forgotten' = forgotten
  BY <1>3, TableStill DEF PassInv, memVars
<1>6. ListShape' /\ EpisodeFirst' /\ FailedGraphsAreMarked'
  BY <1>1, <1>3 DEF PassInv, TypeOK, ListShape, EpisodeFirst, FailedGraphsAreMarked
<1>7. Accounted'
  <2>1. found'[p] = Ahead(p)'
    BY <1>1 DEF Ahead, PassInv, TypeOK
  <2>2. \A q \in Passes \ {p} : /\ found'[q] = found[q] /\ Ahead(q)' = Ahead(q)
                                /\ pc'[q] = pc[q]
    BY <1>1, <1>3 DEF Ahead, PassInv, TypeOK
  <2> QED BY <1>5, <2>1, <2>2 DEF PassInv, Accounted
<1>8. Delivered'
  BY <1>1, <1>3, <1>5 DEF PassInv, TypeOK, Delivered
<1> QED BY <1>4, <1>5, <1>6, <1>7, <1>8 DEF PassInv

\* Recording the episode of a session never takes an episode or a mark away.
LEMMA RecordingKeeps ==
  ASSUME TypeOK, NEW p \in Passes, RecordEpisode(SessionOf[p])
  PROVE  /\ kind' \in [Sessions -> {"none", "run_turn", "run_turn_failed"}]
         /\ \A s \in Sessions : /\ kind[s] # "none" => kind'[s] # "none"
                                /\ kind[s] = "run_turn_failed" => kind'[s] = kind[s]
         /\ kind'[SessionOf[p]] # "none"
  BY DEF TypeOK, RecordEpisode, Sessions

\* Recording the episode, and asking the judge.
LEMMA EpisodeSteps ==
  ASSUME PassInv, NEW p \in Passes, Records(p) \/ Judges(p)
  PROVE  PassInv'
<1>1. /\ UNCHANGED <<memVars, todo, found, retries, voids, ledger>>
      /\ \A q \in Passes : SessionOf[q] \in Sessions
  BY DEF Records, Judges, Sessions
<1>2. /\ pc' \in [Passes -> {"idle", "read", "record", "judge", "write", "graph",
                             "void", "failed", "done"}]
      /\ \A q \in Passes \ {p} : pc'[q] = pc[q]
      /\ \/ pc[p] = "record" /\ pc'[p] = "graph" /\ todo[p] = <<>>
         \/ pc[p] = "record" /\ pc'[p] = "judge" /\ todo[p] # <<>>
         \/ pc[p] = "judge" /\ pc'[p] = "write"
  BY DEF Records, Judges, Goto, PassInv, TypeOK
<1>3. /\ kind' \in [Sessions -> {"none", "run_turn", "run_turn_failed"}]
      /\ \A s \in Sessions : /\ kind[s] # "none" => kind'[s] # "none"
                             /\ kind[s] = "run_turn_failed" => kind'[s] = kind[s]
      /\ episode' \in [Passes -> BOOLEAN]
      /\ \A q \in Passes \ {p} : episode'[q] = episode[q]
      /\ episode'[p] => kind'[SessionOf[p]] # "none"
  <2>1. CASE Records(p) /\ episode' = [episode EXCEPT ![p] = TRUE]
                        /\ RecordEpisode(SessionOf[p])
    BY <2>1, RecordingKeeps DEF PassInv, TypeOK
  <2>2. CASE Records(p) /\ episode' = [episode EXCEPT ![p] = FALSE]
                        /\ (RecordEpisode(SessionOf[p]) \/ UNCHANGED kind)
    BY <2>2, RecordingKeeps DEF PassInv, TypeOK
  <2>3. CASE Judges(p)
    BY <2>3, <1>1 DEF Judges, PassInv, TypeOK, EpisodeFirst
  <2> QED BY <2>1, <2>2, <2>3 DEF Records
<1>4. TypeOK'
  <2>1. target' \in [Passes -> Ids \cup {None}]
    BY DEF Records, Judges, PassInv, TypeOK, Used
  <2> QED BY <1>1, <1>2, <1>3, <2>1, TableStill DEF PassInv, TypeOK
<1>5. LinksAreHistories' /\ Present' = Present /\ forgotten' = forgotten
  BY <1>1, TableStill DEF PassInv, memVars
<1>6. ListShape' /\ Accounted' /\ Delivered'
  <2>1. ListShape'
    BY <1>1, <1>2 DEF PassInv, ListShape
  <2>2. \A q \in Passes : Ahead(q)' = Ahead(q)
    BY <1>1 DEF Ahead
  <2>3. Accounted'
    BY <1>1, <1>2, <1>5, <2>2 DEF PassInv, Accounted
  <2>4. Delivered'
    BY <1>1, <1>2, <1>5 DEF PassInv, Delivered
  <2> QED BY <2>1, <2>3, <2>4
<1>7. EpisodeFirst' /\ FailedGraphsAreMarked'
  BY <1>1, <1>2, <1>3 DEF PassInv, EpisodeFirst, FailedGraphsAreMarked
<1> QED BY <1>4, <1>5, <1>6, <1>7 DEF PassInv

\* What is left of the list when its first fact is done with.
LEMMA TailOfFacts ==
  ASSUME TypeOK, NEW p \in Passes, todo[p] # <<>>
  PROVE  /\ Head(todo[p]) \in Facts
         /\ Tail(todo[p]) \in Seq(Facts)
         /\ Len(todo[p]) = 1 <=> Tail(todo[p]) = <<>>
         /\ Ahead(p) = {Head(todo[p])} \cup
                       {Tail(todo[p])[i] : i \in DOMAIN Tail(todo[p])}
<1>1. todo[p] \in Seq(Facts)
  BY DEF TypeOK
<1>2. /\ Head(todo[p]) = todo[p][1] /\ 1 \in DOMAIN todo[p]
      /\ \A i \in DOMAIN todo[p] : i = 1 \/ i - 1 \in DOMAIN Tail(todo[p])
      /\ \A i \in DOMAIN Tail(todo[p]) :
           i + 1 \in DOMAIN todo[p] /\ Tail(todo[p])[i] = todo[p][i + 1]
      /\ \A i \in DOMAIN todo[p] : i \in Nat /\ todo[p][i] \in Facts
  BY <1>1
<1>3. Ahead(p) \subseteq {Head(todo[p])} \cup
                         {Tail(todo[p])[i] : i \in DOMAIN Tail(todo[p])}
  <2>1. ASSUME NEW i \in DOMAIN todo[p], i # 1
        PROVE  Tail(todo[p])[i - 1] = todo[p][i] /\ i - 1 \in DOMAIN Tail(todo[p])
    <3>1. /\ i \in Nat /\ i - 1 \in DOMAIN Tail(todo[p])
          /\ (i - 1) + 1 = i
      BY <2>1, <1>2
    <3> QED BY <3>1, <1>2
  <2>2. ASSUME NEW x \in Ahead(p)
        PROVE  x \in {Head(todo[p])} \cup
                     {Tail(todo[p])[i] : i \in DOMAIN Tail(todo[p])}
    <3>1. PICK i \in DOMAIN todo[p] : x = todo[p][i]
      BY DEF Ahead
    <3>2. CASE i = 1
      BY <3>1, <3>2, <1>2
    <3>3. CASE i # 1
      BY <3>1, <3>3, <2>1
    <3> QED BY <3>2, <3>3
  <2> QED BY <2>2
<1>4. {Tail(todo[p])[i] : i \in DOMAIN Tail(todo[p])} \subseteq Ahead(p)
  BY <1>2 DEF Ahead
<1>5. Head(todo[p]) \in Ahead(p)
  BY <1>2 DEF Ahead
<1>6. /\ Tail(todo[p]) \in Seq(Facts)
      /\ Len(todo[p]) = 1 <=> Tail(todo[p]) = <<>>
  <2>1. /\ Tail(todo[p]) \in Seq(Facts) /\ Len(todo[p]) \in Nat
        /\ Len(Tail(todo[p])) = Len(todo[p]) - 1
    BY <1>1
  <2>2. Len(Tail(todo[p])) = 0 <=> Tail(todo[p]) = <<>>
    <3>1. \A q \in Seq(Facts) : Len(q) = 0 <=> q = <<>>
      OBVIOUS
    <3> QED BY <2>1, <3>1
  <2>3. Len(todo[p]) = 1 <=> Len(Tail(todo[p])) = 0
    BY <2>1
  <2> QED BY <2>1, <2>2, <2>3
<1>7. Ahead(p) = {Head(todo[p])} \cup {Tail(todo[p])[i] : i \in DOMAIN Tail(todo[p])}
  BY <1>3, <1>4, <1>5, Zenon
<1> QED BY <1>2, <1>6, <1>7

\* On to the next fact: the list stays accounted for if the fact is in the table
\* or forbidden.
LEMMA NextFactKeepsInv ==
  ASSUME PassInv, NEW p \in Passes, pc[p] = "write", NextFact(p), TableKeeps,
         Head(todo[p]) \in Present' \cup Forbidden
  PROVE  PassInv'
<1>1. todo[p] # <<>>
  BY DEF PassInv, ListShape
<1>2. /\ Tail(todo[p]) \in Seq(Facts) /\ Len(todo[p]) = 1 <=> Tail(todo[p]) = <<>>
      /\ Ahead(p) = {Head(todo[p])} \cup
                    {Tail(todo[p])[i] : i \in DOMAIN Tail(todo[p])}
  BY <1>1, TailOfFacts DEF PassInv
<1>3. /\ todo' = [todo EXCEPT ![p] = Tail(todo[p])]
      /\ target' = [target EXCEPT ![p] = None]
      /\ pc' = [pc EXCEPT ![p] = IF Len(todo[p]) = 1 THEN "graph" ELSE "judge"]
      /\ UNCHANGED <<found, retries, episode, voids, kind, ledger>>
  BY DEF NextFact, Goto
<1>4. /\ pc'[p] \in {"graph", "judge"} /\ todo'[p] = Tail(todo[p])
      /\ pc'[p] = "graph" <=> todo'[p] = <<>>
      /\ \A q \in Passes \ {p} : pc'[q] = pc[q] /\ todo'[q] = todo[q]
  BY <1>2, <1>3 DEF PassInv, TypeOK
<1>5. TypeOK'
  BY <1>2, <1>3, TableMoves DEF PassInv, TypeOK
<1>6. ListShape'
  BY <1>4 DEF PassInv, ListShape
<1>7. Accounted'
  <2>1. Ahead(p) = {Head(todo[p])} \cup Ahead(p)'
    BY <1>2, <1>4 DEF Ahead
  <2>2. \A q \in Passes \ {p} : Ahead(q)' = Ahead(q)
    BY <1>4 DEF Ahead
  <2>3. found[p] \ (Forbidden \cup forgotten') \subseteq Present' \cup Ahead(p)'
    BY <2>1, TableMoves
  <2> QED BY <1>3, <1>4, <2>2, <2>3, TableMoves DEF Accounted
<1>8. Delivered'
  BY <1>3, <1>4, TableMoves DEF PassInv, Delivered
<1>9. EpisodeFirst' /\ FailedGraphsAreMarked'
  BY <1>3, <1>4 DEF PassInv, EpisodeFirst, FailedGraphsAreMarked
<1> QED BY <1>5, <1>6, <1>7, <1>8, <1>9, TableMoves DEF PassInv

\* An attempt that fails promises nothing but the table it leaves, and the mark
\* it may leave on its episode.
LEMMA FailingKeepsInv ==
  ASSUME PassInv, NEW p \in Passes, pc[p] # "done", AttemptFails(p), TableKeeps,
         kind' \in [Sessions -> {"none", "run_turn", "run_turn_failed"}],
         \A s \in Sessions : kind[s] # "none" => kind'[s] # "none",
         voids' \in [Passes -> BOOLEAN], FailedGraphsAreMarked'
  PROVE  PassInv'
<1>1. /\ pc' = [pc EXCEPT ![p] = "failed"]
      /\ todo' = [todo EXCEPT ![p] = <<>>]
      /\ found' = [found EXCEPT ![p] = {}]
      /\ target' = [target EXCEPT ![p] = None]
      /\ episode' = [episode EXCEPT ![p] = FALSE]
      /\ UNCHANGED <<retries, ledger>>
  BY DEF AttemptFails, Goto
<1>2. /\ pc'[p] = "failed" /\ ~episode'[p] /\ ledger[p] = "none"
      /\ \A q \in Passes \ {p} : /\ pc'[q] = pc[q] /\ todo'[q] = todo[q]
                                /\ found'[q] = found[q] /\ episode'[q] = episode[q]
  BY <1>1 DEF PassInv, TypeOK, Delivered
<1>3. TypeOK'
  <2>1. <<>> \in Seq(Facts) /\ {} \in SUBSET Facts
    OBVIOUS
  <2> QED BY <1>1, <2>1, TableMoves DEF PassInv, TypeOK
<1>4. ListShape' /\ EpisodeFirst'
  BY <1>2 DEF PassInv, ListShape, EpisodeFirst, Sessions
<1>5. \A q \in Passes \ {p} : Ahead(q)' = Ahead(q)
  BY <1>2 DEF Ahead
<1>6. Accounted' /\ Delivered'
  BY <1>1, <1>2, <1>5, TableMoves DEF PassInv, Accounted, Delivered
<1> QED BY <1>3, <1>4, <1>6, TableMoves DEF PassInv

\* A failure that touches neither an episode nor a mark.
LEMMA PlainFailureKeepsInv ==
  ASSUME PassInv, NEW p \in Passes, pc[p] # "done", AttemptFails(p), TableKeeps,
         UNCHANGED <<voids, kind>>
  PROVE  PassInv'
  BY FailingKeepsInv DEF PassInv, TypeOK, FailedGraphsAreMarked

\* A table that stands still is kept.
LEMMA StillTableKeeps ==
  ASSUME PassInv, UNCHANGED memVars
  PROVE  TableKeeps
  BY TableStill DEF TableKeeps, MemoryInv, PassInv, TypeOK, memVars

LEMMA ReadFailsKeepsInv ==
  ASSUME PassInv, NEW p \in Passes, ReadFails(p)
  PROVE  PassInv'
  BY PlainFailureKeepsInv, StillTableKeeps DEF ReadFails

\* The graph half is rolled back: an attempt that knows its episode goes to
\* mark it, any other fails at once.
LEMMA GraphFailsKeepsInv ==
  ASSUME PassInv, NEW p \in Passes, GraphFails(p)
  PROVE  PassInv'
<1>1. UNCHANGED memVars /\ UNCHANGED <<voids, kind>> /\ pc[p] = "graph"
  BY DEF GraphFails
<1>2. CASE AttemptFails(p)
  BY <1>1, <1>2, PlainFailureKeepsInv, StillTableKeeps
<1>3. CASE /\ episode[p] /\ Goto(p, "void")
           /\ UNCHANGED <<todo, found, target, retries, episode, ledger>>
  <2>1. /\ pc' = [pc EXCEPT ![p] = "void"] /\ pc'[p] = "void"
        /\ \A q \in Passes \ {p} : pc'[q] = pc[q]
    BY <1>3 DEF Goto, PassInv, TypeOK
  <2>2. TypeOK'
    BY <1>1, <1>3, <2>1, TableStill DEF PassInv, TypeOK
  <2>3. LinksAreHistories' /\ Present' = Present /\ forgotten' = forgotten
    BY <1>1, TableStill DEF PassInv, memVars
  <2>4. ListShape' /\ Accounted' /\ Delivered'
    BY <1>1, <1>3, <2>1, <2>3 DEF PassInv, ListShape, Accounted, Delivered, Ahead
  <2>5. EpisodeFirst' /\ FailedGraphsAreMarked'
    BY <1>1, <1>3, <2>1 DEF PassInv, EpisodeFirst, FailedGraphsAreMarked
  <2> QED BY <2>2, <2>3, <2>4, <2>5 DEF PassInv
<1> QED BY <1>2, <1>3 DEF GraphFails

\* The mark lands on an episode that exists; or it is lost, and promises nothing.
LEMMA VoidsKeepsInv ==
  ASSUME PassInv, NEW p \in Passes, Voids(p)
  PROVE  PassInv'
<1>1. /\ UNCHANGED memVars /\ AttemptFails(p) /\ pc[p] = "void"
      /\ \A q \in Passes : SessionOf[q] \in Sessions
  BY DEF Voids, Sessions
<1>2. CASE UNCHANGED <<kind, voids>>
  BY <1>1, <1>2, PlainFailureKeepsInv, StillTableKeeps
<1>3. CASE /\ kind' = [kind EXCEPT ![SessionOf[p]] =
                        IF @ = "run_turn" THEN "run_turn_failed" ELSE @]
           /\ voids' = [voids EXCEPT ![p] = TRUE]
  <2>1. /\ kind' \in [Sessions -> {"none", "run_turn", "run_turn_failed"}]
        /\ voids' \in [Passes -> BOOLEAN]
        /\ \A s \in Sessions : /\ kind[s] # "none" => kind'[s] # "none"
                               /\ kind[s] = "run_turn_failed" => kind'[s] = kind[s]
        /\ \A q \in Passes \ {p} : voids'[q] = voids[q]
    BY <1>1, <1>3 DEF PassInv, TypeOK
  <2>2. kind'[SessionOf[p]] = "run_turn_failed"
    BY <1>1, <1>3 DEF PassInv, TypeOK, EpisodeFirst
  <2>3. FailedGraphsAreMarked'
    BY <1>1, <2>1, <2>2 DEF PassInv, FailedGraphsAreMarked
  <2> QED BY <1>1, <2>1, <2>3, FailingKeepsInv, StillTableKeeps
<1> QED BY <1>2, <1>3 DEF Voids

\* The write of one fact, with what write_memory makes of it.
LEMMA WriteSteps ==
  ASSUME PassInv, NEW p \in Passes,
         Writes(p) \/ WritesUnaudited(p) \/ IsForbidden(p) \/ WriteFails(p)
  PROVE  PassInv'
<1> DEFINE f == Head(todo[p])
<1>1. /\ pc[p] = "write" /\ todo[p] # <<>> /\ f \in Facts
      /\ target[p] \in Ids \cup {None} /\ MemoryInv
  BY TailOfFacts DEF Writes, WritesUnaudited, IsForbidden, WriteFails, PassInv,
     ListShape, TypeOK, MemoryInv
<1>2. ASSUME Lands(f, target[p])
      PROVE  TableKeeps /\ f \in Present'
  <2>1. forgotten' = forgotten
    BY <1>2 DEF Lands
  <2> QED BY <1>1, <1>2, <2>1, LandingKeeps, StayingRowsKeep DEF Present
<1>3. ASSUME Refuses(f, target[p])
      PROVE  TableKeeps
  <2>1. forgotten' = forgotten
    BY <1>3 DEF Refuses
  <2> QED BY <1>1, <1>3, <2>1, RefusingKeeps, StayingRowsKeep
<1>4. CASE Writes(p)
  BY <1>1, <1>2, <1>4, NextFactKeepsInv DEF Writes
<1>5. CASE WritesUnaudited(p)
  BY <1>1, <1>2, <1>5, PlainFailureKeepsInv DEF WritesUnaudited
<1>6. CASE IsForbidden(p)
  <2>1. TableKeeps
    BY <1>6, StillTableKeeps DEF IsForbidden
  <2> QED BY <1>1, <1>6, <2>1, NextFactKeepsInv DEF IsForbidden
<1>7. CASE WriteFails(p)
  <2>1. TableKeeps
    BY <1>3, <1>7, StillTableKeeps DEF WriteFails
  <2> QED BY <1>1, <1>7, <2>1, PlainFailureKeepsInv DEF WriteFails
<1> QED BY <1>4, <1>5, <1>6, <1>7

\* The pass is logged as ok or empty.
LEMMA WritesGraphKeepsInv ==
  ASSUME PassInv, NEW p \in Passes, WritesGraph(p)
  PROVE  PassInv'
<1>1. /\ pc' = [pc EXCEPT ![p] = "done"]
      /\ ledger' \in {ledger, [ledger EXCEPT ![p] = IF found[p] = {} THEN "empty"
                                                   ELSE "ok"]}
      /\ episode' = [episode EXCEPT ![p] = FALSE]
      /\ UNCHANGED <<memVars, todo, found, target, retries, voids, kind>>
      /\ pc[p] = "graph" /\ todo[p] = <<>>
  BY DEF WritesGraph, Log, Goto, PassInv, ListShape
<1>2. /\ pc'[p] = "done" /\ ~episode'[p]
      /\ \A q \in Passes \ {p} : /\ pc'[q] = pc[q] /\ ledger'[q] = ledger[q]
                                /\ episode'[q] = episode[q]
  BY <1>1 DEF PassInv, TypeOK
<1>3. TypeOK'
  BY <1>1, TableStill DEF PassInv, TypeOK
<1>4. LinksAreHistories' /\ Present' = Present /\ forgotten' = forgotten
  BY <1>1, TableStill DEF PassInv, memVars
<1>5. ListShape' /\ EpisodeFirst' /\ FailedGraphsAreMarked'
  BY <1>1, <1>2 DEF PassInv, ListShape, EpisodeFirst, FailedGraphsAreMarked
<1>6. Accounted'
  <2>1. \A q \in Passes : Ahead(q)' = Ahead(q)
    BY <1>1 DEF Ahead
  <2> QED BY <1>1, <1>2, <1>4, <2>1 DEF PassInv, Accounted
<1>7. Delivered'
  <2>1. Ahead(p) = {}
    BY <1>1 DEF Ahead
  <2>2. found[p] \ (Forbidden \cup forgotten) \subseteq Present
    BY <1>1, <2>1 DEF PassInv, Accounted
  <2> QED BY <1>1, <1>2, <1>4, <2>2 DEF PassInv, Delivered
<1> QED BY <1>3, <1>4, <1>5, <1>6, <1>7 DEF PassInv

LEMMA PassesStutter == PassInv /\ UNCHANGED vars => PassInv'
<1> SUFFICES ASSUME PassInv, UNCHANGED vars PROVE PassInv'
  OBVIOUS
<1>1. UNCHANGED memVars /\ UNCHANGED passVars
  BY DEF vars, memVars, passVars
<1>2. LinksAreHistories' /\ Present' = Present /\ MemoryTypeOK' /\ forgotten' = forgotten
  BY <1>1, TableStill DEF PassInv, TypeOK, memVars
<1> QED
  BY <1>1, <1>2 DEF passVars, PassInv, TypeOK, ListShape, Accounted, Delivered,
     EpisodeFirst, FailedGraphsAreMarked, Ahead

-----------------------------------------------------------------------------
\* The inductive invariant of the passes: where each fact of a running attempt
\* is, and that an attempt that will mark its episode has one.
THEOREM PassInvHolds == Spec => []PassInv
<1>1. PassInv /\ [Next]_vars => PassInv'
  BY PeopleKeepInv, QuietSteps, ExtractsKeepsInv, ReadFailsKeepsInv, EpisodeSteps,
     WriteSteps, WritesGraphKeepsInv, GraphFailsKeepsInv, VoidsKeepsInv, PassesStutter
     DEF Next, PassStep
<1> QED BY PassInit, <1>1, PTL DEF Spec

\* The variables of the table and of the passes keep their types.
THEOREM DistillationTypes == Spec => []TypeOK
  BY PassInvHolds, PTL DEF PassInv

\* Whoever writes, retracts and purges in whatever order: a supersede link leads
\* to an older, superseded row, and no row is replaced twice (write_memory judges
\* a supersede by the rows it changed).
THEOREM LinksStayHistories == Spec => []LinksAreHistories
  BY PassInvHolds, PTL DEF PassInv

\* An episode that void_episode marked for a failed graph half stays marked,
\* whoever records it again (record_episode).
THEOREM FailedGraphsStayMarked == Spec => []FailedGraphsAreMarked
  BY PassInvHolds, PTL DEF PassInv

\* A pass that is logged ok has all its facts in the table, but for those a
\* purge took (distill.rs, write_memories and with_retries).
THEOREM PassesDropNothing == Spec => []NothingIsDropped
<1>1. PassInv => NothingIsDropped
  <2> SUFFICES ASSUME PassInv, NEW p \in Passes, ledger[p] = "ok",
                      NEW f \in found[p] \ (Forbidden \cup forgotten)
               PROVE  \E i \in Used : row[i].fact = f
    BY DEF NothingIsDropped
  <2> QED BY DEF PassInv, Delivered, Present
<1> QED BY PassInvHolds, <1>1, PTL
=============================================================================
