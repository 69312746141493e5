---------------------------- MODULE Stores_proofs ----------------------------
(***************************************************************************)
(* What the two stores promise: StoreWriter.tla for every number of callers *)
(* and of operations, KnowledgeIndex.tla for every set of documents, texts  *)
(* and requests and every bound on ids, changes and faults.                 *)
(***************************************************************************)
EXTENDS StoreWriter, KnowledgeIndex, TLAPS

-----------------------------------------------------------------------------
(* The writer. *)

\* Operations taken out of the channel so far: their numbers are 1..Taken.
Taken == sent - Len(queue)

\* The channel holds the operations sent last, in the order they were sent.
Numbered ==
  /\ Len(queue) <= sent
  /\ \A i \in 1..Len(queue) : queue[i].n = Taken + i
  /\ op # NoOp => op.n = Taken

\* A panic is counted and named between the end of its closure and the wake of
\* its caller.
Recorded ==
  /\ lastPanic <= Taken
  /\ panics <= IF writer \in {"work", "count"} THEN Taken - 1 ELSE Taken
  /\ writer \in {"count", "note"} => op.panics
  /\ writer = "note" => panics > 0
  /\ writer = "wake" /\ op.panics => panics > 0 /\ lastPanic = op.n
  /\ PanicIsOnRecord

\* The channel is closed once, when nobody owns a handle any more.
Closing ==
  /\ closedBy # "nobody" => handle = {} /\ ~OwnedInQueue /\ ~OwnedAtWork
  /\ writer \in {"last", "ended"} => closedBy # "nobody" /\ queue = <<>>
  /\ writer # "join"
  /\ closedBy = "caller" =>
       writer = "ended" \/ \E c \in Callers : caller[c] = "joining"

WriterInv == WriterTypeOK /\ Numbered /\ Recorded /\ Closing

-----------------------------------------------------------------------------
\* What the channel holds after the oldest operation is taken.
LEMMA TailOfQueue ==
  ASSUME NEW S, NEW q \in Seq(S), q # <<>>
  PROVE  /\ Len(q) \in Nat \ {0}
         /\ Head(q) = q[1] /\ Head(q) \in S
         /\ Tail(q) \in Seq(S) /\ Len(Tail(q)) = Len(q) - 1
         /\ \A i \in 1..Len(Tail(q)) : i + 1 \in 1..Len(q) /\ Tail(q)[i] = q[i + 1]
  OBVIOUS

\* What it holds after an operation is sent.
LEMMA AppendToQueue ==
  ASSUME NEW S, NEW q \in Seq(S), NEW e \in S
  PROVE  /\ Append(q, e) \in Seq(S) /\ Len(Append(q, e)) = Len(q) + 1
         /\ Append(q, e)[Len(q) + 1] = e
         /\ \A i \in 1..Len(q) : Append(q, e)[i] = q[i]
  OBVIOUS

LEMMA InitWriter == WriterInit => WriterInv
  BY StoreWriterAssumption
     DEF WriterInit, WriterInv, WriterTypeOK, Numbered, Recorded, Closing, PanicIsOnRecord,
         Taken, OwnedInQueue, OwnedAtWork

\* Db::call numbers what it sends.
LEMMA CallKeepsInv ==
  ASSUME WriterInv, NEW c \in Callers, Call(c)
  PROVE  WriterInv'
<1> USE StoreWriterAssumption
<1>1. PICK p \in BOOLEAN, h \in BOOLEAN :
        queue' = Append(queue, [n |-> sent + 1, by |-> c, panics |-> p, holds |-> h])
  BY DEF Call
<1> DEFINE e == [n |-> sent + 1, by |-> c, panics |-> p, holds |-> h]
<1>2. e \in Op /\ sent + 1 \in 1..MaxCalls
  BY DEF Call, Op, WriterInv, WriterTypeOK
<1>3. /\ queue' \in Seq(Op) /\ Len(queue') = Len(queue) + 1
      /\ queue'[Len(queue) + 1] = e
      /\ \A i \in 1..Len(queue) : queue'[i] = queue[i]
  BY <1>1, <1>2, AppendToQueue DEF WriterInv, WriterTypeOK
<1>4. handle # {} /\ closedBy = "nobody"
  BY DEF Call, WriterInv, Closing
<1>5. WriterTypeOK'
  BY <1>2, <1>3 DEF WriterInv, WriterTypeOK, Call
<1>6. Taken' = Taken /\ Len(queue) \in Nat /\ sent \in Nat
  BY <1>3 DEF Taken, WriterInv, WriterTypeOK, Call
<1>7. Numbered'
  <2>1. Len(queue') <= sent'
    BY <1>3, <1>6 DEF WriterInv, Numbered, Call
  <2>2. ASSUME NEW i \in 1..Len(queue')
        PROVE  queue'[i].n = Taken' + i
    <3>1. CASE i \in 1..Len(queue)
      BY <3>1, <1>3, <1>6 DEF WriterInv, Numbered
    <3>2. CASE i = Len(queue) + 1
      <4>1. queue'[i].n = sent + 1
        BY <3>2, <1>3
      <4> QED BY <4>1, <3>2, <1>6 DEF Taken
    <3> QED BY <3>1, <3>2, <1>3, <1>6
  <2> QED BY <2>1, <2>2, <1>6 DEF WriterInv, Numbered, Call
<1>8. Recorded'
  BY <1>6 DEF WriterInv, WriterTypeOK, Recorded, PanicIsOnRecord, Call
<1>9. Closing'
  BY <1>4 DEF WriterInv, Closing, Call
<1> QED BY <1>5, <1>7, <1>8, <1>9 DEF WriterInv

\* Nothing of the channel or of the thread moves when a caller leaves or drops a
\* handle, so only the closing can be disturbed.
LEMMA CallersLeave ==
  ASSUME WriterInv, NEW c \in Callers, Abandon(c) \/ DropHandle(c) \/ Joined(c)
  PROVE  WriterInv'
<1>1. WriterTypeOK'
  BY DEF WriterInv, WriterTypeOK, Abandon, DropHandle, Joined
<1>2. Numbered'
  BY DEF WriterInv, Numbered, Taken, Abandon, DropHandle, Joined
<1>3. Recorded'
  BY DEF WriterInv, WriterTypeOK, Recorded, Taken, PanicIsOnRecord, Abandon, DropHandle, Joined
<1>4. Closing'
  <2>1. CASE Abandon(c)
    BY <2>1 DEF WriterInv, WriterTypeOK, Closing, OwnedInQueue, OwnedAtWork, Abandon
  <2>2. CASE DropHandle(c)
    BY <2>2 DEF WriterInv, WriterTypeOK, Closing, OwnedInQueue, OwnedAtWork, DropHandle
  <2>3. CASE Joined(c)
    BY <2>3 DEF WriterInv, WriterTypeOK, Closing, OwnedInQueue, OwnedAtWork, Joined
  <2> QED BY <2>1, <2>2, <2>3
<1> QED BY <1>1, <1>2, <1>3, <1>4 DEF WriterInv

LEMMA TakeOpKeepsInv ==
  ASSUME WriterInv, TakeOp
  PROVE  WriterInv'
<1> USE StoreWriterAssumption
<1>1. /\ Len(queue) \in Nat \ {0}
      /\ op' = queue[1] /\ op' \in Op
      /\ queue' \in Seq(Op) /\ Len(queue') = Len(queue) - 1
      /\ \A i \in 1..Len(queue') : i + 1 \in 1..Len(queue) /\ queue'[i] = queue[i + 1]
  BY TailOfQueue DEF WriterInv, WriterTypeOK, TakeOp
<1>2. op' # NoOp
  BY <1>1 DEF Op, NoOp
<1>3. WriterTypeOK'
  BY <1>1, <1>2 DEF WriterInv, WriterTypeOK, TakeOp
<1>4. Taken' = Taken + 1 /\ Taken \in Nat /\ sent \in Nat
  BY <1>1 DEF Taken, WriterInv, WriterTypeOK, Numbered, TakeOp
<1>5. Numbered'
  <2>1. op'.n = Taken'
    BY <1>1, <1>4 DEF WriterInv, Numbered
  <2>2. ASSUME NEW i \in 1..Len(queue')
        PROVE  queue'[i].n = Taken' + i
    BY <1>1, <1>4 DEF WriterInv, Numbered
  <2> QED BY <2>1, <2>2, <1>1, <1>4 DEF WriterInv, Numbered, TakeOp
<1>6. Recorded'
  BY <1>4 DEF WriterInv, WriterTypeOK, Recorded, PanicIsOnRecord, TakeOp
<1>7. Closing'
  <2>1. OwnedInQueue' \/ OwnedAtWork' => OwnedInQueue
    BY <1>1 DEF OwnedInQueue, OwnedAtWork, TakeOp
  <2> QED BY <2>1 DEF WriterInv, Closing, TakeOp
<1> QED BY <1>3, <1>5, <1>6, <1>7 DEF WriterInv

\* The closure at work returns, or its panic is caught and put on record.
LEMMA OpEnds ==
  ASSUME WriterInv, EndOp \/ CountPanic \/ NotePanic
  PROVE  WriterInv'
<1> USE StoreWriterAssumption
<1>0. /\ Len(queue) \in Nat /\ sent \in 0..MaxCalls /\ Taken \in 0..MaxCalls
      /\ op \in Op /\ op.n = Taken /\ op.panics \in BOOLEAN
  BY DEF WriterInv, WriterTypeOK, Numbered, Taken, EndOp, CountPanic, NotePanic, Op
<1>1. WriterTypeOK'
  BY <1>0 DEF WriterInv, WriterTypeOK, Recorded, EndOp, CountPanic, NotePanic
<1>2. Numbered'
  BY DEF WriterInv, Numbered, Taken, EndOp, CountPanic, NotePanic
<1>3. Recorded'
  <2>1. Taken' = Taken /\ panics \in Nat /\ lastPanic \in Nat
    BY DEF WriterInv, WriterTypeOK, Taken, EndOp, CountPanic, NotePanic
  <2>2. CASE EndOp
    BY <1>0, <2>1, <2>2 DEF WriterInv, WriterTypeOK, Recorded, PanicIsOnRecord, EndOp
  <2>3. CASE CountPanic
    BY <1>0, <2>1, <2>3 DEF WriterInv, WriterTypeOK, Recorded, PanicIsOnRecord, CountPanic
  <2>4. CASE NotePanic
    BY <1>0, <2>1, <2>4 DEF WriterInv, WriterTypeOK, Recorded, PanicIsOnRecord, NotePanic
  <2> QED BY <2>2, <2>3, <2>4
<1>4. Closing'
  BY DEF WriterInv, WriterTypeOK, Closing, OwnedInQueue, OwnedAtWork, EndOp, CountPanic,
         NotePanic
<1> QED BY <1>1, <1>2, <1>3, <1>4 DEF WriterInv

\* A caller is woken only after its panic is on record.
LEMMA WakeKeepsInv ==
  ASSUME WriterInv, Wake
  PROVE  WriterInv'
<1>0. /\ op \in Op /\ op.by \in Callers /\ op.n = Taken /\ Taken \in Nat
  BY DEF WriterInv, WriterTypeOK, Numbered, Taken, Wake, Op
<1>1. WriterTypeOK'
  BY <1>0 DEF WriterInv, WriterTypeOK, Wake
<1>2. Numbered'
  BY DEF WriterInv, Numbered, Taken, Wake
<1>3. Recorded'
  BY <1>0 DEF WriterInv, WriterTypeOK, Recorded, Taken, PanicIsOnRecord, Wake
<1>4. Closing'
  BY <1>0 DEF WriterInv, WriterTypeOK, Closing, OwnedInQueue, OwnedAtWork, Wake
<1> QED BY <1>1, <1>2, <1>3, <1>4 DEF WriterInv

\* The end of the thread.
LEMMA ThreadEnds ==
  ASSUME WriterInv, LoopEnds \/ Checkpoint
  PROVE  WriterInv'
<1>1. WriterTypeOK' /\ Numbered'
  BY DEF WriterInv, WriterTypeOK, Numbered, Taken, LoopEnds, Checkpoint
<1>2. Recorded'
  BY DEF WriterInv, WriterTypeOK, Recorded, Taken, PanicIsOnRecord, LoopEnds, Checkpoint
<1>3. Closing'
  BY DEF WriterInv, WriterTypeOK, Closing, OwnedInQueue, OwnedAtWork, LoopEnds, Checkpoint
<1> QED BY <1>1, <1>2, <1>3 DEF WriterInv

LEMMA WriterStutters == WriterInv /\ UNCHANGED writerVars => WriterInv'
  BY DEF writerVars, WriterInv, WriterTypeOK, Numbered, Recorded, Closing, PanicIsOnRecord,
         Taken, OwnedInQueue, OwnedAtWork

-----------------------------------------------------------------------------
\* The inductive invariant of the writer: numbering of the channel, the record
\* of panics, and when the channel is closed.
THEOREM WriterInvHolds == WriterSafety => []WriterInv
<1>1. WriterInv /\ [WriterNext]_writerVars => WriterInv'
  BY CallKeepsInv, CallersLeave, TakeOpKeepsInv, OpEnds, WakeKeepsInv, ThreadEnds,
     WriterStutters
     DEF WriterNext, WriterStep
<1> QED BY InitWriter, <1>1, PTL DEF WriterSafety

\* The variables of the writer keep their types (WriterWatch's counter never
\* passes the number of operations).
THEOREM WriterTypes == WriterSafety => []WriterTypeOK
  BY WriterInvHolds, PTL DEF WriterInv

\* A caller that learns of its operation's panic finds the counter above zero
\* and the text of that panic or a later one (sqlite.rs, WriterWatch::record
\* before the reply is dropped).
THEOREM PanicsAreOnRecord == WriterSafety => []PanicIsOnRecord
  BY WriterInvHolds, PTL DEF WriterInv, Recorded

\* As long as a caller or a closure owns a handle, the thread serves.
THEOREM OwnedHandlesAreServed == WriterSafety => []HandlesAreServed
<1>1. WriterInv => HandlesAreServed
  BY DEF WriterInv, WriterTypeOK, Closing, HandlesAreServed
<1> QED BY WriterInvHolds, <1>1, PTL

\* When the drop of the last handle has returned, the thread has ended and
\* nothing that was sent is left undone.
THEOREM DropsLeaveItClosed == WriterSafety => []DropLeavesItClosed
<1>1. WriterInv => DropLeavesItClosed
  BY DEF WriterInv, WriterTypeOK, Closing, DropLeavesItClosed
<1> QED BY WriterInvHolds, <1>1, PTL

-----------------------------------------------------------------------------
(* The index of the knowledge base. *)

\* Who holds the lock is between the look and the end of index_doc, with a
\* document and a text in hand; a rebuild has them before.
Holding ==
  /\ \A p \in Procs : proc[p].at \in {"look", "insert", "embed"} => lock = p
  /\ \A p \in Procs : lock = p => proc[p].at \in {"look", "drop", "erase", "vector", "insert", "embed"}
  /\ \A p \in Procs :
       lock = p \/ (proc[p].op = "rebuild" /\ proc[p].at \in {"drop", "erase", "vector"})
         => proc[p].doc \in Docs /\ proc[p].text \in Texts

\* While it drops, it has every row of its document in hand; when it inserts,
\* there is none.
Clearing ==
  \A p \in Procs :
    /\ lock = p /\ proc[p].at \in {"drop", "erase", "vector"} =>
         \A r \in RowsOf(proc[p].doc) : r.id \in proc[p].ids
    /\ proc[p].at = "insert" => RowsOf(proc[p].doc) = {}

IndexInv == TypeOK /\ Holding /\ Clearing /\ OneRowPerName

LEMMA InitIndex == Init => IndexInv
  BY IndexAssumption DEF Init, IndexInv, TypeOK, Holding, Clearing, OneRowPerName, RowsOf, Idle,
     Operations, Procs

\* Where a walk goes on holds nothing.
LEMMA NextOfIs ==
  ASSUME NEW s \in Operations
  PROVE  /\ NextOf(s) \in Operations
         /\ NextOf(s).at \in {"read", "gone", "idle"}
         /\ NextOf(s).at = "read" => NextOf(s).todo # {}
  BY DEF NextOf, Operations, Idle

\* An operation that ends, or goes on without the lock, while no row is added.
LEMMA GoingOnKeeps ==
  ASSUME IndexInv, NEW p \in Procs, NEW s \in Operations,
         proc' = [proc EXCEPT ![p] = s],
         lock' = IF lock = p THEN None ELSE lock,
         s.at \notin {"look", "erase", "vector", "insert", "embed"},
         s.at = "read" => s.todo # {},
         s.at \in {"force", "write", "lock"} \/ (s.op = "rebuild" /\ s.at = "drop")
           => s.doc \in Docs /\ s.text \in Texts,
         rows' = rows \/ (\E id \in Ids : rows' = {[r EXCEPT !.whole = @ /\ r.id # id] : r \in rows}),
         file' \in [Docs -> Texts \cup {None}],
         vectors' \subseteq [id : Ids, text : Texts \ {Blank}],
         alone' \in Users \cup {None} /\ ops' \in 0..MaxOps, faults' \in 0..MaxFaults
  PROVE  IndexInv'
<1>. USE IndexAssumption DEF IndexInv, Procs
<1>1. \A q \in Procs : proc'[q] = IF q = p THEN s ELSE proc[q]
  BY DEF TypeOK
<1>2. /\ rows' \subseteq Rows
      /\ \A r \in rows' : \E o \in rows : r.id = o.id /\ r.doc = o.doc
      /\ \A r, o \in rows' : r.id = o.id => r = o
      /\ \A r, o \in rows' : r.doc = o.doc => r = o
  <2>1. CASE rows' = rows
    BY <2>1 DEF TypeOK, OneRowPerName
  <2>2. ASSUME NEW id \in Ids,
               rows' = {[r EXCEPT !.whole = @ /\ r.id # id] : r \in rows}
        PROVE  /\ rows' \subseteq Rows
               /\ \A r \in rows' : \E o \in rows : r.id = o.id /\ r.doc = o.doc
               /\ \A r, o \in rows' : r.id = o.id => r = o
               /\ \A r, o \in rows' : r.doc = o.doc => r = o
    <3>1. ASSUME NEW r \in rows'
          PROVE  r \in Rows /\ \E o \in rows :
                   r = [o EXCEPT !.whole = @ /\ o.id # id] /\ r.id = o.id /\ r.doc = o.doc
      <4>1. PICK o \in rows : r = [o EXCEPT !.whole = @ /\ o.id # id]
        BY <2>2, <3>1
      <4>2. PICK whole \in BOOLEAN : whole = (o.whole /\ o.id # id)
        OBVIOUS
      <4>3. o \in Rows /\ r = [o EXCEPT !.whole = whole]
        BY <4>1, <4>2 DEF TypeOK
      <4>4. r \in Rows /\ r.id = o.id /\ r.doc = o.doc
        BY <4>3 DEF Rows
      <4>. QED
        BY <4>1, <4>4
    <3>. QED
      BY <3>1 DEF TypeOK, OneRowPerName
  <2>. QED
    BY <2>1, <2>2
<1>3. TypeOK'
  BY <1>1, <1>2 DEF TypeOK
<1>4. Holding'
  BY <1>1 DEF Holding
<1>5. Clearing'
  BY <1>1, <1>2 DEF Clearing, RowsOf, Holding
<1>6. OneRowPerName'
  BY <1>2 DEF OneRowPerName
<1>. QED
  BY <1>3, <1>4, <1>5, <1>6

\* People and requests.
LEMMA ChangeFileKeeps ==
  ASSUME IndexInv, NEW d \in Docs, NEW t \in Texts \cup {None}, ChangeFile(d, t)
  PROVE  IndexInv'
  BY IndexAssumption
     DEF IndexInv, ChangeFile, TypeOK, Holding, Clearing, OneRowPerName, RowsOf, Procs

LEMMA IdleHoldsNothing ==
  ASSUME IndexInv, NEW p \in Procs, proc[p].at = "idle"
  PROVE  lock # p
  BY DEF IndexInv, Holding

LEMMA RequestKeeps ==
  ASSUME IndexInv, NEW p \in Users, Request(p)
  PROVE  IndexInv'
<1>. USE IndexAssumption DEF Procs
<1>1. ASSUME NEW s \in Operations, Starts(p, s),
             s.at \notin {"look", "erase", "vector", "insert", "embed"},
             s.at = "read" => s.todo # {},
             s.at \in {"force", "write", "lock"} \/ (s.op = "rebuild" /\ s.at = "drop")
               => s.doc \in Docs /\ s.text \in Texts,
             file' \in [Docs -> Texts \cup {None}]
      PROVE  IndexInv'
  <2>1. /\ lock # p /\ alone' \in Users \cup {None} /\ ops' \in 0..MaxOps /\ faults' \in 0..MaxFaults
        /\ vectors' \subseteq [id : Ids, text : Texts \ {Blank}]
    BY <1>1, IdleHoldsNothing DEF Starts, IndexInv, TypeOK
  <2>. QED
    BY <1>1, <2>1, GoingOnKeeps DEF Starts
<1>2. file \in [Docs -> Texts \cup {None}] /\ rows \subseteq Rows
  BY DEF IndexInv, TypeOK
<1>3. ASSUME NEW d \in Docs, NEW t \in Texts, SaveStarts(p, d, t)
      PROVE  IndexInv'
  <2>. DEFINE s == [Idle EXCEPT !.op = "save", !.at = "lock", !.doc = d, !.text = t]
  <2>1. s \in Operations /\ s.at = "lock" /\ s.doc = d /\ s.text = t
    BY DEF Operations, Idle
  <2>. QED
    BY <1>1, <1>2, <1>3, <2>1 DEF SaveStarts
<1>4. ASSUME NEW d \in Docs, NEW t \in Texts, EditStarts(p, d, t)
      PROVE  IndexInv'
  <2>. DEFINE s == [Idle EXCEPT !.op = "edit", !.at = "write", !.doc = d, !.text = t]
  <2>1. s \in Operations /\ s.at = "write" /\ s.doc = d /\ s.text = t
    BY DEF Operations, Idle
  <2>. QED
    BY <1>1, <1>2, <1>4, <2>1 DEF EditStarts
<1>5. ASSUME NEW r \in rows, DeleteStarts(p, r)
      PROVE  IndexInv'
  <2>. DEFINE s == [Idle EXCEPT !.op = "delete", !.at = "drop", !.doc = r.doc, !.ids = {r.id}]
  <2>1. s \in Operations /\ s.at = "drop" /\ s.op = "delete"
    BY <1>2 DEF Operations, Idle, Rows
  <2>. QED
    BY <1>1, <1>2, <1>5, <2>1 DEF DeleteStarts
<1>6. ASSUME RebuildStarts(p)
      PROVE  IndexInv'
  <2>. DEFINE s == [Idle EXCEPT !.op = "rebuild", !.at = "read", !.todo = Tree]
  <2>1. s \in Operations /\ s.at = "read" /\ s.todo # {}
    BY <1>6 DEF Operations, Idle, Tree, RebuildStarts
  <2>. QED
    BY <1>1, <1>2, <1>6, <2>1 DEF RebuildStarts
<1>. QED
  BY <1>3, <1>4, <1>5, <1>6 DEF Request

LEMMA ScanStartsKeeps ==
  ASSUME IndexInv, ScanStarts
  PROVE  IndexInv'
<1>. DEFINE s == [Idle EXCEPT !.op = "scan", !.todo = Tree]
<1>1. s \in Operations
  BY DEF Operations, Idle, Tree
<1>2. /\ Scanner \in Procs /\ lock # Scanner
      /\ file' \in [Docs -> Texts \cup {None}]
      /\ vectors' \subseteq [id : Ids, text : Texts \ {Blank}]
      /\ alone' \in Users \cup {None} /\ ops' \in 0..MaxOps /\ faults' \in 0..MaxFaults
  BY IdleHoldsNothing DEF ScanStarts, IndexInv, TypeOK, Procs
<1>. HIDE DEF s
<1>3. IndexInv'
  BY <1>1, <1>2, NextOfIs, GoingOnKeeps DEF ScanStarts, s
<1>. QED
  BY <1>3

-----------------------------------------------------------------------------
(* Steps without the lock. *)

LEMMA UnlockedKeeps ==
  ASSUME IndexInv, NEW p \in Procs,
         EditWrites(p) \/ Unlink(p) \/ Read(p) \/ FindRows(p) \/ FindGone(p)
  PROVE  IndexInv'
<1>. USE IndexAssumption
<1>1. /\ lock # p /\ lock' = lock /\ rows' = rows
      /\ vectors' \subseteq [id : Ids, text : Texts \ {Blank}]
      /\ alone' \in Users \cup {None} /\ ops' \in 0..MaxOps /\ faults' \in 0..MaxFaults
  BY DEF IndexInv, TypeOK, Holding, EditWrites, Unlink, Read, FindRows, FindGone, At, Goto
<1>2. /\ proc[p] \in Operations /\ proc \in [Procs -> Operations]
      /\ file \in [Docs -> Texts \cup {None}] /\ rows \subseteq Rows
      /\ proc[p].at \in {"force", "write"} => proc[p].doc \in Docs /\ proc[p].text \in Texts
  BY DEF IndexInv, TypeOK
<1>3. CASE EditWrites(p)
  <2>. DEFINE s == [proc[p] EXCEPT !.at = "lock"]
  <2>1. s \in Operations /\ s.at = "lock" /\ s.doc \in Docs /\ s.text \in Texts
    BY <1>2, <1>3 DEF EditWrites, At, Operations
  <2>2. proc' = [proc EXCEPT ![p] = s] /\ file' \in [Docs -> Texts \cup {None}]
    BY <1>2, <1>3 DEF EditWrites, Goto, At
  <2>. QED
    BY <1>1, <2>1, <2>2, GoingOnKeeps
<1>4. CASE Unlink(p)
  <2>1. Idle \in Operations /\ Idle.at = "idle" /\ Idle.op = "idle"
    BY DEF Operations, Idle
  <2>2. proc' = [proc EXCEPT ![p] = Idle] /\ file' \in [Docs -> Texts \cup {None}]
    BY <1>2, <1>4 DEF Unlink
  <2>. QED
    BY <1>1, <2>1, <2>2, GoingOnKeeps
<1>5. CASE Read(p)
  <2>1. PICK d \in Docs :
          LET s == [proc[p] EXCEPT !.todo = @ \ {d}, !.doc = d, !.text = file[d]]
          IN  proc' = [proc EXCEPT ![p] =
                IF file[d] = None THEN NextOf([s EXCEPT !.clean = FALSE])
                ELSE [s EXCEPT !.present = @ \cup {d},
                               !.at = IF s.op = "scan" THEN "lock" ELSE "force"]]
    BY <1>5 DEF Read
  <2>. DEFINE s == [proc[p] EXCEPT !.todo = @ \ {d}, !.doc = d, !.text = file[d]]
              gone == [s EXCEPT !.clean = FALSE]
              read == [s EXCEPT !.present = @ \cup {d},
                                !.at = IF s.op = "scan" THEN "lock" ELSE "force"]
  <2>2. file[d] \in Texts \cup {None} /\ file' = file
    BY <1>2, <1>5 DEF Read
  <2>3. s \in Operations /\ s.doc = d /\ s.text = file[d]
    BY <1>2, <2>2 DEF Operations
  <2>. HIDE DEF s
  <2>4. gone \in Operations
    BY <2>3 DEF Operations
  <2>5. read \in Operations /\ read.at \in {"lock", "force"} /\ read.doc = d /\ read.text = file[d]
    BY <2>3 DEF Operations
  <2>. HIDE DEF gone, read
  <2>6. CASE file[d] = None
    <3>1. proc' = [proc EXCEPT ![p] = NextOf(gone)]
      BY <2>1, <2>6 DEF gone, s
    <3>. QED
      BY <1>1, <1>2, <2>2, <2>4, <3>1, NextOfIs, GoingOnKeeps
  <2>7. CASE file[d] # None
    <3>1. proc' = [proc EXCEPT ![p] = read]
      BY <2>1, <2>7 DEF read, s
    <3>. QED
      BY <1>1, <1>2, <2>2, <2>5, <2>7, <3>1, GoingOnKeeps
  <2>. QED
    BY <2>6, <2>7
<1>6. CASE FindRows(p)
  <2>. DEFINE ids == {r.id : r \in RowsOf(proc[p].doc)}
              s == [proc[p] EXCEPT !.at = "drop", !.ids = ids]
  <2>1. ids \subseteq Ids
    BY <1>2 DEF RowsOf, Rows
  <2>2. s \in Operations /\ s.at = "drop" /\ s.doc \in Docs /\ s.text \in Texts
    BY <1>2, <1>6, <2>1 DEF FindRows, At, Operations
  <2>3. proc' = [proc EXCEPT ![p] = s] /\ file' = file
    BY <1>2, <1>6 DEF FindRows
  <2>. QED
    BY <1>1, <1>2, <2>2, <2>3, GoingOnKeeps
<1>7. CASE FindGone(p)
  <2>. DEFINE gone == {r.id : r \in {r \in rows : r.doc \notin proc[p].present}}
              s == [proc[p] EXCEPT !.at = "drop", !.ids = gone]
  <2>1. gone \subseteq Ids
    BY <1>2 DEF Rows
  <2>2. s \in Operations /\ s.at = "drop" /\ s.op = "scan"
    BY <1>2, <1>7, <2>1 DEF FindGone, At, Operations
  <2>3. Idle \in Operations /\ Idle.at = "idle" /\ Idle.op = "idle"
    BY DEF Operations, Idle
  <2>4. /\ proc' = [proc EXCEPT ![p] = IF gone = {} THEN Idle ELSE s]
        /\ file' = file
    BY <1>2, <1>7 DEF FindGone
  <2>. QED
    BY <1>1, <1>2, <2>2, <2>3, <2>4, GoingOnKeeps
<1>. QED
  BY <1>3, <1>4, <1>5, <1>6, <1>7

-----------------------------------------------------------------------------
(* index_doc and delete_document. *)

LEMMA LockKeeps ==
  ASSUME IndexInv, NEW p \in Procs, Lock(p)
  PROVE  IndexInv'
<1>1. \A q \in Procs : proc'[q] = IF q = p THEN [proc[p] EXCEPT !.at = "look"] ELSE proc[q]
  BY DEF Lock, Goto, IndexInv, TypeOK
<1>2. /\ [proc[p] EXCEPT !.at = "look"] \in Operations
      /\ proc'[p].at = "look" /\ proc'[p].doc = proc[p].doc /\ proc'[p].text = proc[p].text
      /\ proc'[p].doc \in Docs /\ proc'[p].text \in Texts
      /\ proc' \in [Procs -> Operations]
  BY <1>1 DEF Lock, Goto, At, IndexInv, TypeOK, Operations
<1>3. lock = None /\ lock' = p /\ \A q \in Procs : q # None
  BY IndexAssumption DEF Procs, Lock
<1>4. TypeOK'
  BY <1>1, <1>2 DEF IndexInv, TypeOK, Lock
<1>5. Holding'
  BY <1>1, <1>2, <1>3 DEF IndexInv, Holding
<1>6. Clearing' /\ OneRowPerName'
  BY <1>1, <1>2, <1>3 DEF IndexInv, Clearing, OneRowPerName, Lock, RowsOf
<1>. QED
  BY <1>4, <1>5, <1>6 DEF IndexInv

LEMMA LookUpKeeps ==
  ASSUME IndexInv, NEW p \in Procs, LookUp(p)
  PROVE  IndexInv'
<1>. USE IndexAssumption
<1>1. /\ lock = p /\ proc \in [Procs -> Operations] /\ proc[p] \in Operations
      /\ proc[p].doc \in Docs /\ proc[p].text \in Texts /\ rows \subseteq Rows
  BY DEF IndexInv, TypeOK, Holding, LookUp, At
<1>2. CASE IsUnchanged(p)
  <2>1. /\ lock' = None /\ proc' = [proc EXCEPT ![p] = NextOf(proc[p])] /\ rows' = rows
        /\ file' \in [Docs -> Texts \cup {None}]
        /\ vectors' \subseteq [id : Ids, text : Texts \ {Blank}]
        /\ alone' \in Users \cup {None} /\ ops' \in 0..MaxOps /\ faults' \in 0..MaxFaults
    BY <1>1, <1>2 DEF LookUp, IndexInv, TypeOK
  <2>. QED
    BY <1>1, <2>1, NextOfIs, GoingOnKeeps
<1>3. CASE ~IsUnchanged(p)
  <2>. DEFINE ids == {r.id : r \in RowsOf(proc[p].doc)}
              s == [proc[p] EXCEPT !.at = "drop", !.ids = ids]
  <2>1. ids \subseteq Ids /\ \A r \in RowsOf(proc[p].doc) : r.id \in ids
    BY <1>1 DEF RowsOf, Rows
  <2>2. /\ s \in Operations /\ s.at = "drop" /\ s.ids = ids
        /\ s.doc = proc[p].doc /\ s.text = proc[p].text
    BY <1>1, <2>1 DEF Operations
  <2>3. /\ proc' = [proc EXCEPT ![p] = s]
        /\ UNCHANGED <<file, rows, vectors, lock, alone, ops, faults>>
    BY <1>1, <1>3 DEF LookUp
  <2>. HIDE DEF s, ids
  <2>4. \A q \in Procs : proc'[q] = IF q = p THEN s ELSE proc[q]
    BY <1>1, <2>3
  <2>5. TypeOK'
    BY <2>2, <2>3, <2>4 DEF IndexInv, TypeOK
  <2>6. Holding'
    BY <1>1, <2>2, <2>3, <2>4 DEF IndexInv, Holding
  <2>7. Clearing' /\ OneRowPerName'
    BY <1>1, <2>1, <2>2, <2>3, <2>4 DEF IndexInv, Clearing, OneRowPerName, RowsOf
  <2>. QED
    BY <2>5, <2>6, <2>7 DEF IndexInv
<1>. QED
  BY <1>2, <1>3

\* The row at hand is chosen: whatever is known of it is known on.
LEMMA FindChunkKeeps ==
  ASSUME IndexInv, NEW p \in Procs, FindChunk(p)
  PROVE  IndexInv'
<1>. USE IndexAssumption
<1>1. /\ proc \in [Procs -> Operations] /\ proc[p] \in Operations
      /\ proc[p].at = "drop"
  BY DEF IndexInv, TypeOK, FindChunk, At
<1>2. PICK id \in proc[p].ids, chunk \in BOOLEAN :
        proc' = [proc EXCEPT ![p].at = "erase", ![p].id = id, ![p].chunk = chunk]
  BY DEF FindChunk
<1>. DEFINE s == [proc[p] EXCEPT !.at = "erase", !.id = id, !.chunk = chunk]
<1>3. id \in Ids
  BY <1>1 DEF Operations
<1>4. /\ s \in Operations /\ s.at = "erase" /\ s.ids = proc[p].ids
      /\ s.doc = proc[p].doc /\ s.text = proc[p].text /\ s.op = proc[p].op
      /\ s.id \in Ids
  BY <1>1, <1>3 DEF Operations
<1>5. proc' = [proc EXCEPT ![p] = s] /\ UNCHANGED <<file, rows, vectors, lock, alone, ops, faults>>
  BY <1>1, <1>2 DEF FindChunk
<1>. HIDE DEF s
<1>6. \A q \in Procs : proc'[q] = IF q = p THEN s ELSE proc[q]
  BY <1>1, <1>5
<1>7. TypeOK'
  BY <1>4, <1>5, <1>6 DEF IndexInv, TypeOK
<1>8. Holding'
  BY <1>1, <1>4, <1>5, <1>6 DEF IndexInv, Holding
<1>9. Clearing' /\ OneRowPerName'
  BY <1>1, <1>4, <1>5, <1>6 DEF IndexInv, Clearing, OneRowPerName, RowsOf
<1>. QED
  BY <1>7, <1>8, <1>9 DEF IndexInv

\* The row goes, and who took it in hand has it in hand no more.
LEMMA DropRowKeeps ==
  ASSUME IndexInv, NEW p \in Procs, DropRow(p)
  PROVE  IndexInv'
<1>. USE IndexAssumption
<1>1. /\ proc \in [Procs -> Operations] /\ proc[p] \in Operations /\ rows \subseteq Rows
      /\ proc[p].at = "erase" /\ proc[p].id \in Ids
  BY DEF IndexInv, TypeOK, DropRow, At
<1>. PICK id : id = proc[p].id
  OBVIOUS
<1>2. PICK next \in {"drop", "vector"} :
        /\ rows' = {r \in rows : r.id # id}
        /\ proc' = [proc EXCEPT ![p].at = next, ![p].ids = @ \ {id}, ![p].chunk = FALSE]
  BY DEF DropRow
<1>. DEFINE s == [proc[p] EXCEPT !.at = next, !.ids = @ \ {id}, !.chunk = FALSE]
<1>3. id \in Ids
  BY <1>1
<1>4. /\ s \in Operations /\ s.at \in {"drop", "vector"} /\ s.ids = proc[p].ids \ {id}
      /\ s.doc = proc[p].doc /\ s.text = proc[p].text /\ s.op = proc[p].op
      /\ s.id \in Ids
  BY <1>1, <1>2, <1>3 DEF Operations
<1>5. proc' = [proc EXCEPT ![p] = s]
  BY <1>1, <1>2
<1>. HIDE DEF s
<1>6. \A q \in Procs : proc'[q] = IF q = p THEN s ELSE proc[q]
  BY <1>1, <1>5
<1>7. UNCHANGED <<file, vectors, lock, alone, ops, faults>>
  BY DEF DropRow
<1>8. TypeOK'
  BY <1>2, <1>4, <1>6, <1>7 DEF IndexInv, TypeOK
<1>9. Holding'
  BY <1>1, <1>4, <1>6, <1>7 DEF IndexInv, Holding
<1>10. Clearing'
  <2>1. ASSUME lock = p
        PROVE  \A r \in rows' : r.doc = s.doc => r.id \in s.ids
    BY <1>1, <1>2, <1>4, <2>1 DEF IndexInv, Clearing, RowsOf
  <2>2. ASSUME NEW q \in Procs, q # p
        PROVE  Clearing!(q)'
    <3>1. proc'[q] = proc[q] /\ lock' = lock /\ \A r \in rows' : r \in rows
      BY <1>2, <1>6, <1>7, <2>2
    <3>. QED
      BY <3>1 DEF IndexInv, Clearing, RowsOf
  <2>3. Clearing!(p)'
    BY <1>4, <1>6, <1>7, <2>1 DEF RowsOf
  <2>. QED
    BY <2>2, <2>3 DEF Clearing
<1>11. OneRowPerName'
  BY <1>2 DEF IndexInv, OneRowPerName
<1>. QED
  BY <1>8, <1>9, <1>10, <1>11 DEF IndexInv

LEMMA DropVectorKeeps ==
  ASSUME IndexInv, NEW p \in Procs, DropVector(p)
  PROVE  IndexInv'
<1>. USE IndexAssumption
<1>. DEFINE s == [proc[p] EXCEPT !.at = "drop", !.id = None]
<1>1. /\ proc \in [Procs -> Operations] /\ proc[p] \in Operations
      /\ proc[p].at = "vector"
  BY DEF IndexInv, TypeOK, DropVector, At
<1>2. /\ s \in Operations /\ s.at = "drop" /\ s.ids = proc[p].ids
      /\ s.doc = proc[p].doc /\ s.text = proc[p].text /\ s.op = proc[p].op
  BY <1>1 DEF Operations
<1>3. /\ proc' = [proc EXCEPT ![p] = s] /\ UNCHANGED <<file, rows, lock, alone, ops, faults>>
      /\ vectors' \subseteq vectors
  BY <1>1 DEF DropVector
<1>. HIDE DEF s
<1>4. \A q \in Procs : proc'[q] = IF q = p THEN s ELSE proc[q]
  BY <1>1, <1>3
<1>5. TypeOK'
  BY <1>2, <1>3, <1>4 DEF IndexInv, TypeOK
<1>6. Holding'
  BY <1>1, <1>2, <1>3, <1>4 DEF IndexInv, Holding
<1>7. Clearing' /\ OneRowPerName'
  BY <1>1, <1>2, <1>3, <1>4 DEF IndexInv, Clearing, OneRowPerName, RowsOf
<1>. QED
  BY <1>5, <1>6, <1>7 DEF IndexInv

LEMMA DroppedKeeps ==
  ASSUME IndexInv, NEW p \in Procs, Dropped(p)
  PROVE  IndexInv'
<1>. USE IndexAssumption
<1>1. /\ proc \in [Procs -> Operations] /\ proc[p] \in Operations
      /\ proc[p].at = "drop" /\ proc[p].ids = {}
      /\ UNCHANGED <<file, rows, vectors, alone, ops, faults>>
      /\ file' \in [Docs -> Texts \cup {None}]
      /\ vectors' \subseteq [id : Ids, text : Texts \ {Blank}]
      /\ alone' \in Users \cup {None} /\ ops' \in 0..MaxOps /\ faults' \in 0..MaxFaults
  BY DEF IndexInv, TypeOK, Dropped, At
<1>2. CASE lock = p /\ proc[p].text = Blank
  <2>1. lock' = None /\ proc' = [proc EXCEPT ![p] = NextOf(proc[p])]
    BY <1>1, <1>2 DEF Dropped
  <2>. QED
    BY <1>1, <1>2, <2>1, NextOfIs, GoingOnKeeps
<1>3. CASE lock = p /\ proc[p].text # Blank
  <2>. DEFINE s == [proc[p] EXCEPT !.at = "insert"]
  <2>1. /\ s \in Operations /\ s.at = "insert"
        /\ s.doc = proc[p].doc /\ s.text = proc[p].text
    BY <1>1 DEF Operations
  <2>2. proc' = [proc EXCEPT ![p] = s] /\ lock' = lock
    BY <1>1, <1>3 DEF Dropped
  <2>3. /\ proc[p].doc \in Docs /\ proc[p].text \in Texts
        /\ RowsOf(proc[p].doc) = {}
    BY <1>1, <1>3 DEF IndexInv, Holding, Clearing
  <2>. HIDE DEF s
  <2>4. \A q \in Procs : proc'[q] = IF q = p THEN s ELSE proc[q]
    BY <1>1, <2>2
  <2>5. TypeOK'
    BY <1>1, <1>3, <2>1, <2>2, <2>3, <2>4 DEF IndexInv, TypeOK
  <2>6. Holding'
    BY <1>1, <1>3, <2>1, <2>2, <2>3, <2>4 DEF IndexInv, Holding
  <2>7. Clearing' /\ OneRowPerName'
    BY <1>1, <2>1, <2>2, <2>3, <2>4 DEF IndexInv, Clearing, OneRowPerName, RowsOf
  <2>. QED
    BY <2>5, <2>6, <2>7 DEF IndexInv
<1>4. CASE lock # p
  <2>. DEFINE lockNext == [proc[p] EXCEPT !.at = "lock"]
              unlink == [proc[p] EXCEPT !.at = "unlink"]
              s == IF proc[p].op = "rebuild" THEN lockNext
                   ELSE IF proc[p].op = "delete" THEN unlink ELSE Idle
  <2>1. /\ lockNext \in Operations /\ lockNext.at = "lock"
        /\ lockNext.doc = proc[p].doc /\ lockNext.text = proc[p].text
        /\ unlink \in Operations /\ unlink.at = "unlink"
        /\ Idle \in Operations /\ Idle.at = "idle"
    BY <1>1 DEF Operations, Idle
  <2>2. proc[p].op = "rebuild" => proc[p].doc \in Docs /\ proc[p].text \in Texts
    BY <1>1 DEF IndexInv, Holding
  <2>3. proc' = [proc EXCEPT ![p] = s] /\ lock' = lock
    BY <1>1, <1>4 DEF Dropped
  <2>. HIDE DEF lockNext, unlink
  <2>4. /\ s \in Operations /\ s.at \in {"lock", "unlink", "idle"}
        /\ s.at = "lock" => s.doc \in Docs /\ s.text \in Texts
    BY <2>1, <2>2
  <2>. HIDE DEF s
  <2>. QED
    BY <1>1, <1>4, <2>3, <2>4, GoingOnKeeps
<1>. QED
  BY <1>2, <1>3, <1>4

\* The new row has an id of its own, and its name had none.
LEMMA NewRowFits ==
  ASSUME IndexInv, NEW p \in Procs, proc[p].at = "insert",
         NEW id \in Ids, IsNewId(id), NEW whole \in BOOLEAN,
         rows' = rows \cup {NewRow(p, id, whole)}
  PROVE  /\ lock = p /\ proc[p] \in Operations
         /\ rows' \subseteq Rows
         /\ \A r, s \in rows' : r.id = s.id => r = s
         /\ OneRowPerName'
         /\ \A r \in rows' : r \in rows \/ r.doc = proc[p].doc
<1>1. /\ lock = p /\ proc[p] \in Operations /\ rows \subseteq Rows
      /\ proc[p].doc \in Docs /\ proc[p].text \in Texts \ {Blank}
      /\ \A r, s \in rows : r.id = s.id => r = s
      /\ \A r \in rows : r.doc # proc[p].doc
      /\ \A r, s \in rows : r.doc = s.doc => r = s
  BY DEF IndexInv, TypeOK, Holding, Clearing, RowsOf, OneRowPerName
<1>2. NewRow(p, id, whole) \in Rows
  BY <1>1 DEF NewRow, Rows
<1>3. NewRow(p, id, whole).id = id /\ NewRow(p, id, whole).doc = proc[p].doc
  BY DEF NewRow
<1>. DEFINE new == NewRow(p, id, whole)
<1>. HIDE DEF new
<1>4. \A r \in rows : r.id \in Nat /\ r.id # id
  BY <1>1, IndexAssumption DEF IsNewId, Rows, Ids
<1>5. rows' = rows \cup {new} /\ new \in Rows /\ new.id = id /\ new.doc = proc[p].doc
  BY <1>2, <1>3 DEF new
<1>6. OneRowPerName'
  BY <1>1, <1>5 DEF OneRowPerName
<1>. QED
  BY <1>1, <1>4, <1>5, <1>6

LEMMA InsertKeeps ==
  ASSUME IndexInv, NEW p \in Procs, Insert(p)
  PROVE  IndexInv'
<1>. USE IndexAssumption
<1>1. PICK id \in Ids :
        /\ IsNewId(id) /\ rows' = rows \cup {NewRow(p, id, TRUE)}
        /\ proc' = [proc EXCEPT ![p].at = "embed", ![p].id = id]
  BY DEF Insert
<1>2. /\ proc[p].at = "insert" /\ UNCHANGED <<file, vectors, lock, alone, ops, faults>>
      /\ proc \in [Procs -> Operations]
      /\ proc[p].doc \in Docs /\ proc[p].text \in Texts \ {Blank}
  BY DEF Insert, At, IndexInv, TypeOK
<1>3. /\ lock = p /\ proc[p] \in Operations
      /\ rows' \subseteq Rows
      /\ \A r, s \in rows' : r.id = s.id => r = s
      /\ OneRowPerName'
      /\ \A r \in rows' : r \in rows \/ r.doc = proc[p].doc
  BY <1>1, <1>2, NewRowFits
<1>. DEFINE s == [proc[p] EXCEPT !.at = "embed", !.id = id]
<1>4. /\ s \in Operations /\ s.at = "embed" /\ s.id = id
      /\ s.doc = proc[p].doc /\ s.text = proc[p].text /\ s.op = proc[p].op
  BY <1>3 DEF Operations
<1>5. proc' = [proc EXCEPT ![p] = s]
  BY <1>1, <1>2
<1>. HIDE DEF s
<1>6. \A q \in Procs : proc'[q] = IF q = p THEN s ELSE proc[q]
  BY <1>2, <1>5
<1>7. proc' \in [Procs -> Operations]
  BY <1>2, <1>4, <1>5
<1>8. TypeOK'
  BY <1>2, <1>3, <1>4, <1>6, <1>7 DEF IndexInv, TypeOK
<1>9. Holding'
  BY <1>2, <1>3, <1>4, <1>6 DEF IndexInv, Holding
<1>10. \A q \in Procs : q # p => lock # q /\ proc[q].at # "insert"
  BY <1>3 DEF IndexInv, Holding
<1>11. Clearing'
  BY <1>2, <1>4, <1>6, <1>10 DEF Clearing
<1>. QED
  BY <1>3, <1>8, <1>9, <1>11 DEF IndexInv

LEMMA EmbedKeeps ==
  ASSUME IndexInv, NEW p \in Procs, Embed(p)
  PROVE  IndexInv'
<1>. USE IndexAssumption
<1>1. /\ lock = p /\ proc[p] \in Operations
      /\ proc[p].id \in Ids /\ proc[p].text \in Texts \ {Blank}
      /\ vectors \subseteq [id : Ids, text : Texts \ {Blank}]
      /\ file' \in [Docs -> Texts \cup {None}] /\ rows' = rows
      /\ alone' \in Users \cup {None} /\ ops' \in 0..MaxOps /\ faults' \in 0..MaxFaults
  BY DEF Embed, At, IndexInv, TypeOK, Holding
<1>2. /\ vectors' \subseteq [id : Ids, text : Texts \ {Blank}]
      /\ lock' = None /\ proc' = [proc EXCEPT ![p] = NextOf(proc[p])]
  BY <1>1 DEF Embed
<1>. QED
  BY <1>1, <1>2, NextOfIs, GoingOnKeeps

-----------------------------------------------------------------------------
(* Failures. *)

LEMMA AfterErrorIs ==
  ASSUME IndexInv, NEW p \in Procs, NEW id
  PROVE  LET s == AfterError(p, id)
         IN  /\ s \in Operations
             /\ s.at \in {"read", "gone", "idle", "drop"}
             /\ s.at = "read" => s.todo # {}
             /\ s.at = "drop" => s.op = "scan"
<1>. DEFINE s == [proc[p] EXCEPT !.clean = FALSE]
            t == [s EXCEPT !.at = "drop", !.ids = @ \ {id}]
<1>1. proc[p] \in Operations
  BY DEF IndexInv, TypeOK
<1>2. s \in Operations /\ s.op = proc[p].op
  BY <1>1 DEF Operations
<1>3. Idle \in Operations /\ Idle.at = "idle"
  BY DEF Operations, Idle
<1>4. s.op = "scan" => t \in Operations /\ t.at = "drop" /\ t.op = "scan"
  <2>. HIDE DEF s
  <2>. QED
    BY <1>2 DEF Operations
<1>5. AfterError(p, id) = IF lock = p THEN NextOf(s)
                          ELSE IF s.op = "scan" /\ id # None THEN t ELSE Idle
  BY DEF AfterError
<1>. HIDE DEF s, t
<1>6. CASE lock = p
  BY <1>2, <1>5, <1>6, NextOfIs
<1>7. CASE lock # p
  BY <1>3, <1>4, <1>5, <1>7
<1>. QED
  BY <1>6, <1>7

LEMMA ErrsKeeps ==
  ASSUME IndexInv, NEW p \in Procs, NEW id, Errs(p, id),
         rows' = rows \/ (\E i \in Ids : rows' = {[r EXCEPT !.whole = @ /\ r.id # i] : r \in rows})
  PROVE  IndexInv'
<1>1. /\ proc' = [proc EXCEPT ![p] = AfterError(p, id)]
      /\ lock' = IF lock = p THEN None ELSE lock
      /\ file' \in [Docs -> Texts \cup {None}]
      /\ vectors' \subseteq [id : Ids, text : Texts \ {Blank}]
      /\ alone' \in Users \cup {None} /\ ops' \in 0..MaxOps /\ faults' \in 0..MaxFaults
  BY IndexAssumption DEF Errs, IndexInv, TypeOK
<1>. QED
  BY <1>1, AfterErrorIs, GoingOnKeeps

LEMMA InsertsHalfKeeps ==
  ASSUME IndexInv, NEW p \in Procs, InsertsHalf(p)
  PROVE  IndexInv'
<1>. USE IndexAssumption
<1>1. PICK id \in Ids : IsNewId(id) /\ rows' = rows \cup {NewRow(p, id, FALSE)}
  BY DEF InsertsHalf
<1>2. proc[p].at = "insert" /\ Errs(p, None)
  BY DEF InsertsHalf, At
<1>3. /\ lock = p /\ rows' \subseteq Rows
      /\ \A r, s \in rows' : r.id = s.id => r = s
      /\ OneRowPerName'
  BY <1>1, <1>2, NewRowFits
<1>. DEFINE s == AfterError(p, None)
<1>4. /\ proc' = [proc EXCEPT ![p] = s] /\ lock' = None
      /\ UNCHANGED <<file, vectors, alone, ops>> /\ faults' \in 0..MaxFaults
      /\ proc \in [Procs -> Operations]
  BY <1>2, <1>3 DEF Errs, IndexInv, TypeOK
<1>5. s \in Operations /\ s.at \in {"read", "gone", "idle"} /\ (s.at = "read" => s.todo # {})
  <2>1. proc[p] \in Operations
    BY DEF IndexInv, TypeOK
  <2>2. [proc[p] EXCEPT !.clean = FALSE] \in Operations
    BY <2>1 DEF Operations
  <2>3. s = NextOf([proc[p] EXCEPT !.clean = FALSE])
    BY <1>3 DEF AfterError
  <2>. QED
    BY <2>2, <2>3, NextOfIs
<1>. HIDE DEF s
<1>6. \A q \in Procs : proc'[q] = IF q = p THEN s ELSE proc[q]
  BY <1>4
<1>7. \A q \in Procs : q # None /\ (q # p => lock # q /\ proc[q].at \notin {"look", "insert", "embed"})
  BY <1>3 DEF IndexInv, Holding, Procs
<1>8. TypeOK'
  BY <1>3, <1>4, <1>5, <1>6 DEF IndexInv, TypeOK
<1>9. Holding'
  BY <1>4, <1>5, <1>6, <1>7 DEF IndexInv, Holding
<1>10. Clearing'
  BY <1>4, <1>5, <1>6, <1>7 DEF Clearing
<1>. QED
  BY <1>3, <1>8, <1>9, <1>10 DEF IndexInv

LEMMA CrashKeeps ==
  ASSUME IndexInv, Crash
  PROVE  IndexInv'
<1>1. \A q \in Procs : proc'[q] = Idle /\ q # None
  BY IndexAssumption DEF Crash, Procs
<1>2. Idle \in Operations /\ Idle.at = "idle" /\ Idle.op = "idle"
  BY DEF Operations, Idle
<1>3. proc' \in [Procs -> Operations]
  BY <1>2 DEF Crash
<1>4. /\ lock' = None /\ alone' = None /\ UNCHANGED <<file, rows, vectors, ops>>
      /\ faults' \in 0..MaxFaults
  BY IndexAssumption DEF Crash, IndexInv, TypeOK
<1>5. TypeOK'
  BY <1>1, <1>2, <1>3, <1>4 DEF IndexInv, TypeOK
<1>6. Holding' /\ Clearing' /\ OneRowPerName'
  BY <1>1, <1>2 DEF IndexInv, Holding, Clearing, OneRowPerName, Crash
<1>. QED
  BY <1>5, <1>6 DEF IndexInv

-----------------------------------------------------------------------------
LEMMA NextKeeps ==
  ASSUME IndexInv, [Next]_vars
  PROVE  IndexInv'
<1>1. CASE UNCHANGED vars
  BY <1>1 DEF IndexInv, TypeOK, Holding, Clearing, RowsOf, OneRowPerName, vars
<1>2. ASSUME NEW p \in Procs, Step(p) PROVE IndexInv'
  BY <1>2, UnlockedKeeps, LockKeeps, LookUpKeeps, FindChunkKeeps, DropRowKeeps, DropVectorKeeps,
     DroppedKeeps, InsertKeeps, EmbedKeeps DEF Step
<1>3. ASSUME NEW p \in Procs, Fails(p) PROVE IndexInv'
  BY <1>3, ErrsKeeps DEF Fails
<1>4. ASSUME NEW p \in Procs, DropsHalf(p) PROVE IndexInv'
  <2>1. /\ rows' = {[r EXCEPT !.whole = @ /\ r.id # proc[p].id] : r \in rows}
        /\ Errs(p, proc[p].id) /\ proc[p].at = "erase"
    BY <1>4 DEF DropsHalf, At
  <2>2. proc[p].id \in Ids
    BY <2>1 DEF IndexInv, TypeOK
  <2>. QED
    BY <2>1, <2>2, ErrsKeeps
<1>. QED
  BY <1>1, <1>2, <1>3, <1>4, ChangeFileKeeps, ScanStartsKeeps, CrashKeeps, RequestKeeps,
     InsertsHalfKeeps DEF Next, Procs

\* The inductive invariant of the index: types, what the holder of the lock has
\* in hand, and that between the drops of index_doc and its insert no row of
\* the document appears, because every other insert needs the lock.
THEOREM IndexInvHolds == Spec => []IndexInv
<1>1. Init => IndexInv
  BY InitIndex
<1>2. IndexInv /\ [Next]_vars => IndexInv'
  BY NextKeeps
<1>. QED
  BY <1>1, <1>2, PTL DEF Spec

\* The index keeps its types: row ids stay distinct although they are used again.
THEOREM IndexTypes == Spec => []TypeOK
<1>1. IndexInv => TypeOK
  BY DEF IndexInv
<1>. QED
  BY <1>1, IndexInvHolds, PTL

\* A document never has two rows: index_doc drops what it finds and inserts in
\* one hold of the lock, whatever scans, rebuilds, deletions and failures do
\* between its calls (files.rs).
THEOREM NamesHaveOneRow == Spec => []OneRowPerName
<1>1. IndexInv => OneRowPerName
  BY DEF IndexInv
<1>. QED
  BY <1>1, IndexInvHolds, PTL

-----------------------------------------------------------------------------
(* A rebuild beside which nothing is at work. *)

\* What has ended holds nothing.
Ended == \A p \in Procs : proc[p].at = "idle" => proc[p] = Idle

\* While a rebuild is alone nothing else is at work.
Quiet == \A p \in Users : alone = p => \A q \in Procs \ {p} : proc[q] = Idle

\* Files that the walk has behind it, and the one at hand left out.
Behind(s) == Docs \ (s.todo \cup {s.doc})

Restored(D) == \A d \in D : Indexed(d) # None => Complete(d)

\* A rebuild without an error has restored what it has behind it.  The rows of the
\* document at hand are gone before index_doc looks at them, so that it cannot take
\* a row that is not whole for unchanged, and no row has the id of a vector that is
\* about to go.
Rebuilds(s) ==
  /\ s.at \in {"read", "force", "drop", "erase", "vector", "lock", "look", "insert", "embed"}
  /\ s.todo \subseteq Tree
  /\ s.at = "read" => s.doc = None
  /\ s.at # "read" => s.doc \in Docs /\ s.text = file[s.doc]
  /\ s.clean => Restored(Behind(s))
  /\ s.at \in {"drop", "erase", "vector"} =>
       \A r \in rows : r.doc = s.doc <=> r.id \in s.ids
  /\ s.at = "erase" => s.id \in s.ids
  /\ s.at = "vector" => \A r \in rows : r.id # s.id
  /\ s.at \in {"lock", "look", "insert"} => RowsOf(s.doc) = {}
  /\ s.at = "embed" =>
       \E r \in rows : r.id = s.id /\ r.doc = s.doc /\ r.text = s.text /\ r.whole

RebuildInv ==
  \A p \in Users : alone = p /\ proc[p].op = "rebuild" => Rebuilds(proc[p])

AloneInv == IndexInv /\ Ended /\ Quiet /\ RebuildInv

LEMMA InitAlone == ASSUME Init PROVE AloneInv
<1>1. Ended /\ Quiet /\ RebuildInv
  BY IndexAssumption DEF Init, Ended, Quiet, RebuildInv, Idle
<1>. QED
  BY <1>1, InitIndex DEF AloneInv

\* Where a walk goes on.
LEMMA NextOfWalks ==
  ASSUME NEW s \in Operations
  PROVE  /\ NextOf(s).at = "idle" => NextOf(s) = Idle
         /\ NextOf(s).op = "rebuild" =>
              /\ s.op = "rebuild" /\ s.todo # {}
              /\ NextOf(s).at = "read" /\ NextOf(s).doc = None
              /\ NextOf(s).todo = s.todo /\ NextOf(s).clean = s.clean
         /\ NextOf(s) = Idle => s.todo = {}
  BY DEF NextOf, Operations, Idle

\* What a step of its own makes of an operation.
Ahead(p) ==
  \E s \in Operations :
    /\ proc' = [proc EXCEPT ![p] = s]
    /\ s.at = "idle" => s = Idle
    /\ s.op = "rebuild" => proc[p].op = "rebuild"

LEMMA NextOfAhead ==
  ASSUME IndexInv, NEW p \in Procs, NEW s \in Operations, s.op = proc[p].op,
         proc' = [proc EXCEPT ![p] = NextOf(s)]
  PROVE  Ahead(p)
  BY NextOfIs, NextOfWalks DEF Ahead

LEMMA StepAhead ==
  ASSUME IndexInv, NEW p \in Procs,
         Step(p) \/ Fails(p) \/ InsertsHalf(p) \/ DropsHalf(p)
  PROVE  proc[p].at # "idle" /\ Ahead(p)
<1>. USE IndexAssumption
<1>1. /\ proc \in [Procs -> Operations] /\ proc[p] \in Operations /\ rows \subseteq Rows
      /\ file \in [Docs -> Texts \cup {None}]
      /\ Idle \in Operations /\ Idle.op = "idle"
  BY DEF IndexInv, TypeOK, Operations, Idle
<1>2. proc[p].at # "idle"
  BY DEF Step, Fails, InsertsHalf, DropsHalf, Read, FindRows, FindGone, EditWrites, Unlink, Lock,
         LookUp, FindChunk, DropRow, DropVector, Dropped, Insert, Embed, At
<1>. SUFFICES Ahead(p)
  BY <1>2
<1>3. ASSUME NEW at \in {"lock", "look", "drop"}, Goto(p, at)
      PROVE  Ahead(p)
  <2>1. /\ [proc[p] EXCEPT !.at = at] \in Operations
        /\ [proc[p] EXCEPT !.at = at].at # "idle"
        /\ [proc[p] EXCEPT !.at = at].op = proc[p].op
    BY <1>1 DEF Operations
  <2>. QED
    BY <1>1, <1>3, <2>1 DEF Ahead, Goto
<1>4. CASE Read(p)
  <2>1. PICK d \in Docs :
          LET s == [proc[p] EXCEPT !.todo = @ \ {d}, !.doc = d, !.text = file[d]]
          IN  proc' = [proc EXCEPT ![p] =
                IF file[d] = None THEN NextOf([s EXCEPT !.clean = FALSE])
                ELSE [s EXCEPT !.present = @ \cup {d},
                               !.at = IF s.op = "scan" THEN "lock" ELSE "force"]]
    BY <1>4 DEF Read
  <2>. DEFINE s == [proc[p] EXCEPT !.todo = @ \ {d}, !.doc = d, !.text = file[d]]
              gone == [s EXCEPT !.clean = FALSE]
              read == [s EXCEPT !.present = @ \cup {d},
                                !.at = IF s.op = "scan" THEN "lock" ELSE "force"]
  <2>2. s \in Operations /\ s.op = proc[p].op
    BY <1>1 DEF Operations
  <2>3. proc' = [proc EXCEPT ![p] = IF file[d] = None THEN NextOf(gone) ELSE read]
    BY <2>1
  <2>. HIDE DEF s
  <2>4. gone \in Operations /\ gone.op = proc[p].op
    BY <2>2 DEF Operations
  <2>5. read \in Operations /\ read.op = proc[p].op /\ read.at # "idle"
    BY <2>2 DEF Operations
  <2>. HIDE DEF gone, read
  <2>. QED
    BY <2>3, <2>4, <2>5, NextOfAhead DEF Ahead
<1>5. CASE FindRows(p)
  <2>. DEFINE ids == {r.id : r \in RowsOf(proc[p].doc)}
              s == [proc[p] EXCEPT !.at = "drop", !.ids = ids]
  <2>1. ids \subseteq Ids
    BY <1>1 DEF RowsOf, Rows
  <2>2. s \in Operations /\ s.at = "drop" /\ s.op = proc[p].op
    BY <1>1, <2>1 DEF Operations
  <2>3. proc' = [proc EXCEPT ![p] = s]
    BY <1>1, <1>5 DEF FindRows
  <2>. QED
    BY <2>2, <2>3 DEF Ahead
<1>6. CASE FindGone(p)
  <2>. DEFINE gone == {r.id : r \in {r \in rows : r.doc \notin proc[p].present}}
              s == [proc[p] EXCEPT !.at = "drop", !.ids = gone]
  <2>1. gone \subseteq Ids
    BY <1>1 DEF Rows
  <2>2. s \in Operations /\ s.at = "drop" /\ s.op = proc[p].op
    BY <1>1, <2>1 DEF Operations
  <2>3. proc' = [proc EXCEPT ![p] = IF gone = {} THEN Idle ELSE s]
    BY <1>6 DEF FindGone
  <2>. QED
    BY <1>1, <2>2, <2>3 DEF Ahead
<1>7. CASE Unlink(p)
  BY <1>1, <1>7 DEF Ahead, Unlink
<1>8. CASE LookUp(p)
  <2>. DEFINE ids == {r.id : r \in RowsOf(proc[p].doc)}
              s == [proc[p] EXCEPT !.at = "drop", !.ids = ids]
  <2>1. ids \subseteq Ids
    BY <1>1 DEF RowsOf, Rows
  <2>2. s \in Operations /\ s.at = "drop" /\ s.op = proc[p].op
    BY <1>1, <2>1 DEF Operations
  <2>3. CASE IsUnchanged(p)
    <3>1. proc' = [proc EXCEPT ![p] = NextOf(proc[p])]
      BY <1>8, <2>3 DEF LookUp
    <3>. QED
      BY <1>1, <3>1, NextOfAhead
  <2>4. CASE ~IsUnchanged(p)
    <3>1. proc' = [proc EXCEPT ![p] = s]
      BY <1>1, <1>8, <2>4 DEF LookUp
    <3>. QED
      BY <2>2, <3>1 DEF Ahead
  <2>. QED
    BY <2>3, <2>4
<1>9. CASE FindChunk(p) \/ DropRow(p)
  <2>1. CASE FindChunk(p)
    <3>1. PICK id \in proc[p].ids, chunk \in BOOLEAN :
            proc' = [proc EXCEPT ![p].at = "erase", ![p].id = id, ![p].chunk = chunk]
      BY <2>1 DEF FindChunk
    <3>. DEFINE s == [proc[p] EXCEPT !.at = "erase", !.id = id, !.chunk = chunk]
    <3>2. s \in Operations /\ s.at # "idle" /\ s.op = proc[p].op
      BY <1>1 DEF Operations
    <3>3. proc' = [proc EXCEPT ![p] = s]
      BY <1>1, <3>1
    <3>. QED
      BY <3>2, <3>3 DEF Ahead
  <2>2. CASE DropRow(p)
    <3>1. PICK next \in {"drop", "vector"} :
            proc' = [proc EXCEPT ![p].at = next, ![p].ids = @ \ {proc[p].id}, ![p].chunk = FALSE]
      BY <2>2 DEF DropRow
    <3>. DEFINE s == [proc[p] EXCEPT !.at = next, !.ids = @ \ {proc[p].id}, !.chunk = FALSE]
    <3>2. s \in Operations /\ s.at # "idle" /\ s.op = proc[p].op
      BY <1>1 DEF Operations
    <3>3. proc' = [proc EXCEPT ![p] = s]
      BY <1>1, <3>1
    <3>. QED
      BY <3>2, <3>3 DEF Ahead
  <2>. QED
    BY <1>9, <2>1, <2>2
<1>10. CASE DropVector(p)
  <2>. DEFINE s == [proc[p] EXCEPT !.at = "drop", !.id = None]
  <2>1. s \in Operations /\ s.at = "drop" /\ s.op = proc[p].op
    BY <1>1 DEF Operations
  <2>2. proc' = [proc EXCEPT ![p] = s]
    BY <1>1, <1>10 DEF DropVector
  <2>. QED
    BY <2>1, <2>2 DEF Ahead
<1>11. CASE Dropped(p)
  <2>1. \A at \in {"insert", "lock", "unlink"} :
          /\ [proc[p] EXCEPT !.at = at] \in Operations
          /\ [proc[p] EXCEPT !.at = at].at # "idle"
          /\ [proc[p] EXCEPT !.at = at].op = proc[p].op
    BY <1>1 DEF Operations
  <2>2. CASE lock = p /\ proc[p].text = Blank
    <3>1. proc' = [proc EXCEPT ![p] = NextOf(proc[p])]
      BY <1>11, <2>2 DEF Dropped
    <3>. QED
      BY <1>1, <3>1, NextOfAhead
  <2>3. CASE ~(lock = p /\ proc[p].text = Blank)
    <3>1. \/ \E at \in {"insert", "lock", "unlink"} :
               proc' = [proc EXCEPT ![p] = [proc[p] EXCEPT !.at = at]]
          \/ proc' = [proc EXCEPT ![p] = Idle]
      BY <1>11, <2>3 DEF Dropped
    <3>. QED
      BY <1>1, <2>1, <3>1 DEF Ahead
  <2>. QED
    BY <2>2, <2>3
<1>12. CASE Insert(p)
  <2>1. PICK id \in Ids : proc' = [proc EXCEPT ![p].at = "embed", ![p].id = id]
    BY <1>12 DEF Insert
  <2>. DEFINE s == [proc[p] EXCEPT !.at = "embed", !.id = id]
  <2>2. s \in Operations /\ s.at # "idle" /\ s.op = proc[p].op
    BY <1>1 DEF Operations
  <2>3. proc' = [proc EXCEPT ![p] = s]
    BY <1>1, <2>1
  <2>. QED
    BY <2>2, <2>3 DEF Ahead
<1>13. CASE Embed(p)
  <2>1. proc' = [proc EXCEPT ![p] = NextOf(proc[p])]
    BY <1>13 DEF Embed
  <2>. QED
    BY <1>1, <2>1, NextOfAhead
<1>14. CASE Fails(p) \/ InsertsHalf(p) \/ DropsHalf(p)
  <2>1. PICK id : proc' = [proc EXCEPT ![p] = AfterError(p, id)]
    BY <1>14 DEF Fails, InsertsHalf, DropsHalf, Errs
  <2>. DEFINE s == [proc[p] EXCEPT !.clean = FALSE]
              left == [s EXCEPT !.at = "drop", !.ids = @ \ {id}]
  <2>2. s \in Operations /\ s.op = proc[p].op
    BY <1>1 DEF Operations
  <2>3. AfterError(p, id) \in {NextOf(s), left, Idle}
    BY DEF AfterError
  <2>. HIDE DEF s
  <2>4. left \in Operations /\ left.at = "drop" /\ left.op = proc[p].op
    BY <2>2 DEF Operations
  <2>. HIDE DEF left
  <2>. QED
    BY <1>1, <2>1, <2>2, <2>3, <2>4, NextOfAhead DEF Ahead
<1>. QED
  BY <1>3, <1>4, <1>5, <1>6, <1>7, <1>8, <1>9, <1>10, <1>11, <1>12, <1>13, <1>14
     DEF Step, Lock, EditWrites

\* An operation starts; a rebuild is alone if nothing else is at work.
Starting(p) ==
  /\ proc[p] = Idle
  /\ \E s \in Operations : proc' = [proc EXCEPT ![p] = s] /\ s.at # "idle"
  /\ \/ alone' = None
     \/ alone' = p /\ RebuildStarts(p) /\ \A q \in Procs : proc[q] = Idle

LEMMA OneMoves ==
  ASSUME AloneInv, Next
  PROVE  \/ alone' = None /\ proc' = proc
         \/ Crash
         \/ \E p \in Procs : Starting(p)
         \/ \E p \in Procs : /\ Step(p) \/ Fails(p) \/ InsertsHalf(p) \/ DropsHalf(p)
                             /\ proc[p].at # "idle" /\ Ahead(p) /\ alone' = alone
<1>. USE IndexAssumption
<1>1. /\ proc \in [Procs -> Operations] /\ file \in [Docs -> Texts \cup {None}]
      /\ rows \subseteq Rows /\ Users \subseteq Procs /\ Scanner \in Procs
  BY DEF AloneInv, IndexInv, TypeOK, Procs
<1>2. ASSUME NEW p \in Procs, proc[p].at = "idle"
      PROVE  proc[p] = Idle
  BY <1>2 DEF AloneInv, Ended
<1>3. ASSUME NEW d \in Docs, NEW t \in (Texts \ {Torn}) \cup {None}, ChangeFile(d, t)
      PROVE  alone' = None /\ proc' = proc
  BY <1>3 DEF ChangeFile
<1>4. CASE ScanStarts
  <2>. DEFINE s == [Idle EXCEPT !.op = "scan", !.todo = Tree]
  <2>1. s \in Operations /\ s.op = "scan"
    BY DEF Operations, Idle, Tree
  <2>2. NextOf(s).at # "idle"
    BY DEF NextOf, Idle
  <2>3. NextOf(s) \in Operations /\ proc' = [proc EXCEPT ![Scanner] = NextOf(s)]
    BY <1>4, <2>1, NextOfIs DEF ScanStarts
  <2>4. proc[Scanner] = Idle /\ alone' = None
    BY <1>1, <1>2, <1>4 DEF ScanStarts
  <2>. QED
    BY <1>1, <2>2, <2>3, <2>4 DEF Starting
<1>5. ASSUME NEW p \in Users, Request(p)
      PROVE  Starting(p)
  <2>1. ASSUME NEW s \in Operations, Starts(p, s), s.at # "idle",
               s.op = "rebuild" => RebuildStarts(p)
        PROVE  Starting(p)
    <3>1. proc[p] = Idle /\ proc' = [proc EXCEPT ![p] = s]
      BY <1>1, <1>2, <2>1 DEF Starts
    <3>2. \/ alone' = None
          \/ alone' = p /\ RebuildStarts(p) /\ \A q \in Procs : proc[q].at = "idle"
      BY <2>1 DEF Starts
    <3>. QED
      BY <1>2, <2>1, <3>1, <3>2 DEF Starting
  <2>2. ASSUME NEW d \in Docs, NEW t \in Texts, SaveStarts(p, d, t) PROVE Starting(p)
    <3>. DEFINE s == [Idle EXCEPT !.op = "save", !.at = "lock", !.doc = d, !.text = t]
    <3>1. s \in Operations /\ s.at = "lock" /\ s.op = "save"
      BY DEF Operations, Idle
    <3>. QED
      BY <2>1, <2>2, <3>1 DEF SaveStarts
  <2>3. ASSUME NEW d \in Docs, NEW t \in Texts, EditStarts(p, d, t) PROVE Starting(p)
    <3>. DEFINE s == [Idle EXCEPT !.op = "edit", !.at = "write", !.doc = d, !.text = t]
    <3>1. s \in Operations /\ s.at = "write" /\ s.op = "edit"
      BY DEF Operations, Idle
    <3>. QED
      BY <2>1, <2>3, <3>1 DEF EditStarts
  <2>4. ASSUME NEW r \in rows, DeleteStarts(p, r) PROVE Starting(p)
    <3>. DEFINE s == [Idle EXCEPT !.op = "delete", !.at = "drop", !.doc = r.doc, !.ids = {r.id}]
    <3>1. s \in Operations /\ s.at = "drop" /\ s.op = "delete"
      BY <1>1 DEF Operations, Idle, Rows
    <3>. QED
      BY <2>1, <2>4, <3>1 DEF DeleteStarts
  <2>5. CASE RebuildStarts(p)
    <3>. DEFINE s == [Idle EXCEPT !.op = "rebuild", !.at = "read", !.todo = Tree]
    <3>1. s \in Operations /\ s.at = "read"
      BY DEF Operations, Idle, Tree
    <3>. QED
      BY <2>1, <2>5, <3>1 DEF RebuildStarts
  <2>. QED
    BY <1>5, <2>2, <2>3, <2>4, <2>5 DEF Request
<1>6. ASSUME NEW p \in Procs, Step(p) \/ Fails(p) \/ InsertsHalf(p) \/ DropsHalf(p)
      PROVE  proc[p].at # "idle" /\ Ahead(p) /\ alone' = alone
  <2>1. alone' = alone
    BY <1>6 DEF Step, Fails, InsertsHalf, DropsHalf, Errs, Read, FindRows, FindGone, EditWrites,
                Unlink, Lock, LookUp, FindChunk, DropRow, DropVector, Dropped, Insert, Embed
  <2>. QED
    BY <1>6, <2>1, StepAhead DEF AloneInv
<1>. QED
  BY <1>1, <1>3, <1>4, <1>5, <1>6 DEF Next

LEMMA QuietNext ==
  ASSUME AloneInv, [Next]_vars
  PROVE  Ended' /\ Quiet'
<1>. USE IndexAssumption
<1>1. proc \in [Procs -> Operations] /\ Idle.at = "idle" /\ Users \subseteq Procs
  BY DEF AloneInv, IndexInv, TypeOK, Idle, Procs
<1>2. CASE proc' = proc /\ alone' \in {alone, None}
  BY <1>2 DEF AloneInv, Ended, Quiet
<1>3. CASE Crash
  BY <1>3 DEF Crash, Ended, Quiet
<1>4. ASSUME NEW p \in Procs, NEW s \in Operations, proc' = [proc EXCEPT ![p] = s],
             s.at = "idle" => s = Idle,
             alone' \in Users => alone' = p /\ \A q \in Procs \ {p} : proc[q] = Idle
      PROVE  Ended' /\ Quiet'
  <2>1. \A q \in Procs : proc'[q] = IF q = p THEN s ELSE proc[q]
    BY <1>1, <1>4
  <2>2. Ended'
    BY <1>4, <2>1 DEF AloneInv, Ended
  <2>3. Quiet'
    BY <1>1, <1>4, <2>1 DEF Quiet
  <2>. QED
    BY <2>2, <2>3
<1>5. ASSUME NEW p \in Procs, Starting(p) PROVE Ended' /\ Quiet'
  <2>1. PICK s \in Operations : proc' = [proc EXCEPT ![p] = s] /\ s.at # "idle"
    BY <1>5 DEF Starting
  <2>2. alone' \in Users => alone' = p /\ \A q \in Procs \ {p} : proc[q] = Idle
    BY <1>5 DEF Starting
  <2>. QED
    BY <1>4, <2>1, <2>2
<1>6. ASSUME NEW p \in Procs, proc[p].at # "idle", Ahead(p), alone' = alone
      PROVE  Ended' /\ Quiet'
  <2>1. alone \in Users => alone = p /\ \A q \in Procs \ {p} : proc[q] = Idle
    BY <1>1, <1>6 DEF AloneInv, Quiet
  <2>2. PICK s \in Operations : proc' = [proc EXCEPT ![p] = s] /\ (s.at = "idle" => s = Idle)
    BY <1>6 DEF Ahead
  <2>. QED
    BY <1>4, <1>6, <2>1, <2>2
<1>. QED
  BY <1>2, <1>3, <1>5, <1>6, OneMoves DEF vars

\* What is restored stays so while its rows and vectors do.
LEMMA RestoredStays ==
  ASSUME NEW D \in SUBSET Docs, Restored(D), file' = file,
         \A r \in rows : r.doc \in D => r \in rows',
         \A v \in vectors : (\E r \in rows : r.doc \in D /\ r.id = v.id) => v \in vectors'
  PROVE  Restored(D)'
  BY DEF Restored, Indexed, Complete, RowsOf

\* The steps of a rebuild.  What it comes to is either the next step of a rebuild,
\* or, if nothing failed, everything restored.
Advances(p) ==
  /\ proc'[p].op = "rebuild" => Rebuilds(proc[p])'
  /\ proc'[p] = Idle /\ proc[p].clean /\ faults' = faults =>
       file' = file /\ Restored(Docs)'

\* The operation at hand is a rebuild, and it is alone.
AtWork(p) ==
  /\ AloneInv /\ p \in Procs /\ proc[p].op = "rebuild"
  /\ Rebuilds(proc[p]) /\ proc[p] \in Operations /\ proc \in [Procs -> Operations]
  /\ rows \subseteq Rows /\ \A r, o \in rows : r.id = o.id => r = o

LEMMA IsAtWork ==
  ASSUME AloneInv, NEW p \in Users, alone = p, proc[p].op = "rebuild"
  PROVE  AtWork(p)
  BY DEF AtWork, AloneInv, IndexInv, TypeOK, RebuildInv, Procs

\* The walk goes on from a document that is restored, or has nothing to index.
LEMMA WalkGoesOn ==
  ASSUME NEW p, AtWork(p),
         NEW s \in Operations, s.op = "rebuild", s.todo = proc[p].todo,
         proc' = [proc EXCEPT ![p] = NextOf(s)], file' = file,
         s.clean => Restored(Docs \ s.todo)',
         faults' = faults /\ proc[p].clean => s.clean
  PROVE  Advances(p)
<1>. USE IndexAssumption
<1>1. proc'[p] = NextOf(s) /\ s.todo \subseteq Tree /\ Tree' = Tree
  BY DEF AtWork, Rebuilds, Tree
<1>2. ASSUME proc'[p].op = "rebuild" PROVE Rebuilds(proc[p])'
  <2>1. /\ proc'[p].at = "read" /\ proc'[p].doc = None
        /\ proc'[p].todo = s.todo /\ proc'[p].clean = s.clean
    BY <1>1, <1>2, NextOfWalks
  <2>2. Behind(proc[p])' = Docs \ s.todo
    BY <2>1 DEF Behind
  <2>3. (proc[p].clean => Restored(Behind(proc[p])))'
    BY <2>1, <2>2 DEF Restored
  <2>. QED
    BY <1>1, <2>1, <2>3 DEF Rebuilds
<1>3. ASSUME proc'[p] = Idle, proc[p].clean, faults' = faults PROVE Restored(Docs)'
  BY <1>1, <1>3, NextOfWalks DEF Restored
<1>. QED
  BY <1>2, <1>3 DEF Advances

\* A step to s that does not end it.
LEMMA RebuildGoes ==
  ASSUME NEW p \in Procs, proc \in [Procs -> Operations],
         NEW s \in Operations, proc' = [proc EXCEPT ![p] = s], s.op = "rebuild",
         Rebuilds(s)'
  PROVE  Advances(p)
<1>1. proc'[p] = s /\ s # Idle
  BY DEF Idle
<1>2. Rebuilds(proc[p])'
  BY <1>1 DEF Rebuilds, Behind
<1>. QED
  BY <1>1, <1>2 DEF Advances

LEMMA ReadRebuilds ==
  ASSUME NEW p, AtWork(p), Read(p)
  PROVE  Advances(p)
<1>. USE IndexAssumption
<1>1. PICK d \in proc[p].todo :
        LET s == [proc[p] EXCEPT !.todo = @ \ {d}, !.doc = d, !.text = file[d]]
        IN  proc' = [proc EXCEPT ![p] =
              IF file[d] = None THEN NextOf([s EXCEPT !.clean = FALSE])
              ELSE [s EXCEPT !.present = @ \cup {d},
                             !.at = IF s.op = "scan" THEN "lock" ELSE "force"]]
  BY DEF Read, IsFirst
<1>. PICK s : s = [proc[p] EXCEPT !.todo = @ \ {d}, !.doc = d, !.text = file[d],
                                  !.present = @ \cup {d}, !.at = "force"]
  OBVIOUS
<1>2. d \in Docs /\ file[d] # None /\ file[d] \in Texts
  BY DEF AtWork, Rebuilds, Tree, AloneInv, IndexInv, TypeOK
<1>3. /\ s \in Operations /\ s.at = "force" /\ s.doc = d /\ s.text = file[d]
      /\ s.todo = proc[p].todo \ {d} /\ s.op = "rebuild" /\ s.clean = proc[p].clean
  BY <1>2 DEF AtWork, Operations
<1>4. proc' = [proc EXCEPT ![p] = s]
  BY <1>1, <1>2 DEF AtWork, Operations
<1>5. proc[p].at = "read" /\ proc[p].doc = None /\ UNCHANGED <<file, rows, vectors>>
  BY DEF Read, At, AtWork, Rebuilds
<1>6. Behind(s) = Behind(proc[p])
  BY <1>2, <1>3, <1>5 DEF Behind
<1>7. s.clean => Restored(Behind(s))'
  BY <1>3, <1>5, <1>6 DEF AtWork, Rebuilds, Restored, Indexed, Complete, RowsOf
<1>8. Rebuilds(s)'
  BY <1>2, <1>3, <1>5, <1>7 DEF AtWork, Rebuilds, Tree, Behind, Restored
<1>. QED
  BY <1>3, <1>4, <1>8, RebuildGoes DEF AtWork

\* The rows of its document are taken in hand.
LEMMA FindRowsRebuilds ==
  ASSUME NEW p, AtWork(p), FindRows(p) \/ (LookUp(p) /\ ~IsUnchanged(p))
  PROVE  Advances(p)
<1>. PICK ids : ids = {r.id : r \in RowsOf(proc[p].doc)}
  OBVIOUS
<1>0. ids \in SUBSET Ids
  BY DEF AtWork, RowsOf, Rows
<1>. PICK s : s = [proc[p] EXCEPT !.at = "drop", !.ids = ids]
  OBVIOUS
<1>1. /\ s \in Operations /\ s.at = "drop" /\ s.doc = proc[p].doc /\ s.text = proc[p].text
      /\ s.todo = proc[p].todo /\ s.op = "rebuild" /\ s.clean = proc[p].clean /\ s.ids = ids
  BY <1>0 DEF AtWork, Operations
<1>2. proc' = [proc EXCEPT ![p] = s]
  BY DEF FindRows, LookUp, AtWork
<1>3. proc[p].at # "read" /\ UNCHANGED <<file, rows, vectors>>
  BY DEF FindRows, LookUp, At
<1>4. \A r \in rows : r.doc = s.doc <=> r.id \in s.ids
  BY <1>1 DEF AtWork, RowsOf
<1>5. Behind(s) = Behind(proc[p])
  BY <1>1 DEF Behind
<1>6. s.clean => Restored(Behind(s))'
  BY <1>1, <1>3, <1>5 DEF AtWork, Rebuilds, Restored, Indexed, Complete, RowsOf
<1>7. Rebuilds(s)'
  BY <1>1, <1>3, <1>4, <1>6 DEF AtWork, Rebuilds, Tree, Behind, Restored
<1>. QED
  BY <1>1, <1>2, <1>7, RebuildGoes DEF AtWork

LEMMA LockRebuilds ==
  ASSUME NEW p, AtWork(p), Lock(p)
  PROVE  Advances(p)
<1>. PICK s : s = [proc[p] EXCEPT !.at = "look"]
  OBVIOUS
<1>1. /\ s \in Operations /\ s.at = "look" /\ s.doc = proc[p].doc /\ s.text = proc[p].text
      /\ s.todo = proc[p].todo /\ s.op = "rebuild" /\ s.clean = proc[p].clean
  BY DEF AtWork, Operations
<1>2. proc' = [proc EXCEPT ![p] = s]
  BY DEF Lock, Goto, AtWork
<1>3. proc[p].at = "lock" /\ UNCHANGED <<file, rows, vectors>>
  BY DEF Lock, At
<1>5. Behind(s) = Behind(proc[p])
  BY <1>1 DEF Behind
<1>6. s.clean => Restored(Behind(s))'
  BY <1>1, <1>3, <1>5 DEF AtWork, Rebuilds, Restored, Indexed, Complete, RowsOf
<1>7. Rebuilds(s)'
  BY <1>1, <1>3, <1>6 DEF AtWork, Rebuilds, Tree, Behind, Restored, RowsOf
<1>. QED
  BY <1>1, <1>2, <1>7, RebuildGoes DEF AtWork

LEMMA FindChunkRebuilds ==
  ASSUME NEW p, AtWork(p), FindChunk(p)
  PROVE  Advances(p)
<1>1. PICK id \in proc[p].ids, chunk \in BOOLEAN :
        proc' = [proc EXCEPT ![p].at = "erase", ![p].id = id, ![p].chunk = chunk]
  BY DEF FindChunk
<1>. PICK s : s = [proc[p] EXCEPT !.at = "erase", !.id = id, !.chunk = chunk]
  OBVIOUS
<1>2. /\ s \in Operations /\ s.at = "erase" /\ s.doc = proc[p].doc /\ s.text = proc[p].text
      /\ s.todo = proc[p].todo /\ s.op = "rebuild" /\ s.clean = proc[p].clean
      /\ s.ids = proc[p].ids /\ s.id \in s.ids
  BY DEF AtWork, Operations
<1>3. proc' = [proc EXCEPT ![p] = s]
  BY <1>1 DEF AtWork
<1>4. proc[p].at = "drop" /\ UNCHANGED <<file, rows, vectors>>
  BY DEF FindChunk, At
<1>5. Behind(s) = Behind(proc[p])
  BY <1>2 DEF Behind
<1>6. s.clean => Restored(Behind(s))'
  BY <1>2, <1>4, <1>5 DEF AtWork, Rebuilds, Restored, Indexed, Complete, RowsOf
<1>7. Rebuilds(s)'
  BY <1>2, <1>4, <1>6 DEF AtWork, Rebuilds, Tree, Behind, Restored
<1>. QED
  BY <1>2, <1>3, <1>7, RebuildGoes DEF AtWork

\* What it drops are rows of its document only.
LEMMA DropRowRebuilds ==
  ASSUME NEW p, AtWork(p), DropRow(p)
  PROVE  Advances(p)
<1>. PICK id : id = proc[p].id
  OBVIOUS
<1>1. PICK next \in {"drop", "vector"} :
        /\ rows' = {r \in rows : r.id # id}
        /\ proc' = [proc EXCEPT ![p].at = next, ![p].ids = @ \ {id}, ![p].chunk = FALSE]
  BY DEF DropRow
<1>. PICK s : s = [proc[p] EXCEPT !.at = next, !.ids = @ \ {id}, !.chunk = FALSE]
  OBVIOUS
<1>2. /\ s \in Operations /\ s.at \in {"drop", "vector"} /\ s.doc = proc[p].doc
      /\ s.text = proc[p].text /\ s.todo = proc[p].todo /\ s.op = "rebuild"
      /\ s.clean = proc[p].clean /\ s.ids = proc[p].ids \ {id} /\ s.id = id
  BY DEF AtWork, Operations
<1>3. proc' = [proc EXCEPT ![p] = s]
  BY <1>1 DEF AtWork
<1>4. proc[p].at = "erase" /\ UNCHANGED <<file, vectors>>
  BY DEF DropRow, At
<1>5. /\ \A r \in rows : r.doc = proc[p].doc <=> r.id \in proc[p].ids
      /\ id \in proc[p].ids
  BY <1>4 DEF AtWork, Rebuilds
<1>6. Behind(s) = Behind(proc[p]) /\ proc[p].doc \notin Behind(s) /\ Behind(s) \subseteq Docs
  BY <1>2 DEF Behind
<1>7. s.clean => Restored(Behind(s))'
  <2>1. ASSUME s.clean PROVE Restored(Behind(s))
    BY <1>2, <1>6, <2>1 DEF AtWork, Rebuilds
  <2>2. \A r \in rows : r.doc \in Behind(s) => r \in rows'
    BY <1>1, <1>5, <1>6
  <2>3. Behind(s) \in SUBSET Docs
    BY <1>6
  <2>. PICK D : D = Behind(s)
  OBVIOUS
  <2>4. D \in SUBSET Docs /\ (s.clean => Restored(D)) /\ \A r \in rows : r.doc \in D => r \in rows'
    BY <2>1, <2>2, <2>3
  <2>5. s.clean => Restored(D)'
    BY <1>4, <2>4, RestoredStays
  <2>. QED
    BY <2>5
<1>8. (\A r \in rows' : r.doc = s.doc <=> r.id \in s.ids) /\ (\A r \in rows' : r.id # s.id)
  BY <1>1, <1>2, <1>5
<1>9. Rebuilds(s)'
  BY <1>2, <1>4, <1>7, <1>8 DEF AtWork, Rebuilds, Tree, Behind, Restored
<1>. QED
  BY <1>2, <1>3, <1>9, RebuildGoes DEF AtWork

LEMMA DropVectorRebuilds ==
  ASSUME NEW p, AtWork(p), DropVector(p)
  PROVE  Advances(p)
<1>. PICK s : s = [proc[p] EXCEPT !.at = "drop", !.id = None]
  OBVIOUS
<1>1. /\ s \in Operations /\ s.at = "drop" /\ s.doc = proc[p].doc
      /\ s.text = proc[p].text /\ s.todo = proc[p].todo /\ s.op = "rebuild"
      /\ s.clean = proc[p].clean /\ s.ids = proc[p].ids
  BY DEF AtWork, Operations
<1>2. proc' = [proc EXCEPT ![p] = s]
  BY DEF AtWork, DropVector
<1>3. /\ proc[p].at = "vector" /\ UNCHANGED <<file, rows>>
      /\ vectors' = {v \in vectors : v.id # proc[p].id}
  BY DEF DropVector, At
<1>4. \A r \in rows : r.id # proc[p].id
  BY <1>3 DEF AtWork, Rebuilds
<1>. PICK D : D = Behind(proc[p])
  OBVIOUS
<1>5. D \in SUBSET Docs /\ (proc[p].clean => Restored(D)) /\ Behind(s) = D
  BY <1>1 DEF AtWork, Rebuilds, Behind
<1>6. proc[p].clean => Restored(D)'
  BY <1>3, <1>4, <1>5, RestoredStays
<1>7. (\A r \in rows' : r.doc = s.doc <=> r.id \in s.ids)
  BY <1>1, <1>3 DEF AtWork, Rebuilds
<1>8. Rebuilds(s)'
  BY <1>1, <1>3, <1>5, <1>6, <1>7 DEF AtWork, Rebuilds, Tree, Behind, Restored
<1>. QED
  BY <1>1, <1>2, <1>8, RebuildGoes DEF AtWork

\* None is left: to index_doc, within it to the insert, or on when the text has
\* nothing to index.
LEMMA DroppedRebuilds ==
  ASSUME NEW p, AtWork(p), Dropped(p)
  PROVE  Advances(p)
<1>1. /\ proc[p].at = "drop" /\ UNCHANGED <<file, rows, vectors, faults>>
      /\ proc[p].doc \in Docs /\ proc[p].text = file[proc[p].doc]
      /\ RowsOf(proc[p].doc) = {}
  BY DEF Dropped, At, AtWork, Rebuilds, RowsOf
<1>. PICK D : D = Behind(proc[p])
  OBVIOUS
<1>2. D \in SUBSET Docs /\ (proc[p].clean => Restored(D)')
  BY <1>1 DEF AtWork, Rebuilds, Behind, Restored, Indexed, Complete, RowsOf
<1>3. CASE lock = p /\ proc[p].text = Blank
  <2>1. PICK s : s = proc[p]
    OBVIOUS
  <2>2. /\ s \in Operations /\ s.op = "rebuild" /\ s.todo = proc[p].todo
        /\ s.clean = proc[p].clean /\ proc' = [proc EXCEPT ![p] = NextOf(s)]
    BY <1>3, <2>1 DEF AtWork, Dropped
  <2>3. s.clean => Restored(Docs \ s.todo)'
    <3>1. Indexed(proc[p].doc) = None
      BY <1>1, <1>3 DEF Indexed
    <3>2. \A d \in Docs \ s.todo : d \in D \/ Indexed(d)' = None
      BY <1>1, <2>1, <3>1 DEF Behind, Indexed
    <3>. QED
      BY <1>2, <2>1, <3>2 DEF Restored
  <2>. QED
    BY <1>1, <2>2, <2>3, WalkGoesOn DEF AtWork
<1>4. CASE ~(lock = p /\ proc[p].text = Blank)
  <2>1. PICK at \in {"insert", "lock"} :
          proc' = [proc EXCEPT ![p] = [proc[p] EXCEPT !.at = at]]
    BY <1>4 DEF AtWork, Dropped
  <2>2. PICK s : s = [proc[p] EXCEPT !.at = at]
    OBVIOUS
  <2>3. /\ s \in Operations /\ s.at = at /\ s.doc = proc[p].doc /\ s.text = proc[p].text
        /\ s.todo = proc[p].todo /\ s.op = "rebuild" /\ s.clean = proc[p].clean
    BY <2>2 DEF AtWork, Operations
  <2>4. proc' = [proc EXCEPT ![p] = s]
    BY <2>1, <2>2
  <2>5. Behind(s) = D /\ RowsOf(s.doc)' = {}
    BY <1>1, <2>3 DEF Behind, RowsOf
  <2>6. Rebuilds(s)'
    BY <1>1, <1>2, <2>3, <2>5 DEF AtWork, Rebuilds, Tree, Behind, Restored
  <2>. QED
    BY <2>3, <2>4, <2>6, RebuildGoes DEF AtWork
<1>. QED
  BY <1>3, <1>4

\* index_doc finds no row, so that it takes no file for unchanged.
LEMMA LookUpRebuilds ==
  ASSUME NEW p, AtWork(p), LookUp(p)
  PROVE  Advances(p)
<1>1. ~IsUnchanged(p)
  BY DEF LookUp, At, AtWork, Rebuilds, IsUnchanged
<1>. QED
  BY <1>1, FindRowsRebuilds

LEMMA InsertRebuilds ==
  ASSUME NEW p, AtWork(p), Insert(p)
  PROVE  Advances(p)
<1>1. PICK id \in Ids :
        /\ rows' = rows \cup {NewRow(p, id, TRUE)}
        /\ proc' = [proc EXCEPT ![p].at = "embed", ![p].id = id]
  BY DEF Insert
<1>2. PICK s : s = [proc[p] EXCEPT !.at = "embed", !.id = id]
  OBVIOUS
<1>3. /\ s \in Operations /\ s.at = "embed" /\ s.doc = proc[p].doc
      /\ s.text = proc[p].text /\ s.todo = proc[p].todo /\ s.op = "rebuild"
      /\ s.clean = proc[p].clean /\ s.id = id
  BY <1>2 DEF AtWork, Operations
<1>4. proc' = [proc EXCEPT ![p] = s]
  BY <1>1, <1>2 DEF AtWork
<1>5. proc[p].at = "insert" /\ UNCHANGED <<file, vectors>>
  BY DEF Insert, At
<1>. PICK D : D = Behind(proc[p])
  OBVIOUS
<1>6. D \in SUBSET Docs /\ (proc[p].clean => Restored(D)) /\ Behind(s) = D
  BY <1>3 DEF AtWork, Rebuilds, Behind
<1>7. proc[p].clean => Restored(D)'
  BY <1>1, <1>5, <1>6, RestoredStays
<1>8. \E r \in rows' : r.id = s.id /\ r.doc = s.doc /\ r.text = s.text /\ r.whole
  <2>1. PICK r : r = NewRow(p, id, TRUE)
    OBVIOUS
  <2>2. r.id = id /\ r.doc = proc[p].doc /\ r.text = proc[p].text /\ r.whole = TRUE
    BY <2>1 DEF NewRow
  <2>. QED
    BY <1>1, <1>3, <2>1, <2>2
<1>9. Rebuilds(s)'
  BY <1>3, <1>5, <1>6, <1>7, <1>8 DEF AtWork, Rebuilds, Tree, Behind, Restored
<1>. QED
  BY <1>3, <1>4, <1>9, RebuildGoes DEF AtWork

\* With its vector the document is complete, and the walk goes on.
LEMMA EmbedRebuilds ==
  ASSUME NEW p, AtWork(p), Embed(p)
  PROVE  Advances(p)
<1>1. /\ proc[p].at = "embed" /\ UNCHANGED <<file, rows, faults>>
      /\ vectors' = vectors \cup {[id |-> proc[p].id, text |-> proc[p].text]}
      /\ proc[p].doc \in Docs /\ proc[p].text = file[proc[p].doc]
      /\ proc' = [proc EXCEPT ![p] = NextOf(proc[p])]
  BY DEF Embed, At, AtWork, Rebuilds
<1>. PICK D : D = Behind(proc[p])
  OBVIOUS
<1>2. D \in SUBSET Docs /\ (proc[p].clean => Restored(D))
  BY DEF AtWork, Rebuilds, Behind
<1>3. proc[p].clean => Restored(D)'
  BY <1>1, <1>2, RestoredStays
<1>. PICK d, s : d = proc[p].doc /\ s = proc[p]
  OBVIOUS
<1>4. Complete(d)'
  <2>1. PICK r \in rows :
          r.id = proc[p].id /\ r.doc = d /\ r.text = proc[p].text /\ r.whole
    BY <1>1 DEF AtWork, Rebuilds
  <2>2. r \in RowsOf(d)' /\ r.text = file'[d] /\ [id |-> r.id, text |-> r.text] \in vectors'
    BY <1>1, <2>1 DEF RowsOf
  <2>. QED
    BY <2>1, <2>2 DEF Complete
<1>5. /\ s \in Operations /\ s.op = "rebuild" /\ s.todo = proc[p].todo
      /\ s.clean = proc[p].clean /\ proc' = [proc EXCEPT ![p] = NextOf(s)]
  BY <1>1 DEF AtWork
<1>6. s.clean => Restored(Docs \ s.todo)'
  <2>1. \A e \in Docs \ s.todo : e \in D \/ e = d
    BY <1>5 DEF Behind
  <2>. QED
    BY <1>3, <1>4, <1>5, <2>1 DEF Restored
<1>. QED
  BY <1>1, <1>5, <1>6, WalkGoesOn DEF AtWork

\* An error is counted, and within index_doc the walk goes on.
LEMMA ErrsRebuilds ==
  ASSUME NEW p, AtWork(p), NEW id, Errs(p, id)
  PROVE  Advances(p)
<1>1. faults' # faults /\ file' = file
  BY DEF Errs, AtWork, AloneInv, IndexInv, TypeOK
<1>2. PICK s : s = [proc[p] EXCEPT !.clean = FALSE]
  OBVIOUS
<1>3. /\ s \in Operations /\ s.op = "rebuild" /\ s.todo = proc[p].todo /\ s.clean = FALSE
  BY <1>2 DEF AtWork, Operations
<1>4. CASE lock = p
  <2>1. proc' = [proc EXCEPT ![p] = NextOf(s)]
    BY <1>2, <1>4 DEF Errs, AfterError
  <2>. QED
    BY <1>1, <1>3, <2>1, WalkGoesOn DEF AtWork
<1>5. CASE lock # p
  <2>1. proc' = [proc EXCEPT ![p] = Idle]
    BY <1>2, <1>3, <1>5 DEF Errs, AfterError
  <2>2. proc'[p].op # "rebuild"
    BY <2>1 DEF AtWork, Idle
  <2>. QED
    BY <1>1, <2>2 DEF Advances
<1>. QED
  BY <1>4, <1>5

LEMMA RebuildStep ==
  ASSUME NEW p, AtWork(p), Step(p) \/ Fails(p) \/ InsertsHalf(p) \/ DropsHalf(p)
  PROVE  Advances(p)
<1>1. ~FindGone(p) /\ ~EditWrites(p) /\ ~Unlink(p)
  BY DEF AtWork, FindGone, EditWrites, Unlink, At
<1>2. (\E id : Errs(p, id)) \/ Step(p)
  BY DEF Fails, InsertsHalf, DropsHalf
<1>. QED
  BY <1>1, <1>2, ErrsRebuilds, ReadRebuilds, FindRowsRebuilds, LockRebuilds, LookUpRebuilds,
     FindChunkRebuilds, DropRowRebuilds, DropVectorRebuilds, DroppedRebuilds, InsertRebuilds, EmbedRebuilds
     DEF Step

LEMMA StartRebuilds ==
  ASSUME AloneInv, NEW p \in Procs, RebuildStarts(p)
  PROVE  Rebuilds(proc[p])'
<1>. USE IndexAssumption
<1>1. PICK s : s = [Idle EXCEPT !.op = "rebuild", !.at = "read", !.todo = Tree]
  OBVIOUS
<1>2. /\ s.at = "read" /\ s.doc = None /\ s.todo = Tree
      /\ proc'[p] = s /\ UNCHANGED file /\ proc'[p].at = "read"
  BY <1>1 DEF RebuildStarts, Starts, Idle, AloneInv, IndexInv, TypeOK
<1>3. \A d \in Docs \ (s.todo \cup {s.doc}) : Indexed(d)' = None
  BY <1>2 DEF Tree, Indexed
<1>4. Restored(Docs \ (s.todo \cup {s.doc}))'
  BY <1>3 DEF Restored
<1>. QED
  BY <1>2, <1>4 DEF Rebuilds, Behind, Tree, Restored

\* A rebuild that is alone ends without an error.
EndsAlone(p) ==
  alone = p /\ proc[p].op = "rebuild" /\ proc'[p] = Idle /\ proc[p].clean /\ faults' = faults

LEMMA AloneNext ==
  ASSUME AloneInv, [Next]_vars
  PROVE  /\ RebuildInv'
         /\ \A p \in Users : EndsAlone(p) => file' = file /\ Restored(Docs)'
<1>. USE IndexAssumption
<1>1. /\ proc \in [Procs -> Operations] /\ faults \in Nat /\ Idle.op = "idle"
      /\ Idle.at = "idle" /\ Users \subseteq Procs
  BY DEF AloneInv, IndexInv, TypeOK, Idle, Procs
<1>. DEFINE Goal == /\ RebuildInv'
                   /\ \A p \in Users : EndsAlone(p) => file' = file /\ Restored(Docs)'
<1>2. CASE UNCHANGED vars
  <2>1. RebuildInv'
    BY <1>2 DEF vars, AloneInv, RebuildInv, Rebuilds, Behind, Restored, Indexed, Complete,
                RowsOf, Tree
  <2>. QED
    BY <1>1, <1>2, <2>1 DEF vars, EndsAlone
<1>3. ASSUME alone' = None, proc' = proc \/ faults' # faults
      PROVE  Goal
  BY <1>1, <1>3 DEF RebuildInv, EndsAlone
<1>4. CASE Crash
  <2>1. alone' = None /\ faults' # faults
    BY <1>1, <1>4 DEF Crash
  <2>. QED
    BY <1>3, <2>1
<1>5. ASSUME NEW p \in Procs, Starting(p)
      PROVE  Goal
  <2>1. PICK s \in Operations : proc' = [proc EXCEPT ![p] = s] /\ s.at # "idle"
    BY <1>5 DEF Starting
  <2>2. \A q \in Procs : proc[q].op = "rebuild" => proc'[q] = proc[q]
    BY <1>1, <1>5, <2>1 DEF Starting
  <2>3. \A q \in Users : ~EndsAlone(q)
    BY <1>1, <2>2 DEF EndsAlone
  <2>4. RebuildStarts(p) => Rebuilds(proc[p])'
    BY StartRebuilds
  <2>5. RebuildInv'
    BY <1>5, <2>4 DEF RebuildInv, Starting
  <2>. QED
    BY <2>3, <2>5
<1>6. ASSUME NEW p \in Procs, proc[p].at # "idle", Ahead(p), alone' = alone,
             Step(p) \/ Fails(p) \/ InsertsHalf(p) \/ DropsHalf(p)
      PROVE  Goal
  <2>1. \A q \in Users : alone = q => q = p
    BY <1>1, <1>6 DEF AloneInv, Quiet
  <2>2. proc'[p].op = "rebuild" => proc[p].op = "rebuild"
    BY <1>1, <1>6 DEF Ahead
  <2>3. alone = p /\ p \in Users /\ proc[p].op = "rebuild" => Advances(p)
    BY <1>6, IsAtWork, RebuildStep
  <2>4. RebuildInv'
    BY <1>6, <2>1, <2>2, <2>3 DEF RebuildInv, Advances
  <2>5. \A q \in Users : EndsAlone(q) => file' = file /\ Restored(Docs)'
    BY <2>1, <2>3 DEF Advances, EndsAlone
  <2>. QED
    BY <2>4, <2>5
<1>. QED
  BY <1>2, <1>3, <1>4, <1>5, <1>6, OneMoves

LEMMA AloneInvHolds == Spec => []AloneInv
<1>1. AloneInv /\ [Next]_vars => AloneInv'
  BY NextKeeps, QuietNext, AloneNext DEF AloneInv
<1>. QED
  BY <1>1, InitAlone, PTL DEF Spec

\* files.rs, rebuild: one beside which no scan, request or edit by hand is at work and
\* that reports no error leaves every file with its row, its chunk and its vector,
\* whatever overlapped, failed or crashed before it.
THEOREM RebuildsRestore == Spec => RebuildRestores
<1>1. ASSUME AloneInv, [Next]_vars, NEW p \in Users, EndsAlone(p),
             NEW d \in Docs, Indexed(d) # None
      PROVE  Complete(d)'
  <2>1. file' = file /\ Restored(Docs)'
    BY <1>1, AloneNext
  <2>2. Indexed(d)' # None
    BY <1>1, <2>1 DEF Indexed
  <2>. QED
    BY <2>1, <2>2 DEF Restored
<1>2. AloneInv /\ [Next]_vars =>
        \A p \in Users :
          /\ alone = p /\ proc[p].op = "rebuild" /\ proc'[p] = Idle
          /\ proc[p].clean /\ faults' = faults
          => \A d \in Docs : Indexed(d) # None => Complete(d)'
  BY <1>1 DEF EndsAlone
<1>. QED
  BY <1>2, AloneInvHolds, PTL DEF Spec, RebuildRestores
=============================================================================
