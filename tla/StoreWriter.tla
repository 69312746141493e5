----------------------------- MODULE StoreWriter -----------------------------
(***************************************************************************)
(* The single-writer actor behind a Db handle (crates/store/src/sqlite.rs):*)
(* callers send operations to one thread and wait for the reply; a panic   *)
(* of an operation is caught, put on record and only then made known to    *)
(* its caller; the last handle closes the channel and waits for the thread *)
(* - unless it is dropped by an operation on that very thread.             *)
(***************************************************************************)
EXTENDS Integers, Sequences, FiniteSets

CONSTANTS
  Callers,   \* tasks with a clone of the handle
  MaxCalls     \* bound: operations sent

ASSUME StoreWriterAssumption == IsFiniteSet(Callers) /\ MaxCalls \in Nat

VARIABLES
  handle,    \* callers that own a clone of the Db
  caller,    \* caller[c]: idle, waiting, answered, failed, joining or gone
  mine,      \* mine[c]: number of the last operation c sent
  queue,     \* operations in the channel
  closedBy,  \* who dropped DbInner.tx: nobody, a caller or the writer itself
  writer,    \* where the writer thread is
  op,        \* the operation it executes
  sent,      \* operations sent so far
  panics,    \* DbInner.panics
  lastPanic  \* number of the operation DbInner.last_panic names, 0 if none

writerVars == <<handle, caller, mine, queue, closedBy, writer, op, sent, panics, lastPanic>>

\* An operation: its number, who waits for it, whether it panics and whether
\* its closure owns a clone of the Db.
Op   == [n : 1..MaxCalls, by : Callers, panics : BOOLEAN, holds : BOOLEAN]
NoOp == [n |-> 0]

(***************************************************************************)
(*  recv   blocking_recv              work   the closure runs              *)
(*  count  panics.fetch_add           note   last_panic is written         *)
(*  wake   the reply is sent, or its sender dropped                        *)
(*  last   the channel is closed and empty: wal_checkpoint                 *)
(*  join   the thread waits for itself   ended  it has returned            *)
(***************************************************************************)
WriterTypeOK ==
  /\ handle \subseteq Callers
  /\ caller \in [Callers -> {"idle", "waiting", "answered", "failed", "joining", "gone"}]
  /\ mine \in [Callers -> 0..MaxCalls]
  /\ queue \in Seq(Op)
  /\ closedBy \in {"nobody", "caller", "writer"}
  /\ writer \in {"recv", "work", "count", "note", "wake", "last", "join", "ended"}
  /\ op \in Op \cup {NoOp}
  /\ sent \in 0..MaxCalls
  /\ panics \in 0..MaxCalls /\ lastPanic \in 0..MaxCalls
  /\ (writer \in {"work", "count", "note", "wake"}) <=> op # NoOp

WriterInit ==
  /\ handle = Callers
  /\ caller = [c \in Callers |-> "idle"]
  /\ mine = [c \in Callers |-> 0]
  /\ queue = <<>> /\ closedBy = "nobody"
  /\ writer = "recv" /\ op = NoOp
  /\ sent = 0 /\ panics = 0 /\ lastPanic = 0

\* Clones owned by closures: in the channel, and at work.
OwnedInQueue == \E i \in 1..Len(queue) : queue[i].holds
OwnedAtWork  == writer = "work" /\ op.holds

(***************************************************************************)
(* Callers.                                                                *)
(***************************************************************************)

\* Db::call up to the send.
Call(c) ==
  /\ c \in handle /\ caller[c] \in {"idle", "answered", "failed"} /\ sent < MaxCalls
  /\ sent' = sent + 1
  /\ mine' = [mine EXCEPT ![c] = sent + 1]
  /\ caller' = [caller EXCEPT ![c] = "waiting"]
  /\ \E p, h \in BOOLEAN :
       queue' = Append(queue, [n |-> sent + 1, by |-> c, panics |-> p, holds |-> h])
  /\ UNCHANGED <<handle, closedBy, writer, op, panics, lastPanic>>

\* The future of the call is dropped; what was sent stays sent.
Abandon(c) ==
  /\ caller[c] = "waiting"
  /\ caller' = [caller EXCEPT ![c] = "idle"]
  /\ UNCHANGED <<handle, mine, queue, closedBy, writer, op, sent, panics, lastPanic>>

\* A clone is dropped; the last one closes the channel and joins the thread.
DropHandle(c) ==
  /\ c \in handle /\ caller[c] # "waiting"
  /\ handle' = handle \ {c}
  /\ LET lastOne == handle = {c} /\ ~OwnedInQueue /\ ~OwnedAtWork
     IN  /\ closedBy' = IF lastOne THEN "caller" ELSE closedBy
         /\ caller' = [caller EXCEPT ![c] = IF lastOne THEN "joining" ELSE "gone"]
  /\ UNCHANGED <<mine, queue, writer, op, sent, panics, lastPanic>>

\* handle.join()
Joined(c) ==
  /\ caller[c] = "joining" /\ writer = "ended"
  /\ caller' = [caller EXCEPT ![c] = "gone"]
  /\ UNCHANGED <<handle, mine, queue, closedBy, writer, op, sent, panics, lastPanic>>

(***************************************************************************)
(* The writer thread.                                                      *)
(***************************************************************************)
TakeOp ==
  /\ writer = "recv" /\ queue # <<>>
  /\ op' = Head(queue) /\ queue' = Tail(queue)
  /\ writer' = "work"
  /\ UNCHANGED <<handle, caller, mine, closedBy, sent, panics, lastPanic>>

\* The closure returns or unwinds, and what it owns is dropped.  If that is
\* the last handle the channel is closed, and the thread does not join itself.
\* Mutated form: it does.
EndOpJoins ==
  /\ writer = "work"
  /\ LET lastOne == op.holds /\ handle = {} /\ ~OwnedInQueue
     IN  /\ closedBy' = IF lastOne THEN "writer" ELSE closedBy
         /\ writer' = IF lastOne THEN "join" ELSE IF op.panics THEN "count" ELSE "wake"
         /\ op' = IF lastOne THEN NoOp ELSE op
  /\ UNCHANGED <<handle, caller, mine, queue, sent, panics, lastPanic>>

EndOp ==
  /\ writer = "work"
  /\ closedBy' = IF op.holds /\ handle = {} /\ ~OwnedInQueue THEN "writer" ELSE closedBy
  /\ writer' = IF op.panics THEN "count" ELSE "wake"
  /\ UNCHANGED <<handle, caller, mine, queue, op, sent, panics, lastPanic>>

\* WriterWatch::record: the counter, then the text.
\* Mutated form: the caller is woken before the text is there.
CountPanicOnly ==
  /\ writer = "count"
  /\ panics' = panics + 1
  /\ writer' = "wake"
  /\ UNCHANGED <<handle, caller, mine, queue, closedBy, op, sent, lastPanic>>

CountPanic ==
  /\ writer = "count"
  /\ panics' = panics + 1
  /\ writer' = "note"
  /\ UNCHANGED <<handle, caller, mine, queue, closedBy, op, sent, lastPanic>>

NotePanic ==
  /\ writer = "note"
  /\ lastPanic' = op.n
  /\ writer' = "wake"
  /\ UNCHANGED <<handle, caller, mine, queue, closedBy, op, sent, panics>>

\* The reply reaches a caller that still waits for this operation.
\* Mutated form: a panic drops the sender of the reply too late.
WakeOnValue ==
  /\ writer = "wake"
  /\ caller' = IF caller[op.by] = "waiting" /\ mine[op.by] = op.n /\ ~op.panics
               THEN [caller EXCEPT ![op.by] = "answered"] ELSE caller
  /\ writer' = "recv" /\ op' = NoOp
  /\ UNCHANGED <<handle, mine, queue, closedBy, sent, panics, lastPanic>>

Wake ==
  /\ writer = "wake"
  /\ caller' = IF caller[op.by] = "waiting" /\ mine[op.by] = op.n
               THEN [caller EXCEPT ![op.by] = IF op.panics THEN "failed" ELSE "answered"]
               ELSE caller
  /\ writer' = "recv" /\ op' = NoOp
  /\ UNCHANGED <<handle, mine, queue, closedBy, sent, panics, lastPanic>>

\* blocking_recv returns None only when the channel is closed and empty.
LoopEnds ==
  /\ writer = "recv" /\ closedBy # "nobody" /\ queue = <<>>
  /\ writer' = "last"
  /\ UNCHANGED <<handle, caller, mine, queue, closedBy, op, sent, panics, lastPanic>>

\* wal_checkpoint(TRUNCATE), then the connection goes with the thread.
Checkpoint ==
  /\ writer = "last"
  /\ writer' = "ended"
  /\ UNCHANGED <<handle, caller, mine, queue, closedBy, op, sent, panics, lastPanic>>

WriterStep ==
  \/ TakeOp \/ EndOp \/ CountPanic \/ NotePanic \/ Wake \/ LoopEnds \/ Checkpoint

WriterNext ==
  \/ \E c \in Callers : Call(c) \/ Abandon(c) \/ DropHandle(c) \/ Joined(c)
  \/ WriterStep

WriterSafety == WriterInit /\ [][WriterNext]_writerVars

\* A thread runs until it blocks; callers owe nothing but to leave a join.
WriterSpec ==
  WriterSafety /\ WF_writerVars(WriterStep) /\ \A c \in Callers : WF_writerVars(Joined(c))

(***************************************************************************)
(* What the actor promises.                                                *)
(***************************************************************************)

\* A caller that hears of its operation's panic finds it on record: the
\* counter has it and the text is of this panic or a later one.
PanicIsOnRecord ==
  \A c \in Callers :
    caller[c] = "failed" => panics > 0 /\ lastPanic >= mine[c]

\* While somebody owns a handle somebody serves it: no panic, no abandoned
\* call and no drop of another clone ends the thread or closes the channel.
HandlesAreServed ==
  handle # {} \/ OwnedInQueue \/ OwnedAtWork =>
    closedBy = "nobody" /\ writer \in {"recv", "work", "count", "note", "wake"}

\* Once a caller dropped the last handle and that drop has returned, the
\* connection is closed and every operation sent was executed: the file can be
\* opened again.  (A last handle dropped by an operation on the thread itself
\* gives no such promise: there nobody waits for the checkpoint.)
DropLeavesItClosed ==
  closedBy = "caller" /\ (\A c \in Callers : caller[c] # "joining")
    => writer = "ended" /\ queue = <<>>

\* Every call is answered, with a value or an error.
CallsAreAnswered == \A c \in Callers : caller[c] = "waiting" ~> caller[c] # "waiting"

\* Once the last handle is gone, whoever dropped it and wherever, the thread
\* ends and nobody is left in a join.
ShutdownCompletes ==
  closedBy # "nobody" ~> writer = "ended" /\ \A c \in Callers : caller[c] # "joining"
==============================================================================
