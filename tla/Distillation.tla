---------------------------- MODULE Distillation ----------------------------
(***************************************************************************)
(* The distillation of a session into memories (crates/daemon/src/         *)
(* distill.rs, Distiller::distill_plan and what it calls), beside people   *)
(* who write, retract and purge memories.                                  *)
(*                                                                         *)
(* A pass has up to 1 + RetryLimit attempts.  An attempt reads the session *)
(* and has facts extracted from it, records the transcript as an episode,  *)
(* writes the facts one by one, each after a judge has said which row it   *)
(* replaces, and writes the graph half in one transaction.  The judge and  *)
(* the write are two calls on the writer thread.  A pass ends with one row *)
(* in distill_log.                                                         *)
(***************************************************************************)
EXTENDS Memory, Sequences

CONSTANTS
  Passes,       \* bound: distillation passes
  SessionOf,    \* SessionOf[p]: the session that p distills
  RetryLimit,   \* RETRY_LIMIT
  Extractions   \* the lists of facts an extraction may return

ASSUME DistillationAssumption ==
  RetryLimit \in Nat /\ Extractions \subseteq Seq(Facts)

VARIABLES
  pc,       \* pc[p]: what p does next
  todo,     \* todo[p]: facts of this attempt that are not written yet
  found,    \* found[p]: the facts this attempt extracted
  target,   \* target[p]: the row the judge said the next fact replaces
  retries,  \* retries[p]
  episode,  \* episode[p]: this attempt knows the episode of its session
  voids,    \* voids[p]: p has marked the episode because its graph half failed
  kind,     \* kind[s]: the kind of the episode of session s
  ledger    \* ledger[p]: the status of p's row in distill_log

vars == <<row, forgotten, pc, todo, found, target, retries, episode, voids,
          kind, ledger>>

Sessions == {SessionOf[p] : p \in Passes}

TypeOK ==
  /\ MemoryTypeOK
  /\ pc \in [Passes -> {"idle", "read", "record", "judge", "write", "graph",
                        "void", "failed", "done"}]
  /\ todo \in [Passes -> Seq(Facts)]
  /\ found \in [Passes -> SUBSET Facts]
  /\ target \in [Passes -> Ids \cup {None}]
  /\ retries \in [Passes -> 0..RetryLimit]
  /\ episode \in [Passes -> BOOLEAN] /\ voids \in [Passes -> BOOLEAN]
  /\ kind \in [Sessions -> {"none", "run_turn", "run_turn_failed"}]
  /\ ledger \in [Passes -> {"none", "ok", "empty", "failed"}]

Init ==
  /\ MemoryInit
  /\ pc = [p \in Passes |-> "idle"]
  /\ todo = [p \in Passes |-> <<>>]
  /\ found = [p \in Passes |-> {}]
  /\ target = [p \in Passes |-> None]
  /\ retries = [p \in Passes |-> 0]
  /\ episode = [p \in Passes |-> FALSE] /\ voids = [p \in Passes |-> FALSE]
  /\ kind = [s \in Sessions |-> "none"]
  /\ ledger = [p \in Passes |-> "none"]

Goto(p, place) == pc' = [pc EXCEPT ![p] = place]

\* log_outcome, and the pass is over.  A row the store refuses is missing.
Log(p, status) ==
  /\ ledger' \in {ledger, [ledger EXCEPT ![p] = status]}
  /\ Goto(p, "done")

\* The attempt fails: what it has written stays, what it knew is gone.
AttemptFails(p) ==
  /\ Goto(p, "failed")
  /\ todo' = [todo EXCEPT ![p] = <<>>]
  /\ found' = [found EXCEPT ![p] = {}]
  /\ target' = [target EXCEPT ![p] = None]
  /\ episode' = [episode EXCEPT ![p] = FALSE]
  /\ UNCHANGED <<retries, ledger>>

-----------------------------------------------------------------------------
(* One attempt: distill_once *)

\* A chat is closed, or somebody asks for the pass.
Starts(p) ==
  /\ pc[p] = "idle" /\ Goto(p, "read")
  /\ UNCHANGED <<memVars, todo, found, target, retries, episode, voids, kind, ledger>>

\* The session is read and the extractor answers.
Extracts(p) ==
  /\ pc[p] = "read" /\ Goto(p, "record")
  /\ \E facts \in Extractions :
       /\ todo' = [todo EXCEPT ![p] = facts]
       /\ found' = [found EXCEPT ![p] = {facts[i] : i \in DOMAIN facts}]
  /\ UNCHANGED <<memVars, target, retries, episode, voids, kind, ledger>>

\* Nothing in the session is the user's: the one failure no retry can cure.
FindsNoContent(p) ==
  /\ pc[p] = "read" /\ Log(p, "empty")
  /\ UNCHANGED <<memVars, todo, found, target, retries, episode, voids, kind>>

\* Not indexed yet, the agent failed or was too slow; or, before a fact is
\* judged, the rows of its scope cannot be read.
ReadFails(p) ==
  /\ pc[p] \in {"read", "judge"}
  /\ AttemptFails(p)
  /\ UNCHANGED <<memVars, voids, kind>>

\* Mutated form: recording again relabels the episode.
RecordEpisodeAfresh(s) == kind' = [kind EXCEPT ![s] = "run_turn"]

\* record_episode: the episode of a transcript exists once; recording it again
\* returns it as it is.
RecordEpisode(s) ==
  kind' = [kind EXCEPT ![s] = IF @ = "none" THEN "run_turn" ELSE @]

\* An attempt goes on without an episode when recording fails, before or after
\* the episode was inserted.
Records(p) ==
  /\ pc[p] = "record" /\ Goto(p, IF todo[p] = <<>> THEN "graph" ELSE "judge")
  /\ \/ episode' = [episode EXCEPT ![p] = TRUE] /\ RecordEpisode(SessionOf[p])
     \/ /\ episode' = [episode EXCEPT ![p] = FALSE]
        /\ RecordEpisode(SessionOf[p]) \/ UNCHANGED kind
  /\ UNCHANGED <<memVars, todo, found, target, retries, voids, ledger>>

\* The rows of the scope that are not superseded are read, tombstones included,
\* and the judge names one that says the same in other words, or none.
Judges(p) ==
  /\ pc[p] = "judge" /\ Goto(p, "write")
  /\ LET f == Head(todo[p]) IN
     \E t \in {None} \cup {i \in Used : /\ ScopeOf[row[i].fact] = ScopeOf[f]
                                        /\ ~row[i].superseded /\ row[i].fact # f} :
       target' = [target EXCEPT ![p] = t]
  /\ UNCHANGED <<memVars, todo, found, retries, episode, voids, kind, ledger>>

\* Done with a fact: on to the next, or to the graph.
NextFact(p) ==
  /\ todo' = [todo EXCEPT ![p] = Tail(@)]
  /\ target' = [target EXCEPT ![p] = None]
  /\ Goto(p, IF Len(todo[p]) = 1 THEN "graph" ELSE "judge")
  /\ UNCHANGED <<found, retries, episode, voids, kind, ledger>>

\* write_memory lands, and is audited ...
Writes(p) ==
  /\ pc[p] = "write" /\ Head(todo[p]) \notin Forbidden
  /\ Lands(Head(todo[p]), target[p])
  /\ NextFact(p)

\* ... or lands, and the audit row fails: an error to the caller.
WritesUnaudited(p) ==
  /\ pc[p] = "write" /\ Head(todo[p]) \notin Forbidden
  /\ Lands(Head(todo[p]), target[p])
  /\ AttemptFails(p)
  /\ UNCHANGED <<voids, kind>>

\* A pair outside the write vocabulary is counted and passed over.
IsForbidden(p) ==
  /\ pc[p] = "write" /\ Head(todo[p]) \in Forbidden
  /\ UNCHANGED memVars
  /\ NextFact(p)

\* Mutated form: a refusal is taken for a duplicate.
WriteFailsQuietly(p) ==
  /\ pc[p] = "write" /\ Head(todo[p]) \notin Forbidden
  /\ Refuses(Head(todo[p]), target[p])
  /\ NextFact(p)

\* A refusal of write_memory is an error of the attempt, and so is one of the
\* store.
WriteFails(p) ==
  /\ pc[p] = "write" /\ Head(todo[p]) \notin Forbidden
  /\ Refuses(Head(todo[p]), target[p]) \/ UNCHANGED memVars
  /\ AttemptFails(p)
  /\ UNCHANGED <<voids, kind>>

\* The graph half is written, or there is none to write: the pass is logged.
WritesGraph(p) ==
  /\ pc[p] = "graph" /\ Log(p, IF found[p] = {} THEN "empty" ELSE "ok")
  /\ episode' = [episode EXCEPT ![p] = FALSE]
  /\ UNCHANGED <<memVars, todo, found, target, retries, voids, kind>>

\* Its transaction is rolled back ...
GraphFails(p) ==
  /\ pc[p] = "graph"
  /\ \/ /\ episode[p] /\ Goto(p, "void")
        /\ UNCHANGED <<todo, found, target, retries, episode, ledger>>
     \/ ~episode[p] /\ AttemptFails(p)
  /\ UNCHANGED <<memVars, voids, kind>>

\* ... and void_episode marks the episode; an error of the store is dropped.
Voids(p) ==
  /\ pc[p] = "void" /\ AttemptFails(p)
  /\ \/ /\ kind' = [kind EXCEPT ![SessionOf[p]] =
                      IF @ = "run_turn" THEN "run_turn_failed" ELSE @]
        /\ voids' = [voids EXCEPT ![p] = TRUE]
     \/ UNCHANGED <<kind, voids>>
  /\ UNCHANGED memVars

-----------------------------------------------------------------------------
(* with_retries, distill_plan *)

Retries(p) ==
  /\ pc[p] = "failed" /\ retries[p] < RetryLimit
  /\ retries' = [retries EXCEPT ![p] = @ + 1]
  /\ Goto(p, "read")
  /\ UNCHANGED <<memVars, todo, found, target, episode, voids, kind, ledger>>

GivesUp(p) ==
  /\ pc[p] = "failed" /\ retries[p] = RetryLimit
  /\ Log(p, "failed")
  /\ UNCHANGED <<memVars, todo, found, target, retries, episode, voids, kind>>

PassStep(p) ==
  \/ Extracts(p) \/ FindsNoContent(p) \/ ReadFails(p) \/ Records(p) \/ Judges(p)
  \/ Writes(p) \/ WritesUnaudited(p) \/ IsForbidden(p) \/ WriteFails(p)
  \/ WritesGraph(p) \/ GraphFails(p) \/ Voids(p) \/ Retries(p) \/ GivesUp(p)

passVars == <<pc, todo, found, target, retries, episode, voids, kind, ledger>>

People ==
  /\ WriteLands \/ WriteRefused \/ \E i \in Ids : Delete(i) \/ Restore(i) \/ Purge(i)
  /\ UNCHANGED passVars

Next == People \/ \E p \in Passes : Starts(p) \/ PassStep(p)

Spec == Init /\ [][Next]_vars

-----------------------------------------------------------------------------
(* What a pass promises *)

\* No fact of a pass that is logged as ok was dropped on the way: each was
\* written or found, by whichever attempt, or the write vocabulary forbids it;
\* only a purge takes it away afterwards (distill.rs, write_memories).
NothingIsDropped ==
  \A p \in Passes : ledger[p] = "ok" =>
    \A f \in found[p] \ (Forbidden \cup forgotten) : \E i \in Used : row[i].fact = f

\* An episode that was marked because a graph half failed never reads as a
\* distilled session again, however many attempts and passes share it
\* (distill.rs, write_extraction).
FailedGraphsAreMarked ==
  \A p \in Passes : voids[p] => kind[SessionOf[p]] = "run_turn_failed"
=============================================================================
