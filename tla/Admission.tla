------------------------------ MODULE Admission ------------------------------
(***************************************************************************)
(* What the concurrency gate of a harness promises, without its semaphore  *)
(* and its counter (README, Concurrency gates; doc of HarnessGate and of   *)
(* GateHold in crates/daemon/src/runs.rs): of the runs launched on one     *)
(* harness at most PerHarness run, at most QueueCap more wait, the others  *)
(* are refused.  A run is admitted once and ends once; the permit of a run *)
(* that ends goes back or straight to a waiting run.                       *)
(***************************************************************************)
EXTENDS Naturals, FiniteSets

CONSTANTS Runs, PerHarness, QueueCap

VARIABLES
  running,  \* runs that own a permit
  queued,   \* runs that wait for one
  ended     \* runs that are through with the gate

vars == <<running, queued, ended>>

Fresh == Runs \ (running \cup queued \cup ended)

Init == running = {} /\ queued = {} /\ ended = {}

\* A launch finds a free permit.
Start(r) ==
  /\ r \in Fresh
  /\ Cardinality(running) < PerHarness
  /\ running' = running \cup {r}
  /\ UNCHANGED <<queued, ended>>

\* A launch finds none and a waiting slot.
Queue(r) ==
  /\ r \in Fresh
  /\ Cardinality(queued) < QueueCap
  /\ queued' = queued \cup {r}
  /\ UNCHANGED <<running, ended>>

\* A launch is refused.
Refuse(r) ==
  /\ r \in Fresh
  /\ ended' = ended \cup {r}
  /\ UNCHANGED <<running, queued>>

\* A waiting run gets a free permit.
Admit(r) ==
  /\ r \in queued
  /\ Cardinality(running) < PerHarness
  /\ running' = running \cup {r}
  /\ queued' = queued \ {r}
  /\ UNCHANGED ended

\* A waiting run gives up.
Withdraw(r) ==
  /\ r \in queued
  /\ queued' = queued \ {r}
  /\ ended' = ended \cup {r}
  /\ UNCHANGED running

Finish(r) ==
  /\ r \in running
  /\ running' = running \ {r}
  /\ ended' = ended \cup {r}
  /\ UNCHANGED queued

\* A run ends and its permit goes straight to a waiting run.
HandOver(r, s) ==
  /\ r \in running
  /\ s \in queued
  /\ running' = (running \ {r}) \cup {s}
  /\ queued' = queued \ {s}
  /\ ended' = ended \cup {r}

\* The daemon restarts: whatever was under way is over.
Reset ==
  /\ running' = {}
  /\ queued' = {}
  /\ ended' \in SUBSET Runs
  /\ running \cup queued \cup ended \subseteq ended'

Next ==
  \/ \E r \in Runs : Start(r) \/ Queue(r) \/ Refuse(r) \/ Admit(r) \/ Withdraw(r)
                       \/ Finish(r)
  \/ \E r, s \in Runs : HandOver(r, s)
  \/ Reset

Spec == Init /\ [][Next]_vars
=============================================================================
