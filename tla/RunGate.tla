------------------------------- MODULE RunGate -------------------------------
(***************************************************************************)
(* The concurrency gate of one harness kind, and the path of a launched    *)
(* run through it (crates/daemon/src/runs.rs, HarnessGate, start_run and   *)
(* the supervisor task it spawns).                                         *)
(*                                                                         *)
(* A launch either takes a permit on the spot or reserves one of QueueCap  *)
(* waiting slots; a launch that finds every slot reserved is refused.  The *)
(* waiting slots are a bare atomic counter: a launch adds to it first and  *)
(* takes the unit back when the sum is over the cap, and the supervisor    *)
(* takes the unit back after its wait.  Between those steps other launches *)
(* read the counter, which is what this module is about.                   *)
(*                                                                         *)
(* One step of the model is what the code does between two points where    *)
(* another task can run or observe it: an atomic operation on the counter, *)
(* a lock, an await.                                                       *)
(***************************************************************************)
EXTENDS Integers, Sequences, FiniteSets

CONSTANTS
  Runs,        \* run ids start_run may mint
  PerHarness,  \* policy.concurrency.per_harness: permits of the semaphore
  QueueCap     \* policy.concurrency.queue_per_harness: waiting slots

ASSUME GateAssumption ==
  /\ IsFiniteSet(Runs)
  /\ PerHarness \in Nat      \* zero is accepted by the policy parser
  /\ QueueCap \in Nat

VARIABLES
  pc,        \* pc[r]: where the launch or the supervisor of run r stands
  permits,   \* the semaphore's free permits
  semq,      \* acquire_owned futures parked in the semaphore, oldest first
  granted,   \* parked runs the semaphore has assigned a permit to
  waiting,   \* HarnessGate.waiting
  token      \* token[r]: r's entry in RunManager.cancellations

gateVars == <<pc, permits, semq, granted, waiting, token>>

(***************************************************************************)
(*  idle         no launch yet                                             *)
(*  full         try_acquire_owned failed                                  *)
(*  refused      the reservation went over the cap and is not yet undone   *)
(*  rejecting    the Failed row of the refused launch is being inserted    *)
(*  insertFree   permit taken, the Spawning row is being inserted          *)
(*  insertQueued slot reserved, the Queued row is being inserted           *)
(*  queued       supervisor spawned, it has not polled the gate            *)
(*  parked       supervisor parked in select!{acquire, cancelled}          *)
(*  admitted     acquire won the select!, the slot is still counted        *)
(*  withdrawn    the cancellation won, the slot is still counted           *)
(*  unwinding    the Cancelled row is being written                        *)
(*  live         past the gate, holding the permit                         *)
(*  over         the supervisor, or the refused launch, is gone            *)
(*  lost         start_run went away holding a slot, nobody supervises r   *)
(***************************************************************************)
Phase == {"idle", "full", "refused", "rejecting", "insertFree",
          "insertQueued", "queued", "parked", "admitted", "withdrawn",
          "unwinding", "live", "over", "lost"}

InPhase(S) == {r \in Runs : pc[r] \in S}

\* Runs that own a permit: the OwnedSemaphorePermit is in their hands, or the
\* semaphore has assigned one to their parked acquire.
Holders == InPhase({"insertFree", "admitted", "live"}) \cup granted

\* Runs whose unit of the waiting counter some task still intends to return.
Slots == InPhase({"insertQueued", "queued", "parked", "admitted", "withdrawn"})

GateTypeOK ==
  /\ pc \in [Runs -> Phase]
  /\ permits \in Nat
  /\ semq \in Seq(Runs)
  /\ granted \in SUBSET Runs
  /\ waiting \in Int
  /\ token \in [Runs -> {"none", "armed", "fired"}]

GateInit ==
  /\ pc = [r \in Runs |-> "idle"]
  /\ permits = PerHarness
  /\ semq = <<>>
  /\ granted = {}
  /\ waiting = 0
  /\ token = [r \in Runs |-> "none"]

(***************************************************************************)
(* The tokio semaphore: permits go to the oldest parked acquire, and count *)
(* as free only when nobody is parked.                                     *)
(***************************************************************************)
Release ==
  IF semq = <<>>
  THEN permits' = permits + 1 /\ UNCHANGED <<semq, granted>>
  ELSE /\ granted' = granted \cup {Head(semq)}
       /\ semq' = Tail(semq)
       /\ UNCHANGED permits

\* A dropped acquire that had been assigned a permit passes it on.
ReleaseGrantOf(r) ==
  IF semq = <<>>
  THEN /\ permits' = permits + 1
       /\ granted' = granted \ {r}
       /\ UNCHANGED semq
  ELSE /\ granted' = (granted \ {r}) \cup {Head(semq)}
       /\ semq' = Tail(semq)
       /\ UNCHANGED permits

\* A dropped acquire that is still parked leaves the queue.
Without(q, r) ==
  LET k == CHOOSE i \in 1..Len(q) : q[i] = r
  IN  [i \in 1..(Len(q) - 1) |-> IF i < k THEN q[i] ELSE q[i + 1]]

Move(r, to) == pc' = [pc EXCEPT ![r] = to]

(***************************************************************************)
(* start_run: the caller's side.                                           *)
(***************************************************************************)

\* try_acquire_owned.
TryAcquire(r) ==
  /\ pc[r] = "idle"
  /\ IF permits > 0
     THEN Move(r, "insertFree") /\ permits' = permits - 1
     ELSE Move(r, "full") /\ UNCHANGED permits
  /\ UNCHANGED <<semq, granted, waiting, token>>

\* reserve_slot: fetch_add, and the comparison of the value it returned.
\* Mutated form: the comparison forgets the unit this launch just added.
ReserveOneTooMany(r) ==
  /\ pc[r] = "full"
  /\ waiting' = waiting + 1
  /\ Move(r, IF waiting > QueueCap THEN "refused" ELSE "insertQueued")
  /\ UNCHANGED <<permits, semq, granted, token>>

Reserve(r) ==
  /\ pc[r] = "full"
  /\ waiting' = waiting + 1
  /\ Move(r, IF waiting' > QueueCap THEN "refused" ELSE "insertQueued")
  /\ UNCHANGED <<permits, semq, granted, token>>

\* reserve_slot: fetch_sub of a refused reservation, before the bail!.
Refund(r) ==
  /\ pc[r] = "refused"
  /\ waiting' = waiting - 1
  /\ Move(r, "rejecting")
  /\ UNCHANGED <<permits, semq, granted, token>>

\* The refused launch has inserted its Failed row and returns the error.
Reject(r) ==
  /\ pc[r] = "rejecting"
  /\ Move(r, "over")
  /\ UNCHANGED <<permits, semq, granted, waiting, token>>

\* The row is in: register the cancellation token, spawn the supervisor.
Spawn(r) ==
  /\ pc[r] \in {"insertFree", "insertQueued"}
  /\ Move(r, IF pc[r] = "insertFree" THEN "live" ELSE "queued")
  /\ token' = [token EXCEPT ![r] = "armed"]
  /\ UNCHANGED <<permits, semq, granted, waiting>>

(***************************************************************************)
(* start_run ends at the await of insert_run without reaching the spawn:   *)
(* the store returned an error, or the HTTP client went away and its       *)
(* handler future was dropped.  A permit is an owned guard and goes back;  *)
(* the reserved slot has no guard and stays counted.                       *)
(***************************************************************************)
Abandon(r) ==
  /\ pc[r] \in {"rejecting", "insertFree", "insertQueued"}
  /\ Move(r, IF pc[r] = "insertQueued" THEN "lost" ELSE "over")
  /\ IF pc[r] = "insertFree" THEN Release ELSE UNCHANGED <<permits, semq, granted>>
  /\ UNCHANGED <<waiting, token>>

(***************************************************************************)
(* The supervisor task of a queued run: select!{acquire_owned, cancelled}. *)
(* The arms are polled in random order, so when both are ready either wins.*)
(***************************************************************************)
PollAcquires(r) ==
  /\ permits > 0
  /\ permits' = permits - 1
  /\ Move(r, "admitted")
  /\ UNCHANGED <<semq, granted>>

PollParks(r) ==
  /\ permits = 0
  /\ token[r] = "armed"
  /\ semq' = Append(semq, r)
  /\ Move(r, "parked")
  /\ UNCHANGED <<permits, granted>>

PollCancelled(r) ==
  /\ token[r] = "fired"
  /\ Move(r, "withdrawn")
  /\ UNCHANGED <<permits, semq, granted>>

Poll(r) ==
  /\ pc[r] = "queued"
  /\ PollAcquires(r) \/ PollParks(r) \/ PollCancelled(r)
  /\ UNCHANGED <<waiting, token>>

WakeAdmitted(r) ==
  /\ r \in granted
  /\ granted' = granted \ {r}
  /\ Move(r, "admitted")
  /\ UNCHANGED <<permits, semq>>

\* Mutated form: the acquire outlives the select! and stays in the queue.
WakeCancelledStaysParked(r) ==
  /\ token[r] = "fired"
  /\ Move(r, "withdrawn")
  /\ IF r \in granted THEN ReleaseGrantOf(r) ELSE UNCHANGED <<semq, permits, granted>>

WakeCancelled(r) ==
  /\ token[r] = "fired"
  /\ Move(r, "withdrawn")
  /\ IF r \in granted
     THEN ReleaseGrantOf(r)
     ELSE semq' = Without(semq, r) /\ UNCHANGED <<permits, granted>>

Wake(r) ==
  /\ pc[r] = "parked"
  /\ WakeAdmitted(r) \/ WakeCancelled(r)
  /\ UNCHANGED <<waiting, token>>

\* waiting.fetch_sub, whichever arm won.
Settle(r) ==
  /\ pc[r] \in {"admitted", "withdrawn"}
  /\ waiting' = waiting - 1
  /\ Move(r, IF pc[r] = "admitted" THEN "live" ELSE "unwinding")
  /\ UNCHANGED <<permits, semq, granted, token>>

\* The Cancelled row of a withdrawn run is written; its token is removed.
Unwind(r) ==
  /\ pc[r] = "unwinding"
  /\ Move(r, "over")
  /\ token' = [token EXCEPT ![r] = "none"]
  /\ UNCHANGED <<permits, semq, granted, waiting>>

\* The supervisor closure returns: token removed, permit guard dropped.
\* Mutated form: the permit is forgotten, not dropped.
EndKeepsPermit(r) ==
  /\ pc[r] = "live"
  /\ Move(r, "over")
  /\ token' = [token EXCEPT ![r] = "none"]
  /\ UNCHANGED <<permits, semq, granted, waiting>>

End(r) ==
  /\ pc[r] = "live"
  /\ Move(r, "over")
  /\ token' = [token EXCEPT ![r] = "none"]
  /\ Release
  /\ UNCHANGED waiting

\* cancel_run finds a token and fires it.
Cancel(r) ==
  /\ token[r] = "armed"
  /\ token' = [token EXCEPT ![r] = "fired"]
  /\ UNCHANGED <<pc, permits, semq, granted, waiting>>

\* The daemon process dies and a new one builds its gates: nothing of a
\* launch or of a supervisor survives.
Restart ==
  /\ \E r \in Runs : pc[r] \notin {"idle", "over"}
  /\ pc' = [r \in Runs |-> IF pc[r] = "idle" THEN "idle" ELSE "over"]
  /\ permits' = PerHarness
  /\ semq' = <<>>
  /\ granted' = {}
  /\ waiting' = 0
  /\ token' = [r \in Runs |-> "none"]

Supervise(r) == Poll(r) \/ Wake(r) \/ Settle(r) \/ Unwind(r)

Launch(r) == TryAcquire(r) \/ Reserve(r) \/ Refund(r) \/ Reject(r) \/ Spawn(r)
               \/ Abandon(r)

GateNext ==
  \/ \E r \in Runs : Launch(r) \/ Supervise(r) \/ End(r) \/ Cancel(r)
  \/ Restart

GateSafety == GateInit /\ [][GateNext]_gateVars

-----------------------------------------------------------------------------

\* At most PerHarness runs own a permit, and no permit is lost: the semaphore's
\* free permits and the owners always add up to per_harness, whatever the order
\* of grants, cancellations, abandoned launches and ends.
PermitsConserved == permits + Cardinality(Holders) = PerHarness

\* The counter is exactly what the code's bookkeeping says it is: one unit per
\* run that waits, per refused launch between fetch_add and fetch_sub, and per
\* launch that vanished with its slot.
WaitingAccounted ==
  waiting = Cardinality(Slots) + Cardinality(InPhase({"refused", "lost"}))

\* However launches race on the counter, never more than QueueCap runs wait.
QueueBounded == Cardinality(Slots \cup InPhase({"lost"})) <= QueueCap

\* No run sleeps in the semaphore beside a free permit, and the semaphore's
\* queue is exactly the parked runs that have none.
NobodySleepsOnAFreePermit ==
  /\ permits > 0 => semq = <<>>
  /\ {semq[i] : i \in DOMAIN semq} = InPhase({"parked"}) \ granted

\* A launch is refused only when the cap is used up by waiting runs, by other
\* refusals in flight or by vanished launches.
RefusalsHaveACause ==
  [][\A r \in Runs : pc[r] = "full" /\ pc'[r] = "refused" =>
       Cardinality(Slots \cup InPhase({"refused", "lost"})) >= QueueCap]_gateVars

\* A freed permit reaches whoever waits: a run is left in the queue for ever only
\* behind a run that lives for ever.
QueuedRunsAreAdmitted ==
  PerHarness > 0 =>
    \A r \in Runs : <>[](pc[r] \in {"queued", "parked"}) =>
                      \E s \in Runs : <>[](pc[s] = "live")

-----------------------------------------------------------------------------

\* Runs that wait for a permit and have not been assigned one.
Awaiting == InPhase({"insertQueued", "queued", "parked"}) \ granted

\* Runs the gate has nothing more to do with, whatever is left to write.
Through == InPhase({"withdrawn", "unwinding", "over", "lost"})

Contract == INSTANCE Admission WITH
  running <- Holders,
  queued  <- Awaiting,
  ended   <- Through

\* The semaphore, the counter and the supervisor's wait keep the promise of
\* module Admission, cancellations, abandoned launches and restarts included.
KeepsTheContract == Contract!Spec
=============================================================================
