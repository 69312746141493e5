------------------------- MODULE RunLifecycle_proofs -------------------------
(***************************************************************************)
(* Proofs about the concurrency gate and the life of a run behind it, for   *)
(* every set of runs and tasks, every permit count, queue cap and number    *)
(* of events.                                                              *)
(***************************************************************************)
EXTENDS RunLifecycle, FiniteSetTheorems, TLAPS

(***************************************************************************)
(* The gate (RunGate.tla).                                                 *)
(***************************************************************************)

\* The units of the waiting counter no waiting run stands behind.
Unowned == InPhase({"refused", "lost"})

\* The semaphore's queue lists each parked run without a permit once, and
\* nobody is in it while a permit is free.
QueueInv ==
  /\ \A r \in granted : pc[r] = "parked"
  /\ \A i, j \in 1..Len(semq) : semq[i] = semq[j] => i = j
  /\ \A i \in 1..Len(semq) : pc[semq[i]] = "parked" /\ semq[i] \notin granted
  /\ \A r \in Runs : pc[r] = "parked" /\ r \notin granted =>
       \E i \in 1..Len(semq) : semq[i] = r
  /\ permits > 0 => semq = <<>>

GateInv ==
  /\ GateTypeOK
  /\ QueueInv
  /\ PermitsConserved
  /\ WaitingAccounted
  /\ QueueBounded

-----------------------------------------------------------------------------
(* Counting. *)

LEMMA RunSetsAreFinite ==
  ASSUME NEW S \in SUBSET Runs
  PROVE  IsFiniteSet(S) /\ Cardinality(S) \in Nat
BY GateAssumption, FS_Subset, FS_CardinalityType

LEMMA CountAdd ==
  ASSUME NEW S \in SUBSET Runs, NEW r \in Runs, r \notin S
  PROVE  Cardinality(S \cup {r}) = Cardinality(S) + 1
BY RunSetsAreFinite, FS_AddElement

LEMMA CountRemove ==
  ASSUME NEW S \in SUBSET Runs, NEW r \in Runs, r \in S
  PROVE  Cardinality(S \ {r}) = Cardinality(S) - 1
BY RunSetsAreFinite, FS_RemoveElement

LEMMA CountUnion ==
  ASSUME NEW S \in SUBSET Runs, NEW T \in SUBSET Runs, S \cap T = {}
  PROVE  Cardinality(S \cup T) = Cardinality(S) + Cardinality(T)
<1>1. IsFiniteSet(S) /\ IsFiniteSet(T)
  BY RunSetsAreFinite
<1>2. Cardinality(S \cup T) = Cardinality(S) + Cardinality(T) - Cardinality(S \cap T)
  BY <1>1, FS_Union
<1>3. Cardinality(S \cap T) = 0
  BY FS_EmptySet
<1>4. Cardinality(S) \in Nat /\ Cardinality(T) \in Nat
  BY RunSetsAreFinite
<1>. QED
  BY <1>2, <1>3, <1>4

LEMMA CountLessOrEqual ==
  ASSUME NEW S \in SUBSET Runs, NEW T \in SUBSET Runs, S \subseteq T
  PROVE  Cardinality(S) <= Cardinality(T)
BY RunSetsAreFinite, FS_Subset

-----------------------------------------------------------------------------
(* The semaphore's queue. *)

LEMMA TailOfQueue ==
  ASSUME semq \in Seq(Runs), semq # <<>>
  PROVE  /\ Head(semq) \in Runs
         /\ Head(semq) = semq[1]
         /\ 1 \in 1..Len(semq)
         /\ Tail(semq) \in Seq(Runs)
         /\ Len(Tail(semq)) = Len(semq) - 1
         /\ Len(semq) \in Nat
         /\ \A i \in 1..Len(Tail(semq)) : Tail(semq)[i] = semq[i + 1]
OBVIOUS

LEMMA AppendToQueue ==
  ASSUME semq \in Seq(Runs), NEW r \in Runs
  PROVE  /\ Append(semq, r) \in Seq(Runs)
         /\ Len(Append(semq, r)) = Len(semq) + 1
         /\ Len(semq) \in Nat
         /\ \A i \in 1..Len(semq) : Append(semq, r)[i] = semq[i]
         /\ Append(semq, r)[Len(semq) + 1] = r
OBVIOUS

Distinct(q) == \A i, j \in 1..Len(q) : q[i] = q[j] => i = j
Lists(q, r) == \E i \in 1..Len(q) : q[i] = r

\* q is semq without r: nobody twice, r gone, everybody else kept.
OnlyLeaves(q, r) ==
  /\ q \in Seq(Runs)
  /\ Len(q) = Len(semq) - 1
  /\ \A i, j \in 1..Len(q) : q[i] = q[j] => i = j
  /\ \A i \in 1..Len(q) : q[i] # r /\ \E j \in 1..Len(semq) : q[i] = semq[j]
  /\ \A j \in 1..Len(semq) : semq[j] # r => \E i \in 1..Len(q) : q[i] = semq[j]

\* Removing a queued run keeps everybody else, once.
LEMMA WithoutKeepsTheOthers ==
  ASSUME semq \in Seq(Runs), NEW r \in Runs, Distinct(semq), Lists(semq, r),
         NEW q, q = Without(semq, r)
  PROVE  OnlyLeaves(q, r)
<1> DEFINE n == Len(semq)
           k == CHOOSE i \in 1..n : semq[i] = r
<1>1. k \in 1..n /\ semq[k] = r
  BY DEF Lists
<1>2. n \in Nat /\ n > 0
  BY <1>1
<1>3. q = [i \in 1..(n - 1) |-> IF i < k THEN semq[i] ELSE semq[i + 1]]
  BY DEF Without
<1>4. q \in Seq(Runs) /\ Len(q) = n - 1
  <2>1. n - 1 \in Nat
    BY <1>2
  <2>2. \A i \in 1..(n - 1) : (IF i < k THEN semq[i] ELSE semq[i + 1]) \in Runs
    BY <1>1, <1>2
  <2>3. q \in [1..(n - 1) -> Runs]
    BY <1>3, <2>2
  <2>. QED
    BY <2>1, <2>3
<1>5. \A i \in 1..(n - 1) : q[i] = IF i < k THEN semq[i] ELSE semq[i + 1]
  BY <1>3
<1>. HIDE DEF k
<1>6. \A i, j \in 1..(n - 1) : q[i] = q[j] => i = j
  <2>. SUFFICES ASSUME NEW i \in 1..(n - 1), NEW j \in 1..(n - 1), q[i] = q[j]
                PROVE  i = j
    OBVIOUS
  <2>. QED
    BY <1>1, <1>2, <1>5 DEF Distinct
<1>7. \A i \in 1..(n - 1) : q[i] # r /\ \E j \in 1..n : q[i] = semq[j]
  <2>. SUFFICES ASSUME NEW i \in 1..(n - 1)
                PROVE  q[i] # r /\ \E j \in 1..n : q[i] = semq[j]
    OBVIOUS
  <2>1. CASE i < k
    <3>1. i \in 1..n /\ q[i] = semq[i] /\ i # k
      BY <1>1, <1>2, <1>5, <2>1
    <3>. QED
      BY <1>1, <3>1 DEF Distinct
  <2>2. CASE ~(i < k)
    <3>1. i + 1 \in 1..n /\ q[i] = semq[i + 1] /\ i + 1 # k
      BY <1>1, <1>2, <1>5, <2>2
    <3>. QED
      BY <1>1, <3>1 DEF Distinct
  <2>. QED
    BY <2>1, <2>2
<1>8. \A j \in 1..n : semq[j] # r => \E i \in 1..(n - 1) : q[i] = semq[j]
  <2>. SUFFICES ASSUME NEW j \in 1..n, semq[j] # r
                PROVE  \E i \in 1..(n - 1) : q[i] = semq[j]
    OBVIOUS
  <2>1. CASE j < k
    BY <1>1, <1>2, <1>5, <2>1
  <2>2. CASE j > k
    <3>1. j - 1 \in 1..(n - 1) /\ ~(j - 1 < k) /\ (j - 1) + 1 = j
      BY <1>1, <1>2, <2>2
    <3>2. q[j - 1] = semq[j]
      BY <1>5, <3>1
    <3>. QED
      BY <3>1, <3>2
  <2>. QED
    BY <1>1, <1>2, <2>1, <2>2
<1>. QED
  BY <1>2, <1>4, <1>6, <1>7, <1>8 DEF OnlyLeaves

-----------------------------------------------------------------------------
(* What a step has to keep, stated on the sets it changes. *)

LEMMA SetsOfRuns ==
  ASSUME GateTypeOK
  PROVE  /\ Holders \in SUBSET Runs
         /\ Slots \in SUBSET Runs
         /\ Unowned \in SUBSET Runs
         /\ Slots \cap Unowned = {}
         /\ InPhase({"lost"}) \subseteq Unowned
         /\ Slots \cup InPhase({"lost"}) \in SUBSET Runs
BY DEF GateTypeOK, Holders, Slots, Unowned, InPhase

\* The waiting slots keep their bounds when nobody joins them and the counter
\* moves with them.
LEMMA SlotsKept ==
  ASSUME GateInv, GateTypeOK',
         Slots' = Slots, Unowned' = Unowned,
         InPhase({"lost"})' = InPhase({"lost"}),
         waiting' = waiting
  PROVE  WaitingAccounted' /\ QueueBounded'
BY DEF GateInv, WaitingAccounted, QueueBounded, Unowned

-----------------------------------------------------------------------------
(* One lemma per action. *)

LEMMA TryAcquireKeeps ==
  ASSUME GateInv, NEW r \in Runs, TryAcquire(r)
  PROVE  GateInv'
<1>. USE DEF GateInv
<1>1. GateTypeOK'
  BY DEF GateTypeOK, TryAcquire, Move, Phase
<1>2. QueueInv'
  BY DEF GateTypeOK, QueueInv, TryAcquire, Move
<1>3. /\ Slots' = Slots /\ Unowned' = Unowned
      /\ InPhase({"lost"})' = InPhase({"lost"}) /\ waiting' = waiting
  BY DEF GateTypeOK, TryAcquire, Move, Slots, Unowned, InPhase
<1>4. PermitsConserved'
  <2>1. CASE permits > 0
    <3>1. Holders' = Holders \cup {r} /\ permits' = permits - 1
      BY <2>1 DEF GateTypeOK, TryAcquire, Move, Holders, InPhase
    <3>2. r \notin Holders
      BY DEF TryAcquire, Holders, InPhase, QueueInv
    <3>3. Cardinality(Holders') = Cardinality(Holders) + 1
      BY <3>1, <3>2, CountAdd, SetsOfRuns
    <3>. QED
      BY <3>1, <3>3, SetsOfRuns, RunSetsAreFinite, GateAssumption
         DEF PermitsConserved, GateTypeOK
  <2>2. CASE ~(permits > 0)
    BY <2>2 DEF GateTypeOK, TryAcquire, Move, Holders, InPhase, PermitsConserved
  <2>. QED
    BY <2>1, <2>2
<1>. QED
  BY <1>1, <1>2, <1>3, <1>4, SlotsKept

LEMMA ReserveKeeps ==
  ASSUME GateInv, NEW r \in Runs, Reserve(r)
  PROVE  GateInv'
<1>. USE DEF GateInv
<1>1. GateTypeOK'
  BY DEF GateTypeOK, Reserve, Move, Phase
<1>2. QueueInv'
  BY DEF GateTypeOK, QueueInv, Reserve, Move
<1>3. PermitsConserved'
  BY DEF GateTypeOK, Reserve, Move, Holders, InPhase, PermitsConserved
<1>4. waiting' = waiting + 1 /\ waiting \in Int
  BY DEF Reserve, GateTypeOK
<1>5. CASE waiting' > QueueCap
  <2>1. /\ Unowned' = Unowned \cup {r} /\ r \notin Unowned
        /\ Slots' = Slots /\ InPhase({"lost"})' = InPhase({"lost"})
    BY <1>5 DEF GateTypeOK, Reserve, Move, Slots, Unowned, InPhase
  <2>2. Cardinality(Unowned') = Cardinality(Unowned) + 1
    BY <2>1, CountAdd, SetsOfRuns
  <2>. QED
    BY <1>1, <1>2, <1>3, <1>4, <2>1, <2>2, SetsOfRuns, RunSetsAreFinite
       DEF WaitingAccounted, QueueBounded, Unowned
<1>6. CASE ~(waiting' > QueueCap)
  <2>1. /\ Slots' = Slots \cup {r} /\ r \notin Slots /\ r \notin Unowned
        /\ Unowned' = Unowned /\ InPhase({"lost"})' = InPhase({"lost"})
    BY <1>6 DEF GateTypeOK, Reserve, Move, Slots, Unowned, InPhase
  <2>2. Cardinality(Slots') = Cardinality(Slots) + 1
    BY <2>1, CountAdd, SetsOfRuns
  <2>3. WaitingAccounted'
    BY <1>4, <2>1, <2>2, SetsOfRuns, RunSetsAreFinite DEF WaitingAccounted, Unowned
  <2>4. QueueBounded'
    <3>1. Slots' \cup InPhase({"lost"})' = (Slots \cup {r}) \cup InPhase({"lost"})
      BY <2>1
    <3>2. /\ InPhase({"lost"}) \in SUBSET Runs
          /\ Slots \cup {r} \in SUBSET Runs
          /\ (Slots \cup {r}) \cap InPhase({"lost"}) = {}
      BY <2>1, SetsOfRuns
    <3>3. Cardinality((Slots \cup {r}) \cup InPhase({"lost"}))
            = Cardinality(Slots \cup {r}) + Cardinality(InPhase({"lost"}))
      BY <3>2, CountUnion
    <3>4. Cardinality(InPhase({"lost"})) <= Cardinality(Unowned)
      BY SetsOfRuns, CountLessOrEqual
    <3>5. Cardinality(Slots \cup {r}) + Cardinality(Unowned) = waiting'
      BY <2>1, <2>3 DEF WaitingAccounted, Unowned
    <3>6. /\ Cardinality(InPhase({"lost"})) \in Nat /\ Cardinality(Unowned) \in Nat
          /\ Cardinality(Slots \cup {r}) \in Nat
      BY <3>2, SetsOfRuns, RunSetsAreFinite
    <3>7. Cardinality(Slots \cup {r}) + Cardinality(InPhase({"lost"})) <= QueueCap
      BY <1>4, <1>6, <3>4, <3>5, <3>6, GateAssumption
    <3>. QED
      BY <3>1, <3>3, <3>7 DEF QueueBounded
  <2>. QED
    BY <1>1, <1>2, <1>3, <2>3, <2>4
<1>. QED
  BY <1>5, <1>6

LEMMA RefundKeeps ==
  ASSUME GateInv, NEW r \in Runs, Refund(r)
  PROVE  GateInv'
<1>. USE DEF GateInv
<1>1. GateTypeOK'
  BY DEF GateTypeOK, Refund, Move, Phase
<1>2. QueueInv'
  BY DEF GateTypeOK, QueueInv, Refund, Move
<1>3. PermitsConserved'
  BY DEF GateTypeOK, Refund, Move, Holders, InPhase, PermitsConserved
<1>4. /\ Unowned' = Unowned \ {r} /\ r \in Unowned
      /\ Slots' = Slots /\ InPhase({"lost"})' = InPhase({"lost"})
      /\ waiting' = waiting - 1 /\ waiting \in Int
  BY DEF GateTypeOK, Refund, Move, Slots, Unowned, InPhase
<1>5. Cardinality(Unowned') = Cardinality(Unowned) - 1
  BY <1>4, CountRemove, SetsOfRuns
<1>6. WaitingAccounted'
  <2>1. Cardinality(Slots) \in Nat /\ Cardinality(Unowned) \in Nat
    BY SetsOfRuns, RunSetsAreFinite
  <2>. QED
    BY <1>4, <1>5, <2>1 DEF WaitingAccounted, Unowned
<1>. QED
  BY <1>1, <1>2, <1>3, <1>4, <1>6 DEF QueueBounded

LEMMA QuietStepsKeep ==
  ASSUME GateInv, NEW r \in Runs,
         Reject(r) \/ Spawn(r) \/ Unwind(r) \/ Cancel(r)
  PROVE  GateInv'
<1>. USE DEF GateInv
<1>1. GateTypeOK'
  BY DEF GateTypeOK, Reject, Spawn, Unwind, Cancel, Move, Phase
<1>2. QueueInv'
  BY DEF GateTypeOK, QueueInv, Reject, Spawn, Unwind, Cancel, Move
<1>3. Holders' = Holders /\ permits' = permits
  BY DEF GateTypeOK, Reject, Spawn, Unwind, Cancel, Move, Holders, InPhase
<1>4. /\ Slots' = Slots /\ Unowned' = Unowned
      /\ InPhase({"lost"})' = InPhase({"lost"}) /\ waiting' = waiting
  BY DEF GateTypeOK, Reject, Spawn, Unwind, Cancel, Move, Slots, Unowned, InPhase
<1>. QED
  BY <1>1, <1>2, <1>3, <1>4, SlotsKept DEF PermitsConserved

\* A holder that leaves and releases its permit hands it to the head of the
\* queue, or frees it.
LEMMA ReleaseKeeps ==
  ASSUME GateInv, NEW r \in Runs, pc[r] \in {"insertFree", "live"},
         Move(r, "over"), Release
  PROVE  QueueInv' /\ PermitsConserved'
<1>. USE DEF GateInv
<1>1. r \in Holders /\ r \notin granted
  BY DEF Holders, InPhase, QueueInv
<1>2. Cardinality(Holders \ {r}) = Cardinality(Holders) - 1
  BY <1>1, CountRemove, SetsOfRuns
<1>3. Cardinality(Holders) \in Nat /\ permits \in Nat
  BY SetsOfRuns, RunSetsAreFinite DEF GateTypeOK
<1>4. CASE semq = <<>>
  <2>1. Holders' = Holders \ {r} /\ permits' = permits + 1
    BY <1>1, <1>4 DEF GateTypeOK, Release, Move, Holders, InPhase
  <2>2. PermitsConserved'
    BY <1>2, <1>3, <2>1 DEF PermitsConserved
  <2>3. QueueInv'
    BY <1>1, <1>4 DEF GateTypeOK, QueueInv, Release, Move
  <2>. QED
    BY <2>2, <2>3
<1>5. CASE semq # <<>>
  <2> DEFINE h == Head(semq)
  <2>1. h \in Runs /\ pc[h] = "parked" /\ h \notin granted /\ h # r
    BY <1>5, TailOfQueue DEF GateTypeOK, QueueInv
  <2>2. Holders' = (Holders \ {r}) \cup {h} /\ permits' = permits
    BY <1>1, <1>5, <2>1 DEF GateTypeOK, Release, Move, Holders, InPhase
  <2>3. h \notin Holders \ {r}
    BY <2>1 DEF Holders, InPhase
  <2>4. Cardinality(Holders') = Cardinality(Holders)
    BY <1>2, <1>3, <2>1, <2>2, <2>3, CountAdd, SetsOfRuns
  <2>5. PermitsConserved'
    BY <2>2, <2>4 DEF PermitsConserved
  <2>6. QueueInv'
    <3>1. semq' = Tail(semq) /\ granted' = granted \cup {h} /\ permits' = permits
      BY <1>5 DEF Release
    <3>2. \A q \in Runs \ {r} : pc'[q] = pc[q]
      BY DEF GateTypeOK, Move
    <3>3. /\ pc'[r] = "over" /\ pc[r] # "parked"
      BY DEF GateTypeOK, Move
    <3>4. \A i \in 1..Len(semq') : i + 1 \in 1..Len(semq) /\ semq'[i] = semq[i + 1]
      BY <1>5, <3>1, TailOfQueue DEF GateTypeOK
    <3>5. \A q \in granted' : pc'[q] = "parked"
      BY <2>1, <3>1, <3>2, <3>3, <1>1 DEF QueueInv, GateTypeOK
    <3>6. \A i, j \in 1..Len(semq') : semq'[i] = semq'[j] => i = j
      BY <3>4 DEF QueueInv
    <3>7. \A i \in 1..Len(semq') : pc'[semq'[i]] = "parked" /\ semq'[i] \notin granted'
      <4>. SUFFICES ASSUME NEW i \in 1..Len(semq')
                    PROVE  pc'[semq'[i]] = "parked" /\ semq'[i] \notin granted'
        OBVIOUS
      <4>1. i + 1 \in 1..Len(semq) /\ semq'[i] = semq[i + 1] /\ 1 \in 1..Len(semq)
            /\ h = semq[1] /\ i + 1 # 1
        BY <1>5, <3>4, TailOfQueue DEF GateTypeOK
      <4>2. semq[i + 1] # h
        BY <4>1 DEF QueueInv
      <4>3. semq[i + 1] \in Runs /\ pc[semq[i + 1]] = "parked" /\ semq[i + 1] \notin granted
        BY <4>1 DEF QueueInv, GateTypeOK
      <4>. QED
        BY <3>1, <3>2, <3>3, <4>1, <4>2, <4>3
    <3>8. \A q \in Runs : pc'[q] = "parked" /\ q \notin granted' =>
            \E i \in 1..Len(semq') : semq'[i] = q
      <4>. SUFFICES ASSUME NEW q \in Runs, pc'[q] = "parked", q \notin granted'
                    PROVE  \E i \in 1..Len(semq') : semq'[i] = q
        OBVIOUS
      <4>1. pc[q] = "parked" /\ q \notin granted /\ q # h
        BY <3>1, <3>2, <3>3
      <4>2. PICK i \in 1..Len(semq) : semq[i] = q
        BY <4>1 DEF QueueInv
      <4>3. i # 1 /\ Len(semq') = Len(semq) - 1 /\ Len(semq) \in Nat
        BY <1>5, <3>1, <4>1, <4>2, TailOfQueue DEF GateTypeOK
      <4>4. i - 1 \in 1..Len(semq') /\ (i - 1) + 1 = i
        BY <4>3
      <4>5. semq'[i - 1] = q
        BY <3>4, <4>2, <4>4
      <4>. QED
        BY <4>4, <4>5
    <3>9. permits' > 0 => semq' = <<>>
      BY <1>5, <3>1 DEF QueueInv
    <3>. QED
      BY <3>5, <3>6, <3>7, <3>8, <3>9 DEF QueueInv
  <2>. QED
    BY <2>5, <2>6
<1>. QED
  BY <1>4, <1>5

LEMMA EndKeeps ==
  ASSUME GateInv, NEW r \in Runs, End(r)
  PROVE  GateInv'
<1>. USE DEF GateInv
<1>1. GateTypeOK'
  BY TailOfQueue DEF GateTypeOK, End, Release, Move, Phase
<1>2. QueueInv' /\ PermitsConserved'
  BY ReleaseKeeps DEF End
<1>3. /\ Slots' = Slots /\ Unowned' = Unowned
      /\ InPhase({"lost"})' = InPhase({"lost"}) /\ waiting' = waiting
  BY DEF GateTypeOK, End, Move, Slots, Unowned, InPhase
<1>. QED
  BY <1>1, <1>2, <1>3, SlotsKept

LEMMA AbandonKeeps ==
  ASSUME GateInv, NEW r \in Runs, Abandon(r)
  PROVE  GateInv'
<1>. USE DEF GateInv
<1>1. CASE pc[r] = "insertFree"
  <2>1. Move(r, "over") /\ Release /\ waiting' = waiting
    BY <1>1 DEF Abandon
  <2>2. GateTypeOK'
    <3>1. permits' \in Nat /\ semq' \in Seq(Runs) /\ granted' \in SUBSET Runs
      BY <2>1, TailOfQueue DEF GateTypeOK, Release
    <3>2. pc' \in [Runs -> Phase]
      BY <2>1 DEF GateTypeOK, Move, Phase
    <3>. QED
      BY <2>1, <3>1, <3>2 DEF GateTypeOK, Abandon
  <2>3. QueueInv' /\ PermitsConserved'
    BY <1>1, <2>1, ReleaseKeeps
  <2>4. /\ Slots' = Slots /\ Unowned' = Unowned
        /\ InPhase({"lost"})' = InPhase({"lost"})
    BY <1>1, <2>1 DEF GateTypeOK, Move, Slots, Unowned, InPhase
  <2>. QED
    BY <2>1, <2>2, <2>3, <2>4, SlotsKept
<1>2. CASE pc[r] = "rejecting"
  <2>1. GateTypeOK'
    BY <1>2 DEF GateTypeOK, Abandon, Move, Phase
  <2>2. QueueInv'
    BY <1>2 DEF GateTypeOK, QueueInv, Abandon, Move
  <2>3. Holders' = Holders /\ permits' = permits
    BY <1>2 DEF GateTypeOK, Abandon, Move, Holders, InPhase
  <2>4. /\ Slots' = Slots /\ Unowned' = Unowned
        /\ InPhase({"lost"})' = InPhase({"lost"}) /\ waiting' = waiting
    BY <1>2 DEF GateTypeOK, Abandon, Move, Slots, Unowned, InPhase
  <2>. QED
    BY <2>1, <2>2, <2>3, <2>4, SlotsKept DEF PermitsConserved
<1>3. CASE pc[r] = "insertQueued"
  <2>1. GateTypeOK'
    BY <1>3 DEF GateTypeOK, Abandon, Move, Phase
  <2>2. QueueInv'
    BY <1>3 DEF GateTypeOK, QueueInv, Abandon, Move
  <2>3. Holders' = Holders /\ permits' = permits
    BY <1>3 DEF GateTypeOK, Abandon, Move, Holders, InPhase
  <2>4. /\ Slots' = Slots \ {r} /\ r \in Slots
        /\ Unowned' = Unowned \cup {r} /\ r \notin Unowned
        /\ InPhase({"lost"})' = InPhase({"lost"}) \cup {r} /\ waiting' = waiting
    BY <1>3 DEF GateTypeOK, Abandon, Move, Slots, Unowned, InPhase
  <2>5. /\ Cardinality(Slots') = Cardinality(Slots) - 1
        /\ Cardinality(Unowned') = Cardinality(Unowned) + 1
    BY <2>4, CountAdd, CountRemove, SetsOfRuns
  <2>6. WaitingAccounted'
    <3>1. Cardinality(Slots) \in Nat /\ Cardinality(Unowned) \in Nat
      BY SetsOfRuns, RunSetsAreFinite
    <3>. QED
      BY <2>4, <2>5, <3>1 DEF WaitingAccounted, Unowned
  <2>7. Slots' \cup InPhase({"lost"})' = Slots \cup InPhase({"lost"})
    BY <2>4
  <2>. QED
    BY <2>1, <2>2, <2>3, <2>6, <2>7 DEF PermitsConserved, QueueBounded
<1>. QED
  BY <1>1, <1>2, <1>3 DEF Abandon

LEMMA PollKeeps ==
  ASSUME GateInv, NEW r \in Runs, Poll(r)
  PROVE  GateInv'
<1>. USE DEF GateInv
<1>1. /\ Slots' = Slots /\ Unowned' = Unowned
      /\ InPhase({"lost"})' = InPhase({"lost"}) /\ waiting' = waiting
  BY DEF GateTypeOK, Poll, PollAcquires, PollParks, PollCancelled, Move, Slots,
         Unowned, InPhase
<1>2. CASE PollAcquires(r)
  <2>1. GateTypeOK'
    BY <1>2 DEF GateTypeOK, Poll, PollAcquires, Move, Phase
  <2>2. QueueInv'
    BY <1>2 DEF GateTypeOK, QueueInv, Poll, PollAcquires, Move
  <2>3. Holders' = Holders \cup {r} /\ r \notin Holders /\ permits' = permits - 1
    BY <1>2 DEF GateTypeOK, QueueInv, Poll, PollAcquires, Move, Holders, InPhase
  <2>4. Cardinality(Holders') = Cardinality(Holders) + 1
    BY <2>3, CountAdd, SetsOfRuns
  <2>5. PermitsConserved'
    <3>1. Cardinality(Holders) \in Nat /\ permits \in Nat
      BY SetsOfRuns, RunSetsAreFinite DEF GateTypeOK
    <3>. QED
      BY <2>3, <2>4, <3>1 DEF PermitsConserved
  <2>. QED
    BY <1>1, <2>1, <2>2, <2>5, SlotsKept
<1>3. CASE PollParks(r)
  <2>1. GateTypeOK'
    BY <1>3, AppendToQueue DEF GateTypeOK, Poll, PollParks, Move, Phase
  <2>2. PermitsConserved'
    BY <1>3 DEF GateTypeOK, Poll, PollParks, Move, Holders, InPhase, PermitsConserved
  <2>3. QueueInv'
    <3>1. /\ semq' = Append(semq, r) /\ granted' = granted /\ permits' = 0
          /\ pc[r] = "queued" /\ pc' = [pc EXCEPT ![r] = "parked"]
      BY <1>3 DEF Poll, PollParks, Move
    <3>2. \A i \in 1..Len(semq) : semq[i] # r /\ semq[i] \in Runs
      BY <3>1 DEF QueueInv, GateTypeOK
    <3>3. /\ Len(semq') = Len(semq) + 1 /\ Len(semq) \in Nat
          /\ \A i \in 1..Len(semq) : semq'[i] = semq[i]
          /\ semq'[Len(semq) + 1] = r
      BY <3>1, AppendToQueue DEF GateTypeOK
    <3>4. \A i \in 1..Len(semq') : i \in 1..Len(semq) \/ i = Len(semq) + 1
      BY <3>3
    <3>5. \A q \in granted' : pc'[q] = "parked"
      BY <3>1 DEF QueueInv, GateTypeOK
    <3>6. \A i, j \in 1..Len(semq') : semq'[i] = semq'[j] => i = j
      BY <3>2, <3>3, <3>4 DEF QueueInv
    <3>7. \A i \in 1..Len(semq') : pc'[semq'[i]] = "parked" /\ semq'[i] \notin granted'
      BY <3>1, <3>2, <3>3, <3>4 DEF QueueInv, GateTypeOK
    <3>8. \A q \in Runs : pc'[q] = "parked" /\ q \notin granted' =>
            \E i \in 1..Len(semq') : semq'[i] = q
      <4>. SUFFICES ASSUME NEW q \in Runs, pc'[q] = "parked", q \notin granted'
                    PROVE  \E i \in 1..Len(semq') : semq'[i] = q
        OBVIOUS
      <4>1. CASE q = r
        <5>1. Len(semq) + 1 \in 1..Len(semq')
          BY <3>3
        <5>. QED
          BY <3>3, <4>1, <5>1
      <4>2. CASE q # r
        <5>1. PICK i \in 1..Len(semq) : semq[i] = q
          BY <3>1, <4>2 DEF QueueInv, GateTypeOK
        <5>2. i \in 1..Len(semq')
          BY <3>3
        <5>. QED
          BY <3>3, <5>1, <5>2
      <4>. QED
        BY <4>1, <4>2
    <3>. QED
      BY <3>1, <3>5, <3>6, <3>7, <3>8 DEF QueueInv
  <2>. QED
    BY <1>1, <2>1, <2>2, <2>3, SlotsKept
<1>4. CASE PollCancelled(r)
  <2>1. GateTypeOK'
    BY <1>4 DEF GateTypeOK, Poll, PollCancelled, Move, Phase
  <2>2. QueueInv'
    BY <1>4 DEF GateTypeOK, QueueInv, Poll, PollCancelled, Move
  <2>3. PermitsConserved'
    BY <1>4 DEF GateTypeOK, Poll, PollCancelled, Move, Holders, InPhase, PermitsConserved
  <2>. QED
    BY <1>1, <2>1, <2>2, <2>3, SlotsKept
<1>. QED
  BY <1>2, <1>3, <1>4 DEF Poll

\* A parked run whose acquire is dropped after it was assigned a permit: the
\* permit goes to the head of the queue, or becomes free.
LEMMA GrantPassedOnKeeps ==
  ASSUME GateInv, NEW r \in Runs, pc[r] = "parked", r \in granted,
         Move(r, "withdrawn"), ReleaseGrantOf(r)
  PROVE  QueueInv' /\ PermitsConserved'
<1>. USE DEF GateInv
<1>1. r \in Holders
  BY DEF Holders
<1>2. Cardinality(Holders \ {r}) = Cardinality(Holders) - 1
  BY <1>1, CountRemove, SetsOfRuns
<1>3. Cardinality(Holders) \in Nat /\ permits \in Nat
  BY SetsOfRuns, RunSetsAreFinite DEF GateTypeOK
<1>4. pc' = [pc EXCEPT ![r] = "withdrawn"]
  BY DEF Move
<1>5. CASE semq = <<>>
  <2>1. /\ Holders' = Holders \ {r} /\ permits' = permits + 1
        /\ granted' = granted \ {r} /\ semq' = semq
    BY <1>4, <1>5 DEF GateTypeOK, ReleaseGrantOf, Holders, InPhase
  <2>2. PermitsConserved'
    BY <1>2, <1>3, <2>1 DEF PermitsConserved
  <2>3. QueueInv'
    BY <1>4, <1>5, <2>1 DEF GateTypeOK, QueueInv
  <2>. QED
    BY <2>2, <2>3
<1>6. CASE semq # <<>>
  <2> DEFINE h == Head(semq)
  <2>1. h \in Runs /\ pc[h] = "parked" /\ h \notin granted /\ h # r
    BY <1>6, TailOfQueue DEF GateTypeOK, QueueInv
  <2>2. /\ granted' = (granted \ {r}) \cup {h} /\ semq' = Tail(semq)
        /\ permits' = permits
    BY <1>6 DEF ReleaseGrantOf
  <2>3. Holders' = (Holders \ {r}) \cup {h}
    BY <1>4, <2>1, <2>2 DEF GateTypeOK, Holders, InPhase
  <2>4. h \notin Holders \ {r}
    BY <2>1 DEF Holders, InPhase
  <2>5. Cardinality(Holders') = Cardinality(Holders)
    BY <1>2, <1>3, <2>1, <2>3, <2>4, CountAdd, SetsOfRuns
  <2>6. PermitsConserved'
    BY <2>2, <2>5 DEF PermitsConserved
  <2>7. QueueInv'
    <3>1. \A q \in Runs \ {r} : pc'[q] = pc[q]
      BY <1>4 DEF GateTypeOK
    <3>2. pc'[r] = "withdrawn"
      BY <1>4 DEF GateTypeOK
    <3>3. \A i \in 1..Len(semq') : i + 1 \in 1..Len(semq) /\ semq'[i] = semq[i + 1]
      BY <1>6, <2>2, TailOfQueue DEF GateTypeOK
    <3>4. \A q \in granted' : pc'[q] = "parked"
      BY <2>1, <2>2, <3>1 DEF QueueInv, GateTypeOK
    <3>5. \A i, j \in 1..Len(semq') : semq'[i] = semq'[j] => i = j
      BY <3>3 DEF QueueInv
    <3>6. \A i \in 1..Len(semq') : pc'[semq'[i]] = "parked" /\ semq'[i] \notin granted'
      <4>. SUFFICES ASSUME NEW i \in 1..Len(semq')
                    PROVE  pc'[semq'[i]] = "parked" /\ semq'[i] \notin granted'
        OBVIOUS
      <4>1. i + 1 \in 1..Len(semq) /\ semq'[i] = semq[i + 1] /\ 1 \in 1..Len(semq)
            /\ h = semq[1] /\ i + 1 # 1
        BY <1>6, <3>3, TailOfQueue DEF GateTypeOK
      <4>2. semq[i + 1] # h
        BY <4>1 DEF QueueInv
      <4>3. semq[i + 1] \in Runs /\ pc[semq[i + 1]] = "parked" /\ semq[i + 1] \notin granted
        BY <4>1 DEF QueueInv, GateTypeOK
      <4>4. semq[i + 1] # r
        BY <4>3
      <4>. QED
        BY <2>2, <3>1, <4>1, <4>2, <4>3, <4>4
    <3>7. \A q \in Runs : pc'[q] = "parked" /\ q \notin granted' =>
            \E i \in 1..Len(semq') : semq'[i] = q
      <4>. SUFFICES ASSUME NEW q \in Runs, pc'[q] = "parked", q \notin granted'
                    PROVE  \E i \in 1..Len(semq') : semq'[i] = q
        OBVIOUS
      <4>1. pc[q] = "parked" /\ q \notin granted /\ q # h
        BY <2>2, <3>1, <3>2
      <4>2. PICK i \in 1..Len(semq) : semq[i] = q
        BY <4>1 DEF QueueInv
      <4>3. i # 1 /\ Len(semq') = Len(semq) - 1 /\ Len(semq) \in Nat
        BY <1>6, <2>2, <4>1, <4>2, TailOfQueue DEF GateTypeOK
      <4>4. i - 1 \in 1..Len(semq') /\ (i - 1) + 1 = i
        BY <4>3
      <4>5. semq'[i - 1] = q
        BY <3>3, <4>2, <4>4
      <4>. QED
        BY <4>4, <4>5
    <3>8. permits' > 0 => semq' = <<>>
      BY <1>6, <2>2 DEF QueueInv
    <3>. QED
      BY <3>4, <3>5, <3>6, <3>7, <3>8 DEF QueueInv
  <2>. QED
    BY <2>6, <2>7
<1>. QED
  BY <1>5, <1>6

\* A parked run whose acquire is dropped before it was assigned a permit.
LEMMA QueueLeftKeeps ==
  ASSUME GateInv, NEW r \in Runs, pc[r] = "parked", r \notin granted,
         Move(r, "withdrawn"), semq' = Without(semq, r),
         UNCHANGED <<permits, granted>>
  PROVE  semq' \in Seq(Runs) /\ QueueInv' /\ PermitsConserved'
<1>. USE DEF GateInv
<1>1. pc' = [pc EXCEPT ![r] = "withdrawn"]
  BY DEF Move
<1>2. /\ semq' \in Seq(Runs) /\ Len(semq') = Len(semq) - 1
      /\ \A i, j \in 1..Len(semq') : semq'[i] = semq'[j] => i = j
      /\ \A i \in 1..Len(semq') : semq'[i] # r /\ \E j \in 1..Len(semq) : semq'[i] = semq[j]
      /\ \A j \in 1..Len(semq) : semq[j] # r => \E i \in 1..Len(semq') : semq'[i] = semq[j]
  <2>1. Distinct(semq)
    BY DEF QueueInv, Distinct
  <2>2. Lists(semq, r)
    BY DEF QueueInv, Lists
  <2>3. semq \in Seq(Runs)
    BY DEF GateTypeOK
  <2>4. r \in Runs /\ semq' = Without(semq, r)
    OBVIOUS
  <2>5. OnlyLeaves(semq', r)
    BY ONLY <2>1, <2>2, <2>3, <2>4, WithoutKeepsTheOthers
  <2>. QED
    BY ONLY <2>5 DEF OnlyLeaves
<1>3. PermitsConserved'
  <2>1. Holders' = Holders
    BY <1>1 DEF GateTypeOK, Holders, InPhase
  <2>. QED
    BY <2>1 DEF PermitsConserved
<1>4. semq # <<>>
  BY DEF QueueInv, GateTypeOK
<1>5. QueueInv'
  <2>1. \A q \in granted' : pc'[q] = "parked"
    BY <1>1 DEF QueueInv, GateTypeOK
  <2>2. \A i \in 1..Len(semq') : pc'[semq'[i]] = "parked" /\ semq'[i] \notin granted'
    <3>. SUFFICES ASSUME NEW i \in 1..Len(semq')
                  PROVE  pc'[semq'[i]] = "parked" /\ semq'[i] \notin granted'
      OBVIOUS
    <3>1. PICK j \in 1..Len(semq) : semq'[i] = semq[j]
      BY <1>2
    <3>2. pc[semq[j]] = "parked" /\ semq[j] \notin granted /\ semq[j] \in Runs
      BY DEF QueueInv, GateTypeOK
    <3>. QED
      BY <1>1, <1>2, <3>1, <3>2 DEF GateTypeOK
  <2>3. \A q \in Runs : pc'[q] = "parked" /\ q \notin granted' =>
          \E i \in 1..Len(semq') : semq'[i] = q
    <3>. SUFFICES ASSUME NEW q \in Runs, pc'[q] = "parked", q \notin granted'
                  PROVE  \E i \in 1..Len(semq') : semq'[i] = q
      OBVIOUS
    <3>1. q # r /\ pc[q] = "parked" /\ q \notin granted
      BY <1>1 DEF GateTypeOK
    <3>2. PICK j \in 1..Len(semq) : semq[j] = q
      BY <3>1 DEF QueueInv
    <3>. QED
      BY <1>2, <3>1, <3>2
  <2>4. permits' > 0 => semq' = <<>>
    BY <1>4 DEF QueueInv
  <2>. QED
    BY <1>2, <2>1, <2>2, <2>3, <2>4 DEF QueueInv
<1>. QED
  BY <1>2, <1>3, <1>5

LEMMA WakeKeeps ==
  ASSUME GateInv, NEW r \in Runs, Wake(r)
  PROVE  GateInv'
<1>. USE DEF GateInv
<1>1. CASE WakeAdmitted(r)
  <2>1. GateTypeOK'
    BY <1>1 DEF GateTypeOK, Wake, WakeAdmitted, Move, Phase
  <2>2. QueueInv'
    BY <1>1 DEF GateTypeOK, QueueInv, Wake, WakeAdmitted, Move
  <2>3. PermitsConserved'
    <3>1. Holders' = Holders /\ permits' = permits
      BY <1>1 DEF GateTypeOK, Wake, WakeAdmitted, Move, Holders, InPhase
    <3>. QED
      BY <3>1 DEF PermitsConserved
  <2>4. /\ Slots' = Slots /\ Unowned' = Unowned
        /\ InPhase({"lost"})' = InPhase({"lost"}) /\ waiting' = waiting
    BY <1>1 DEF GateTypeOK, Wake, WakeAdmitted, Move, Slots, Unowned, InPhase
  <2>. QED
    BY <2>1, <2>2, <2>3, <2>4, SlotsKept
<1>2. CASE WakeCancelled(r)
  <2>1. QueueInv' /\ PermitsConserved' /\ semq' \in Seq(Runs)
    <3>1. CASE r \in granted
      BY <1>2, <3>1, GrantPassedOnKeeps, TailOfQueue
         DEF Wake, WakeCancelled, ReleaseGrantOf, GateTypeOK
    <3>2. CASE r \notin granted
      BY <1>2, <3>2, QueueLeftKeeps DEF Wake, WakeCancelled
    <3>. QED
      BY <3>1, <3>2
  <2>2. GateTypeOK'
    <3>1. granted' \in SUBSET Runs /\ permits' \in Nat
      BY <1>2, TailOfQueue DEF GateTypeOK, WakeCancelled, ReleaseGrantOf
    <3>. QED
      BY <1>2, <2>1, <3>1 DEF GateTypeOK, Wake, WakeCancelled, Move, Phase
  <2>3. /\ Slots' = Slots /\ Unowned' = Unowned
        /\ InPhase({"lost"})' = InPhase({"lost"}) /\ waiting' = waiting
    BY <1>2 DEF GateTypeOK, Wake, WakeCancelled, Move, Slots, Unowned, InPhase
  <2>. QED
    BY <2>1, <2>2, <2>3, SlotsKept
<1>. QED
  BY <1>1, <1>2 DEF Wake

LEMMA SettleKeeps ==
  ASSUME GateInv, NEW r \in Runs, Settle(r)
  PROVE  GateInv'
<1>. USE DEF GateInv
<1>1. GateTypeOK'
  BY DEF GateTypeOK, Settle, Move, Phase
<1>2. QueueInv'
  BY DEF GateTypeOK, QueueInv, Settle, Move
<1>3. PermitsConserved'
  <2>1. Holders' = Holders /\ permits' = permits
    BY DEF GateTypeOK, Settle, Move, Holders, InPhase
  <2>. QED
    BY <2>1 DEF PermitsConserved
<1>4. /\ Slots' = Slots \ {r} /\ r \in Slots /\ Unowned' = Unowned
      /\ InPhase({"lost"})' = InPhase({"lost"})
      /\ waiting' = waiting - 1 /\ waiting \in Int
  BY DEF GateTypeOK, Settle, Move, Slots, Unowned, InPhase
<1>5. Cardinality(Slots') = Cardinality(Slots) - 1
  BY <1>4, CountRemove, SetsOfRuns
<1>6. WaitingAccounted'
  <2>1. Cardinality(Slots) \in Nat /\ Cardinality(Unowned) \in Nat
    BY SetsOfRuns, RunSetsAreFinite
  <2>. QED
    BY <1>4, <1>5, <2>1 DEF WaitingAccounted, Unowned
<1>7. QueueBounded'
  <2>1. Slots' \cup InPhase({"lost"})' \subseteq Slots \cup InPhase({"lost"})
    BY <1>4
  <2>2. Cardinality(Slots' \cup InPhase({"lost"})')
          <= Cardinality(Slots \cup InPhase({"lost"}))
    BY <2>1, SetsOfRuns, CountLessOrEqual
  <2>3. /\ Cardinality(Slots' \cup InPhase({"lost"})') \in Nat
        /\ Cardinality(Slots \cup InPhase({"lost"})) \in Nat
    BY <2>1, SetsOfRuns, RunSetsAreFinite
  <2>. QED
    BY <2>2, <2>3, GateAssumption DEF QueueBounded
<1>. QED
  BY <1>1, <1>2, <1>3, <1>6, <1>7

LEMMA NothingHeldNothingWaiting ==
  ASSUME \A r \in Runs : pc[r] \in {"idle", "over"},
         permits = PerHarness, semq = <<>>, granted = {}, waiting = 0
  PROVE  QueueInv /\ PermitsConserved /\ WaitingAccounted /\ QueueBounded
<1>1. /\ Holders = {} /\ Slots = {} /\ InPhase({"refused", "lost"}) = {}
      /\ InPhase({"lost"}) = {}
  BY DEF Holders, Slots, InPhase
<1>2. \A S : S = {} => Cardinality(S) = 0
  BY FS_EmptySet
<1>3. QueueInv
  BY DEF QueueInv
<1>4. PermitsConserved
  <2>1. Cardinality(Holders) = 0
    BY <1>1, <1>2
  <2>. QED
    BY <2>1, GateAssumption DEF PermitsConserved
<1>5. WaitingAccounted
  <2>1. Cardinality(Slots) = 0 /\ Cardinality(InPhase({"refused", "lost"})) = 0
    BY <1>1, <1>2
  <2>. QED
    BY <2>1 DEF WaitingAccounted
<1>6. QueueBounded
  <2>1. Slots \cup InPhase({"lost"}) = {}
    BY <1>1
  <2>2. Cardinality(Slots \cup InPhase({"lost"})) = 0
    BY <1>2, <2>1
  <2>. QED
    BY <2>2, GateAssumption DEF QueueBounded
<1>. QED
  BY <1>3, <1>4, <1>5, <1>6

LEMMA InitEstablishes == GateInit => GateInv
<1>. SUFFICES ASSUME GateInit PROVE GateInv
  OBVIOUS
<1>1. GateTypeOK
  BY GateAssumption DEF GateInit, GateTypeOK, Phase
<1>2. \A r \in Runs : pc[r] \in {"idle", "over"}
  BY DEF GateInit
<1>. QED
  BY <1>1, <1>2, NothingHeldNothingWaiting DEF GateInit, GateInv

LEMMA RestartKeeps ==
  ASSUME GateInv, Restart
  PROVE  GateInv'
<1>1. GateTypeOK'
  BY GateAssumption DEF GateInv, GateTypeOK, Restart, Phase
<1>2. \A r \in Runs : pc'[r] \in {"idle", "over"}
  BY DEF Restart
<1>3. /\ permits' = PerHarness /\ semq' = <<>> /\ granted' = {} /\ waiting' = 0
  BY DEF Restart
<1>4. /\ Holders' = {} /\ Slots' = {} /\ InPhase({"refused", "lost"})' = {}
      /\ InPhase({"lost"})' = {}
  BY <1>2, <1>3 DEF Holders, Slots, InPhase
<1>5. \A S : S = {} => Cardinality(S) = 0
  BY FS_EmptySet
<1>6. QueueInv'
  BY <1>2, <1>3 DEF QueueInv
<1>7. PermitsConserved' /\ WaitingAccounted'
  <2>1. /\ Cardinality(Holders)' = 0 /\ Cardinality(Slots)' = 0
        /\ Cardinality(InPhase({"refused", "lost"}))' = 0
    BY <1>4, <1>5
  <2>. QED
    BY <1>3, <2>1, GateAssumption DEF PermitsConserved, WaitingAccounted
<1>8. QueueBounded'
  <2>1. (Slots \cup InPhase({"lost"}))' = {}
    BY <1>4
  <2>2. Cardinality(Slots \cup InPhase({"lost"}))' = 0
    BY <1>5, <2>1
  <2>. QED
    BY <2>2, GateAssumption DEF QueueBounded
<1>. QED
  BY <1>1, <1>6, <1>7, <1>8 DEF GateInv

LEMMA StepKeeps == GateInv /\ [GateNext]_gateVars => GateInv'
<1>. SUFFICES ASSUME GateInv, [GateNext]_gateVars PROVE GateInv'
  OBVIOUS
<1>1. ASSUME NEW r \in Runs, Launch(r) PROVE GateInv'
  BY <1>1, TryAcquireKeeps, ReserveKeeps, RefundKeeps, QuietStepsKeep, AbandonKeeps
     DEF Launch
<1>2. ASSUME NEW r \in Runs, Supervise(r) PROVE GateInv'
  BY <1>2, PollKeeps, WakeKeeps, SettleKeeps, QuietStepsKeep DEF Supervise
<1>3. ASSUME NEW r \in Runs, End(r) \/ Cancel(r) PROVE GateInv'
  BY <1>3, EndKeeps, QuietStepsKeep
<1>4. CASE Restart
  BY <1>4, RestartKeeps
<1>5. CASE UNCHANGED gateVars
  BY <1>5 DEF gateVars, GateInv, GateTypeOK, QueueInv, PermitsConserved,
              WaitingAccounted, QueueBounded, Holders, Slots, InPhase
<1>. QED
  BY <1>1, <1>2, <1>3, <1>4, <1>5 DEF GateNext

-----------------------------------------------------------------------------
(* The results. *)

\* Every state the gate reaches satisfies the inductive invariant.
THEOREM GateInvHolds == GateSafety => []GateInv
BY InitEstablishes, StepKeeps, PTL DEF GateSafety

\* HarnessGate and start_run keep their variables well typed: in particular the
\* semaphore never counts below zero.
THEOREM GateTypes == GateSafety => []GateTypeOK
<1>1. GateInv => GateTypeOK
  BY DEF GateInv
<1>. QED
  BY <1>1, GateInvHolds, PTL

\* No permit of a harness is lost or duplicated, whatever the order of grants,
\* cancellations, abandoned launches and ends (start_run's GateHold and the
\* supervisor's permit guard).
THEOREM PermitsAreConserved == GateSafety => []PermitsConserved
<1>1. GateInv => PermitsConserved
  BY DEF GateInv
<1>. QED
  BY <1>1, GateInvHolds, PTL

\* reserve_slot's counter is exactly the waiting runs plus the refusals in
\* flight plus the launches that vanished with a slot.
THEOREM WaitingIsAccounted == GateSafety => []WaitingAccounted
<1>1. GateInv => WaitingAccounted
  BY DEF GateInv
<1>. QED
  BY <1>1, GateInvHolds, PTL

\* However launches race between reserve_slot's fetch_add and fetch_sub, never
\* more than queue_per_harness runs wait.
THEOREM QueueIsBounded == GateSafety => []QueueBounded
<1>1. GateInv => QueueBounded
  BY DEF GateInv
<1>. QED
  BY <1>1, GateInvHolds, PTL

\* No queued run sleeps beside a free permit, and every parked run is either
\* assigned a permit or in the semaphore's queue.
THEOREM NoLostWakeup == GateSafety => []NobodySleepsOnAFreePermit
<1>1. GateInv => NobodySleepsOnAFreePermit
  <2>. SUFFICES ASSUME GateInv PROVE NobodySleepsOnAFreePermit
    OBVIOUS
  <2>1. permits > 0 => semq = <<>>
    BY DEF GateInv, QueueInv
  <2>2. DOMAIN semq = 1..Len(semq) /\ \A i \in 1..Len(semq) : semq[i] \in Runs
    BY DEF GateInv, GateTypeOK
  <2>3. {semq[i] : i \in DOMAIN semq} = InPhase({"parked"}) \ granted
    BY <2>2 DEF GateInv, QueueInv, InPhase
  <2>. QED
    BY <2>1, <2>3 DEF NobodySleepsOnAFreePermit
<1>. QED
  BY <1>1, GateInvHolds, PTL

\* A launch is refused only when waiting runs, other refusals in flight and
\* vanished launches use the whole cap up.
THEOREM RefusalsAreCaused == GateSafety => RefusalsHaveACause
<1> DEFINE Caused == \A r \in Runs : pc[r] = "full" /\ pc'[r] = "refused" =>
                       Cardinality(Slots \cup InPhase({"refused", "lost"})) >= QueueCap
<1>1. GateInv /\ [GateNext]_gateVars => [Caused]_gateVars
  <2>. SUFFICES ASSUME GateInv, GateNext, NEW r \in Runs,
                       pc[r] = "full", pc'[r] = "refused"
                PROVE  Cardinality(Slots \cup InPhase({"refused", "lost"})) >= QueueCap
    OBVIOUS
  <2>1. Reserve(r)
    <3>. USE DEF GateInv, GateTypeOK, Move
    <3>1. ASSUME NEW q \in Runs, Launch(q) PROVE q = r /\ Reserve(r)
      BY <3>1 DEF Launch, TryAcquire, Reserve, Refund, Reject, Spawn, Abandon
    <3>2. ASSUME NEW q \in Runs, Supervise(q) PROVE FALSE
      BY <3>2 DEF Supervise, Poll, PollAcquires, PollParks, PollCancelled,
                  Wake, WakeAdmitted, WakeCancelled, Settle, Unwind
    <3>3. ASSUME NEW q \in Runs, End(q) \/ Cancel(q) PROVE FALSE
      BY <3>3 DEF End, Cancel
    <3>4. CASE Restart
      BY <3>4 DEF Restart
    <3>. QED
      BY <3>1, <3>2, <3>3, <3>4 DEF GateNext
  <2>2. waiting + 1 > QueueCap
    BY <2>1 DEF Reserve, Move, GateInv, GateTypeOK
  <2>3. Cardinality(Slots \cup Unowned) = Cardinality(Slots) + Cardinality(Unowned)
    BY SetsOfRuns, CountUnion DEF GateInv
  <2>4. Cardinality(Slots) \in Nat /\ Cardinality(Unowned) \in Nat
    BY SetsOfRuns, RunSetsAreFinite DEF GateInv
  <2>. QED
    BY <2>2, <2>3, <2>4, GateAssumption DEF GateInv, WaitingAccounted, Unowned
<1>. QED
  BY <1>1, GateInvHolds, PTL DEF GateSafety, RefusalsHaveACause

-----------------------------------------------------------------------------
(***************************************************************************)
(* The gate keeps its promise: every behaviour of RunGate is a behaviour   *)
(* of Admission under the mapping RunGate declares.                        *)
(***************************************************************************)

absVars == <<Holders, Awaiting, Through>>

\* The mapped sets are disjoint sets of runs, and a run no action has moved
\* stays in the set it is in.
LEMMA MappedSets ==
  ASSUME GateInv
  PROVE  /\ Holders \in SUBSET Runs /\ Awaiting \in SUBSET Runs
         /\ Through \in SUBSET Runs
         /\ Holders \cap Awaiting = {} /\ Holders \cap Through = {}
         /\ Awaiting \cap Through = {} /\ Awaiting \subseteq Slots
BY DEF GateInv, GateTypeOK, QueueInv, Holders, Awaiting, Through, Slots, InPhase

\* Module Admission counts as this one does.
LEMMA SameCount ==
  ASSUME NEW S
  PROVE  Contract!Cardinality(S) = Cardinality(S)
BY DEF Contract!Cardinality, Cardinality

\* A free permit is room for one more holder.
LEMMA RoomToRun ==
  ASSUME GateInv, permits > 0
  PROVE  Cardinality(Holders) < PerHarness
<1>1. Cardinality(Holders) \in Nat /\ permits \in Nat
  BY MappedSets, RunSetsAreFinite DEF GateInv, GateTypeOK
<1>. QED
  BY <1>1, GateAssumption DEF GateInv, PermitsConserved

\* A reservation under the cap is room for one more waiting run.
LEMMA RoomToWait ==
  ASSUME GateInv, waiting < QueueCap
  PROVE  Cardinality(Awaiting) < QueueCap
<1>1. /\ Cardinality(Awaiting) \in Nat /\ Cardinality(Slots) \in Nat
      /\ Cardinality(Unowned) \in Nat
  BY MappedSets, SetsOfRuns, RunSetsAreFinite DEF GateInv
<1>2. Cardinality(Awaiting) <= Cardinality(Slots)
  BY MappedSets, SetsOfRuns, CountLessOrEqual DEF GateInv
<1>. QED
  BY <1>1, <1>2, GateAssumption DEF GateInv, WaitingAccounted, Unowned

-----------------------------------------------------------------------------
(* One lemma per action of the gate: what it is in terms of the contract. *)

LEMMA TryAcquireMaps ==
  ASSUME GateInv, NEW r \in Runs, TryAcquire(r)
  PROVE  Contract!Start(r) \/ UNCHANGED absVars
<1>1. CASE permits > 0
  <2>1. Holders' = Holders \cup {r} /\ Awaiting' = Awaiting /\ Through' = Through
    BY <1>1 DEF GateInv, GateTypeOK, TryAcquire, Move, Holders, Awaiting, Through, InPhase
  <2>2. r \in Contract!Fresh
    BY DEF GateInv, QueueInv, TryAcquire, Contract!Fresh, Holders, Awaiting, Through, InPhase
  <2>. QED
    BY <1>1, <2>1, <2>2, RoomToRun, SameCount DEF Contract!Start
<1>2. CASE ~(permits > 0)
  BY <1>2 DEF GateInv, GateTypeOK, QueueInv, TryAcquire, Move, absVars,
              Holders, Awaiting, Through, InPhase
<1>. QED
  BY <1>1, <1>2

LEMMA ReserveMaps ==
  ASSUME GateInv, NEW r \in Runs, Reserve(r)
  PROVE  Contract!Queue(r) \/ UNCHANGED absVars
<1>1. CASE waiting' > QueueCap
  BY <1>1 DEF GateInv, GateTypeOK, QueueInv, Reserve, Move, absVars,
              Holders, Awaiting, Through, InPhase
<1>2. CASE ~(waiting' > QueueCap)
  <2>1. Awaiting' = Awaiting \cup {r} /\ Holders' = Holders /\ Through' = Through
    BY <1>2 DEF GateInv, GateTypeOK, QueueInv, Reserve, Move, Holders, Awaiting, Through,
                InPhase
  <2>2. r \in Contract!Fresh
    BY DEF GateInv, QueueInv, Reserve, Contract!Fresh, Holders, Awaiting, Through, InPhase
  <2>3. waiting < QueueCap
    BY <1>2, GateAssumption DEF Reserve, GateInv, GateTypeOK
  <2>. QED
    BY <2>1, <2>2, <2>3, RoomToWait, SameCount DEF Contract!Queue
<1>. QED
  BY <1>1, <1>2

\* Steps that touch only the counter, the token or the phases the contract
\* does not tell apart.
LEMMA QuietStepsMap ==
  ASSUME GateInv, NEW r \in Runs,
         Refund(r) \/ Spawn(r) \/ Settle(r) \/ Unwind(r) \/ Cancel(r)
  PROVE  UNCHANGED absVars
BY DEF GateInv, GateTypeOK, QueueInv, Refund, Spawn, Settle, Unwind, Cancel, Move, absVars,
       Holders, Awaiting, Through, InPhase

LEMMA RejectMaps ==
  ASSUME GateInv, NEW r \in Runs, pc[r] = "rejecting", Move(r, "over"),
         UNCHANGED granted
  PROVE  Contract!Refuse(r)
<1>1. Through' = Through \cup {r} /\ Holders' = Holders /\ Awaiting' = Awaiting
  BY DEF GateInv, GateTypeOK, QueueInv, Move, Holders, Awaiting, Through, InPhase
<1>2. r \in Contract!Fresh
  BY DEF GateInv, QueueInv, Contract!Fresh, Holders, Awaiting, Through, InPhase
<1>. QED
  BY <1>1, <1>2 DEF Contract!Refuse

\* A holder that leaves frees its permit or hands it to the oldest parked run.
LEMMA ReleaseMaps ==
  ASSUME GateInv, NEW r \in Runs, pc[r] \in {"insertFree", "live"},
         Move(r, "over"), Release
  PROVE  Contract!Finish(r) \/ \E s \in Runs : Contract!HandOver(r, s)
<1>. USE DEF GateInv
<1>1. r \in Holders /\ r \notin granted
  BY DEF Holders, InPhase, QueueInv
<1>2. Through' = Through \cup {r}
  BY DEF GateTypeOK, Move, Through, InPhase
<1>3. CASE semq = <<>>
  <2>1. Holders' = Holders \ {r} /\ Awaiting' = Awaiting
    BY <1>1, <1>3 DEF GateTypeOK, QueueInv, Release, Move, Holders, Awaiting, InPhase
  <2>. QED
    BY <1>1, <1>2, <2>1 DEF Contract!Finish
<1>4. CASE semq # <<>>
  <2> DEFINE h == Head(semq)
  <2>1. h \in Runs /\ pc[h] = "parked" /\ h \notin granted /\ h # r
    BY <1>4, TailOfQueue DEF GateTypeOK, QueueInv
  <2>2. Holders' = (Holders \ {r}) \cup {h}
    BY <1>1, <1>4, <2>1 DEF GateTypeOK, Release, Move, Holders, InPhase
  <2>3. Awaiting' = Awaiting \ {h}
    BY <1>4, <2>1 DEF GateTypeOK, Release, Move, Awaiting, InPhase
  <2>4. h \in Awaiting
    BY <2>1 DEF Awaiting, InPhase
  <2>. QED
    BY <1>1, <1>2, <2>1, <2>2, <2>3, <2>4 DEF Contract!HandOver
<1>. QED
  BY <1>3, <1>4

LEMMA AbandonMaps ==
  ASSUME GateInv, NEW r \in Runs, Abandon(r)
  PROVE  \/ Contract!Refuse(r) \/ Contract!Withdraw(r) \/ Contract!Finish(r)
         \/ \E s \in Runs : Contract!HandOver(r, s)
<1>1. CASE pc[r] = "rejecting"
  <2>1. Move(r, "over") /\ UNCHANGED granted
    BY <1>1 DEF Abandon
  <2>. QED
    BY <1>1, <2>1, RejectMaps
<1>2. CASE pc[r] = "insertFree"
  <2>1. Move(r, "over") /\ Release
    BY <1>2 DEF Abandon
  <2>. QED
    BY <1>2, <2>1, ReleaseMaps
<1>3. CASE pc[r] = "insertQueued"
  <2>1. Awaiting' = Awaiting \ {r} /\ Through' = Through \cup {r} /\ Holders' = Holders
    BY <1>3 DEF GateInv, GateTypeOK, QueueInv, Abandon, Move, Holders, Awaiting, Through,
                InPhase
  <2>2. r \in Awaiting
    BY <1>3 DEF GateInv, QueueInv, Awaiting, InPhase
  <2>. QED
    BY <2>1, <2>2 DEF Contract!Withdraw
<1>. QED
  BY <1>1, <1>2, <1>3 DEF Abandon

LEMMA PollMaps ==
  ASSUME GateInv, NEW r \in Runs, Poll(r)
  PROVE  Contract!Admit(r) \/ Contract!Withdraw(r) \/ UNCHANGED absVars
<1>. USE DEF GateInv
<1>1. r \in Awaiting /\ r \notin granted
  BY DEF QueueInv, Poll, Awaiting, InPhase
<1>2. CASE PollAcquires(r)
  <2>1. Holders' = Holders \cup {r} /\ Awaiting' = Awaiting \ {r} /\ Through' = Through
    BY <1>1, <1>2 DEF GateTypeOK, Poll, PollAcquires, Move, Holders, Awaiting, Through, InPhase
  <2>. QED
    BY <1>1, <1>2, <2>1, RoomToRun, SameCount DEF PollAcquires, Contract!Admit
<1>3. CASE PollParks(r)
  BY <1>1, <1>3 DEF GateTypeOK, Poll, PollParks, Move, absVars, Holders, Awaiting,
                    Through, InPhase
<1>4. CASE PollCancelled(r)
  <2>1. Awaiting' = Awaiting \ {r} /\ Through' = Through \cup {r} /\ Holders' = Holders
    BY <1>1, <1>4 DEF GateTypeOK, Poll, PollCancelled, Move, Holders, Awaiting, Through, InPhase
  <2>. QED
    BY <1>1, <2>1 DEF Contract!Withdraw
<1>. QED
  BY <1>2, <1>3, <1>4 DEF Poll

\* A cancellation that wins against a granted permit passes the permit on.
LEMMA WakeMaps ==
  ASSUME GateInv, NEW r \in Runs, Wake(r)
  PROVE  \/ Contract!Withdraw(r) \/ Contract!Finish(r) \/ UNCHANGED absVars
         \/ \E s \in Runs : Contract!HandOver(r, s)
<1>. USE DEF GateInv
<1>0. pc[r] = "parked"
  BY DEF Wake
<1>1. CASE WakeAdmitted(r)
  BY <1>0, <1>1 DEF GateTypeOK, QueueInv, WakeAdmitted, Move, absVars, Holders, Awaiting,
                    Through, InPhase
<1>2. CASE WakeCancelled(r)
  <2>1. Through' = Through \cup {r}
    BY <1>2 DEF GateTypeOK, WakeCancelled, Move, Through, InPhase
  <2>2. CASE r \notin granted
    <3>1. Awaiting' = Awaiting \ {r} /\ Holders' = Holders
      BY <1>0, <1>2, <2>2 DEF GateTypeOK, WakeCancelled, Move, Holders, Awaiting, InPhase
    <3>2. r \in Awaiting
      BY <1>0, <2>2 DEF Awaiting, InPhase
    <3>. QED
      BY <2>1, <3>1, <3>2 DEF Contract!Withdraw
  <2>3. CASE r \in granted /\ semq = <<>>
    <3>1. Holders' = Holders \ {r} /\ Awaiting' = Awaiting
      BY <1>0, <1>2, <2>3 DEF GateTypeOK, QueueInv, WakeCancelled, ReleaseGrantOf, Move,
                              Holders, Awaiting, InPhase
    <3>. QED
      BY <2>1, <2>3, <3>1 DEF Contract!Finish, Holders
  <2>4. CASE r \in granted /\ semq # <<>>
    <3> DEFINE h == Head(semq)
    <3>1. h \in Runs /\ pc[h] = "parked" /\ h \notin granted /\ h # r
      BY <2>4, TailOfQueue DEF GateTypeOK, QueueInv
    <3>2. /\ pc' = [pc EXCEPT ![r] = "withdrawn"]
          /\ granted' = (granted \ {r}) \cup {h}
      BY <1>2, <2>4 DEF WakeCancelled, ReleaseGrantOf, Move
    <3>3. Holders' = (Holders \ {r}) \cup {h}
      BY <1>0, <3>1, <3>2 DEF GateTypeOK, Holders, InPhase
    <3>4. Awaiting' = Awaiting \ {h}
      BY <1>0, <2>4, <3>1, <3>2 DEF GateTypeOK, Awaiting, InPhase
    <3>5. h \in Awaiting /\ r \in Holders
      BY <2>4, <3>1 DEF Awaiting, Holders, InPhase
    <3>. QED
      BY <2>1, <3>1, <3>3, <3>4, <3>5 DEF Contract!HandOver
  <2>. QED
    BY <2>2, <2>3, <2>4
<1>. QED
  BY <1>1, <1>2 DEF Wake

LEMMA RestartMaps ==
  ASSUME GateInv, Restart
  PROVE  Contract!Reset
<1>1. Holders' = {} /\ Awaiting' = {}
  BY DEF Restart, Holders, Awaiting, InPhase
<1>2. Through' \in SUBSET Runs
  BY DEF Through, InPhase
<1>3. \A r \in Runs : pc[r] # "idle" => r \in Through'
  BY DEF Restart, Through, InPhase
<1>4. Holders \cup Awaiting \cup Through \subseteq Through'
  BY <1>3 DEF GateInv, GateTypeOK, QueueInv, Holders, Awaiting, Through, InPhase
<1>. QED
  BY <1>1, <1>2, <1>4 DEF Contract!Reset

LEMMA InitMaps == GateInit => Contract!Init
BY DEF GateInit, Contract!Init, Holders, Awaiting, Through, InPhase

LEMMA StepMaps == GateInv /\ [GateNext]_gateVars => [Contract!Next]_absVars
<1>. SUFFICES ASSUME GateInv, [GateNext]_gateVars
              PROVE  Contract!Next \/ UNCHANGED absVars
  OBVIOUS
<1>1. ASSUME NEW r \in Runs, Launch(r) PROVE Contract!Next \/ UNCHANGED absVars
  <2>1. ASSUME Reject(r) PROVE Contract!Refuse(r)
    BY <2>1, RejectMaps DEF Reject
  <2>. QED
    BY <1>1, <2>1, TryAcquireMaps, ReserveMaps, QuietStepsMap, AbandonMaps
       DEF Launch, Contract!Next
<1>2. ASSUME NEW r \in Runs, Supervise(r) PROVE Contract!Next \/ UNCHANGED absVars
  BY <1>2, PollMaps, WakeMaps, QuietStepsMap DEF Supervise, Contract!Next
<1>3. ASSUME NEW r \in Runs, End(r) PROVE Contract!Next
  <2>1. Contract!Finish(r) \/ \E s \in Runs : Contract!HandOver(r, s)
    BY <1>3, ReleaseMaps DEF End
  <2>. QED
    BY <2>1 DEF Contract!Next
<1>4. ASSUME NEW r \in Runs, Cancel(r) PROVE UNCHANGED absVars
  BY <1>4, QuietStepsMap
<1>5. CASE Restart
  BY <1>5, RestartMaps DEF Contract!Next
<1>6. CASE UNCHANGED gateVars
  BY <1>6 DEF gateVars, absVars, Holders, Awaiting, Through, InPhase
<1>. QED
  BY <1>1, <1>2, <1>3, <1>4, <1>5, <1>6 DEF GateNext

-----------------------------------------------------------------------------

\* HarnessGate, start_run and the supervisor's wait implement the admission
\* contract: at most per_harness runs own a permit, at most queue_per_harness
\* wait, each run is admitted once and ends once, and a permit that is given
\* back frees a place or goes straight to one waiting run.
THEOREM GateKeepsTheContract == GateSafety => KeepsTheContract
<1>1. GateInit => Contract!Init
  BY InitMaps
<1>2. GateInv /\ [GateNext]_gateVars => [Contract!Next]_Contract!vars
  BY StepMaps DEF absVars, Contract!vars
<1>. QED
  BY <1>1, <1>2, GateInvHolds, PTL DEF GateSafety, KeepsTheContract, Contract!Spec

(***************************************************************************)
(* The life of a run (RunLifecycle.tla).                                   *)
(***************************************************************************)

BeforeTheAgent == {"none", "prep", "mark", "begin", "open"}

\* Nothing of a run reaches the tables before its launch inserts the row, and
\* nothing that could end it is there before its agent is spawned.
Unborn(r) ==
  /\ pc[r] \notin {"live", "over", "lost"} => sup[r] = "none"
  /\ pc[r] \in {"idle", "full", "refused", "rejecting"} => row[r] = "none"
  /\ pc[r] # "idle" => task[r] \in Tasks
  /\ pc[r] \notin {"over", "lost"} /\ sup[r] \in BeforeTheAgent =>
       /\ r \notin done
       /\ driver[r] = "none"
       /\ row[r] \in {"none", "Queued", "Spawning"}
       /\ snapshots[r] = {}
       /\ status[r] \in {"none", "Spawning"}

\* While the agent works, its supervisor is in the loop with nothing terminal in
\* its hands, in the store or on the way to it.
Working(r) ==
  driver[r] = "working" =>
    /\ pc[r] = "live" /\ sup[r] = "loop" /\ r \notin done
    /\ row[r] \notin Terminal /\ status[r] \notin Terminal
    /\ \A s \in snapshots[r] : s[2] \notin Terminal

\* A completed status, wherever it is, comes from a driver that succeeded.
Delivered(r) ==
  /\ row[r] = "Completed" => driver[r] = "ok"
  /\ status[r] = "Completed" => driver[r] = "ok"
  /\ \A s \in snapshots[r] : s[2] = "Completed" => driver[r] = "ok"
  /\ sup[r] = "sealTask" => status[r] = "Completed"

Counted(r) ==
  /\ sup[r] \in {"begin", "open", "loop"} => status[r] # "none"
  /\ Len(evq[r]) <= sent[r]

RunInv(r) == Unborn(r) /\ Working(r) /\ Delivered(r) /\ Counted(r)

\* The directory a run works in belongs to a run already launched on its task.
DirInv ==
  \A r \in Runs : dir[r] # None => pc[dir[r]] # "idle" /\ task[dir[r]] = task[r]

LifeInv ==
  /\ GateInv
  /\ TypeOK
  /\ \A r \in Runs : RunInv(r)
  /\ DoneTaskWasDelivered
  /\ DirInv

-----------------------------------------------------------------------------
(* The gate under the lifecycle. *)

LEMMA LifeStepIsGateStep == [Next]_vars => [GateNext]_gateVars
<1>. SUFFICES ASSUME Next PROVE GateNext \/ UNCHANGED gateVars
  BY DEF vars
<1>1. ASSUME NEW r \in Runs, StartRun(r) \/ \E old \in Runs : RetryRun(r, old)
      PROVE  GateNext
  BY <1>1 DEF StartRun, RetryRun, LaunchOn, GateNext, Launch
<1>2. ASSUME NEW r \in Runs, Caller(r) PROVE GateNext \/ UNCHANGED gateVars
  BY <1>2 DEF Caller, InsertRow, LaunchGoesOn, LaunchRejected, SpawnSupervisor,
              LaunchAbandoned, GateNext, Launch
<1>3. ASSUME NEW r \in Runs, Supervisor(r) PROVE GateNext \/ UNCHANGED gateVars
  <2>1. ASSUME WaitAtGate(r) \/ LeaveGate(r) \/ CancelledInQueue(r) PROVE GateNext
    BY <2>1 DEF WaitAtGate, LeaveGate, CancelledInQueue, GateNext, Supervise
  <2>2. ASSUME LeaveRun(r) PROVE GateNext
    BY <2>2 DEF LeaveRun, GateNext
  <2>. QED
    BY <1>3, <2>1, <2>2
       DEF Supervisor, CreateWorkspace, MarkSpawning, BeginTask, OpenSession, LoopEvent,
           LoopCancel, LoopDriver, LoopExit, SealRow, SealTask, Tell, FailRow
<1>4. ASSUME NEW r \in Runs, Driver(r) \/ WriteSnapshot(r) PROVE UNCHANGED gateVars
  BY <1>4 DEF Driver, DriverSends, DriverEnds, WriteSnapshot
<1>5. ASSUME NEW r \in Runs, CancelRun(r) PROVE GateNext
  BY <1>5 DEF CancelRun, GateNext
<1>6. ASSUME CrashAndBoot PROVE GateNext
  BY <1>6 DEF CrashAndBoot, GateNext
<1>. QED
  BY <1>1, <1>2, <1>3, <1>4, <1>5, <1>6 DEF Next

\* start_run and its supervisor, followed through the whole life of a run, use
\* the gate only in the ways module RunGate allows: what is proved of the gate
\* holds of the daemon.
THEOREM LifecycleUsesTheGate == Safety => GateSafety
<1>1. Init => GateInit
  BY DEF Init
<1>. QED
  BY <1>1, LifeStepIsGateStep, PTL DEF Safety, GateSafety

-----------------------------------------------------------------------------
(* Framing. *)

\* Nothing of run s changes.
Same(s) ==
  /\ pc'[s] = pc[s] /\ row'[s] = row[s] /\ sup'[s] = sup[s]
  /\ status'[s] = status[s] /\ driver'[s] = driver[s] /\ sent'[s] = sent[s]
  /\ evq'[s] = evq[s] /\ snapshots'[s] = snapshots[s] /\ task'[s] = task[s]
  /\ s \in done' <=> s \in done

LEMMA SameKeeps ==
  ASSUME NEW s, RunInv(s), Same(s)
  PROVE  RunInv(s)'
BY DEF RunInv, Unborn, Working, Delivered, Counted, Same

\* A step that moves one run and leaves the tasks and directories as they are
\* preserves the invariant if it does so for that run.
LEMMA OneRunMoves ==
  ASSUME LifeInv, GateInv', TypeOK', NEW r \in Runs,
         \A s \in Runs \ {r} : Same(s),
         RunInv(r)',
         task' = task, dir' = dir,
         pc[r] # "idle" => pc'[r] # "idle",
         driver[r] = "ok" => driver'[r] = "ok",
         \A t \in Tasks : taskStatus'[t] = "Done" => taskStatus[t] = "Done"
  PROVE  LifeInv'
<1>1. \A s \in Runs : RunInv(s)'
  BY SameKeeps DEF LifeInv
<1>2. DoneTaskWasDelivered'
  BY DEF LifeInv, DoneTaskWasDelivered, Same
<1>3. DirInv'
  <2>. SUFFICES ASSUME NEW s \in Runs, dir[s] # None PROVE pc'[dir[s]] # "idle"
    BY DEF LifeInv, DirInv
  <2>1. dir[s] \in Runs /\ pc[dir[s]] # "idle"
    BY DEF LifeInv, DirInv, TypeOK
  <2>. QED
    BY <2>1 DEF Same
<1>. QED
  BY <1>1, <1>2, <1>3 DEF LifeInv

-----------------------------------------------------------------------------
(* One lemma per action. *)

LEMMA InsertRowKeeps ==
  ASSUME LifeInv, GateInv', NEW r \in Runs, InsertRow(r)
  PROVE  LifeInv'
<1>0. TypeOK /\ GateTypeOK /\ GateTypeOK' /\ RunInv(r)
  BY DEF LifeInv, TypeOK, GateInv
<1>1. TypeOK'
  BY <1>0 DEF TypeOK, GateTypeOK, RunInv, Unborn, Counted, Active, Terminal,
              SupPhase, InsertRow, InsertedAs, WriteRow, gateVars
<1>2. \A s \in Runs \ {r} : Same(s)
  BY <1>0 DEF TypeOK, GateTypeOK, Same, InsertRow, InsertedAs, WriteRow, gateVars
<1>3. RunInv(r)'
  BY <1>0 DEF TypeOK, GateTypeOK, RunInv, Unborn, Working, Delivered, Counted,
              BeforeTheAgent, Active, Terminal, InsertRow, InsertedAs, WriteRow,
              gateVars
<1>4. /\ task' = task /\ dir' = dir
      /\ pc[r] # "idle" => pc'[r] # "idle"
      /\ driver[r] = "ok" => driver'[r] = "ok"
      /\ \A t \in Tasks : taskStatus'[t] = "Done" => taskStatus[t] = "Done"
  BY <1>0 DEF TypeOK, GateTypeOK, RunInv, Unborn, BeforeTheAgent, InsertRow,
              InsertedAs, WriteRow, gateVars
<1>. QED
  BY <1>1, <1>2, <1>3, <1>4, OneRunMoves

LEMMA LaunchGoesOnKeeps ==
  ASSUME LifeInv, GateInv', NEW r \in Runs, LaunchGoesOn(r)
  PROVE  LifeInv'
<1>0. TypeOK /\ GateTypeOK /\ GateTypeOK' /\ RunInv(r)
  BY DEF LifeInv, TypeOK, GateInv
<1>1. TypeOK'
  BY <1>0 DEF TypeOK, GateTypeOK, RunInv, Unborn, Counted, Active, Terminal,
              SupPhase, LaunchGoesOn, Reserve, Refund, Move, lifeVars
<1>2. \A s \in Runs \ {r} : Same(s)
  BY <1>0 DEF TypeOK, GateTypeOK, Same, LaunchGoesOn, Reserve, Refund, Move,
              lifeVars
<1>3. RunInv(r)'
  BY <1>0 DEF TypeOK, GateTypeOK, RunInv, Unborn, Working, Delivered, Counted,
              BeforeTheAgent, Active, Terminal, LaunchGoesOn, Reserve, Refund, Move,
              lifeVars
<1>4. /\ task' = task /\ dir' = dir
      /\ pc[r] # "idle" => pc'[r] # "idle"
      /\ driver[r] = "ok" => driver'[r] = "ok"
      /\ \A t \in Tasks : taskStatus'[t] = "Done" => taskStatus[t] = "Done"
  BY <1>0 DEF TypeOK, GateTypeOK, RunInv, Unborn, BeforeTheAgent, LaunchGoesOn,
              Reserve, Refund, Move, lifeVars
<1>. QED
  BY <1>1, <1>2, <1>3, <1>4, OneRunMoves

LEMMA LaunchRejectedKeeps ==
  ASSUME LifeInv, GateInv', NEW r \in Runs, LaunchRejected(r)
  PROVE  LifeInv'
<1>0. TypeOK /\ GateTypeOK /\ GateTypeOK' /\ RunInv(r)
  BY DEF LifeInv, TypeOK, GateInv
<1>1. TypeOK'
  BY <1>0 DEF TypeOK, GateTypeOK, RunInv, Unborn, Counted, Active, Terminal,
              SupPhase, LaunchRejected, Reject, InsertedAs, WriteRow, Move, lifeVars
<1>2. \A s \in Runs \ {r} : Same(s)
  BY <1>0 DEF TypeOK, GateTypeOK, Same, LaunchRejected, Reject, InsertedAs,
              WriteRow, Move, lifeVars
<1>3. RunInv(r)'
  BY <1>0 DEF TypeOK, GateTypeOK, RunInv, Unborn, Working, Delivered, Counted,
              BeforeTheAgent, Active, Terminal, LaunchRejected, Reject, InsertedAs,
              WriteRow, Move, lifeVars
<1>4. /\ task' = task /\ dir' = dir
      /\ pc[r] # "idle" => pc'[r] # "idle"
      /\ driver[r] = "ok" => driver'[r] = "ok"
      /\ \A t \in Tasks : taskStatus'[t] = "Done" => taskStatus[t] = "Done"
  BY <1>0 DEF TypeOK, GateTypeOK, RunInv, Unborn, BeforeTheAgent, LaunchRejected,
              Reject, InsertedAs, WriteRow, Move, lifeVars
<1>. QED
  BY <1>1, <1>2, <1>3, <1>4, OneRunMoves

LEMMA SpawnSupervisorKeeps ==
  ASSUME LifeInv, GateInv', NEW r \in Runs, SpawnSupervisor(r)
  PROVE  LifeInv'
<1>0. TypeOK /\ GateTypeOK /\ GateTypeOK' /\ RunInv(r)
  BY DEF LifeInv, TypeOK, GateInv
<1>1. TypeOK'
  BY <1>0 DEF TypeOK, GateTypeOK, RunInv, Unborn, Counted, Active, Terminal,
              SupPhase, SpawnSupervisor, Spawn, Move, lifeVars
<1>2. \A s \in Runs \ {r} : Same(s)
  BY <1>0 DEF TypeOK, GateTypeOK, Same, SpawnSupervisor, Spawn, Move, lifeVars
<1>3. RunInv(r)'
  BY <1>0 DEF TypeOK, GateTypeOK, RunInv, Unborn, Working, Delivered, Counted,
              BeforeTheAgent, Active, Terminal, SpawnSupervisor, Spawn, Move,
              lifeVars
<1>4. /\ task' = task /\ dir' = dir
      /\ pc[r] # "idle" => pc'[r] # "idle"
      /\ driver[r] = "ok" => driver'[r] = "ok"
      /\ \A t \in Tasks : taskStatus'[t] = "Done" => taskStatus[t] = "Done"
  BY <1>0 DEF TypeOK, GateTypeOK, RunInv, Unborn, BeforeTheAgent, SpawnSupervisor,
              Spawn, Move, lifeVars
<1>. QED
  BY <1>1, <1>2, <1>3, <1>4, OneRunMoves

LEMMA LaunchAbandonedKeeps ==
  ASSUME LifeInv, GateInv', NEW r \in Runs, LaunchAbandoned(r)
  PROVE  LifeInv'
<1>0. TypeOK /\ GateTypeOK /\ GateTypeOK' /\ RunInv(r)
  BY DEF LifeInv, TypeOK, GateInv
<1>1. TypeOK'
  <2>1. row' \in [Runs -> Active \cup Terminal \cup {"none"}] /\ rowDir' \subseteq Runs
    BY <1>0 DEF TypeOK, LaunchAbandoned, InsertedAs, WriteRow, Active, Terminal
  <2>. QED
    BY <1>0, <2>1 DEF TypeOK, LaunchAbandoned
<1>2. \A s \in Runs \ {r} : Same(s)
  BY <1>0 DEF TypeOK, GateTypeOK, Same, LaunchAbandoned, Abandon, InsertedAs,
              WriteRow, Move, lifeVars
<1>3. RunInv(r)'
  BY <1>0 DEF TypeOK, GateTypeOK, RunInv, Unborn, Working, Delivered, Counted,
              BeforeTheAgent, Active, Terminal, LaunchAbandoned, Abandon,
              InsertedAs, WriteRow, Move, lifeVars
<1>4. /\ task' = task /\ dir' = dir
      /\ pc[r] # "idle" => pc'[r] # "idle"
      /\ driver[r] = "ok" => driver'[r] = "ok"
      /\ \A t \in Tasks : taskStatus'[t] = "Done" => taskStatus[t] = "Done"
  BY <1>0 DEF TypeOK, GateTypeOK, RunInv, Unborn, BeforeTheAgent, LaunchAbandoned,
              Abandon, InsertedAs, WriteRow, Move, lifeVars
<1>. QED
  BY <1>1, <1>2, <1>3, <1>4, OneRunMoves

LEMMA WaitAtGateKeeps ==
  ASSUME LifeInv, GateInv', NEW r \in Runs, WaitAtGate(r)
  PROVE  LifeInv'
<1>0. TypeOK /\ GateTypeOK /\ GateTypeOK' /\ RunInv(r)
  BY DEF LifeInv, TypeOK, GateInv
<1>1. TypeOK'
  BY <1>0 DEF TypeOK, GateTypeOK, RunInv, Unborn, Counted, Active, Terminal,
              SupPhase, WaitAtGate, Poll, PollAcquires, PollParks, PollCancelled,
              Wake, WakeAdmitted, WakeCancelled, Move, lifeVars
<1>2. \A s \in Runs \ {r} : Same(s)
  BY <1>0 DEF TypeOK, GateTypeOK, Same, WaitAtGate, Poll, PollAcquires, PollParks,
              PollCancelled, Wake, WakeAdmitted, WakeCancelled, Move, lifeVars
<1>3. RunInv(r)'
  BY <1>0 DEF TypeOK, GateTypeOK, RunInv, Unborn, Working, Delivered, Counted,
              BeforeTheAgent, Active, Terminal, WaitAtGate, Poll, PollAcquires,
              PollParks, PollCancelled, Wake, WakeAdmitted, WakeCancelled, Move,
              lifeVars
<1>4. /\ task' = task /\ dir' = dir
      /\ pc[r] # "idle" => pc'[r] # "idle"
      /\ driver[r] = "ok" => driver'[r] = "ok"
      /\ \A t \in Tasks : taskStatus'[t] = "Done" => taskStatus[t] = "Done"
  BY <1>0 DEF TypeOK, GateTypeOK, RunInv, Unborn, BeforeTheAgent, WaitAtGate, Poll,
              PollAcquires, PollParks, PollCancelled, Wake, WakeAdmitted,
              WakeCancelled, Move, lifeVars
<1>. QED
  BY <1>1, <1>2, <1>3, <1>4, OneRunMoves

LEMMA LeaveGateKeeps ==
  ASSUME LifeInv, GateInv', NEW r \in Runs, LeaveGate(r)
  PROVE  LifeInv'
<1>0. TypeOK /\ GateTypeOK /\ GateTypeOK' /\ RunInv(r)
  BY DEF LifeInv, TypeOK, GateInv
<1>1. TypeOK'
  BY <1>0 DEF TypeOK, GateTypeOK, RunInv, Unborn, Counted, Active, Terminal,
              SupPhase, LeaveGate, Settle, SupTo, Move, lifeVars
<1>2. \A s \in Runs \ {r} : Same(s)
  BY <1>0 DEF TypeOK, GateTypeOK, Same, LeaveGate, Settle, SupTo, Move, lifeVars
<1>3. RunInv(r)'
  BY <1>0 DEF TypeOK, GateTypeOK, RunInv, Unborn, Working, Delivered, Counted,
              BeforeTheAgent, Active, Terminal, LeaveGate, Settle, SupTo, Move,
              lifeVars
<1>4. /\ task' = task /\ dir' = dir
      /\ pc[r] # "idle" => pc'[r] # "idle"
      /\ driver[r] = "ok" => driver'[r] = "ok"
      /\ \A t \in Tasks : taskStatus'[t] = "Done" => taskStatus[t] = "Done"
  BY <1>0 DEF TypeOK, GateTypeOK, RunInv, Unborn, BeforeTheAgent, LeaveGate, Settle,
              SupTo, Move, lifeVars
<1>. QED
  BY <1>1, <1>2, <1>3, <1>4, OneRunMoves

LEMMA CancelledInQueueKeeps ==
  ASSUME LifeInv, GateInv', NEW r \in Runs, CancelledInQueue(r)
  PROVE  LifeInv'
<1>0. TypeOK /\ GateTypeOK /\ GateTypeOK' /\ RunInv(r)
  BY DEF LifeInv, TypeOK, GateInv
<1>1. TypeOK'
  <2>1. row' \in [Runs -> Active \cup Terminal \cup {"none"}] /\ rowDir' \subseteq Runs
    BY <1>0, ZenonT(60) DEF TypeOK, CancelledInQueue, TryWriteRow, WriteRow, Active, Terminal
  <2>. QED
    BY <1>0, <2>1 DEF TypeOK, CancelledInQueue
<1>2. \A s \in Runs \ {r} : Same(s)
  BY <1>0 DEF TypeOK, GateTypeOK, Same, CancelledInQueue, Unwind, TryWriteRow,
              WriteRow, Move, lifeVars
<1>3. RunInv(r)'
  BY <1>0 DEF TypeOK, GateTypeOK, RunInv, Unborn, Working, Delivered, Counted,
              BeforeTheAgent, Active, Terminal, CancelledInQueue, Unwind,
              TryWriteRow, WriteRow, Move, lifeVars
<1>4. /\ task' = task /\ dir' = dir
      /\ pc[r] # "idle" => pc'[r] # "idle"
      /\ driver[r] = "ok" => driver'[r] = "ok"
      /\ \A t \in Tasks : taskStatus'[t] = "Done" => taskStatus[t] = "Done"
  BY <1>0 DEF TypeOK, GateTypeOK, RunInv, Unborn, BeforeTheAgent, CancelledInQueue,
              Unwind, TryWriteRow, WriteRow, Move, lifeVars
<1>. QED
  BY <1>1, <1>2, <1>3, <1>4, OneRunMoves

LEMMA CreateWorkspaceKeeps ==
  ASSUME LifeInv, GateInv', NEW r \in Runs, CreateWorkspace(r)
  PROVE  LifeInv'
<1>0. TypeOK /\ GateTypeOK /\ GateTypeOK' /\ RunInv(r)
  BY DEF LifeInv, TypeOK, GateInv
<1>1. TypeOK'
  BY <1>0, ZenonT(60) DEF TypeOK, GateTypeOK, RunInv, Unborn, Counted, Active, Terminal,
              SupPhase, CreateWorkspace, At, SupTo, gateVars
<1>2. \A s \in Runs \ {r} : Same(s)
  BY <1>0 DEF TypeOK, GateTypeOK, Same, CreateWorkspace, At, SupTo, gateVars
<1>3. RunInv(r)'
  BY <1>0 DEF TypeOK, GateTypeOK, RunInv, Unborn, Working, Delivered, Counted,
              BeforeTheAgent, Active, Terminal, CreateWorkspace, At, SupTo, gateVars
<1>4. /\ task' = task /\ dir' = dir
      /\ pc[r] # "idle" => pc'[r] # "idle"
      /\ driver[r] = "ok" => driver'[r] = "ok"
      /\ \A t \in Tasks : taskStatus'[t] = "Done" => taskStatus[t] = "Done"
  BY <1>0 DEF TypeOK, GateTypeOK, RunInv, Unborn, BeforeTheAgent, CreateWorkspace,
              At, SupTo, gateVars
<1>. QED
  BY <1>1, <1>2, <1>3, <1>4, OneRunMoves

LEMMA MarkSpawningKeeps ==
  ASSUME LifeInv, GateInv', NEW r \in Runs, MarkSpawning(r)
  PROVE  LifeInv'
<1>0. TypeOK /\ GateTypeOK /\ GateTypeOK' /\ RunInv(r)
  BY DEF LifeInv, TypeOK, GateInv
<1>1. TypeOK'
  BY <1>0, ZenonT(60) DEF TypeOK, GateTypeOK, RunInv, Unborn, Counted, Active, Terminal,
              SupPhase, MarkSpawning, At, SupTo, gateVars
<1>2. \A s \in Runs \ {r} : Same(s)
  BY <1>0 DEF TypeOK, GateTypeOK, Same, MarkSpawning, At, SupTo, gateVars
<1>3. RunInv(r)'
  BY <1>0 DEF TypeOK, GateTypeOK, RunInv, Unborn, Working, Delivered, Counted,
              BeforeTheAgent, Active, Terminal, MarkSpawning, At, SupTo, gateVars
<1>4. /\ task' = task /\ dir' = dir
      /\ pc[r] # "idle" => pc'[r] # "idle"
      /\ driver[r] = "ok" => driver'[r] = "ok"
      /\ \A t \in Tasks : taskStatus'[t] = "Done" => taskStatus[t] = "Done"
  BY <1>0 DEF TypeOK, GateTypeOK, RunInv, Unborn, BeforeTheAgent, MarkSpawning, At,
              SupTo, gateVars
<1>. QED
  BY <1>1, <1>2, <1>3, <1>4, OneRunMoves

LEMMA BeginTaskKeeps ==
  ASSUME LifeInv, GateInv', NEW r \in Runs, BeginTask(r)
  PROVE  LifeInv'
<1>0. TypeOK /\ GateTypeOK /\ GateTypeOK' /\ RunInv(r)
  BY DEF LifeInv, TypeOK, GateInv
<1>1. TypeOK'
  BY <1>0 DEF TypeOK, GateTypeOK, RunInv, Unborn, Counted, Active, Terminal,
              SupPhase, BeginTask, At, SupTo, gateVars
<1>2. \A s \in Runs \ {r} : Same(s)
  BY <1>0 DEF TypeOK, GateTypeOK, Same, BeginTask, At, SupTo, gateVars
<1>3. RunInv(r)'
  BY <1>0 DEF TypeOK, GateTypeOK, RunInv, Unborn, Working, Delivered, Counted,
              BeforeTheAgent, Active, Terminal, BeginTask, At, SupTo, gateVars
<1>4. /\ task' = task /\ dir' = dir
      /\ pc[r] # "idle" => pc'[r] # "idle"
      /\ driver[r] = "ok" => driver'[r] = "ok"
      /\ \A t \in Tasks : taskStatus'[t] = "Done" => taskStatus[t] = "Done"
  BY <1>0 DEF TypeOK, GateTypeOK, RunInv, Unborn, BeforeTheAgent, BeginTask, At,
              SupTo, gateVars
<1>. QED
  BY <1>1, <1>2, <1>3, <1>4, OneRunMoves

LEMMA OpenSessionKeeps ==
  ASSUME LifeInv, GateInv', NEW r \in Runs, OpenSession(r)
  PROVE  LifeInv'
<1>0. TypeOK /\ GateTypeOK /\ GateTypeOK' /\ RunInv(r)
  BY DEF LifeInv, TypeOK, GateInv
<1>1. TypeOK'
  BY <1>0, ZenonT(60) DEF TypeOK, GateTypeOK, RunInv, Unborn, Counted, Active, Terminal,
              SupPhase, OpenSession, At, SupTo, gateVars
<1>2. \A s \in Runs \ {r} : Same(s)
  BY <1>0 DEF TypeOK, GateTypeOK, Same, OpenSession, At, SupTo, gateVars
<1>3. RunInv(r)'
  BY <1>0 DEF TypeOK, GateTypeOK, RunInv, Unborn, Working, Delivered, Counted,
              BeforeTheAgent, Active, Terminal, OpenSession, At, SupTo, gateVars
<1>4. /\ task' = task /\ dir' = dir
      /\ pc[r] # "idle" => pc'[r] # "idle"
      /\ driver[r] = "ok" => driver'[r] = "ok"
      /\ \A t \in Tasks : taskStatus'[t] = "Done" => taskStatus[t] = "Done"
  BY <1>0 DEF TypeOK, GateTypeOK, RunInv, Unborn, BeforeTheAgent, OpenSession, At,
              SupTo, gateVars
<1>. QED
  BY <1>1, <1>2, <1>3, <1>4, OneRunMoves

LEMMA DriverSendsKeeps ==
  ASSUME LifeInv, GateInv', NEW r \in Runs, DriverSends(r)
  PROVE  LifeInv'
<1>0. TypeOK /\ GateTypeOK /\ GateTypeOK' /\ RunInv(r)
  BY DEF LifeInv, TypeOK, GateInv
<1>1. TypeOK'
  <2>1. sent' \in [Runs -> 0..MaxEvents]
    BY <1>0, LifecycleAssumption DEF TypeOK, DriverSends
  <2>2. \A q \in Seq({"running", "usage"}), k \in Int :
          Append(q, Event(k)) \in Seq({"running", "usage"})
    BY DEF Event
  <2>3. evq' \in [Runs -> Seq({"running", "usage"})]
    BY <1>0, <2>2, LifecycleAssumption DEF TypeOK, DriverSends
  <2>. QED
    BY <1>0, <2>1, <2>3 DEF TypeOK, DriverSends, gateVars
<1>2. \A s \in Runs \ {r} : Same(s)
  BY <1>0 DEF TypeOK, GateTypeOK, Same, DriverSends, Event, gateVars
<1>3. RunInv(r)'
  BY <1>0 DEF TypeOK, GateTypeOK, RunInv, Unborn, Working, Delivered, Counted,
              BeforeTheAgent, Active, Terminal, DriverSends, Event, gateVars
<1>4. /\ task' = task /\ dir' = dir
      /\ pc[r] # "idle" => pc'[r] # "idle"
      /\ driver[r] = "ok" => driver'[r] = "ok"
      /\ \A t \in Tasks : taskStatus'[t] = "Done" => taskStatus[t] = "Done"
  BY <1>0 DEF TypeOK, GateTypeOK, RunInv, Unborn, BeforeTheAgent, DriverSends,
              Event, gateVars
<1>. QED
  BY <1>1, <1>2, <1>3, <1>4, OneRunMoves

LEMMA DriverEndsKeeps ==
  ASSUME LifeInv, GateInv', NEW r \in Runs, DriverEnds(r)
  PROVE  LifeInv'
<1>0. TypeOK /\ GateTypeOK /\ GateTypeOK' /\ RunInv(r)
  BY DEF LifeInv, TypeOK, GateInv
<1>1. TypeOK'
  BY <1>0, ZenonT(60) DEF TypeOK, GateTypeOK, RunInv, Unborn, Counted, Active, Terminal,
              SupPhase, DriverEnds, gateVars
<1>2. \A s \in Runs \ {r} : Same(s)
  BY <1>0 DEF TypeOK, GateTypeOK, Same, DriverEnds, gateVars
<1>3. RunInv(r)'
  BY <1>0 DEF TypeOK, GateTypeOK, RunInv, Unborn, Working, Delivered, Counted,
              BeforeTheAgent, Active, Terminal, DriverEnds, gateVars
<1>4. /\ task' = task /\ dir' = dir
      /\ pc[r] # "idle" => pc'[r] # "idle"
      /\ driver[r] = "ok" => driver'[r] = "ok"
      /\ \A t \in Tasks : taskStatus'[t] = "Done" => taskStatus[t] = "Done"
  BY <1>0 DEF TypeOK, GateTypeOK, RunInv, Unborn, BeforeTheAgent, DriverEnds,
              gateVars
<1>. QED
  BY <1>1, <1>2, <1>3, <1>4, OneRunMoves

LEMMA LoopEventKeeps ==
  ASSUME LifeInv, GateInv', NEW r \in Runs, LoopEvent(r)
  PROVE  LifeInv'
<1>0. TypeOK /\ GateTypeOK /\ GateTypeOK' /\ RunInv(r)
  BY DEF LifeInv, TypeOK, GateInv
<1>1. TypeOK'
  <2> DEFINE n == sent[r] - Len(evq[r]) + 1
  <2>1. /\ evq[r] \in Seq({"running", "usage"}) /\ evq[r] # <<>>
        /\ sent[r] \in 0..MaxEvents /\ Len(evq[r]) <= sent[r]
    BY <1>0 DEF TypeOK, LoopEvent, RunInv, Counted
  <2>2. Len(evq[r]) \in Nat /\ Len(evq[r]) >= 1
    BY <2>1
  <2>3. n \in 1..MaxEvents
    BY <2>1, <2>2, LifecycleAssumption
  <2>4. Tail(evq[r]) \in Seq({"running", "usage"})
    BY <2>1
  <2>5. evq' \in [Runs -> Seq({"running", "usage"})]
    BY <1>0, <2>4 DEF TypeOK, LoopEvent
  <2>6. status[r] \in Active \cup Terminal
    BY <1>0 DEF TypeOK, LoopEvent, At, RunInv, Counted
  <2>7. /\ status' \in [Runs -> Active \cup Terminal \cup {"none"}]
        /\ status'[r] \in Active \cup Terminal
    BY <1>0, <2>6 DEF TypeOK, LoopEvent, Active
  <2>8. <<n, status'[r]>> \in (1..MaxEvents) \X (Active \cup Terminal)
    BY <2>3, <2>7
  <2>9. snapshots' \in [Runs -> SUBSET ((1..MaxEvents) \X (Active \cup Terminal))]
    <3>1. snapshots' = [snapshots EXCEPT ![r] = @ \cup {<<n, status'[r]>>}]
      BY DEF LoopEvent
    <3> DEFINE S == (1..MaxEvents) \X (Active \cup Terminal)
    <3>2. <<n, status'[r]>> \in S /\ snapshots \in [Runs -> SUBSET S]
      BY <1>0, <2>8 DEF TypeOK
    <3> HIDE DEF S, n
    <3>3. snapshots' \in [Runs -> SUBSET S]
      BY <3>1, <3>2
    <3>. QED
      BY <3>3 DEF S
  <2>. QED
    BY <1>0, <2>5, <2>7, <2>9 DEF TypeOK, LoopEvent, gateVars
<1>2. \A s \in Runs \ {r} : Same(s)
  BY <1>0 DEF TypeOK, GateTypeOK, Same, LoopEvent, At, gateVars
<1>3. RunInv(r)'
  BY <1>0 DEF TypeOK, GateTypeOK, RunInv, Unborn, Working, Delivered, Counted,
              BeforeTheAgent, Active, Terminal, LoopEvent, At, gateVars
<1>4. /\ task' = task /\ dir' = dir
      /\ pc[r] # "idle" => pc'[r] # "idle"
      /\ driver[r] = "ok" => driver'[r] = "ok"
      /\ \A t \in Tasks : taskStatus'[t] = "Done" => taskStatus[t] = "Done"
  BY <1>0 DEF TypeOK, GateTypeOK, RunInv, Unborn, BeforeTheAgent, LoopEvent, At,
              gateVars
<1>. QED
  BY <1>1, <1>2, <1>3, <1>4, OneRunMoves

LEMMA LoopCancelKeeps ==
  ASSUME LifeInv, GateInv', NEW r \in Runs, LoopCancel(r)
  PROVE  LifeInv'
<1>0. TypeOK /\ GateTypeOK /\ GateTypeOK' /\ RunInv(r)
  BY DEF LifeInv, TypeOK, GateInv
<1>1. TypeOK'
  BY <1>0 DEF TypeOK, GateTypeOK, RunInv, Unborn, Counted, Active, Terminal,
              SupPhase, LoopCancel, At, gateVars
<1>2. \A s \in Runs \ {r} : Same(s)
  BY <1>0 DEF TypeOK, GateTypeOK, Same, LoopCancel, At, gateVars
<1>3. RunInv(r)'
  BY <1>0 DEF TypeOK, GateTypeOK, RunInv, Unborn, Working, Delivered, Counted,
              BeforeTheAgent, Active, Terminal, LoopCancel, At, gateVars
<1>4. /\ task' = task /\ dir' = dir
      /\ pc[r] # "idle" => pc'[r] # "idle"
      /\ driver[r] = "ok" => driver'[r] = "ok"
      /\ \A t \in Tasks : taskStatus'[t] = "Done" => taskStatus[t] = "Done"
  BY <1>0 DEF TypeOK, GateTypeOK, RunInv, Unborn, BeforeTheAgent, LoopCancel, At,
              gateVars
<1>. QED
  BY <1>1, <1>2, <1>3, <1>4, OneRunMoves

LEMMA LoopDriverKeeps ==
  ASSUME LifeInv, GateInv', NEW r \in Runs, LoopDriver(r)
  PROVE  LifeInv'
<1>0. TypeOK /\ GateTypeOK /\ GateTypeOK' /\ RunInv(r)
  BY DEF LifeInv, TypeOK, GateInv
<1>1. TypeOK'
  BY <1>0 DEF TypeOK, GateTypeOK, RunInv, Unborn, Counted, Active, Terminal,
              SupPhase, LoopDriver, At, gateVars
<1>2. \A s \in Runs \ {r} : Same(s)
  BY <1>0 DEF TypeOK, GateTypeOK, Same, LoopDriver, At, gateVars
<1>3. RunInv(r)'
  BY <1>0 DEF TypeOK, GateTypeOK, RunInv, Unborn, Working, Delivered, Counted,
              BeforeTheAgent, Active, Terminal, LoopDriver, At, gateVars
<1>4. /\ task' = task /\ dir' = dir
      /\ pc[r] # "idle" => pc'[r] # "idle"
      /\ driver[r] = "ok" => driver'[r] = "ok"
      /\ \A t \in Tasks : taskStatus'[t] = "Done" => taskStatus[t] = "Done"
  BY <1>0 DEF TypeOK, GateTypeOK, RunInv, Unborn, BeforeTheAgent, LoopDriver, At,
              gateVars
<1>. QED
  BY <1>1, <1>2, <1>3, <1>4, OneRunMoves

LEMMA LoopExitKeeps ==
  ASSUME LifeInv, GateInv', NEW r \in Runs, LoopExit(r)
  PROVE  LifeInv'
<1>0. TypeOK /\ GateTypeOK /\ GateTypeOK' /\ RunInv(r)
  BY DEF LifeInv, TypeOK, GateInv
<1>1. TypeOK'
  BY <1>0 DEF TypeOK, GateTypeOK, RunInv, Unborn, Counted, Active, Terminal,
              SupPhase, LoopExit, At, SupTo, gateVars
<1>2. \A s \in Runs \ {r} : Same(s)
  BY <1>0 DEF TypeOK, GateTypeOK, Same, LoopExit, At, SupTo, gateVars
<1>3. RunInv(r)'
  BY <1>0 DEF TypeOK, GateTypeOK, RunInv, Unborn, Working, Delivered, Counted,
              BeforeTheAgent, Active, Terminal, LoopExit, At, SupTo, gateVars
<1>4. /\ task' = task /\ dir' = dir
      /\ pc[r] # "idle" => pc'[r] # "idle"
      /\ driver[r] = "ok" => driver'[r] = "ok"
      /\ \A t \in Tasks : taskStatus'[t] = "Done" => taskStatus[t] = "Done"
  BY <1>0 DEF TypeOK, GateTypeOK, RunInv, Unborn, BeforeTheAgent, LoopExit, At,
              SupTo, gateVars
<1>. QED
  BY <1>1, <1>2, <1>3, <1>4, OneRunMoves

LEMMA SealRowKeeps ==
  ASSUME LifeInv, GateInv', NEW r \in Runs, SealRow(r)
  PROVE  LifeInv'
<1>0. TypeOK /\ GateTypeOK /\ GateTypeOK' /\ RunInv(r)
  BY DEF LifeInv, TypeOK, GateInv
<1>1. TypeOK'
  <2>1. row' \in [Runs -> Active \cup Terminal \cup {"none"}] /\ rowDir' \subseteq Runs
    BY <1>0, ZenonT(60) DEF TypeOK, SealRow, WriteRow
  <2>2. sup' \in [Runs -> SupPhase]
    BY <1>0, ZenonT(60) DEF TypeOK, SealRow, SupTo, SupPhase
  <2>. QED
    BY <1>0, <2>1, <2>2 DEF TypeOK, SealRow, gateVars
<1>2. \A s \in Runs \ {r} : Same(s)
  BY <1>0 DEF TypeOK, GateTypeOK, Same, SealRow, At, SupTo, WriteRow, gateVars
<1>3. RunInv(r)'
  BY <1>0 DEF TypeOK, GateTypeOK, RunInv, Unborn, Working, Delivered, Counted,
              BeforeTheAgent, Active, Terminal, SealRow, At, SupTo, WriteRow,
              gateVars
<1>4. /\ task' = task /\ dir' = dir
      /\ pc[r] # "idle" => pc'[r] # "idle"
      /\ driver[r] = "ok" => driver'[r] = "ok"
      /\ \A t \in Tasks : taskStatus'[t] = "Done" => taskStatus[t] = "Done"
  BY <1>0 DEF TypeOK, GateTypeOK, RunInv, Unborn, BeforeTheAgent, SealRow, At,
              SupTo, WriteRow, gateVars
<1>. QED
  BY <1>1, <1>2, <1>3, <1>4, OneRunMoves

LEMMA TellKeeps ==
  ASSUME LifeInv, GateInv', NEW r \in Runs, Tell(r)
  PROVE  LifeInv'
<1>0. TypeOK /\ GateTypeOK /\ GateTypeOK' /\ RunInv(r)
  BY DEF LifeInv, TypeOK, GateInv
<1>1. TypeOK'
  BY <1>0 DEF TypeOK, GateTypeOK, RunInv, Unborn, Counted, Active, Terminal,
              SupPhase, Tell, At, SupTo, gateVars
<1>2. \A s \in Runs \ {r} : Same(s)
  BY <1>0 DEF TypeOK, GateTypeOK, Same, Tell, At, SupTo, gateVars
<1>3. RunInv(r)'
  BY <1>0 DEF TypeOK, GateTypeOK, RunInv, Unborn, Working, Delivered, Counted,
              BeforeTheAgent, Active, Terminal, Tell, At, SupTo, gateVars
<1>4. /\ task' = task /\ dir' = dir
      /\ pc[r] # "idle" => pc'[r] # "idle"
      /\ driver[r] = "ok" => driver'[r] = "ok"
      /\ \A t \in Tasks : taskStatus'[t] = "Done" => taskStatus[t] = "Done"
  BY <1>0 DEF TypeOK, GateTypeOK, RunInv, Unborn, BeforeTheAgent, Tell, At, SupTo,
              gateVars
<1>. QED
  BY <1>1, <1>2, <1>3, <1>4, OneRunMoves

LEMMA FailRowKeeps ==
  ASSUME LifeInv, GateInv', NEW r \in Runs, FailRow(r)
  PROVE  LifeInv'
<1>0. TypeOK /\ GateTypeOK /\ GateTypeOK' /\ RunInv(r)
  BY DEF LifeInv, TypeOK, GateInv
<1>1. TypeOK'
  BY <1>0, ZenonT(60) DEF TypeOK, GateTypeOK, RunInv, Unborn, Counted, Active, Terminal,
              SupPhase, FailRow, At, SupTo, TryWriteRow, WriteRow, gateVars
<1>2. \A s \in Runs \ {r} : Same(s)
  BY <1>0 DEF TypeOK, GateTypeOK, Same, FailRow, At, SupTo, TryWriteRow, WriteRow,
              gateVars
<1>3. RunInv(r)'
  BY <1>0 DEF TypeOK, GateTypeOK, RunInv, Unborn, Working, Delivered, Counted,
              BeforeTheAgent, Active, Terminal, FailRow, At, SupTo, TryWriteRow,
              WriteRow, gateVars
<1>4. /\ task' = task /\ dir' = dir
      /\ pc[r] # "idle" => pc'[r] # "idle"
      /\ driver[r] = "ok" => driver'[r] = "ok"
      /\ \A t \in Tasks : taskStatus'[t] = "Done" => taskStatus[t] = "Done"
  BY <1>0 DEF TypeOK, GateTypeOK, RunInv, Unborn, BeforeTheAgent, FailRow, At,
              SupTo, TryWriteRow, WriteRow, gateVars
<1>. QED
  BY <1>1, <1>2, <1>3, <1>4, OneRunMoves

LEMMA LeaveRunKeeps ==
  ASSUME LifeInv, GateInv', NEW r \in Runs, LeaveRun(r)
  PROVE  LifeInv'
<1>0. TypeOK /\ GateTypeOK /\ GateTypeOK' /\ RunInv(r)
  BY DEF LifeInv, TypeOK, GateInv
<1>1. TypeOK'
  BY <1>0 DEF TypeOK, GateTypeOK, RunInv, Unborn, Counted, Active, Terminal,
              SupPhase, LeaveRun, At, End, Move, lifeVars
<1>2. \A s \in Runs \ {r} : Same(s)
  BY <1>0 DEF TypeOK, GateTypeOK, Same, LeaveRun, At, End, Move, lifeVars
<1>3. RunInv(r)'
  BY <1>0 DEF TypeOK, GateTypeOK, RunInv, Unborn, Working, Delivered, Counted,
              BeforeTheAgent, Active, Terminal, LeaveRun, At, End, Move, lifeVars
<1>4. /\ task' = task /\ dir' = dir
      /\ pc[r] # "idle" => pc'[r] # "idle"
      /\ driver[r] = "ok" => driver'[r] = "ok"
      /\ \A t \in Tasks : taskStatus'[t] = "Done" => taskStatus[t] = "Done"
  BY <1>0 DEF TypeOK, GateTypeOK, RunInv, Unborn, BeforeTheAgent, LeaveRun, At, End,
              Move, lifeVars
<1>. QED
  BY <1>1, <1>2, <1>3, <1>4, OneRunMoves

LEMMA WriteSnapshotKeeps ==
  ASSUME LifeInv, GateInv', NEW r \in Runs, WriteSnapshot(r)
  PROVE  LifeInv'
<1>0. TypeOK /\ GateTypeOK /\ GateTypeOK' /\ RunInv(r)
  BY DEF LifeInv, TypeOK, GateInv
<1>1. TypeOK'
  <2>1. PICK s \in snapshots[r] : /\ snapshots' = [snapshots EXCEPT ![r] = @ \ {s}]
                                  /\ TryWriteRow(r, s[2])
    BY DEF WriteSnapshot
  <2> DEFINE S == (1..MaxEvents) \X (Active \cup Terminal)
  <2>2. snapshots \in [Runs -> SUBSET S] /\ s \in S
    BY <1>0 DEF TypeOK
  <2>3. s[2] \in Active \cup Terminal
    BY <2>2
  <2>4. row' \in [Runs -> Active \cup Terminal \cup {"none"}] /\ rowDir' \subseteq Runs
    BY <1>0, <2>1, <2>3, ZenonT(60) DEF TypeOK, TryWriteRow, WriteRow
  <2> HIDE DEF S
  <2>5. snapshots' \in [Runs -> SUBSET S]
    BY <2>1, <2>2
  <2>. QED
    BY <1>0, <2>4, <2>5 DEF TypeOK, WriteSnapshot, gateVars, S
<1>2. \A s \in Runs \ {r} : Same(s)
  BY <1>0 DEF TypeOK, GateTypeOK, Same, WriteSnapshot, TryWriteRow, WriteRow,
              gateVars
<1>3. RunInv(r)'
  BY <1>0 DEF TypeOK, GateTypeOK, RunInv, Unborn, Working, Delivered, Counted,
              BeforeTheAgent, Active, Terminal, WriteSnapshot, TryWriteRow,
              WriteRow, gateVars
<1>4. /\ task' = task /\ dir' = dir
      /\ pc[r] # "idle" => pc'[r] # "idle"
      /\ driver[r] = "ok" => driver'[r] = "ok"
      /\ \A t \in Tasks : taskStatus'[t] = "Done" => taskStatus[t] = "Done"
  BY <1>0 DEF TypeOK, GateTypeOK, RunInv, Unborn, BeforeTheAgent, WriteSnapshot,
              TryWriteRow, WriteRow, gateVars
<1>. QED
  BY <1>1, <1>2, <1>3, <1>4, OneRunMoves

LEMMA CancelRunKeeps ==
  ASSUME LifeInv, GateInv', NEW r \in Runs, CancelRun(r)
  PROVE  LifeInv'
<1>0. TypeOK /\ GateTypeOK /\ GateTypeOK' /\ RunInv(r)
  BY DEF LifeInv, TypeOK, GateInv
<1>1. TypeOK'
  BY <1>0 DEF TypeOK, GateTypeOK, RunInv, Unborn, Counted, Active, Terminal,
              SupPhase, CancelRun, Cancel, lifeVars
<1>2. \A s \in Runs \ {r} : Same(s)
  BY <1>0 DEF TypeOK, GateTypeOK, Same, CancelRun, Cancel, lifeVars
<1>3. RunInv(r)'
  BY <1>0 DEF TypeOK, GateTypeOK, RunInv, Unborn, Working, Delivered, Counted,
              BeforeTheAgent, Active, Terminal, CancelRun, Cancel, lifeVars
<1>4. /\ task' = task /\ dir' = dir
      /\ pc[r] # "idle" => pc'[r] # "idle"
      /\ driver[r] = "ok" => driver'[r] = "ok"
      /\ \A t \in Tasks : taskStatus'[t] = "Done" => taskStatus[t] = "Done"
  BY <1>0 DEF TypeOK, GateTypeOK, RunInv, Unborn, BeforeTheAgent, CancelRun, Cancel,
              lifeVars
<1>. QED
  BY <1>1, <1>2, <1>3, <1>4, OneRunMoves

-----------------------------------------------------------------------------
(* The actions that touch the tasks, the directories or every run. *)

LEMMA LaunchOnKeeps ==
  ASSUME LifeInv, GateInv', NEW r \in Runs, NEW t \in Tasks, NEW d,
         d = r \/ d = None \/ (d \in Runs /\ pc[d] # "idle" /\ task[d] = t),
         LaunchOn(r, t, d)
  PROVE  LifeInv'
<1>0. /\ TypeOK /\ GateTypeOK /\ GateTypeOK' /\ RunInv(r)
      /\ pc[r] = "idle" /\ pc'[r] \in {"insertFree", "full"}
      /\ \A s \in Runs \ {r} : pc'[s] = pc[s]
  BY DEF LifeInv, TypeOK, GateInv, GateTypeOK, LaunchOn, TryAcquire, Move
<1>1. TypeOK'
  BY <1>0 DEF TypeOK, LaunchOn
<1>2. \A s \in Runs \ {r} : Same(s)
  BY <1>0 DEF TypeOK, LaunchOn, Same
<1>3. RunInv(r)'
  BY <1>0 DEF TypeOK, LaunchOn, RunInv, Unborn, Working, Delivered, Counted,
              BeforeTheAgent
<1>4. \A s \in Runs : RunInv(s)'
  BY <1>2, <1>3, SameKeeps DEF LifeInv
<1>5. DoneTaskWasDelivered'
  <2>1. driver[r] # "ok"
    BY <1>0 DEF RunInv, Unborn, BeforeTheAgent
  <2>. QED
    BY <1>2, <2>1 DEF LaunchOn, LifeInv, DoneTaskWasDelivered, Same
<1>6. DirInv'
  <2>. SUFFICES ASSUME NEW s \in Runs, dir'[s] # None
                PROVE  pc'[dir'[s]] # "idle" /\ task'[dir'[s]] = task'[s]
    BY DEF DirInv
  <2>1. task'[r] = t /\ dir'[r] = d /\ \A u \in Runs \ {r} : dir'[u] = dir[u]
    BY <1>0 DEF TypeOK, LaunchOn
  <2>2. CASE s = r
    BY <1>0, <1>2, <2>1, <2>2 DEF Same
  <2>3. CASE s # r
    <3>1. dir[s] \in Runs /\ pc[dir[s]] # "idle" /\ task[dir[s]] = task[s]
      BY <1>0, <2>1, <2>3 DEF LifeInv, DirInv, TypeOK
    <3>. QED
      BY <1>0, <1>2, <2>1, <2>3, <3>1 DEF Same
  <2>. QED
    BY <2>2, <2>3
<1>. QED
  BY <1>1, <1>4, <1>5, <1>6 DEF LifeInv

LEMMA StartRunKeeps ==
  ASSUME LifeInv, GateInv', NEW r \in Runs, StartRun(r)
  PROVE  LifeInv'
BY LaunchOnKeeps DEF StartRun

\* A run that can be retried was launched, so its task and directory are known.
LEMMA RetryRunKeeps ==
  ASSUME LifeInv, GateInv', NEW r \in Runs, NEW old \in Runs, RetryRun(r, old)
  PROVE  LifeInv'
<1>1. pc[old] # "idle" /\ task[old] \in Tasks
  BY DEF LifeInv, RunInv, Unborn, RetryRun, Retryable
<1>2. dir[old] = None \/ (dir[old] \in Runs /\ pc[dir[old]] # "idle"
                           /\ task[dir[old]] = task[old])
  BY DEF LifeInv, DirInv, TypeOK
<1> DEFINE d == IF old \in rowDir THEN dir[old] ELSE r
<1>3. d = r \/ d = None \/ (d \in Runs /\ pc[d] # "idle" /\ task[d] = task[old])
  BY <1>2
<1>4. LaunchOn(r, task[old], d)
  BY DEF RetryRun
<1> HIDE DEF d
<1>. QED
  BY <1>1, <1>3, <1>4, LaunchOnKeeps

LEMMA SealTaskKeeps ==
  ASSUME LifeInv, GateInv', NEW r \in Runs, SealTask(r)
  PROVE  LifeInv'
<1>0. TypeOK /\ GateTypeOK' /\ RunInv(r)
  BY DEF LifeInv, TypeOK, GateInv
<1>1. TypeOK'
  BY <1>0 DEF TypeOK, SealTask, At, SupTo, SupPhase, gateVars
<1>2. \A s \in Runs \ {r} : Same(s)
  BY <1>0 DEF TypeOK, Same, SealTask, At, SupTo, gateVars
<1>3. RunInv(r)'
  BY <1>0 DEF TypeOK, RunInv, Unborn, Working, Delivered, Counted, BeforeTheAgent,
              SealTask, At, SupTo, gateVars
<1>4. \A s \in Runs : RunInv(s)'
  BY <1>2, <1>3, SameKeeps DEF LifeInv
<1>5. DoneTaskWasDelivered'
  <2>1. driver[r] = "ok"
    BY <1>0 DEF SealTask, At, RunInv, Delivered
  <2>2. \A t \in Tasks : taskStatus'[t] = "Done" => taskStatus[t] = "Done" \/ t = task[r]
    BY <1>0 DEF TypeOK, SealTask
  <2>. QED
    BY <2>1, <2>2 DEF LifeInv, DoneTaskWasDelivered, SealTask
<1>6. DirInv'
  BY DEF LifeInv, DirInv, SealTask, gateVars
<1>. QED
  BY <1>1, <1>4, <1>5, <1>6 DEF LifeInv

LEMMA CrashKeeps ==
  ASSUME LifeInv, GateInv', CrashAndBoot
  PROVE  LifeInv'
<1>0. TypeOK /\ GateTypeOK /\ GateTypeOK'
  BY DEF LifeInv, TypeOK, GateInv
<1>1. TypeOK'
  BY <1>0 DEF TypeOK, CrashAndBoot, Active, Terminal, SupPhase
<1>2. \A s \in Runs : RunInv(s)'
  <2>. SUFFICES ASSUME NEW s \in Runs PROVE RunInv(s)'
    OBVIOUS
  <2>1. RunInv(s)
    BY DEF LifeInv
  <2>2. pc'[s] = IF pc[s] = "idle" THEN "idle" ELSE "over"
    BY DEF CrashAndBoot, Restart
  <2>3. Unborn(s)'
    BY <1>0, <2>1, <2>2 DEF TypeOK, RunInv, Unborn, BeforeTheAgent, Active, CrashAndBoot
  <2>4. Working(s)'
    BY DEF Working, CrashAndBoot
  <2>5. Delivered(s)'
    BY <1>0, <2>1 DEF TypeOK, RunInv, Delivered, CrashAndBoot
  <2>6. Counted(s)'
    BY <1>0, LifecycleAssumption DEF TypeOK, Counted, CrashAndBoot
  <2>. QED
    BY <2>3, <2>4, <2>5, <2>6 DEF RunInv
<1>3. DoneTaskWasDelivered'
  <2>1. \A r \in Runs : driver[r] = "ok" => driver'[r] = "ok"
    BY DEF CrashAndBoot
  <2>2. task' = task /\ taskStatus' = taskStatus
    BY DEF CrashAndBoot
  <2>. QED
    BY <2>1, <2>2 DEF LifeInv, DoneTaskWasDelivered
<1>4. DirInv'
  <2>. SUFFICES ASSUME NEW s \in Runs, dir[s] # None PROVE pc'[dir[s]] # "idle"
    BY DEF LifeInv, DirInv, CrashAndBoot
  <2>1. dir[s] \in Runs /\ pc[dir[s]] # "idle"
    BY <1>0 DEF LifeInv, DirInv, TypeOK
  <2>. QED
    BY <2>1 DEF CrashAndBoot, Restart
<1>. QED
  BY <1>1, <1>2, <1>3, <1>4 DEF LifeInv

LEMMA LifeInit == Init => LifeInv
<1>. SUFFICES ASSUME Init PROVE LifeInv
  OBVIOUS
<1>1. GateInv
  BY InitEstablishes DEF Init
<1>2. TypeOK
  BY <1>1, LifecycleAssumption DEF GateInv, TypeOK, Init, SupPhase
<1>3. \A r \in Runs : pc[r] = "idle"
  BY DEF Init, GateInit
<1>4. \A r \in Runs : RunInv(r)
  BY <1>3, LifecycleAssumption
     DEF Init, RunInv, Unborn, Working, Delivered, Counted, BeforeTheAgent
<1>5. DoneTaskWasDelivered /\ DirInv
  BY DEF Init, DoneTaskWasDelivered, DirInv
<1>. QED
  BY <1>1, <1>2, <1>4, <1>5 DEF LifeInv

LEMMA LifeStepKeeps == LifeInv /\ [Next]_vars => LifeInv'
<1>. SUFFICES ASSUME LifeInv, [Next]_vars PROVE LifeInv'
  OBVIOUS
<1>0. GateInv'
  BY LifeStepIsGateStep, StepKeeps DEF LifeInv
<1>1. ASSUME NEW r \in Runs, StartRun(r) \/ \E old \in Runs : RetryRun(r, old)
      PROVE  LifeInv'
  BY <1>0, <1>1, StartRunKeeps, RetryRunKeeps
<1>2. ASSUME NEW r \in Runs, Caller(r) PROVE LifeInv'
  BY <1>0, <1>2, InsertRowKeeps, LaunchGoesOnKeeps, LaunchRejectedKeeps,
     SpawnSupervisorKeeps, LaunchAbandonedKeeps DEF Caller
<1>3. ASSUME NEW r \in Runs, Supervisor(r) PROVE LifeInv'
  BY <1>0, <1>3, WaitAtGateKeeps, LeaveGateKeeps, CancelledInQueueKeeps,
     CreateWorkspaceKeeps, MarkSpawningKeeps, BeginTaskKeeps, OpenSessionKeeps,
     LoopEventKeeps, LoopCancelKeeps, LoopDriverKeeps, LoopExitKeeps, SealRowKeeps,
     SealTaskKeeps, TellKeeps, FailRowKeeps, LeaveRunKeeps DEF Supervisor
<1>4. ASSUME NEW r \in Runs, Driver(r) \/ WriteSnapshot(r) \/ CancelRun(r)
      PROVE  LifeInv'
  BY <1>0, <1>4, DriverSendsKeeps, DriverEndsKeeps, WriteSnapshotKeeps,
     CancelRunKeeps DEF Driver
<1>5. CASE CrashAndBoot
  BY <1>0, <1>5, CrashKeeps
<1>6. CASE UNCHANGED vars
  <2>1. TypeOK'
    BY <1>6 DEF LifeInv, TypeOK, GateTypeOK, vars, gateVars, lifeVars
  <2>2. \A r \in Runs : RunInv(r)'
    BY <1>6 DEF LifeInv, RunInv, Unborn, Working, Delivered, Counted, vars, gateVars,
                lifeVars
  <2>3. DoneTaskWasDelivered' /\ DirInv'
    BY <1>6 DEF LifeInv, DoneTaskWasDelivered, DirInv, vars, gateVars, lifeVars
  <2>. QED
    BY <1>0, <2>1, <2>2, <2>3 DEF LifeInv
<1>. QED
  BY <1>1, <1>2, <1>3, <1>4, <1>5, <1>6 DEF Next

-----------------------------------------------------------------------------
(* The results. *)

\* Every state of the lifecycle satisfies the inductive invariant.
THEOREM LifeInvHolds == Safety => []LifeInv
BY LifeInit, LifeStepKeeps, PTL DEF Safety

\* start_run, supervise and the boot sweep keep their state well typed.
THEOREM LifeTypes == Safety => []TypeOK
<1>1. LifeInv => TypeOK
  BY DEF LifeInv
<1>. QED
  BY <1>1, LifeInvHolds, PTL

\* An agent works only while its run holds a permit, so a queued, refused or
\* ended run has none (the permit rides the supervisor of start_run, and every
\* way out of supervise comes after the driver ended or was aborted).
THEOREM AgentsStayBehindTheGate == Safety => []AgentsBehindTheGate
<1>1. LifeInv => AgentsBehindTheGate
  BY DEF LifeInv, AgentsBehindTheGate, RunInv, Working, InPhase
<1>. QED
  BY <1>1, LifeInvHolds, PTL

\* However the awaited and the detached update_run calls of supervise are
\* ordered, no row says a run ended while its agent works.
THEOREM TerminalRowsHaveNoAgent == Safety => []NoAgentUnderATerminalRow
<1>1. LifeInv => NoAgentUnderATerminalRow
  BY DEF LifeInv, NoAgentUnderATerminalRow, RunInv, Working
<1>. QED
  BY <1>1, LifeInvHolds, PTL

\* No interleaving of cancellation, driver end, straggling events, detached
\* writes and a crash makes supervise store Completed for a run whose driver did
\* not return success.
THEOREM CompletedMeansDelivered == Safety => []CompletedWasDelivered
<1>1. LifeInv => CompletedWasDelivered
  BY DEF LifeInv, CompletedWasDelivered, RunInv, Delivered
<1>. QED
  BY <1>1, LifeInvHolds, PTL

\* supervise marks a task Done only for a run of that very task that delivered.
THEOREM DoneMeansDelivered == Safety => []DoneTaskWasDelivered
<1>1. LifeInv => DoneTaskWasDelivered
  BY DEF LifeInv
<1>. QED
  BY <1>1, LifeInvHolds, PTL

\* However long a chain of retries (retry_run), a run works in the directory of
\* a run of its own task.
THEOREM RetriesStayInTheTask == Safety => []WorkspaceStaysInTask
<1>1. LifeInv => WorkspaceStaysInTask
  BY DEF LifeInv, DirInv, WorkspaceStaysInTask
<1>. QED
  BY <1>1, LifeInvHolds, PTL
=============================================================================
