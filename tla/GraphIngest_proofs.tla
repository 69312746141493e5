------------------------- MODULE GraphIngest_proofs -------------------------
(***************************************************************************)
(* Proofs about EntityGraph and GraphIngest.                               *)
(*                                                                         *)
(* apply_extraction goes through a list of names and a list of facts, so   *)
(* what it does is proved by induction over the lists.  The induction is   *)
(* done with sets: a set that holds 0 and the successor of each of its     *)
(* members holds every number, because a nonempty set of numbers has a     *)
(* least member (WFMin of the library).                                    *)
(***************************************************************************)
EXTENDS GraphIngest, WellFoundedInduction, FiniteSetTheorems, SequenceTheorems, TLAPS

-----------------------------------------------------------------------------
(* Induction *)

LEMMA Smallest ==
  ASSUME NEW T \in SUBSET Nat, T # {}
  PROVE  \E m \in T : \A n \in T : m <= n
<1>. DEFINE R == OpToRel(<, Nat)
<1>1. IsWellFoundedOn(R, Nat)
  BY NatLessThanWellFounded
<1>2. \A m, n \in Nat : m < n => <<m, n>> \in R
  BY DEF OpToRel
<1>. HIDE DEF R
<1>3. PICK m \in T : \A n \in T : <<n, m>> \notin R
  BY <1>1, WFMin
<1>4. ASSUME NEW n \in T PROVE m <= n
  <2>1. m \in Nat /\ n \in Nat
    OBVIOUS
  <2>2. ~(n < m)
    BY <1>2, <1>3, <2>1
  <2>. QED
    BY <2>1, <2>2
<1>. QED
  BY <1>4

LEMMA MinIs ==
  ASSUME NEW T \in SUBSET Nat, T # {}
  PROVE  Min(T) \in T /\ \A n \in T : Min(T) <= n
BY Smallest DEF Min

LEMMA Steps ==
  ASSUME NEW S, 0 \in S, \A n \in Nat : n \in S => n + 1 \in S
  PROVE  Nat \subseteq S
<1>. SUFFICES ASSUME Nat \ S # {} PROVE FALSE
  OBVIOUS
<1>1. PICK m \in Nat \ S : \A n \in Nat \ S : m <= n
  BY Smallest
<1>2. m # 0 /\ m - 1 \in Nat /\ m - 1 \in S
  BY <1>1
<1>. QED
  BY <1>2

LEMMA StepsTo ==
  ASSUME NEW N \in Nat, NEW S, 0 \in S, \A n \in 1..N : n - 1 \in S => n \in S
  PROVE  0..N \subseteq S
<1>. DEFINE U == S \cup {n \in Nat : n > N}
<1>1. 0 \in U
  OBVIOUS
<1>2. ASSUME NEW n \in Nat, n \in U PROVE n + 1 \in U
  <2>1. CASE n + 1 \in 1..N
    <3>1. n \in S /\ (n + 1) - 1 = n
      BY <1>2, <2>1
    <3>. QED
      BY <2>1, <3>1
  <2>2. CASE n + 1 > N
    BY <2>2
  <2>. QED
    BY <2>1, <2>2
<1>. HIDE DEF U
<1>3. Nat \subseteq U
  BY <1>1, <1>2, Steps
<1>. QED
  BY <1>3 DEF U

\* What has an upper bound has a largest member.
Bounded(T) == T \subseteq Nat /\ \E b \in Nat : \A n \in T : n <= b

LEMMA MaxIs ==
  ASSUME NEW T, Bounded(T), T # {}
  PROVE  Max(T) \in T /\ \A n \in T : Max(T) >= n
<1>1. PICK b \in Nat : \A n \in T : n <= b
  BY DEF Bounded
<1>. DEFINE D == {b - n : n \in T}
<1>2. D \in SUBSET Nat /\ D # {}
  <2>1. \A n \in T : n \in Nat /\ n <= b
    BY <1>1 DEF Bounded
  <2>2. \A n \in T : b - n \in Nat
    BY <2>1
  <2>. QED
    BY <2>2
<1>3. PICK m \in D : \A n \in D : m <= n
  BY <1>2, Smallest
<1>4. PICK t \in T : m = b - t
  BY <1>3
<1>5. ASSUME NEW n \in T PROVE t >= n
  <2>1. b - n \in D
    OBVIOUS
  <2>2. b - t <= b - n
    BY <1>3, <1>4, <2>1
  <2>3. t \in Nat /\ n \in Nat
    BY DEF Bounded
  <2>. QED
    BY <2>2, <2>3
<1>6. \E t_1 \in T : \A n \in T : t_1 >= n
  BY <1>5
<1>. QED
  BY <1>6 DEF Max

\* A new row has an id that is not in use.
LEMMA NewIdIs ==
  ASSUME NEW T, Bounded(T)
  PROVE  /\ NewId(T) \in Nat \ {0} /\ NewId(T) \notin T
         /\ Bounded(T \cup {NewId(T)})
<1>1. Bounded(T \cup {0}) /\ T \cup {0} # {}
  BY DEF Bounded
<1>2. Max(T \cup {0}) \in T \cup {0} /\ \A n \in T \cup {0} : Max(T \cup {0}) >= n
  BY <1>1, MaxIs
<1>3. Max(T \cup {0}) \in Nat /\ T \subseteq Nat
  BY <1>1, <1>2 DEF Bounded
<1>. DEFINE m == Max(T \cup {0})
<1>4. m \in Nat /\ \A n \in T : n \in Nat /\ m >= n
  BY <1>2, <1>3
<1>5. NewId(T) = 1 + m
  BY DEF NewId
<1>. HIDE DEF m
<1>6. NewId(T) \in Nat \ {0} /\ NewId(T) \notin T
  BY <1>4, <1>5
<1>7. \A n \in T \cup {NewId(T)} : n <= 1 + m
  BY <1>4, <1>5
<1>8. T \cup {NewId(T)} \subseteq Nat
  BY <1>3, <1>6
<1>9. 1 + m \in Nat
  BY <1>4
<1>. QED
  BY <1>6, <1>7, <1>8, <1>9 DEF Bounded

-----------------------------------------------------------------------------
(* The loops of apply_extraction and sweep *)

LEMMA AfterNamesIs ==
  ASSUME NEW g, NEW entities, Len(entities) \in Nat
  PROVE  /\ AfterNames(g, entities)[0] = [graph |-> g, ids |-> Nothing]
         /\ \A k \in 1..Len(entities) :
              AfterNames(g, entities)[k] = AddEntity(AfterNames(g, entities)[k - 1], entities[k])
<1>. DEFINE First == [graph |-> g, ids |-> Nothing]
            Chain(f, n) == f = [k \in 0..n |-> IF k = 0 THEN First
                                               ELSE AddEntity(f[k - 1], entities[k])]
            S == {n \in Nat : \E f : Chain(f, n)}
<1>1. 0 \in S
  <2>1. Chain([k \in 0..0 |-> First], 0)
    OBVIOUS
  <2>. QED
    BY <2>1
<1>2. ASSUME NEW n \in Nat, n \in S PROVE n + 1 \in S
  <2>1. PICK f : Chain(f, n)
    BY <1>2
  <2>. DEFINE h == [k \in 0..(n + 1) |-> IF k = n + 1 THEN AddEntity(f[n], entities[n + 1])
                                         ELSE f[k]]
  <2>2. Chain(h, n + 1)
    BY <2>1
  <2>. HIDE DEF Chain, h
  <2>3. \E f_1 : Chain(f_1, n + 1)
    BY <2>2
  <2>. QED
    BY <2>3
<1>. HIDE DEF S
<1>3. Nat \subseteq S
  BY <1>1, <1>2, Steps
<1>4. \E f : Chain(f, Len(entities))
  BY <1>3 DEF S
<1>5. Chain(AfterNames(g, entities), Len(entities))
  BY <1>4 DEF AfterNames
<1>. QED
  BY <1>5

LEMMA AfterFactsIs ==
  ASSUME NEW g, NEW ids, NEW facts, NEW at, NEW by, Len(facts) \in Nat
  PROVE  /\ AfterFacts(g, ids, facts, at, by)[0] = g
         /\ \A k \in 1..Len(facts) :
              AfterFacts(g, ids, facts, at, by)[k] =
                AddClaim(AfterFacts(g, ids, facts, at, by)[k - 1], ids, facts[k], at, by)
<1>. DEFINE Chain(f, n) == f = [k \in 0..n |-> IF k = 0 THEN g
                                               ELSE AddClaim(f[k - 1], ids, facts[k], at, by)]
            S == {n \in Nat : \E f : Chain(f, n)}
<1>1. 0 \in S
  <2>1. Chain([k \in 0..0 |-> g], 0)
    OBVIOUS
  <2>. QED
    BY <2>1
<1>2. ASSUME NEW n \in Nat, n \in S PROVE n + 1 \in S
  <2>1. PICK f : Chain(f, n)
    BY <1>2
  <2>. DEFINE h == [k \in 0..(n + 1) |->
                      IF k = n + 1 THEN AddClaim(f[n], ids, facts[n + 1], at, by) ELSE f[k]]
  <2>2. Chain(h, n + 1)
    BY <2>1
  <2>. HIDE DEF Chain, h
  <2>3. \E f_1 : Chain(f_1, n + 1)
    BY <2>2
  <2>. QED
    BY <2>3
<1>. HIDE DEF S
<1>3. Nat \subseteq S
  BY <1>1, <1>2, Steps
<1>4. \E f : Chain(f, Len(facts))
  BY <1>3 DEF S
<1>5. Chain(AfterFacts(g, ids, facts, at, by), Len(facts))
  BY <1>4 DEF AfterFacts
<1>. QED
  BY <1>5

-----------------------------------------------------------------------------
(* What every graph is between two statements *)

EdgeRows == [id : Nat \ {0}, src : Nat, dst : Nat, rel : Relations, fact : Facts,
             valid : Instants, invalid : Instants \cup {None},
             by : {"human", "session", "document"}]

\* The tables, the ids given so far, and that entity names are unique.
EntitiesInv(g) ==
  /\ g = [entity |-> g.entity, alias |-> g.alias, pending |-> g.pending, edges |-> g.edges]
  /\ g.entity = [i \in DOMAIN g.entity |-> g.entity[i]]
  /\ Bounded(DOMAIN g.entity) /\ 0 \notin DOMAIN g.entity
  /\ \A i \in DOMAIN g.entity : g.entity[i] \in Names
  /\ \A i, j \in DOMAIN g.entity : g.entity[i] = g.entity[j] => i = j

\* Aliases and pairs refer to entities that exist.
AliasesInv(g) ==
  /\ DOMAIN g.alias \subseteq Names
  /\ \A n \in DOMAIN g.alias : g.alias[n] \in DOMAIN g.entity

PairsInv(g) ==
  \A pair \in DOMAIN g.pending :
    /\ \E i, j \in DOMAIN g.entity : i # j /\ pair = {i, j}
    /\ g.pending[pair] \in {"open", "dismissed"}

\* So do edges, which have an id each.
EdgesInv(g) ==
  /\ g.edges \subseteq EdgeRows
  /\ Bounded({e.id : e \in g.edges})
  /\ \A e \in g.edges : {e.src, e.dst} \subseteq DOMAIN g.entity
  /\ \A e, f \in g.edges : e.id = f.id => e = f

NamesInv(g) == EntitiesInv(g) /\ AliasesInv(g) /\ PairsInv(g)

TablesInv(g) == NamesInv(g) /\ EdgesInv(g)

\* What a name leads to, it leads to afterwards.
Keeps(g, h) ==
  \A n \in Names : Resolved(g, n) # None => Resolved(h, n) = Resolved(g, n)

LEMMA ResolvedIs ==
  ASSUME NEW g, NamesInv(g), NEW n
  PROVE  /\ Named(g, n) # {} => Resolved(g, n) \in Named(g, n)
         /\ Named(g, n) = {} /\ n \in DOMAIN g.alias => Resolved(g, n) = g.alias[n]
         /\ Named(g, n) = {} /\ n \notin DOMAIN g.alias => Resolved(g, n) = None
         /\ Resolved(g, n) # None => Resolved(g, n) \in DOMAIN g.entity
         /\ Resolved(g, n) = None <=> Named(g, n) = {} /\ n \notin DOMAIN g.alias
<1>1. None \notin DOMAIN g.entity
  BY GraphAssumption DEF NamesInv, EntitiesInv, Bounded
<1>2. Named(g, n) \subseteq DOMAIN g.entity
  BY DEF Named
<1>3. n \in DOMAIN g.alias => g.alias[n] \in DOMAIN g.entity
  BY DEF NamesInv, AliasesInv
<1>. QED
  BY <1>1, <1>2, <1>3 DEF Resolved

\* upsert_entity_in gives a new name a row of its own and changes no other.
LEMMA WithEntityIs ==
  ASSUME NEW g, TablesInv(g), NEW n \in Names, Named(g, n) = {},
         NEW h, h = WithEntity(g, n), NEW id, id = NewId(DOMAIN g.entity)
  PROVE  /\ TablesInv(h)
         /\ id \notin DOMAIN g.entity /\ DOMAIN h.entity = DOMAIN g.entity \cup {id}
         /\ h.edges = g.edges /\ h.alias = g.alias /\ h.pending = g.pending
         /\ Named(h, n) = {id}
         /\ \A m \in Names : m # n => Named(h, m) = Named(g, m)
<1>1. /\ id \in Nat \ {0} /\ id \notin DOMAIN g.entity
      /\ Bounded(DOMAIN g.entity \cup {id})
  BY NewIdIs DEF TablesInv, NamesInv, EntitiesInv
<1>2. h = [g EXCEPT !.entity = Joined(Single(id, n), @)]
  BY DEF WithEntity
<1>3. h = [entity |-> Joined(Single(id, n), g.entity), alias |-> g.alias,
           pending |-> g.pending, edges |-> g.edges]
  BY <1>2 DEF TablesInv, NamesInv, EntitiesInv
<1>4. /\ h.entity = Joined(Single(id, n), g.entity)
      /\ h.edges = g.edges /\ h.alias = g.alias /\ h.pending = g.pending
      /\ h = [entity |-> h.entity, alias |-> h.alias, pending |-> h.pending, edges |-> h.edges]
  BY <1>3
<1>5. /\ DOMAIN h.entity = DOMAIN g.entity \cup {id} /\ h.entity[id] = n
      /\ \A i \in DOMAIN g.entity : h.entity[i] = g.entity[i]
      /\ h.entity = [i \in DOMAIN h.entity |-> h.entity[i]]
  BY <1>1, <1>4 DEF Joined, Single
<1>6. \A i \in DOMAIN g.entity : g.entity[i] # n
  BY DEF Named
<1>7. EntitiesInv(h)
  <2>1. \A i \in DOMAIN h.entity : h.entity[i] \in Names
    BY <1>5 DEF TablesInv, NamesInv, EntitiesInv
  <2>2. ASSUME NEW i \in DOMAIN h.entity, NEW j \in DOMAIN h.entity,
               h.entity[i] = h.entity[j]
        PROVE  i = j
    BY <2>2, <1>5, <1>6 DEF TablesInv, NamesInv, EntitiesInv
  <2>3. Bounded(DOMAIN h.entity) /\ 0 \notin DOMAIN h.entity
    BY <1>1, <1>5 DEF TablesInv, NamesInv, EntitiesInv
  <2>. QED
    BY <1>4, <1>5, <2>1, <2>2, <2>3 DEF EntitiesInv
<1>8. AliasesInv(h) /\ PairsInv(h)
  BY <1>4, <1>5 DEF TablesInv, NamesInv, AliasesInv, PairsInv
<1>9. EdgesInv(h)
  BY <1>4, <1>5 DEF TablesInv, EdgesInv
<1>10. Named(h, n) = {id} /\ \A m \in Names : m # n => Named(h, m) = Named(g, m)
  BY <1>5, <1>6 DEF Named
<1>. QED
  BY <1>1, <1>4, <1>5, <1>7, <1>8, <1>9, <1>10 DEF TablesInv, NamesInv

\* add_alias_in takes nobody's alias away.
LEMMA WithAliasesIs ==
  ASSUME NEW g, TablesInv(g), NEW i \in DOMAIN g.entity, NEW names \in SUBSET Names,
         NEW h, h = WithAliases(g, i, names)
  PROVE  /\ TablesInv(h) /\ Keeps(g, h)
         /\ h.edges = g.edges /\ h.entity = g.entity
         /\ \A n \in names : Resolved(h, n) # None
         /\ \A n \in names : Resolved(g, n) = None => Resolved(h, n) = i
<1>1. h = [entity |-> g.entity, alias |-> Joined(g.alias, [n \in names |-> i]),
           pending |-> g.pending, edges |-> g.edges]
  BY DEF WithAliases, TablesInv, NamesInv, EntitiesInv
<1>2. /\ h.edges = g.edges /\ h.entity = g.entity /\ h.pending = g.pending
      /\ h.alias = Joined(g.alias, [n \in names |-> i])
  BY <1>1
<1>3. /\ DOMAIN h.alias = DOMAIN g.alias \cup names
      /\ \A n \in DOMAIN g.alias : h.alias[n] = g.alias[n]
      /\ \A n \in names : n \notin DOMAIN g.alias => h.alias[n] = i
  BY <1>2 DEF Joined
<1>4. EntitiesInv(h)
  <2>1. h = [entity |-> h.entity, alias |-> h.alias, pending |-> h.pending, edges |-> h.edges]
    BY <1>1
  <2>. QED
    BY <1>2, <2>1 DEF TablesInv, NamesInv, EntitiesInv
<1>5. AliasesInv(h) /\ PairsInv(h)
  BY <1>2, <1>3 DEF TablesInv, NamesInv, AliasesInv, PairsInv
<1>6. EdgesInv(h)
  BY <1>2 DEF TablesInv, EdgesInv
<1>7. TablesInv(h)
  BY <1>4, <1>5, <1>6 DEF TablesInv, NamesInv
<1>8. \A n \in Names : Named(h, n) = Named(g, n)
  BY <1>2 DEF Named
<1>9. Keeps(g, h)
  <2>. SUFFICES ASSUME NEW n \in Names, Resolved(g, n) # None
                PROVE  Resolved(h, n) = Resolved(g, n)
    BY DEF Keeps
  <2>1. CASE Named(g, n) # {}
    BY <2>1, <1>8 DEF Resolved
  <2>2. CASE Named(g, n) = {}
    <3>1. n \in DOMAIN g.alias
      BY <2>2, ResolvedIs DEF TablesInv
    <3>. QED
      BY <2>2, <3>1, <1>3, <1>8 DEF Resolved
  <2>. QED
    BY <2>1, <2>2
<1>10. ASSUME NEW n \in names PROVE Resolved(h, n) # None
  BY <1>3, <1>7, ResolvedIs DEF TablesInv
<1>11. ASSUME NEW n \in names, Resolved(g, n) = None PROVE Resolved(h, n) = i
  <2>1. Named(g, n) = {} /\ n \notin DOMAIN g.alias
    BY <1>11, ResolvedIs DEF TablesInv
  <2>. QED
    BY <2>1, <1>3, <1>8 DEF Resolved
<1>. QED
  BY <1>2, <1>7, <1>9, <1>10, <1>11

LEMMA WithPairIs ==
  ASSUME NEW g, TablesInv(g), NEW i \in DOMAIN g.entity, NEW j \in DOMAIN g.entity, i # j,
         NEW h, h = WithPair(g, i, j)
  PROVE  TablesInv(h) /\ h.edges = g.edges /\ h.entity = g.entity /\ h.alias = g.alias
<1>1. h = [entity |-> g.entity, alias |-> g.alias,
           pending |-> Joined(g.pending, Single({i, j}, "open")), edges |-> g.edges]
  BY DEF WithPair, TablesInv, NamesInv, EntitiesInv
<1>2. /\ h.edges = g.edges /\ h.entity = g.entity /\ h.alias = g.alias
      /\ h.pending = Joined(g.pending, Single({i, j}, "open"))
      /\ h = [entity |-> h.entity, alias |-> h.alias, pending |-> h.pending, edges |-> h.edges]
  BY <1>1
<1>3. /\ DOMAIN h.pending = DOMAIN g.pending \cup {{i, j}}
      /\ \A pair \in DOMAIN g.pending : h.pending[pair] = g.pending[pair]
      /\ {i, j} \notin DOMAIN g.pending => h.pending[{i, j}] = "open"
  BY <1>2 DEF Joined, Single
<1>4. EntitiesInv(h) /\ AliasesInv(h) /\ EdgesInv(h)
  BY <1>2 DEF TablesInv, NamesInv, EntitiesInv, AliasesInv, EdgesInv
<1>5. PairsInv(h)
  <2>. SUFFICES ASSUME NEW pair \in DOMAIN h.pending
                PROVE  /\ \E a, b \in DOMAIN h.entity : a # b /\ pair = {a, b}
                       /\ h.pending[pair] \in {"open", "dismissed"}
    BY DEF PairsInv
  <2>1. CASE pair \in DOMAIN g.pending
    <3>1. /\ \E a, b \in DOMAIN g.entity : a # b /\ pair = {a, b}
          /\ g.pending[pair] \in {"open", "dismissed"}
      BY <2>1 DEF TablesInv, NamesInv, PairsInv
    <3>2. h.pending[pair] = g.pending[pair]
      BY <2>1, <1>3
    <3>. QED
      BY <3>1, <3>2, <1>2
  <2>2. CASE pair = {i, j} /\ {i, j} \notin DOMAIN g.pending
    BY <2>2, <1>2, <1>3
  <2>. QED
    BY <2>1, <2>2, <1>3
<1>. QED
  BY <1>2, <1>4, <1>5 DEF TablesInv, NamesInv

-----------------------------------------------------------------------------
(* Resolution *)

LEMMA KeepsIsTransitive ==
  ASSUME NEW f, NEW g, NEW h, Keeps(f, g), Keeps(g, h)
  PROVE  Keeps(f, h)
BY DEF Keeps

\* resolve_entity_in, when nothing decides: the name gets an entity of its own
\* and the aliases lead to it.
LEMMA CreatedIs ==
  ASSUME NEW g, TablesInv(g), NEW n \in Names, NEW aliases \in SUBSET Names,
         \A p \in {n} \cup aliases : Resolved(g, p) = None,
         NEW h, h = Created(g, n, aliases)
  PROVE  /\ TablesInv(h) /\ Keeps(g, h) /\ h.edges = g.edges
         /\ DOMAIN g.entity \subseteq DOMAIN h.entity
         /\ Resolved(h, n) # None
         /\ \A p \in {n} \cup aliases : Resolved(h, p) = Resolved(h, n)
<1>. DEFINE id == NewId(DOMAIN g.entity)
            e == WithEntity(g, n)
            like == Judged(g, n, SameFamily)
            a == WithAliases(e, Resolved(e, n), aliases)
<1>1. Named(g, n) = {} /\ n \notin DOMAIN g.alias
  BY ResolvedIs DEF TablesInv
<1>2. /\ TablesInv(e)
      /\ id \notin DOMAIN g.entity /\ DOMAIN e.entity = DOMAIN g.entity \cup {id}
      /\ e.edges = g.edges /\ e.alias = g.alias /\ Named(e, n) = {id}
      /\ \A m \in Names : m # n => Named(e, m) = Named(g, m)
  BY <1>1, WithEntityIs
<1>3. Resolved(e, n) = id
  BY <1>2, ResolvedIs DEF TablesInv
<1>4. ASSUME NEW m \in Names, m # n PROVE Resolved(e, m) = Resolved(g, m)
  <2>1. Named(e, m) = Named(g, m) /\ e.alias = g.alias
    BY <1>2, <1>4
  <2>. HIDE DEF e
  <2>. QED
    BY <2>1 DEF Resolved
<1>5. Keeps(g, e)
  BY <1>4 DEF Keeps
<1>6. /\ TablesInv(a) /\ Keeps(e, a) /\ a.edges = e.edges /\ a.entity = e.entity
      /\ \A p \in aliases : Resolved(e, p) = None => Resolved(a, p) = id
  BY <1>2, <1>3, WithAliasesIs
<1>7. None \notin DOMAIN e.entity
  BY <1>2, GraphAssumption DEF TablesInv, NamesInv, EntitiesInv, Bounded
<1>8. Resolved(a, n) = id /\ id # None
  BY <1>2, <1>3, <1>6, <1>7 DEF Keeps
<1>9. \A p \in aliases : Resolved(a, p) = id
  <2>. SUFFICES ASSUME NEW p \in aliases PROVE Resolved(a, p) = id
    OBVIOUS
  <2>1. CASE p = n
    BY <2>1, <1>8
  <2>2. CASE p # n
    BY <2>2, <1>4, <1>6
  <2>. QED
    BY <2>1, <2>2
<1>10. Keeps(g, a)
  BY <1>5, <1>6, KeepsIsTransitive
<1>11. CASE like = {}
  <2>1. h = a
    BY <1>11 DEF Created
  <2>. QED
    BY <2>1, <1>2, <1>6, <1>8, <1>9, <1>10
<1>12. CASE like # {}
  <2>1. h = WithPair(a, Min(like), id)
    BY <1>12, <1>3 DEF Created
  <2>2. like \in SUBSET Nat /\ like \subseteq DOMAIN g.entity
    BY DEF Judged, TablesInv, NamesInv, EntitiesInv, Bounded
  <2>3. Min(like) \in DOMAIN g.entity
    BY <1>12, <2>2, MinIs
  <2>4. Min(like) \in DOMAIN a.entity /\ id \in DOMAIN a.entity /\ Min(like) # id
    BY <2>3, <1>2, <1>6
  <2>5. TablesInv(h) /\ h.edges = a.edges /\ h.entity = a.entity /\ h.alias = a.alias
    BY <2>1, <2>4, <1>6, WithPairIs
  <2>6. \A m : Resolved(h, m) = Resolved(a, m)
    BY <2>5 DEF Resolved, Named
  <2>. QED
    BY <2>5, <2>6, <1>2, <1>6, <1>8, <1>9, <1>10 DEF Keeps
<1>. QED
  BY <1>11, <1>12

\* What decides for a name: the smallest probe that is known, or the judge.
LEMMA SameAsIs ==
  ASSUME NEW g, TablesInv(g), NEW n \in Names, NEW aliases \in SUBSET Names,
         NEW same, same = SameAs(g, n, aliases)
  PROVE  /\ same # None => same \in DOMAIN g.entity
         /\ same = None => \A p \in {n} \cup aliases : Resolved(g, p) = None
         /\ LET first == Min({n} \cup aliases)
            IN  Resolved(g, first) # None => same = Resolved(g, first)
<1>. DEFINE probes == {n} \cup aliases
            known == {p \in probes : Resolved(g, p) # None}
            alike == Judged(g, n, SameObject)
<1>1. probes \in SUBSET Nat /\ known \in SUBSET Nat /\ probes # {}
  BY GraphAssumption
<1>2. alike \in SUBSET Nat /\ alike \subseteq DOMAIN g.entity
  BY DEF Judged, TablesInv, NamesInv, EntitiesInv, Bounded
<1>3. None \notin Nat /\ DOMAIN g.entity \subseteq Nat
  BY GraphAssumption DEF TablesInv, NamesInv, EntitiesInv, Bounded
<1>4. CASE known # {}
  <2>1. same = Resolved(g, Min(known))
    BY <1>4 DEF SameAs
  <2>2. Min(known) \in known /\ \A p \in known : Min(known) <= p
    BY <1>1, <1>4, MinIs
  <2>3. same # None /\ same \in DOMAIN g.entity
    BY <2>1, <2>2, ResolvedIs DEF TablesInv
  <2>4. Min(probes) \in probes /\ \A p \in probes : Min(probes) <= p
    BY <1>1, MinIs
  <2>5. ASSUME Resolved(g, Min(probes)) # None PROVE Min(probes) = Min(known)
    <3>1. Min(probes) \in known /\ Min(known) \in probes
      BY <2>2, <2>4, <2>5
    <3>2. Min(known) <= Min(probes) /\ Min(probes) <= Min(known)
      BY <3>1, <2>2, <2>4
    <3>. QED
      BY <3>1, <3>2, <1>1
  <2>. QED
    BY <2>1, <2>3, <2>5
<1>5. CASE known = {}
  <2>1. same = IF alike # {} THEN Min(alike) ELSE None
    BY <1>5 DEF SameAs
  <2>2. alike # {} => Min(alike) \in DOMAIN g.entity
    BY <1>2, MinIs
  <2>3. \A p \in probes : Resolved(g, p) = None
    BY <1>5
  <2>4. Min(probes) \in probes
    BY <1>1, MinIs
  <2>. QED
    BY <2>1, <2>2, <2>3, <2>4
<1>. QED
  BY <1>4, <1>5

\* resolve_entity_in: all the probes are known afterwards, and the smallest of
\* them leads to the entity that was decided on.
LEMMA ResolveIs ==
  ASSUME NEW g, TablesInv(g), NEW n \in Names, NEW aliases \in SUBSET Names,
         NEW h, h = Resolve(g, n, aliases),
         NEW id, id = IF SameAs(g, n, aliases) # None THEN SameAs(g, n, aliases)
                      ELSE Resolved(h, n)
  PROVE  /\ TablesInv(h) /\ Keeps(g, h) /\ h.edges = g.edges
         /\ DOMAIN g.entity \subseteq DOMAIN h.entity
         /\ id \in DOMAIN h.entity
         /\ Resolved(h, Min({n} \cup aliases)) = id
<1>. DEFINE same == SameAs(g, n, aliases)
            probes == {n} \cup aliases
<1>1. probes \in SUBSET Nat /\ probes # {}
  BY GraphAssumption
<1>2. Min(probes) \in probes
  BY <1>1, MinIs
<1>3. CASE same = None
  <2>1. h = Created(g, n, aliases) /\ id = Resolved(h, n)
    BY <1>3 DEF Resolve
  <2>2. \A p \in probes : Resolved(g, p) = None
    BY <1>3, SameAsIs
  <2>3. /\ TablesInv(h) /\ Keeps(g, h) /\ h.edges = g.edges
        /\ DOMAIN g.entity \subseteq DOMAIN h.entity
        /\ Resolved(h, n) # None
        /\ \A p \in probes : Resolved(h, p) = Resolved(h, n)
    BY <2>1, <2>2, CreatedIs
  <2>4. id \in DOMAIN h.entity
    BY <2>1, <2>3, ResolvedIs DEF TablesInv
  <2>. QED
    BY <2>1, <2>3, <2>4, <1>2
<1>4. CASE same # None
  <2>. DEFINE names == aliases \cup ({n} \ {g.entity[same]})
  <2>1. h = WithAliases(g, same, names) /\ id = same
    BY <1>4 DEF Resolve
  <2>2. same \in DOMAIN g.entity
    BY <1>4, SameAsIs
  <2>3. /\ TablesInv(h) /\ Keeps(g, h)
        /\ h.edges = g.edges /\ h.entity = g.entity
        /\ \A p \in names : Resolved(g, p) = None => Resolved(h, p) = same
    BY <2>1, <2>2, WithAliasesIs
  <2>4. CASE Resolved(g, Min(probes)) # None
    <3>1. Resolved(h, Min(probes)) = Resolved(g, Min(probes))
      BY <2>3, <2>4, <1>2 DEF Keeps
    <3>2. same = Resolved(g, Min(probes))
      BY <2>4, SameAsIs
    <3>. QED
      BY <3>1, <3>2, <2>1, <2>2, <2>3
  <2>5. CASE Resolved(g, Min(probes)) = None
    <3>1. Min(probes) = n => g.entity[same] # n
      <4>. SUFFICES ASSUME Min(probes) = n, g.entity[same] = n PROVE FALSE
        OBVIOUS
      <4>1. same \in Named(g, n)
        BY <2>2 DEF Named
      <4>. QED
        BY <4>1, <2>5, ResolvedIs DEF TablesInv
    <3>2. Min(probes) \in names
      BY <3>1, <1>2
    <3>. QED
      BY <3>2, <2>1, <2>2, <2>3, <2>5
  <2>. QED
    BY <2>4, <2>5
<1>. QED
  BY <1>3, <1>4

-----------------------------------------------------------------------------
(* The names of an extraction *)

EntityList == Seq([name : Names, aliases : SUBSET Names])

\* After each name the tables are in order, what was known is, and what ids
\* says refers to an entity.
NamesDone(g, acc) ==
  /\ TablesInv(acc.graph) /\ Keeps(g, acc.graph) /\ acc.graph.edges = g.edges
  /\ DOMAIN acc.ids \subseteq Names
  /\ \A n \in DOMAIN acc.ids : acc.ids[n] \in DOMAIN acc.graph.entity

LEMMA MemberOf ==
  ASSUME NEW T, NEW s \in Seq(T), NEW k \in 1..Len(s)
  PROVE  s[k] \in T
OBVIOUS

\* What one name does, whatever was found before it.
LEMMA AddEntityIs ==
  ASSUME NEW acc, TablesInv(acc.graph), NEW e \in [name : Names, aliases : SUBSET Names],
         NEW new, new = AddEntity(acc, e)
  PROVE  /\ TablesInv(new.graph) /\ Keeps(acc.graph, new.graph)
         /\ new.graph.edges = acc.graph.edges
         /\ DOMAIN acc.graph.entity \subseteq DOMAIN new.graph.entity
         /\ new.ids[e.name] \in DOMAIN new.graph.entity
         /\ Resolved(new.graph, Min({e.name} \cup e.aliases)) = new.ids[e.name]
         /\ new.ids = Joined(Single(e.name, new.ids[e.name]), acc.ids)
<1>. DEFINE same == SameAs(acc.graph, e.name, e.aliases)
            h == Resolve(acc.graph, e.name, e.aliases)
            i == IF same # None THEN same ELSE Resolved(h, e.name)
<1>1. new.graph = h /\ new.ids = Joined(Single(e.name, i), acc.ids)
  BY DEF AddEntity
<1>2. e.name \in Names /\ e.aliases \in SUBSET Names
  OBVIOUS
<1>3. /\ TablesInv(h) /\ Keeps(acc.graph, h) /\ h.edges = acc.graph.edges
      /\ DOMAIN acc.graph.entity \subseteq DOMAIN h.entity
      /\ i \in DOMAIN h.entity
      /\ Resolved(h, Min({e.name} \cup e.aliases)) = i
  BY <1>2, ResolveIs
<1>. HIDE DEF i, h
<1>4. new.ids[e.name] = i
  BY <1>1 DEF Joined, Single
<1>. QED
  BY <1>1, <1>3, <1>4

LEMMA AfterNamesInv ==
  ASSUME NEW g, TablesInv(g), NEW es \in EntityList
  PROVE  \A k \in 0..Len(es) :
           /\ NamesDone(g, AfterNames(g, es)[k])
           /\ \A j \in 0..k : Keeps(AfterNames(g, es)[j].graph, AfterNames(g, es)[k].graph)
<1>. DEFINE acc == AfterNames(g, es)
            Done(k) == /\ NamesDone(g, acc[k])
                       /\ \A j \in 0..k : Keeps(acc[j].graph, acc[k].graph)
            S == {k \in 0..Len(es) : Done(k)}
<1>1. /\ Len(es) \in Nat /\ acc[0] = [graph |-> g, ids |-> Nothing]
      /\ \A k \in 1..Len(es) : acc[k] = AddEntity(acc[k - 1], es[k])
  BY AfterNamesIs DEF EntityList
<1>. HIDE DEF acc
<1>2. 0 \in S
  <2>1. NamesDone(g, acc[0]) /\ Keeps(acc[0].graph, acc[0].graph)
    BY <1>1 DEF NamesDone, Keeps, Nothing
  <2>. QED
    BY <2>1, <1>1
<1>3. ASSUME NEW k \in 1..Len(es), k - 1 \in S PROVE k \in S
  <2>1. PICK e \in [name : Names, aliases : SUBSET Names] : e = es[k]
    BY <1>1, MemberOf DEF EntityList
  <2>2. PICK old, new : old = acc[k - 1] /\ new = acc[k]
    OBVIOUS
  <2>3. new = AddEntity(old, e)
    BY <1>1, <2>1, <2>2
  <2>4. NamesDone(g, old) /\ \A j \in 0..(k - 1) : Keeps(acc[j].graph, old.graph)
    BY <1>3, <2>2
  <2>5. /\ TablesInv(new.graph) /\ Keeps(old.graph, new.graph)
        /\ new.graph.edges = old.graph.edges
        /\ DOMAIN old.graph.entity \subseteq DOMAIN new.graph.entity
        /\ new.ids[e.name] \in DOMAIN new.graph.entity
        /\ new.ids = Joined(Single(e.name, new.ids[e.name]), old.ids)
    BY <2>3, <2>4, AddEntityIs DEF NamesDone
  <2>6. Keeps(g, new.graph)
    BY <2>4, <2>5, KeepsIsTransitive DEF NamesDone
  <2>7. /\ DOMAIN new.ids \subseteq Names
        /\ \A n \in DOMAIN new.ids : new.ids[n] \in DOMAIN new.graph.entity
    <3>1. PICK n_1, i, f : n_1 = e.name /\ i = new.ids[e.name] /\ f = new.ids
      OBVIOUS
    <3>2. f = Joined(Single(n_1, i), old.ids)
      BY <2>5, <3>1
    <3>3. /\ DOMAIN f = DOMAIN old.ids \cup {n_1} /\ f[n_1] = i
          /\ \A n \in DOMAIN old.ids : n # n_1 => f[n] = old.ids[n]
      BY <3>2 DEF Joined, Single
    <3>. QED
      BY <3>1, <3>3, <2>4, <2>5 DEF NamesDone
  <2>8. NamesDone(g, new)
    BY <2>4, <2>5, <2>6, <2>7 DEF NamesDone
  <2>9. ASSUME NEW j \in 0..k PROVE Keeps(acc[j].graph, new.graph)
    <3>1. CASE j = k
      BY <3>1, <2>2 DEF Keeps
    <3>2. CASE j # k
      <4>1. j \in 0..(k - 1)
        BY <3>2
      <4>. QED
        BY <4>1, <2>4, <2>5, KeepsIsTransitive
    <3>. QED
      BY <3>1, <3>2
  <2>. QED
    BY <2>2, <2>8, <2>9
<1>. HIDE DEF S
<1>4. 0..Len(es) \subseteq S
  BY <1>1, <1>2, <1>3, StepsTo
<1>. QED
  BY <1>4 DEF S, acc

\* The same names again, in a graph that keeps what they led to: they lead to
\* the same entities.
LEMMA SameNamesSameIds ==
  ASSUME NEW g, TablesInv(g), NEW es \in EntityList,
         NEW h, TablesInv(h), Keeps(AfterNames(g, es)[Len(es)].graph, h)
  PROVE  \A k \in 0..Len(es) : AfterNames(h, es)[k].ids = AfterNames(g, es)[k].ids
<1>. DEFINE a == AfterNames(g, es)
            b == AfterNames(h, es)
            S == {k \in 0..Len(es) : b[k].ids = a[k].ids}
<1>1. /\ Len(es) \in Nat
      /\ a[0] = [graph |-> g, ids |-> Nothing] /\ b[0] = [graph |-> h, ids |-> Nothing]
      /\ \A k \in 1..Len(es) : a[k] = AddEntity(a[k - 1], es[k]) /\ b[k] = AddEntity(b[k - 1], es[k])
  BY AfterNamesIs DEF EntityList
<1>2. \A k \in 0..Len(es) :
        NamesDone(g, a[k]) /\ \A j \in 0..k : Keeps(a[j].graph, a[k].graph)
  BY AfterNamesInv
<1>3. \A k \in 0..Len(es) : NamesDone(h, b[k])
  BY AfterNamesInv
<1>. HIDE DEF a, b
<1>4. 0 \in S
  BY <1>1
<1>5. ASSUME NEW k \in 1..Len(es), k - 1 \in S PROVE k \in S
  <2>1. PICK e \in [name : Names, aliases : SUBSET Names] : e = es[k]
    BY <1>1, MemberOf DEF EntityList
  <2>2. PICK olda, oldb, newa, newb :
          olda = a[k - 1] /\ oldb = b[k - 1] /\ newa = a[k] /\ newb = b[k]
    OBVIOUS
  <2>. DEFINE first == Min({e.name} \cup e.aliases)
              i == newa.ids[e.name]
  <2>3. newa = AddEntity(olda, e) /\ newb = AddEntity(oldb, e) /\ olda.ids = oldb.ids
    BY <1>1, <1>5, <2>1, <2>2
  <2>4. k - 1 \in 0..Len(es) /\ k \in 0..Len(es) /\ Len(es) \in 0..Len(es)
    BY <1>1
  <2>5. TablesInv(olda.graph) /\ TablesInv(oldb.graph) /\ Keeps(h, oldb.graph)
    BY <2>2, <2>4, <1>2, <1>3 DEF NamesDone
  <2>6. /\ TablesInv(newa.graph)
        /\ i \in DOMAIN newa.graph.entity /\ Resolved(newa.graph, first) = i
        /\ newa.ids = Joined(Single(e.name, i), olda.ids)
    BY <2>3, <2>5, AddEntityIs
  <2>7. Keeps(newa.graph, oldb.graph)
    <3>1. Keeps(newa.graph, a[Len(es)].graph)
      BY <1>2, <2>2, <2>4
    <3>2. Keeps(newa.graph, h)
      BY <3>1, KeepsIsTransitive DEF a
    <3>. QED
      BY <3>2, <2>5, KeepsIsTransitive
  <2>8. first \in Names
    <3>1. {e.name} \cup e.aliases \in SUBSET Nat
      BY GraphAssumption
    <3>2. first \in {e.name} \cup e.aliases
      BY <3>1, MinIs
    <3>. QED
      BY <3>2
  <2>9. i # None
    BY <2>6, GraphAssumption DEF TablesInv, NamesInv, EntitiesInv, Bounded
  <2>10. Resolved(oldb.graph, first) = i
    BY <2>6, <2>7, <2>8, <2>9 DEF Keeps
  <2>11. SameAs(oldb.graph, e.name, e.aliases) = i
    BY <2>5, <2>9, <2>10, SameAsIs
  <2>12. newb.ids = Joined(Single(e.name, i), oldb.ids)
    BY <2>3, <2>9, <2>11 DEF AddEntity
  <2>13. newa.ids = newb.ids
    BY <2>3, <2>6, <2>12
  <2>. QED
    BY <2>2, <2>4, <2>13
<1>. HIDE DEF S
<1>6. 0..Len(es) \subseteq S
  BY <1>1, <1>4, <1>5, StepsTo
<1>. QED
  BY <1>6 DEF S, a, b

-----------------------------------------------------------------------------
(* Facts *)

Writers == {"human", "session", "document"}

\* insert_fact_in: the row that is new, and the rows that hold beside it.
IsWritten(g, h, src, dst, f, by) ==
  \E new \in h.edges :
    /\ new.src = src /\ new.dst = dst /\ new.rel = f.rel /\ new.fact = f.fact
    /\ new.by = by /\ new.invalid = None
    /\ \A e : e \in Current(h) <=>
         e = new \/ (e \in Current(g) /\ ~(e.src = src /\ e.dst = dst /\ e.rel = f.rel))

\* A row stays in the table and keeps the end it was given.
StaysIn(e, h) ==
  \E o \in h.edges :
    /\ o.id = e.id /\ o.rel = e.rel /\ o.fact = e.fact /\ o.valid = e.valid
    /\ e.invalid # None => o.invalid = e.invalid

KeepsHistory(g, h) == \A e \in g.edges : StaysIn(e, h)

LEMMA HistoryIsTransitive ==
  ASSUME NEW g, NEW h, NEW k, KeepsHistory(g, h), KeepsHistory(h, k)
  PROVE  KeepsHistory(g, k)
BY DEF KeepsHistory, StaysIn

LEMMA WithFactIs ==
  ASSUME NEW g, TablesInv(g), NEW src \in DOMAIN g.entity, NEW dst \in DOMAIN g.entity,
         NEW f, f.rel \in Relations, f.fact \in Facts, NEW at \in Instants, NEW by \in Writers,
         NEW h, h = WithFact(g, src, dst, f, at, by)
  PROVE  /\ TablesInv(h)
         /\ h.entity = g.entity /\ h.alias = g.alias /\ h.pending = g.pending
         /\ IsWritten(g, h, src, dst, f, by) /\ KeepsHistory(g, h)
<1>. DEFINE used == {e.id : e \in g.edges}
            new == [id |-> NewId(used), src |-> src, dst |-> dst, rel |-> f.rel,
                    fact |-> f.fact, valid |-> at, invalid |-> None, by |-> by]
            hit(e) == e.src = src /\ e.dst = dst /\ e.rel = f.rel /\ e.invalid = None
            end(e) == IF hit(e) THEN [e EXCEPT !.invalid = at] ELSE e
<1>1. h = [entity |-> g.entity, alias |-> g.alias, pending |-> g.pending,
           edges |-> Closed(g.edges, src, dst, f.rel, at) \cup {new}]
  BY DEF WithFact, TablesInv, NamesInv, EntitiesInv
<1>2. /\ h.entity = g.entity /\ h.alias = g.alias /\ h.pending = g.pending
      /\ h = [entity |-> h.entity, alias |-> h.alias, pending |-> h.pending, edges |-> h.edges]
      /\ h.edges = {end(e) : e \in g.edges} \cup {new}
  BY <1>1 DEF Closed
<1>3. g.edges \subseteq EdgeRows /\ Bounded(used) /\ \A e \in g.edges : e.id \in used
  BY DEF TablesInv, EdgesInv
<1>4. NewId(used) \in Nat \ {0} /\ NewId(used) \notin used /\ Bounded(used \cup {NewId(used)})
  BY <1>3, NewIdIs
<1>5. None \notin Nat /\ at # None /\ at \in Nat
  BY GraphAssumption DEF Instants
<1>6. src \in Nat /\ dst \in Nat
  BY DEF TablesInv, NamesInv, EntitiesInv, Bounded
<1>7. /\ new \in EdgeRows /\ new.id = NewId(used) /\ new.invalid = None
      /\ new.src = src /\ new.dst = dst /\ new.rel = f.rel /\ new.fact = f.fact /\ new.by = by
  BY <1>4, <1>6 DEF EdgeRows, Writers
<1>8. ASSUME NEW e \in g.edges
      PROVE  /\ end(e) \in EdgeRows /\ end(e).id = e.id
             /\ end(e).src = e.src /\ end(e).dst = e.dst /\ end(e).rel = e.rel
             /\ end(e).fact = e.fact /\ end(e).valid = e.valid
             /\ hit(e) => end(e).invalid # None /\ e.invalid = None
             /\ ~hit(e) => end(e) = e
  BY <1>3, <1>5 DEF EdgeRows
<1>. HIDE DEF new, end
<1>9. EntitiesInv(h) /\ AliasesInv(h) /\ PairsInv(h)
  BY <1>2 DEF TablesInv, NamesInv, EntitiesInv, AliasesInv, PairsInv
<1>10. EdgesInv(h)
  <2>1. h.edges \subseteq EdgeRows
    BY <1>2, <1>7, <1>8
  <2>2. {e.id : e \in h.edges} = used \cup {NewId(used)}
    <3>1. \A e \in h.edges : e.id \in used \cup {NewId(used)}
      BY <1>2, <1>3, <1>7, <1>8
    <3>2. \A e \in g.edges : end(e) \in h.edges /\ end(e).id = e.id
      BY <1>2, <1>8
    <3>3. new \in h.edges /\ new.id = NewId(used)
      BY <1>2, <1>7
    <3>4. ASSUME NEW n \in used PROVE n \in {e.id : e \in h.edges}
      BY <3>2
    <3>. QED
      BY <3>1, <3>3, <3>4
  <2>3. \A e \in h.edges : {e.src, e.dst} \subseteq DOMAIN h.entity
    BY <1>2, <1>7, <1>8 DEF TablesInv, EdgesInv
  <2>4. ASSUME NEW a \in h.edges, NEW b \in h.edges, a.id = b.id PROVE a = b
    <3>. \A c \in g.edges : end(c).id # NewId(used)
      BY <1>3, <1>4, <1>8
    <3>1. CASE a = new \/ b = new
      <4>1. a.id = NewId(used) /\ b.id = NewId(used)
        BY <3>1, <2>4, <1>7
      <4>. QED
        BY <4>1, <1>2
    <3>2. CASE a # new /\ b # new
      <4>1. PICK c \in g.edges, d \in g.edges : a = end(c) /\ b = end(d)
        BY <3>2, <1>2
      <4>2. c.id = d.id
        BY <4>1, <2>4, <1>8
      <4>. QED
        BY <4>1, <4>2 DEF TablesInv, EdgesInv
    <3>. QED
      BY <3>1, <3>2
  <2>. QED
    BY <2>1, <2>2, <2>3, <2>4, <1>4 DEF EdgesInv
<1>11. \A e : e \in Current(h) <=>
         e = new \/ (e \in Current(g) /\ ~(e.src = src /\ e.dst = dst /\ e.rel = f.rel))
  <2>1. ASSUME NEW e \in Current(h), e # new
        PROVE  e \in Current(g) /\ ~(e.src = src /\ e.dst = dst /\ e.rel = f.rel)
    <3>1. PICK c \in g.edges : e = end(c)
      BY <2>1, <1>2 DEF Current
    <3>2. e.invalid = None
      BY DEF Current
    <3>3. ~hit(c) /\ e = c
      BY <3>1, <3>2, <1>8
    <3>. QED
      BY <3>2, <3>3 DEF Current
  <2>2. ASSUME NEW e \in Current(g), ~(e.src = src /\ e.dst = dst /\ e.rel = f.rel)
        PROVE  e \in Current(h)
    <3>1. e \in g.edges /\ e.invalid = None
      BY DEF Current
    <3>2. end(e) = e
      BY <2>2, <3>1, <1>8
    <3>. QED
      BY <3>1, <3>2, <1>2 DEF Current
  <2>3. new \in Current(h)
    BY <1>2, <1>7 DEF Current
  <2>. QED
    BY <2>1, <2>2, <2>3
<1>12. new \in h.edges
  BY <1>2
<1>13. KeepsHistory(g, h)
  <2>. SUFFICES ASSUME NEW e \in g.edges PROVE StaysIn(e, h)
    BY DEF KeepsHistory
  <2>1. end(e) \in h.edges
    BY <1>2
  <2>2. e.invalid # None => end(e).invalid = e.invalid
    BY <1>8
  <2>. QED
    BY <1>8, <2>1, <2>2 DEF StaysIn
<1>. QED
  BY <1>2, <1>7, <1>9, <1>10, <1>11, <1>12, <1>13 DEF TablesInv, NamesInv, IsWritten

\* A fact that was just written is stated.
LEMMA WrittenIsStated ==
  ASSUME NEW g, TablesInv(g), NEW src \in DOMAIN g.entity, NEW dst \in DOMAIN g.entity,
         NEW f, f.rel \in Relations, f.fact \in Facts, FamilyOf[f.rel] # None,
         NEW at \in Instants, NEW by \in Writers,
         NEW h, h = WithFact(g, src, dst, f, at, by)
  PROVE  IsStated(h, src, dst, f)
<1>1. TablesInv(h) /\ IsWritten(g, h, src, dst, f, by)
  BY WithFactIs
<1>2. PICK new \in h.edges :
        /\ new.src = src /\ new.dst = dst /\ new.rel = f.rel /\ new.fact = f.fact
        /\ \A e : e \in Current(h) <=>
             e = new \/ (e \in Current(g) /\ ~(e.src = src /\ e.dst = dst /\ e.rel = f.rel))
  BY <1>1 DEF IsWritten
<1>3. {e \in Current(h) : e.src = src /\ e.dst = dst /\ e.rel = f.rel} = {new}
  BY <1>2
<1>4. new.id \in Nat
  BY <1>1 DEF TablesInv, EdgesInv, EdgeRows
<1>5. FirstNamed(h, src, dst, f.rel) = {new}
  BY <1>3, <1>4 DEF FirstNamed
<1>. QED
  BY <1>2, <1>5 DEF IsStated

\* What is stated stays so when another claim of the same extraction is written.
LEMMA StatedStays ==
  ASSUME NEW g, TablesInv(g), NEW i \in DOMAIN g.entity, NEW j \in DOMAIN g.entity,
         NEW c, c.rel \in Relations, FamilyOf[c.rel] # None, IsStated(g, i, j, c),
         NEW src \in DOMAIN g.entity, NEW dst \in DOMAIN g.entity,
         NEW f, f.rel \in Relations, f.fact \in Facts,
         f.rel = c.rel => f.fact = c.fact,
         NEW at \in Instants, NEW by \in Writers,
         NEW h, h = WithFact(g, src, dst, f, at, by)
  PROVE  IsStated(h, i, j, c)
<1>0. TablesInv(h) /\ IsWritten(g, h, src, dst, f, by)
  BY WithFactIs
<1>1. PICK new \in h.edges :
        /\ new.src = src /\ new.dst = dst /\ new.rel = f.rel /\ new.fact = f.fact
        /\ new.by = by /\ new.invalid = None
        /\ \A e : e \in Current(h) <=>
             e = new \/ (e \in Current(g) /\ ~(e.src = src /\ e.dst = dst /\ e.rel = f.rel))
  BY <1>0 DEF IsWritten
<1>. DEFINE G(a, b, r) == {e \in Current(g) : e.src = a /\ e.dst = b /\ e.rel = r}
            H(a, b, r) == {e \in Current(h) : e.src = a /\ e.dst = b /\ e.rel = r}
            F(found) == {e \in found : \A o \in found : e.id <= o.id}
<1>2. \A a, b, r : ~(a = src /\ b = dst /\ r = f.rel) => H(a, b, r) = G(a, b, r)
  BY <1>1
<1>3. \A a, b, r : FirstNamed(g, a, b, r) = F(IF G(a, b, r) # {} THEN G(a, b, r) ELSE G(b, a, r))
  BY DEF FirstNamed
<1>4. \A a, b, r : FirstNamed(h, a, b, r) = F(IF H(a, b, r) # {} THEN H(a, b, r) ELSE H(b, a, r))
  BY DEF FirstNamed
<1>5. H(src, dst, f.rel) = {new} /\ new.id \in Nat
  <2>1. H(src, dst, f.rel) = {new}
    BY <1>1
  <2>. QED
    BY <2>1, <1>0 DEF TablesInv, EdgesInv, EdgeRows
<1>6. F({new}) = {new}
  BY <1>5
<1>. HIDE DEF G, H, F
<1>7. CASE c.rel = f.rel /\ {i, j} = {src, dst}
  <2>1. f.fact = c.fact
    BY <1>7
  <2>2. CASE i = src /\ j = dst
    <3>1. FirstNamed(h, i, j, c.rel) = {new}
      BY <2>2, <1>4, <1>5, <1>6, <1>7
    <3>. QED
      BY <3>1, <2>1, <1>1 DEF IsStated
  <2>3. CASE i = dst /\ j = src /\ src # dst
    <3>1. CASE G(i, j, c.rel) # {}
      <4>1. H(i, j, c.rel) = G(i, j, c.rel)
        BY <2>3, <1>2
      <4>2. FirstNamed(h, i, j, c.rel) = FirstNamed(g, i, j, c.rel)
        BY <3>1, <4>1, <1>3, <1>4
      <4>3. FirstNamed(g, i, j, c.rel) # {}
        <5>1. G(i, j, c.rel) \subseteq g.edges
          BY DEF G, Current
        <5>2. g.edges \subseteq EdgeRows
          BY DEF TablesInv, EdgesInv
        <5>3. {e.id : e \in G(i, j, c.rel)} \in SUBSET Nat /\ {e.id : e \in G(i, j, c.rel)} # {}
          BY <5>1, <5>2, <3>1 DEF EdgeRows
        <5>4. PICK m \in {e.id : e \in G(i, j, c.rel)} :
                \A n \in {e.id : e \in G(i, j, c.rel)} : m <= n
          BY <5>3, Smallest
        <5>. QED
          BY <5>4, <3>1, <1>3 DEF F
      <4>. QED
        BY <4>2, <4>3 DEF IsStated
    <3>2. CASE G(i, j, c.rel) = {}
      <4>1. H(i, j, c.rel) = {} /\ H(j, i, c.rel) = {new}
        BY <2>3, <3>2, <1>2, <1>5, <1>7
      <4>2. FirstNamed(h, i, j, c.rel) = {new}
        BY <4>1, <1>4, <1>6
      <4>. QED
        BY <4>2, <2>1, <1>1 DEF IsStated
    <3>. QED
      BY <3>1, <3>2
  <2>. QED
    BY <2>2, <2>3, <1>7
<1>8. CASE ~(c.rel = f.rel /\ {i, j} = {src, dst})
  <2>1. H(i, j, c.rel) = G(i, j, c.rel) /\ H(j, i, c.rel) = G(j, i, c.rel)
    BY <1>2, <1>8
  <2>2. FirstNamed(h, i, j, c.rel) = FirstNamed(g, i, j, c.rel)
    BY <2>1, <1>3, <1>4
  <2>3. CASE FirstNamed(g, i, j, c.rel) # {}
    BY <2>2, <2>3 DEF IsStated
  <2>4. CASE FirstNamed(g, i, j, c.rel) = {}
    <3>1. PICK e \in Current(g) : {e.src, e.dst} = {i, j} /\ FamilyOf[e.rel] = FamilyOf[c.rel]
      BY <2>4 DEF IsStated
    <3>2. \E o \in Current(h) : {o.src, o.dst} = {i, j} /\ FamilyOf[o.rel] = FamilyOf[c.rel]
      BY <3>1, <1>1
    <3>. QED
      BY <2>2, <2>4, <3>2 DEF IsStated
  <2>. QED
    BY <2>3, <2>4
<1>. QED
  BY <1>7, <1>8

-----------------------------------------------------------------------------
(* The facts of an extraction *)

Claims == [src : Names, dst : Names, rel : Relations, fact : Facts]

\* What the names were found to be: each of them an entity of the graph.
AreIds(g, ids) == \A n \in DOMAIN ids : ids[n] \in DOMAIN g.entity

\* The facts changed no name, and what holds was there or is one of them.
FactsDone(g, h, facts, by) ==
  /\ TablesInv(h) /\ h.entity = g.entity /\ h.alias = g.alias /\ KeepsHistory(g, h)
  /\ \A e \in Current(h) :
       e \in Current(g) \/ (e.by = by /\ \E i \in DOMAIN facts : e.fact = facts[i].fact)

\* The fact is stated already, or refused, or has an end that is not among the
\* names, or is written.
LEMMA AddClaimIs ==
  ASSUME NEW g, TablesInv(g), NEW ids, AreIds(g, ids), NEW f \in Claims,
         NEW at \in Instants, NEW by \in Writers,
         NEW h, h = AddClaim(g, ids, f, at, by)
  PROVE  \/ h = g
         \/ /\ {f.src, f.dst} \subseteq DOMAIN ids
            /\ ids[f.src] \in DOMAIN g.entity /\ ids[f.dst] \in DOMAIN g.entity
            /\ h = WithFact(g, ids[f.src], ids[f.dst], f, at, by)
BY DEF AddClaim, Upserted, AreIds

LEMMA AfterFactsInv ==
  ASSUME NEW g, TablesInv(g), NEW ids, AreIds(g, ids), NEW facts \in Seq(Claims),
         NEW at \in Instants, NEW by \in Writers
  PROVE  \A k \in 0..Len(facts) : FactsDone(g, AfterFacts(g, ids, facts, at, by)[k], facts, by)
<1>. DEFINE h == AfterFacts(g, ids, facts, at, by)
            S == {k \in 0..Len(facts) : FactsDone(g, h[k], facts, by)}
<1>1. /\ Len(facts) \in Nat /\ h[0] = g
      /\ \A k \in 1..Len(facts) : h[k] = AddClaim(h[k - 1], ids, facts[k], at, by)
  BY AfterFactsIs
<1>. HIDE DEF h
<1>2. 0 \in S
  BY <1>1 DEF FactsDone, KeepsHistory, StaysIn
<1>3. ASSUME NEW k \in 1..Len(facts), k - 1 \in S PROVE k \in S
  <2>1. PICK f \in Claims : f = facts[k]
    BY <1>1, MemberOf
  <2>2. PICK old, new : old = h[k - 1] /\ new = h[k]
    OBVIOUS
  <2>3. new = AddClaim(old, ids, f, at, by)
    BY <1>1, <2>1, <2>2
  <2>4. FactsDone(g, old, facts, by)
    BY <1>3, <2>2
  <2>5. TablesInv(old) /\ AreIds(old, ids)
    BY <2>4 DEF FactsDone, AreIds
  <2>6. CASE new = old
    <3>1. k \in 0..Len(facts)
      BY <1>1
    <3>. QED
      BY <2>2, <2>4, <2>6, <3>1
  <2>7. CASE new # old
    <3>1. PICK src \in DOMAIN old.entity, dst \in DOMAIN old.entity :
            new = WithFact(old, src, dst, f, at, by)
      BY <2>3, <2>5, <2>7, AddClaimIs
    <3>2. f.rel \in Relations /\ f.fact \in Facts /\ k \in DOMAIN facts
      BY <2>1 DEF Claims
    <3>3. /\ TablesInv(new) /\ new.entity = old.entity /\ new.alias = old.alias
          /\ IsWritten(old, new, src, dst, f, by) /\ KeepsHistory(old, new)
      BY <2>5, <3>1, <3>2, WithFactIs
    <3>4. \A e \in Current(new) : e \in Current(old) \/ (e.by = by /\ e.fact = f.fact)
      BY <3>3 DEF IsWritten
    <3>5. KeepsHistory(g, new)
      BY <2>4, <3>3, HistoryIsTransitive DEF FactsDone
    <3>6. FactsDone(g, new, facts, by)
      BY <2>1, <2>4, <3>2, <3>3, <3>4, <3>5 DEF FactsDone
    <3>. QED
      BY <2>2, <3>6
  <2>. QED
    BY <2>6, <2>7
<1>. HIDE DEF S
<1>4. 0..Len(facts) \subseteq S
  BY <1>1, <1>2, <1>3, StepsTo
<1>. QED
  BY <1>4 DEF S, h

\* No claim contradicts another by its wording.
Coherent(facts) ==
  \A i, j \in DOMAIN facts :
    facts[i].fact = facts[j].fact \/ facts[i].rel # facts[j].rel

\* The graph says it between these two, and nothing else by that relation.
IsSaid(g, i, j, f) ==
  /\ <<i, j, f.rel, f.fact>> \in Statements(g)
  /\ \A e \in Current(g) :
       e.src = i /\ e.dst = j /\ e.rel = f.rel => e.fact = f.fact

\* Found, if its relation has a family; otherwise nothing else would be said.
IsKnown(g, i, j, f) ==
  IF FamilyOf[f.rel] # None THEN IsStated(g, i, j, f) ELSE IsSaid(g, i, j, f)

\* There is nothing new in a claim.
IsDone(g, ids, f) ==
  {f.src, f.dst} \subseteq DOMAIN ids =>
    f.rel \in NotRelations \/ IsKnown(g, ids[f.src], ids[f.dst], f)

LEMMA WrittenIsKnown ==
  ASSUME NEW g, TablesInv(g), NEW src \in DOMAIN g.entity, NEW dst \in DOMAIN g.entity,
         NEW f, f.rel \in Relations, f.fact \in Facts,
         NEW at \in Instants, NEW by \in Writers,
         NEW h, h = WithFact(g, src, dst, f, at, by)
  PROVE  IsKnown(h, src, dst, f)
<1>1. CASE FamilyOf[f.rel] # None
  BY <1>1, WrittenIsStated DEF IsKnown
<1>2. CASE FamilyOf[f.rel] = None
  <2>1. PICK new \in h.edges :
          /\ new.src = src /\ new.dst = dst /\ new.rel = f.rel /\ new.fact = f.fact
          /\ \A e : e \in Current(h) <=>
               e = new \/ (e \in Current(g) /\ ~(e.src = src /\ e.dst = dst /\ e.rel = f.rel))
    BY WithFactIs DEF IsWritten
  <2>2. new \in Current(h)
    BY <2>1
  <2>3. <<src, dst, f.rel, f.fact>> \in Statements(h)
    BY <2>1, <2>2 DEF Statements
  <2>. QED
    BY <1>2, <2>1, <2>3 DEF IsKnown, IsSaid
<1>. QED
  BY <1>1, <1>2

\* What is known stays so when another claim of the same extraction is written.
LEMMA KnownStays ==
  ASSUME NEW g, TablesInv(g), NEW i \in DOMAIN g.entity, NEW j \in DOMAIN g.entity,
         NEW c, c.rel \in Relations, IsKnown(g, i, j, c),
         NEW src \in DOMAIN g.entity, NEW dst \in DOMAIN g.entity,
         NEW f, f.rel \in Relations, f.fact \in Facts,
         f.rel = c.rel => f.fact = c.fact,
         NEW at \in Instants, NEW by \in Writers,
         NEW h, h = WithFact(g, src, dst, f, at, by)
  PROVE  IsKnown(h, i, j, c)
<1>1. CASE FamilyOf[c.rel] # None
  <2>1. IsStated(g, i, j, c)
    BY <1>1 DEF IsKnown
  <2>2. IsStated(h, i, j, c)
    BY <1>1, <2>1, StatedStays
  <2>. QED
    BY <1>1, <2>2 DEF IsKnown
<1>2. CASE FamilyOf[c.rel] = None
  <2>1. PICK new \in h.edges :
          /\ new.src = src /\ new.dst = dst /\ new.rel = f.rel /\ new.fact = f.fact
          /\ \A e : e \in Current(h) <=>
               e = new \/ (e \in Current(g) /\ ~(e.src = src /\ e.dst = dst /\ e.rel = f.rel))
    <3>1. IsWritten(g, h, src, dst, f, by)
      BY WithFactIs
    <3>. QED
      BY <3>1 DEF IsWritten
  <2>2. IsSaid(g, i, j, c)
    BY <1>2 DEF IsKnown
  <2>3. PICK o \in Current(g) : <<i, j, c.rel, c.fact>> = <<o.src, o.dst, o.rel, o.fact>>
    BY <2>2 DEF IsSaid, Statements
  <2>4. \E e \in Current(h) : e.src = i /\ e.dst = j /\ e.rel = c.rel /\ e.fact = c.fact
    <3>1. o.src = i /\ o.dst = j /\ o.rel = c.rel /\ o.fact = c.fact
      BY <2>3
    <3>2. new \in Current(h)
      BY <2>1
    <3>3. CASE i = src /\ j = dst /\ c.rel = f.rel
      BY <2>1, <3>2, <3>3
    <3>4. CASE ~(i = src /\ j = dst /\ c.rel = f.rel)
      BY <2>1, <3>1, <3>4
    <3>. QED
      BY <3>3, <3>4
  <2>5. <<i, j, c.rel, c.fact>> \in Statements(h)
    BY <2>4 DEF Statements
  <2>6. \A e \in Current(h) : e.src = i /\ e.dst = j /\ e.rel = c.rel => e.fact = c.fact
    BY <2>1, <2>2 DEF IsSaid
  <2>. QED
    BY <1>2, <2>5, <2>6 DEF IsKnown, IsSaid
<1>. QED
  BY <1>1, <1>2

\* A claim that is written leaves what others of the extraction have done.
LEMMA DoneStays ==
  ASSUME NEW g, TablesInv(g), NEW ids, AreIds(g, ids),
         NEW c \in Claims, IsDone(g, ids, c),
         NEW src \in DOMAIN g.entity, NEW dst \in DOMAIN g.entity,
         NEW f \in Claims, f.rel = c.rel => f.fact = c.fact,
         NEW at \in Instants, NEW by \in Writers,
         NEW h, h = WithFact(g, src, dst, f, at, by)
  PROVE  IsDone(h, ids, c)
<1>. SUFFICES ASSUME {c.src, c.dst} \subseteq DOMAIN ids, c.rel \notin NotRelations
              PROVE  IsKnown(h, ids[c.src], ids[c.dst], c)
  BY DEF IsDone
<1>1. PICK a \in DOMAIN g.entity, b \in DOMAIN g.entity : a = ids[c.src] /\ b = ids[c.dst]
  BY DEF AreIds
<1>2. IsKnown(g, a, b, c)
  BY <1>1 DEF IsDone
<1>3. f.rel \in Relations /\ f.fact \in Facts /\ c.rel \in Relations
  BY DEF Claims
<1>4. IsKnown(h, a, b, c)
  BY <1>2, <1>3, KnownStays
<1>. QED
  BY <1>1, <1>4

LEMMA AllAreKnown ==
  ASSUME NEW g, TablesInv(g), NEW ids, AreIds(g, ids), NEW facts \in Seq(Claims),
         Coherent(facts), NEW at \in Instants, NEW by \in Writers
  PROVE  \A j \in 1..Len(facts) :
           IsDone(AfterFacts(g, ids, facts, at, by)[Len(facts)], ids, facts[j])
<1>. DEFINE h == AfterFacts(g, ids, facts, at, by)
            S == {k \in 0..Len(facts) : \A j \in 1..k : IsDone(h[k], ids, facts[j])}
<1>1. /\ Len(facts) \in Nat
      /\ \A k \in 1..Len(facts) : h[k] = AddClaim(h[k - 1], ids, facts[k], at, by)
  BY AfterFactsIs
<1>2. \A k \in 0..Len(facts) : FactsDone(g, h[k], facts, by)
  BY AfterFactsInv
<1>. HIDE DEF h
<1>3. 0 \in S
  BY <1>1
<1>4. ASSUME NEW k \in 1..Len(facts), k - 1 \in S PROVE k \in S
  <2>1. PICK f \in Claims : f = facts[k]
    BY <1>1, MemberOf
  <2>2. PICK old, new : old = h[k - 1] /\ new = h[k]
    OBVIOUS
  <2>3. new = AddClaim(old, ids, f, at, by)
    BY <1>1, <2>1, <2>2
  <2>4. TablesInv(old) /\ AreIds(old, ids)
    <3>1. k - 1 \in 0..Len(facts)
      BY <1>1
    <3>2. FactsDone(g, old, facts, by)
      BY <3>1, <1>2, <2>2
    <3>. QED
      BY <3>2 DEF FactsDone, AreIds
  <2>5. \A j \in 1..(k - 1) : IsDone(old, ids, facts[j])
    BY <1>4, <2>2
  <2>6. f.rel \in Relations /\ f.fact \in Facts /\ k \in DOMAIN facts
    BY <2>1 DEF Claims
  <2>7. IsDone(new, ids, f)
    <3>. SUFFICES ASSUME {f.src, f.dst} \subseteq DOMAIN ids, f.rel \notin NotRelations
                  PROVE  IsKnown(new, ids[f.src], ids[f.dst], f)
      BY DEF IsDone
    <3>1. PICK a \in DOMAIN old.entity, b \in DOMAIN old.entity :
            a = ids[f.src] /\ b = ids[f.dst]
      BY <2>4 DEF AreIds
    <3>2. CASE IsStated(old, a, b, f)
      <4>1. new = old /\ FamilyOf[f.rel] # None
        BY <2>3, <3>1, <3>2 DEF AddClaim, Upserted, IsStated
      <4>. QED
        BY <3>1, <3>2, <4>1 DEF IsKnown
    <3>3. CASE ~IsStated(old, a, b, f)
      <4>1. new = WithFact(old, a, b, f, at, by)
        BY <2>3, <3>1, <3>3 DEF AddClaim, Upserted
      <4>2. IsKnown(new, a, b, f)
        BY <2>4, <2>6, <4>1, WrittenIsKnown
      <4>. QED
        BY <3>1, <4>2
    <3>. QED
      BY <3>2, <3>3
  <2>8. ASSUME NEW j \in 1..(k - 1) PROVE IsDone(new, ids, facts[j])
    <3>1. PICK c \in Claims : c = facts[j]
      BY <1>1, MemberOf
    <3>2. IsDone(old, ids, c)
      BY <2>5, <3>1
    <3>3. f.rel = c.rel => f.fact = c.fact
      <4>1. j \in DOMAIN facts
        BY <1>1
      <4>. QED
        BY <2>1, <2>6, <3>1, <4>1 DEF Coherent
    <3>4. CASE new = old
      BY <3>1, <3>2, <3>4
    <3>5. CASE new # old
      <4>1. PICK src \in DOMAIN old.entity, dst \in DOMAIN old.entity :
              new = WithFact(old, src, dst, f, at, by)
        BY <2>3, <2>4, <3>5, AddClaimIs
      <4>2. IsDone(new, ids, c)
        BY <2>4, <3>2, <3>3, <4>1, DoneStays
      <4>. QED
        BY <3>1, <4>2
    <3>. QED
      BY <3>4, <3>5
  <2>9. \A j \in 1..k : j = k \/ j \in 1..(k - 1)
    OBVIOUS
  <2>. QED
    BY <2>1, <2>2, <2>7, <2>8, <2>9
<1>. HIDE DEF S
<1>5. 0..Len(facts) \subseteq S
  BY <1>1, <1>3, <1>4, StepsTo
<1>. QED
  BY <1>1, <1>5 DEF S, h

\* Two graphs that say the same, with the same rows of relations of families.
SayTheSame(g, h) == Statements(h) = Statements(g) /\ FamilyRows(h) = FamilyRows(g)

\* A claim of a relation without a family is written over the row that says it.
LEMMA SaidAgain ==
  ASSUME NEW g, TablesInv(g), NEW src \in DOMAIN g.entity, NEW dst \in DOMAIN g.entity,
         NEW f, f.rel \in Relations, f.fact \in Facts, FamilyOf[f.rel] = None,
         IsSaid(g, src, dst, f), NEW at \in Instants, NEW by \in Writers,
         NEW h, h = WithFact(g, src, dst, f, at, by)
  PROVE  SayTheSame(g, h)
<1>1. PICK new \in h.edges :
        /\ new.src = src /\ new.dst = dst /\ new.rel = f.rel /\ new.fact = f.fact
        /\ \A e : e \in Current(h) <=>
             e = new \/ (e \in Current(g) /\ ~(e.src = src /\ e.dst = dst /\ e.rel = f.rel))
  BY WithFactIs DEF IsWritten
<1>2. PICK o \in Current(g) : <<src, dst, f.rel, f.fact>> = <<o.src, o.dst, o.rel, o.fact>>
  BY DEF IsSaid, Statements
<1>3. o.src = src /\ o.dst = dst /\ o.rel = f.rel /\ o.fact = f.fact
  BY <1>2
<1>4. ASSUME NEW e \in Current(h)
      PROVE  \E c \in Current(g) : /\ c.src = e.src /\ c.dst = e.dst
                                   /\ c.rel = e.rel /\ c.fact = e.fact
  BY <1>1, <1>3
<1>5. ASSUME NEW e \in Current(g)
      PROVE  \E c \in Current(h) : /\ c.src = e.src /\ c.dst = e.dst
                                   /\ c.rel = e.rel /\ c.fact = e.fact
  <2>1. CASE e.src = src /\ e.dst = dst /\ e.rel = f.rel
    <3>1. e.fact = f.fact
      BY <2>1 DEF IsSaid
    <3>2. new \in Current(h)
      BY <1>1
    <3>. QED
      BY <1>1, <2>1, <3>1, <3>2
  <2>2. CASE ~(e.src = src /\ e.dst = dst /\ e.rel = f.rel)
    BY <1>1, <2>2
  <2>. QED
    BY <2>1, <2>2
<1>6. Statements(h) = Statements(g)
  <2>1. ASSUME NEW x \in Statements(h) PROVE x \in Statements(g)
    <3>1. PICK e \in Current(h) : x = <<e.src, e.dst, e.rel, e.fact>>
      BY DEF Statements
    <3>2. PICK c \in Current(g) : /\ c.src = e.src /\ c.dst = e.dst
                                 /\ c.rel = e.rel /\ c.fact = e.fact
      BY <1>4
    <3>3. x = <<c.src, c.dst, c.rel, c.fact>>
      BY <3>1, <3>2
    <3>. QED
      BY <3>3 DEF Statements
  <2>2. ASSUME NEW x \in Statements(g) PROVE x \in Statements(h)
    <3>1. PICK e \in Current(g) : x = <<e.src, e.dst, e.rel, e.fact>>
      BY DEF Statements
    <3>2. PICK c \in Current(h) : /\ c.src = e.src /\ c.dst = e.dst
                                 /\ c.rel = e.rel /\ c.fact = e.fact
      BY <1>5
    <3>3. x = <<c.src, c.dst, c.rel, c.fact>>
      BY <3>1, <3>2
    <3>. QED
      BY <3>3 DEF Statements
  <2>. QED
    BY <2>1, <2>2
<1>7. FamilyRows(h) = FamilyRows(g)
  <2>. DEFINE row == [id |-> NewId({e.id : e \in g.edges}), src |-> src, dst |-> dst,
                      rel |-> f.rel, fact |-> f.fact, valid |-> at, invalid |-> None, by |-> by]
              end(e) == IF e.src = src /\ e.dst = dst /\ e.rel = f.rel /\ e.invalid = None
                        THEN [e EXCEPT !.invalid = at] ELSE e
  <2>1. h.edges = {end(e) : e \in g.edges} \cup {row}
    BY DEF WithFact, Closed, TablesInv, NamesInv, EntitiesInv
  <2>2. row.rel = f.rel
    OBVIOUS
  <2>3. ASSUME NEW e \in g.edges
        PROVE  /\ end(e).rel = e.rel
               /\ FamilyOf[e.rel] # None => end(e) = e
    <3>1. e \in EdgeRows
      BY DEF TablesInv, EdgesInv
    <3>. QED
      BY <3>1 DEF EdgeRows
  <2>. HIDE DEF row, end
  <2>4. \A e \in FamilyRows(h) : e \in FamilyRows(g)
    BY <2>1, <2>2, <2>3 DEF FamilyRows
  <2>5. ASSUME NEW e \in FamilyRows(g) PROVE e \in FamilyRows(h)
    <3>1. e \in g.edges /\ FamilyOf[e.rel] # None
      BY DEF FamilyRows
    <3>2. end(e) = e /\ end(e) \in h.edges
      BY <2>1, <2>3, <3>1
    <3>. QED
      BY <3>1, <3>2 DEF FamilyRows
  <2>. QED
    BY <2>4, <2>5
<1>. QED
  BY <1>6, <1>7 DEF SayTheSame

\* Where every claim is known, the facts say nothing new.
LEMMA NothingIsAdded ==
  ASSUME NEW g, TablesInv(g), NEW ids, AreIds(g, ids), NEW facts \in Seq(Claims),
         Coherent(facts), NEW at \in Instants, NEW by \in Writers,
         \A j \in 1..Len(facts) : IsDone(g, ids, facts[j])
  PROVE  \A k \in 0..Len(facts) : SayTheSame(g, AfterFacts(g, ids, facts, at, by)[k])
<1>. DEFINE h == AfterFacts(g, ids, facts, at, by)
            Same(k) == /\ SayTheSame(g, h[k])
                       /\ \A j \in 1..Len(facts) : IsDone(h[k], ids, facts[j])
            S == {k \in 0..Len(facts) : Same(k)}
<1>1. /\ Len(facts) \in Nat /\ h[0] = g
      /\ \A k \in 1..Len(facts) : h[k] = AddClaim(h[k - 1], ids, facts[k], at, by)
  BY AfterFactsIs
<1>2. \A k \in 0..Len(facts) : FactsDone(g, h[k], facts, by)
  BY AfterFactsInv
<1>. HIDE DEF h
<1>3. 0 \in S
  BY <1>1 DEF SayTheSame
<1>4. ASSUME NEW k \in 1..Len(facts), k - 1 \in S PROVE k \in S
  <2>1. PICK f \in Claims : f = facts[k]
    BY <1>1, MemberOf
  <2>2. PICK old, new : old = h[k - 1] /\ new = h[k]
    OBVIOUS
  <2>3. new = AddClaim(old, ids, f, at, by)
    BY <1>1, <2>1, <2>2
  <2>4. k \in 0..Len(facts) /\ k - 1 \in 0..Len(facts)
    BY <1>1
  <2>5. TablesInv(old) /\ AreIds(old, ids)
    BY <1>2, <2>2, <2>4 DEF FactsDone, AreIds
  <2>6. SayTheSame(g, old) /\ \A j \in 1..Len(facts) : IsDone(old, ids, facts[j])
    BY <1>4, <2>2
  <2>7. CASE new = old
    BY <2>2, <2>4, <2>6, <2>7
  <2>8. CASE new # old
    <3>1. {f.src, f.dst} \subseteq DOMAIN ids /\ f.rel \notin NotRelations
      BY <2>3, <2>8 DEF AddClaim, Upserted
    <3>2. PICK a \in DOMAIN old.entity, b \in DOMAIN old.entity :
            a = ids[f.src] /\ b = ids[f.dst]
      BY <2>5, <3>1 DEF AreIds
    <3>3. new = WithFact(old, a, b, f, at, by) /\ ~IsStated(old, a, b, f)
      BY <2>3, <2>8, <3>2 DEF AddClaim, Upserted
    <3>4. IsKnown(old, a, b, f)
      BY <2>1, <2>6, <3>1, <3>2 DEF IsDone
    <3>5. FamilyOf[f.rel] = None /\ IsSaid(old, a, b, f)
      BY <3>3, <3>4 DEF IsKnown
    <3>6. f.rel \in Relations /\ f.fact \in Facts /\ k \in DOMAIN facts
      BY <2>1 DEF Claims
    <3>7. SayTheSame(old, new)
      BY <2>5, <3>3, <3>5, <3>6, SaidAgain
    <3>8. SayTheSame(g, new)
      BY <2>6, <3>7 DEF SayTheSame
    <3>9. ASSUME NEW j \in 1..Len(facts) PROVE IsDone(new, ids, facts[j])
      <4>1. PICK c \in Claims : c = facts[j]
        BY MemberOf
      <4>2. f.rel = c.rel => f.fact = c.fact
        BY <2>1, <3>6, <4>1 DEF Coherent
      <4>3. IsDone(old, ids, c)
        BY <2>6, <4>1
      <4>4. IsDone(new, ids, c)
        BY <2>5, <3>3, <4>2, <4>3, DoneStays
      <4>. QED
        BY <4>1, <4>4
    <3>. QED
      BY <2>2, <2>4, <3>8, <3>9
  <2>. QED
    BY <2>7, <2>8
<1>. HIDE DEF S
<1>5. 0..Len(facts) \subseteq S
  BY <1>1, <1>3, <1>4, StepsTo
<1>. QED
  BY <1>5 DEF S, h

-----------------------------------------------------------------------------
(* An extraction *)

LEMMA ExtractedIs ==
  ASSUME NEW g, TablesInv(g), NEW x \in ExtractionType,
         NEW at \in Instants, NEW by \in Writers
  PROVE  /\ TablesInv(Extracted(g, x, at, by)) /\ Keeps(g, Extracted(g, x, at, by))
         /\ KeepsHistory(g, Extracted(g, x, at, by))
         /\ \A e \in Current(Extracted(g, x, at, by)) :
              e \in Current(g) \/ (e.by = by /\ e.fact \in {f.fact : f \in ToSet(x.facts)})
<1>1. /\ x.entities \in EntityList /\ x.facts \in Seq(Claims)
      /\ Len(x.entities) \in Nat /\ Len(x.facts) \in Nat
  BY DEF ExtractionType, EntityList, Claims
<1>2. PICK found : found = AfterNames(g, x.entities)[Len(x.entities)]
  OBVIOUS
<1>3. NamesDone(g, found)
  BY <1>1, <1>2, AfterNamesInv
<1>4. TablesInv(found.graph) /\ AreIds(found.graph, found.ids)
  BY <1>3 DEF NamesDone, AreIds
<1>5. PICK h : h = AfterFacts(found.graph, found.ids, x.facts, at, by)[Len(x.facts)]
  OBVIOUS
<1>6. FactsDone(found.graph, h, x.facts, by)
  BY <1>1, <1>4, <1>5, AfterFactsInv
<1>7. Extracted(g, x, at, by) = h
  BY <1>2, <1>5 DEF Extracted
<1>8. Keeps(g, h)
  <2>1. Keeps(found.graph, h)
    BY <1>6 DEF FactsDone, Keeps, Resolved, Named
  <2>. QED
    BY <1>3, <2>1, KeepsIsTransitive DEF NamesDone
<1>9. Current(found.graph) = Current(g)
  BY <1>3 DEF NamesDone, Current
<1>10. ASSUME NEW e \in Current(h), e \notin Current(g)
       PROVE  e.by = by /\ e.fact \in {f.fact : f \in ToSet(x.facts)}
  <2>1. PICK i \in DOMAIN x.facts : e.by = by /\ e.fact = x.facts[i].fact
    BY <1>6, <1>9, <1>10 DEF FactsDone
  <2>. QED
    BY <2>1 DEF ToSet
<1>11. KeepsHistory(g, h)
  BY <1>3, <1>6 DEF FactsDone, NamesDone, KeepsHistory
<1>. QED
  BY <1>6, <1>7, <1>8, <1>10, <1>11 DEF FactsDone

\* The second time the names lead to the same entities and every claim between
\* them is known.
LEMMA ExtractedTwice ==
  ASSUME NEW g, TablesInv(g), NEW x \in ExtractionType, Coherent(x.facts),
         NEW at \in Instants, NEW by \in Writers
  PROVE  LET once == Extracted(g, x, at, by)
         IN  SayTheSame(once, Extracted(once, x, at, by))
<1>. DEFINE n == Len(x.entities)
            m == Len(x.facts)
<1>1. x.entities \in EntityList /\ x.facts \in Seq(Claims) /\ n \in Nat /\ m \in Nat
  BY DEF ExtractionType, EntityList, Claims
<1>2. PICK found : found = AfterNames(g, x.entities)[n]
  OBVIOUS
<1>3. NamesDone(g, found)
  BY <1>1, <1>2, AfterNamesInv
<1>4. TablesInv(found.graph) /\ AreIds(found.graph, found.ids)
  BY <1>3 DEF NamesDone, AreIds
<1>5. PICK once : once = AfterFacts(found.graph, found.ids, x.facts, at, by)[m]
  OBVIOUS
<1>6. Extracted(g, x, at, by) = once
  BY <1>2, <1>5 DEF Extracted
<1>7. FactsDone(found.graph, once, x.facts, by)
  BY <1>1, <1>4, <1>5, AfterFactsInv
<1>8. \A j \in 1..m : IsDone(once, found.ids, x.facts[j])
  BY <1>1, <1>4, <1>5, AllAreKnown
<1>9. TablesInv(once) /\ Keeps(found.graph, once)
  BY <1>7 DEF FactsDone, Keeps, Resolved, Named
<1>10. PICK again : again = AfterNames(once, x.entities)[n]
  OBVIOUS
<1>11. NamesDone(once, again)
  BY <1>1, <1>9, <1>10, AfterNamesInv
<1>12. again.ids = found.ids
  <2>1. Keeps(AfterNames(g, x.entities)[Len(x.entities)].graph, once)
    BY <1>2, <1>9
  <2>2. AfterNames(once, x.entities)[n].ids = AfterNames(g, x.entities)[n].ids
    BY <1>1, <1>9, <2>1, SameNamesSameIds
  <2>. QED
    BY <1>2, <1>10, <2>2
<1>13. \A j \in 1..m : IsDone(again.graph, again.ids, x.facts[j])
  <2>1. again.graph.edges = once.edges
    BY <1>11 DEF NamesDone
  <2>2. Current(again.graph) = Current(once)
    BY <2>1 DEF Current
  <2>3. \A i, j, f : IsStated(again.graph, i, j, f) = IsStated(once, i, j, f)
    BY <2>2 DEF IsStated, FirstNamed
  <2>4. \A i, j, f : IsSaid(again.graph, i, j, f) = IsSaid(once, i, j, f)
    BY <2>2 DEF IsSaid, Statements
  <2>. QED
    BY <1>8, <1>12, <2>3, <2>4 DEF IsDone, IsKnown
<1>14. TablesInv(again.graph) /\ AreIds(again.graph, again.ids)
  BY <1>11 DEF NamesDone, AreIds
<1>15. PICK twice : twice = AfterFacts(again.graph, again.ids, x.facts, at, by)[m]
  OBVIOUS
<1>16. SayTheSame(again.graph, twice)
  <2>1. m \in 0..m
    BY <1>1
  <2>. QED
    BY <1>1, <1>13, <1>14, <1>15, <2>1, NothingIsAdded
<1>17. Extracted(once, x, at, by) = twice
  BY <1>10, <1>15 DEF Extracted
<1>18. SayTheSame(once, again.graph)
  BY <1>11 DEF NamesDone, SayTheSame, Statements, FamilyRows, Current
<1>19. SayTheSame(once, twice)
  BY <1>16, <1>18 DEF SayTheSame
<1>. QED
  BY <1>6, <1>17, <1>19

-----------------------------------------------------------------------------
(* Rows that go *)

LEMMA FewerAreBounded ==
  ASSUME NEW T, Bounded(T), NEW U \in SUBSET T
  PROVE  Bounded(U)
BY DEF Bounded

LEMMA WithoutIs ==
  ASSUME NEW f, NEW S
  PROVE  /\ DOMAIN Without(f, S) = DOMAIN f \ S
         /\ \A x \in DOMAIN f \ S : Without(f, S)[x] = f[x]
BY DEF Without

\* An edge is what it was, or has ended, and has the id it had.
EdgeFrom(edges, e) ==
  \E o \in edges : o.id = e.id /\ o.src = e.src /\ o.dst = e.dst

\* Entities go with the aliases A, the pairs P and the edges that refer to them.
AreGone(g, h, gone, A, P) ==
  /\ h = [entity |-> Without(g.entity, gone), alias |-> Without(g.alias, A),
          pending |-> Without(g.pending, P), edges |-> h.edges]
  /\ \A n \in DOMAIN g.alias \ A : g.alias[n] \notin gone
  /\ \A pair \in DOMAIN g.pending \ P : pair \cap gone = {}
  /\ h.edges \subseteq EdgeRows
  /\ \A e \in h.edges : EdgeFrom(g.edges, e) /\ e.src \notin gone /\ e.dst \notin gone
  /\ \A a, b \in h.edges : a.id = b.id => a = b

LEMMA FewerEntities ==
  ASSUME NEW g, TablesInv(g), NEW h, NEW gone, NEW A, NEW P, AreGone(g, h, gone, A, P)
  PROVE  TablesInv(h) /\ h.entity = Without(g.entity, gone) /\ h.alias = Without(g.alias, A)
<1>1. /\ h.entity = Without(g.entity, gone) /\ h.alias = Without(g.alias, A)
      /\ h.pending = Without(g.pending, P)
      /\ h = [entity |-> h.entity, alias |-> h.alias, pending |-> h.pending, edges |-> h.edges]
  <2>1. PICK a, b, c, d : /\ a = Without(g.entity, gone) /\ b = Without(g.alias, A)
                          /\ c = Without(g.pending, P) /\ d = h.edges
                          /\ h = [entity |-> a, alias |-> b, pending |-> c, edges |-> d]
    BY DEF AreGone
  <2>. QED
    BY <2>1
<1>. USE DEF AreGone
<1>2. /\ DOMAIN h.entity = DOMAIN g.entity \ gone
      /\ \A i \in DOMAIN h.entity : h.entity[i] = g.entity[i]
      /\ DOMAIN h.alias = DOMAIN g.alias \ A
      /\ \A n \in DOMAIN h.alias : h.alias[n] = g.alias[n]
      /\ DOMAIN h.pending = DOMAIN g.pending \ P
      /\ \A pair \in DOMAIN h.pending : h.pending[pair] = g.pending[pair]
  BY <1>1 DEF Without
<1>3. h.entity = [i \in DOMAIN h.entity |-> h.entity[i]]
  BY <1>1 DEF Without
<1>4. EntitiesInv(h)
  <2>1. Bounded(DOMAIN h.entity) /\ 0 \notin DOMAIN h.entity
    BY <1>2, FewerAreBounded DEF TablesInv, NamesInv, EntitiesInv
  <2>. QED
    BY <1>1, <1>2, <1>3, <2>1 DEF TablesInv, NamesInv, EntitiesInv
<1>5. AliasesInv(h)
  BY <1>2 DEF TablesInv, NamesInv, AliasesInv
<1>6. PairsInv(h)
  <2>. SUFFICES ASSUME NEW pair \in DOMAIN h.pending
                PROVE  /\ \E a, b \in DOMAIN h.entity : a # b /\ pair = {a, b}
                       /\ h.pending[pair] \in {"open", "dismissed"}
    BY DEF PairsInv
  <2>1. /\ \E a, b \in DOMAIN g.entity : a # b /\ pair = {a, b}
        /\ g.pending[pair] \in {"open", "dismissed"}
    BY <1>2 DEF TablesInv, NamesInv, PairsInv
  <2>2. PICK a \in DOMAIN g.entity, b \in DOMAIN g.entity : a # b /\ pair = {a, b}
    BY <2>1
  <2>3. pair \cap gone = {}
    BY <1>2
  <2>4. a \in DOMAIN h.entity /\ b \in DOMAIN h.entity
    BY <1>2, <2>2, <2>3
  <2>. QED
    BY <1>2, <2>1, <2>2, <2>4
<1>7. EdgesInv(h)
  <2>1. {e.id : e \in h.edges} \subseteq {e.id : e \in g.edges}
    BY <1>1 DEF EdgeFrom
  <2>2. Bounded({e.id : e \in h.edges})
    BY <2>1, FewerAreBounded DEF TablesInv, EdgesInv
  <2>3. \A e \in h.edges : {e.src, e.dst} \subseteq DOMAIN h.entity
    BY <1>1, <1>2 DEF EdgeFrom, TablesInv, EdgesInv
  <2>. QED
    BY <1>1, <2>2, <2>3 DEF EdgesInv
<1>. QED
  BY <1>1, <1>4, <1>5, <1>6, <1>7 DEF TablesInv, NamesInv

-----------------------------------------------------------------------------
(* The graph under every operation *)

\* The tables are in order, within the bounds of the model.
GraphInv == TablesInv(graph) /\ WithinBounds(graph) /\ now \in Instants

LEMMA GraphInitInv == ASSUME GraphInit PROVE GraphInv
<1>1. /\ graph = [entity |-> Nothing, alias |-> Nothing, pending |-> Nothing, edges |-> {}]
      /\ now = 1
  BY DEF GraphInit
<1>2. DOMAIN Nothing = {} /\ Nothing = [x \in DOMAIN Nothing |-> Nothing[x]]
  BY DEF Nothing
<1>3. graph.entity = Nothing /\ graph.alias = Nothing /\ graph.pending = Nothing
  BY <1>1
<1>4. graph.edges = {}
  BY <1>1
<1>5. Bounded({})
  BY DEF Bounded
<1>6. EntitiesInv(graph)
  BY <1>1, <1>2, <1>3, <1>5 DEF EntitiesInv
<1>7. AliasesInv(graph) /\ PairsInv(graph)
  BY <1>2, <1>3 DEF AliasesInv, PairsInv
<1>8. EdgesInv(graph)
  <2>1. {e.id : e \in graph.edges} = {}
    BY <1>4
  <2>. QED
    BY <1>4, <1>5, <2>1 DEF EdgesInv
<1>9. WithinBounds(graph) /\ now \in Instants
  BY <1>1, <1>2, <1>3, <1>4, GraphAssumption DEF WithinBounds, Instants
<1>. QED
  BY <1>6, <1>7, <1>8, <1>9 DEF GraphInv, TablesInv, NamesInv

\* The facts of documents that hold afterwards held before.
DocumentFactsFrom(g, h) ==
  \A e \in Current(h) : e.by = "document" =>
    \E o \in Current(g) : o.by = "document" /\ o.fact = e.fact

LEMMA CreateEntityIs ==
  ASSUME GraphInv, NEW n \in Names, CreateEntity(n)
  PROVE  /\ TablesInv(graph') /\ WithinBounds(graph') /\ now' = now
         /\ DocumentFactsFrom(graph, graph') /\ KeepsHistory(graph, graph')
         /\ \A m \in Names : Resolved(graph, m) # None => Resolved(graph', m) # None
<1>1. graph' = WithEntity(graph, n) /\ WithinBounds(graph') /\ now' = now
  BY DEF CreateEntity, Becomes
<1>2. CASE Named(graph, n) # {}
  <2>1. graph' = graph
    BY <1>1, <1>2 DEF WithEntity
  <2>. QED
    BY <1>1, <2>1 DEF GraphInv, DocumentFactsFrom, KeepsHistory, StaysIn
<1>3. CASE Named(graph, n) = {}
  <2>1. PICK g, h, id : g = graph /\ h = graph' /\ id = NewId(DOMAIN g.entity)
    OBVIOUS
  <2>2. TablesInv(g) /\ Named(g, n) = {} /\ h = WithEntity(g, n)
    BY <1>1, <1>3, <2>1 DEF GraphInv
  <2>3. /\ TablesInv(h) /\ h.edges = g.edges /\ h.alias = g.alias /\ Named(h, n) = {id}
        /\ \A m \in Names : m # n => Named(h, m) = Named(g, m)
    BY <2>1, <2>2, WithEntityIs
  <2>4. DocumentFactsFrom(g, h) /\ KeepsHistory(g, h)
    BY <2>3 DEF DocumentFactsFrom, Current, KeepsHistory, StaysIn
  <2>5. ASSUME NEW m \in Names, Resolved(g, m) # None PROVE Resolved(h, m) # None
    <3>1. Named(g, m) # {} \/ m \in DOMAIN g.alias
      BY <2>2, <2>5, ResolvedIs DEF TablesInv
    <3>2. Named(h, m) # {} \/ m \in DOMAIN h.alias
      BY <2>3, <3>1
    <3>. QED
      BY <2>3, <3>2, ResolvedIs DEF TablesInv
  <2>. QED
    BY <1>1, <2>1, <2>3, <2>4, <2>5
<1>. QED
  BY <1>2, <1>3

LEMMA AddFactIs ==
  ASSUME GraphInv, NEW src \in Ids, NEW dst \in Ids, NEW f \in HumanFacts, NEW at \in Instants,
         AddFact(src, dst, f, at)
  PROVE  /\ TablesInv(graph') /\ WithinBounds(graph') /\ now' = now
         /\ DocumentFactsFrom(graph, graph') /\ KeepsHistory(graph, graph')
         /\ \A m \in Names : Resolved(graph', m) = Resolved(graph, m)
<1>1. PICK g, h : g = graph /\ h = graph'
  OBVIOUS
<1>2. /\ TablesInv(g) /\ src \in DOMAIN g.entity /\ dst \in DOMAIN g.entity
      /\ h = WithFact(g, src, dst, f, at, "human")
      /\ WithinBounds(h) /\ now' = now
  BY <1>1 DEF AddFact, Becomes, GraphInv
<1>3. f.rel \in Relations /\ f.fact \in Facts /\ "human" \in Writers
  BY GraphAssumption DEF Writers
<1>4. /\ TablesInv(h) /\ h.entity = g.entity /\ h.alias = g.alias
      /\ IsWritten(g, h, src, dst, f, "human") /\ KeepsHistory(g, h)
  BY <1>2, <1>3, WithFactIs
<1>5. DocumentFactsFrom(g, h)
  BY <1>4 DEF IsWritten, DocumentFactsFrom
<1>6. \A m \in Names : Resolved(h, m) = Resolved(g, m)
  BY <1>4 DEF Resolved, Named
<1>. QED
  BY <1>1, <1>2, <1>4, <1>5, <1>6

LEMMA DismissIs ==
  ASSUME GraphInv, NEW pair, Dismiss(pair)
  PROVE  /\ TablesInv(graph') /\ WithinBounds(graph') /\ now' = now
         /\ DocumentFactsFrom(graph, graph') /\ KeepsHistory(graph, graph')
         /\ \A m \in Names : Resolved(graph', m) = Resolved(graph, m)
<1>1. PICK g, h : g = graph /\ h = graph'
  OBVIOUS
<1>2. /\ TablesInv(g) /\ WithinBounds(g) /\ pair \in DOMAIN g.pending /\ now' = now
      /\ h = [g EXCEPT !.pending[pair] = "dismissed"]
  BY <1>1 DEF Dismiss, GraphInv
<1>3. h = [entity |-> g.entity, alias |-> g.alias,
           pending |-> [g.pending EXCEPT ![pair] = "dismissed"], edges |-> g.edges]
  BY <1>2 DEF TablesInv, NamesInv, EntitiesInv
<1>4. /\ h.entity = g.entity /\ h.alias = g.alias /\ h.edges = g.edges
      /\ h.pending = [g.pending EXCEPT ![pair] = "dismissed"]
      /\ h = [entity |-> h.entity, alias |-> h.alias, pending |-> h.pending, edges |-> h.edges]
  BY <1>3
<1>5. EntitiesInv(h) /\ AliasesInv(h) /\ EdgesInv(h)
  BY <1>2, <1>4 DEF TablesInv, NamesInv, EntitiesInv, AliasesInv, EdgesInv
<1>6. PairsInv(h)
  <2>1. DOMAIN h.pending = DOMAIN g.pending
    BY <1>4
  <2>2. \A p \in DOMAIN g.pending : h.pending[p] = g.pending[p] \/ h.pending[p] = "dismissed"
    BY <1>4
  <2>3. h.entity = g.entity
    BY <1>4
  <2>4. \A p \in DOMAIN g.pending :
          /\ \E i, j \in DOMAIN g.entity : i # j /\ p = {i, j}
          /\ g.pending[p] \in {"open", "dismissed"}
    BY <1>2 DEF TablesInv, NamesInv, PairsInv
  <2>. QED
    BY <2>1, <2>2, <2>3, <2>4 DEF PairsInv
<1>7. WithinBounds(h) /\ DocumentFactsFrom(g, h) /\ KeepsHistory(g, h)
  BY <1>2, <1>4 DEF WithinBounds, DocumentFactsFrom, Current, KeepsHistory, StaysIn
<1>8. \A m \in Names : Resolved(h, m) = Resolved(g, m)
  BY <1>4 DEF Resolved, Named
<1>. QED
  BY <1>1, <1>2, <1>5, <1>6, <1>7, <1>8 DEF TablesInv, NamesInv

\* merge_entities: what referred to the absorbed entity refers to the keeper.
LEMMA MergeIs ==
  ASSUME GraphInv, NEW keeper \in Ids, NEW absorbed \in Ids, Merge(keeper, absorbed)
  PROVE  /\ TablesInv(graph') /\ WithinBounds(graph') /\ now' = now
         /\ DocumentFactsFrom(graph, graph') /\ KeepsHistory(graph, graph')
         /\ \A m \in Names : Resolved(graph, m) # None => Resolved(graph', m) # None
<1>1. PICK g, h : g = graph /\ h = graph'
  OBVIOUS
<1>. DEFINE follow(i) == IF i = absorbed THEN keeper ELSE i
            named == WithAliases(g, keeper, {g.entity[absorbed]})
            moved(e) == [e EXCEPT !.src = follow(@), !.dst = follow(@)]
            P == PairsWith(g, keeper) \cup PairsWith(g, absorbed)
<1>2. /\ TablesInv(g) /\ WithinBounds(g) /\ now' = now
      /\ keeper \in DOMAIN g.entity /\ absorbed \in DOMAIN g.entity /\ keeper # absorbed
      /\ h = [entity |-> Without(g.entity, {absorbed}),
              alias |-> [n \in DOMAIN named.alias |-> follow(named.alias[n])],
              pending |-> Without(g.pending, P),
              edges |-> {moved(e) : e \in g.edges}]
  BY <1>1 DEF Merge, GraphInv
<1>3. g.entity[absorbed] \in Names
  BY <1>2 DEF TablesInv, NamesInv, EntitiesInv
<1>4. /\ named.entity = g.entity
      /\ named.alias = Joined(g.alias, [n \in {g.entity[absorbed]} |-> keeper])
  BY <1>2 DEF WithAliases, TablesInv, NamesInv, EntitiesInv
<1>5. /\ DOMAIN named.alias = DOMAIN g.alias \cup {g.entity[absorbed]}
      /\ \A n \in DOMAIN named.alias : named.alias[n] \in DOMAIN g.entity
  <2>1. DOMAIN named.alias = DOMAIN g.alias \cup {g.entity[absorbed]}
    BY <1>4 DEF Joined
  <2>2. \A n \in DOMAIN g.alias : named.alias[n] = g.alias[n]
    BY <1>4 DEF Joined
  <2>3. g.entity[absorbed] \notin DOMAIN g.alias => named.alias[g.entity[absorbed]] = keeper
    BY <1>4 DEF Joined
  <2>4. \A n \in DOMAIN g.alias : g.alias[n] \in DOMAIN g.entity
    BY <1>2 DEF TablesInv, NamesInv, AliasesInv
  <2>. QED
    BY <1>2, <2>1, <2>2, <2>3, <2>4
<1>. HIDE DEF named
<1>6. /\ h.entity = Without(g.entity, {absorbed}) /\ h.pending = Without(g.pending, P)
      /\ h.alias = [n \in DOMAIN named.alias |-> follow(named.alias[n])]
      /\ h.edges = {moved(e) : e \in g.edges}
      /\ h = [entity |-> h.entity, alias |-> h.alias, pending |-> h.pending, edges |-> h.edges]
  BY <1>2
<1>7. /\ DOMAIN h.entity = DOMAIN g.entity \ {absorbed}
      /\ \A i \in DOMAIN h.entity : h.entity[i] = g.entity[i]
      /\ h.entity = [i \in DOMAIN h.entity |-> h.entity[i]]
      /\ DOMAIN h.pending = DOMAIN g.pending \ P
      /\ \A pair \in DOMAIN h.pending : h.pending[pair] = g.pending[pair]
  BY <1>6 DEF Without
<1>8. \A i \in DOMAIN g.entity : follow(i) \in DOMAIN h.entity
  BY <1>2, <1>7
<1>9. /\ DOMAIN h.alias = DOMAIN g.alias \cup {g.entity[absorbed]}
      /\ \A n \in DOMAIN h.alias : h.alias[n] \in DOMAIN h.entity
  BY <1>5, <1>6, <1>8
<1>10. ASSUME NEW e \in g.edges
       PROVE  /\ moved(e) \in EdgeRows /\ moved(e).id = e.id
              /\ moved(e).invalid = e.invalid /\ moved(e).by = e.by /\ moved(e).fact = e.fact
              /\ moved(e).rel = e.rel /\ moved(e).valid = e.valid
              /\ moved(e).src \in DOMAIN h.entity /\ moved(e).dst \in DOMAIN h.entity
  <2>1. e \in EdgeRows /\ {e.src, e.dst} \subseteq DOMAIN g.entity
    BY <1>2 DEF TablesInv, EdgesInv
  <2>2. follow(e.src) \in DOMAIN h.entity /\ follow(e.dst) \in DOMAIN h.entity
    BY <1>8, <2>1
  <2>3. follow(e.src) \in Nat /\ follow(e.dst) \in Nat
    BY <1>2, <2>2, <1>7 DEF TablesInv, NamesInv, EntitiesInv, Bounded
  <2>. HIDE DEF follow
  <2>4. moved(e) = [e EXCEPT !.src = follow(e.src), !.dst = follow(e.dst)]
    OBVIOUS
  <2>5. PICK a, b, m : a = follow(e.src) /\ b = follow(e.dst) /\ m = moved(e)
    OBVIOUS
  <2>. HIDE DEF moved
  <2>6. m = [e EXCEPT !.src = a, !.dst = b] /\ a \in Nat /\ b \in Nat
    BY <2>3, <2>4, <2>5
  <2>7. /\ m \in EdgeRows /\ m.id = e.id /\ m.src = a /\ m.dst = b
        /\ m.invalid = e.invalid /\ m.by = e.by /\ m.fact = e.fact
        /\ m.rel = e.rel /\ m.valid = e.valid
    BY <2>1, <2>6 DEF EdgeRows
  <2>. QED
    BY <2>2, <2>5, <2>7
<1>. HIDE DEF follow, moved
<1>11. EntitiesInv(h)
  <2>1. Bounded(DOMAIN h.entity) /\ 0 \notin DOMAIN h.entity
    BY <1>2, <1>7, FewerAreBounded DEF TablesInv, NamesInv, EntitiesInv
  <2>. QED
    BY <1>2, <1>6, <1>7, <2>1 DEF TablesInv, NamesInv, EntitiesInv
<1>12. AliasesInv(h)
  BY <1>2, <1>3, <1>9 DEF TablesInv, NamesInv, AliasesInv
<1>13. PairsInv(h)
  <2>. SUFFICES ASSUME NEW pair \in DOMAIN h.pending
                PROVE  /\ \E a, b \in DOMAIN h.entity : a # b /\ pair = {a, b}
                       /\ h.pending[pair] \in {"open", "dismissed"}
    BY DEF PairsInv
  <2>1. pair \in DOMAIN g.pending /\ absorbed \notin pair
    BY <1>7 DEF PairsWith
  <2>2. /\ \E a, b \in DOMAIN g.entity : a # b /\ pair = {a, b}
        /\ g.pending[pair] \in {"open", "dismissed"}
    BY <1>2, <2>1 DEF TablesInv, NamesInv, PairsInv
  <2>3. PICK a \in DOMAIN g.entity, b \in DOMAIN g.entity : a # b /\ pair = {a, b}
    BY <2>2
  <2>4. a \in DOMAIN h.entity /\ b \in DOMAIN h.entity
    BY <1>7, <2>1, <2>3
  <2>. QED
    BY <1>7, <2>2, <2>3, <2>4
<1>14. EdgesInv(h) /\ WithinBounds(h)
  <2>1. h.edges \subseteq EdgeRows
    BY <1>6, <1>10
  <2>2. {e.id : e \in h.edges} \subseteq {e.id : e \in g.edges}
    BY <1>6, <1>10
  <2>3. Bounded({e.id : e \in h.edges})
    BY <1>2, <2>2, FewerAreBounded DEF TablesInv, EdgesInv
  <2>4. ASSUME NEW e \in h.edges PROVE {e.src, e.dst} \subseteq DOMAIN h.entity
    <3>1. PICK o \in g.edges : e = moved(o)
      BY <1>6
    <3>2. e.src \in DOMAIN h.entity /\ e.dst \in DOMAIN h.entity
      BY <3>1, <1>10
    <3>. QED
      BY <3>2
  <2>5. ASSUME NEW a \in h.edges, NEW b \in h.edges, a.id = b.id PROVE a = b
    <3>1. PICK c \in g.edges, d \in g.edges : a = moved(c) /\ b = moved(d)
      BY <1>6
    <3>2. c.id = d.id
      BY <3>1, <2>5, <1>10
    <3>. QED
      BY <3>1, <3>2, <1>2 DEF TablesInv, EdgesInv
  <2>6. \A e \in h.edges : e.id <= MaxEdges
    BY <1>2, <1>6, <1>10 DEF WithinBounds
  <2>7. DOMAIN h.entity \subseteq Ids
    BY <1>2, <1>7 DEF WithinBounds
  <2>. QED
    BY <2>1, <2>3, <2>4, <2>5, <2>6, <2>7 DEF EdgesInv, WithinBounds
<1>15. DocumentFactsFrom(g, h)
  <2>. SUFFICES ASSUME NEW e \in Current(h), e.by = "document"
                PROVE  \E o \in Current(g) : o.by = "document" /\ o.fact = e.fact
    BY DEF DocumentFactsFrom
  <2>1. PICK o \in g.edges : e = moved(o)
    BY <1>6 DEF Current
  <2>2. o.invalid = None /\ o.by = "document" /\ o.fact = e.fact
    BY <2>1, <1>10 DEF Current
  <2>. QED
    BY <2>2 DEF Current
<1>16. TablesInv(h)
  BY <1>11, <1>12, <1>13, <1>14 DEF TablesInv, NamesInv
<1>17. ASSUME NEW m \in Names, Resolved(g, m) # None PROVE Resolved(h, m) # None
  <2>1. Named(g, m) # {} \/ m \in DOMAIN g.alias
    BY <1>2, <1>17, ResolvedIs DEF TablesInv
  <2>2. CASE m \in DOMAIN g.alias \/ g.entity[absorbed] = m
    <3>1. m \in DOMAIN h.alias
      BY <2>2, <1>9
    <3>. QED
      BY <1>16, <3>1, ResolvedIs DEF TablesInv
  <2>3. CASE Named(g, m) # {} /\ g.entity[absorbed] # m
    <3>1. PICK i \in DOMAIN g.entity : g.entity[i] = m
      BY <2>3 DEF Named
    <3>2. i \in DOMAIN h.entity /\ h.entity[i] = m
      BY <1>7, <2>3, <3>1
    <3>3. Named(h, m) # {}
      BY <3>2 DEF Named
    <3>. QED
      BY <1>16, <3>3, ResolvedIs DEF TablesInv
  <2>. QED
    BY <2>1, <2>2, <2>3
<1>18. KeepsHistory(g, h)
  BY <1>6, <1>10 DEF KeepsHistory, StaysIn
<1>. QED
  BY <1>1, <1>2, <1>14, <1>15, <1>16, <1>17, <1>18

LEMMA DeleteEntityIs ==
  ASSUME GraphInv, NEW i \in Ids, DeleteEntity(i)
  PROVE  /\ TablesInv(graph') /\ WithinBounds(graph') /\ now' = now
         /\ DocumentFactsFrom(graph, graph')
         /\ \A e \in graph.edges : {e.src, e.dst} \subseteq DOMAIN graph'.entity => StaysIn(e, graph')
<1>1. PICK g, h : g = graph /\ h = graph'
  OBVIOUS
<1>. DEFINE A == {n \in DOMAIN g.alias : g.alias[n] = i}
            kept == {e \in g.edges : i \notin {e.src, e.dst}}
<1>2. /\ TablesInv(g) /\ WithinBounds(g) /\ now' = now
      /\ h = [entity |-> Without(g.entity, {i}), alias |-> Without(g.alias, A),
              pending |-> Without(g.pending, PairsWith(g, i)), edges |-> kept]
  BY <1>1 DEF DeleteEntity, WithoutEntity, GraphInv
<1>3. /\ kept \subseteq g.edges /\ kept \subseteq EdgeRows
      /\ \A e \in kept : EdgeFrom(g.edges, e) /\ e.src \notin {i} /\ e.dst \notin {i}
      /\ \A a, b \in kept : a.id = b.id => a = b
  BY <1>2 DEF EdgeFrom, TablesInv, EdgesInv
<1>4. \A n \in DOMAIN g.alias \ A : g.alias[n] \notin {i}
  OBVIOUS
<1>5. \A pair \in DOMAIN g.pending \ PairsWith(g, i) : pair \cap {i} = {}
  BY DEF PairsWith
<1>6. h.edges = kept
  BY <1>2
<1>. HIDE DEF A, kept
<1>7. TablesInv(h) /\ h.entity = Without(g.entity, {i})
  <2>1. AreGone(g, h, {i}, A, PairsWith(g, i))
    BY <1>2, <1>3, <1>4, <1>5, <1>6 DEF AreGone
  <2>. QED
    BY <1>2, <2>1, FewerEntities
<1>8. WithinBounds(h)
  BY <1>2, <1>3, <1>6, <1>7 DEF WithinBounds, Without
<1>9. DocumentFactsFrom(g, h)
  BY <1>3, <1>6 DEF DocumentFactsFrom, Current
<1>10. ASSUME NEW e \in g.edges, {e.src, e.dst} \subseteq DOMAIN h.entity PROVE StaysIn(e, h)
  <2>1. i \notin DOMAIN h.entity
    BY <1>7 DEF Without
  <2>2. e \in h.edges
    BY <1>6, <1>10, <2>1 DEF kept
  <2>. QED
    BY <2>2 DEF StaysIn
<1>. QED
  BY <1>1, <1>2, <1>7, <1>8, <1>9, <1>10

LEMMA ExtractIs ==
  ASSUME GraphInv, NEW x \in Extractions, NEW at \in Instants, Extract(x, at)
  PROVE  /\ TablesInv(graph') /\ WithinBounds(graph') /\ now' = now
         /\ DocumentFactsFrom(graph, graph') /\ Keeps(graph, graph') /\ KeepsHistory(graph, graph')
<1>1. PICK g, h : g = graph /\ h = graph'
  OBVIOUS
<1>2. /\ TablesInv(g) /\ h = Extracted(g, x, at, "session")
      /\ WithinBounds(h) /\ now' = now
  BY <1>1 DEF Extract, Becomes, GraphInv
<1>3. x \in ExtractionType /\ "session" \in Writers
  BY GraphAssumption DEF Writers
<1>4. /\ TablesInv(h) /\ Keeps(g, h) /\ KeepsHistory(g, h)
      /\ \A e \in Current(h) : e \in Current(g) \/ e.by = "session"
  BY <1>2, <1>3, ExtractedIs
<1>5. DocumentFactsFrom(g, h)
  BY <1>4 DEF DocumentFactsFrom
<1>. QED
  BY <1>1, <1>2, <1>4, <1>5

LEMMA GraphNextInv ==
  ASSUME GraphInv, GraphNext
  PROVE  GraphInv' /\ DocumentFactsFrom(graph, graph')
<1>1. CASE Tick
  <2>1. graph' = graph /\ now' = now + 1 /\ now < MaxTime
    BY <1>1 DEF Tick
  <2>2. now' \in Instants
    BY <2>1, GraphAssumption DEF GraphInv, Instants
  <2>. QED
    BY <2>1, <2>2 DEF GraphInv, DocumentFactsFrom
<1>2. CASE \E x \in Extractions, at \in Instants : Extract(x, at)
  BY <1>2, ExtractIs DEF GraphInv
<1>3. CASE \E n \in Names : CreateEntity(n)
  BY <1>3, CreateEntityIs DEF GraphInv
<1>4. CASE \E src, dst \in Ids, f \in HumanFacts, at \in Instants : AddFact(src, dst, f, at)
  BY <1>4, AddFactIs DEF GraphInv
<1>5. CASE \E pair \in DOMAIN graph.pending : Dismiss(pair)
  BY <1>5, DismissIs DEF GraphInv
<1>6. CASE \E keeper, absorbed \in Ids : Merge(keeper, absorbed)
  BY <1>6, MergeIs DEF GraphInv
<1>7. CASE \E i \in Ids : DeleteEntity(i)
  BY <1>7, DeleteEntityIs DEF GraphInv
<1>. QED
  BY <1>1, <1>2, <1>3, <1>4, <1>5, <1>6, <1>7 DEF GraphNext

LEMMA GraphInvTypes == ASSUME GraphInv PROVE GraphTypeOK
<1>1. graph.entity \in PartialFunctions(Ids, Names) /\ IsInjective(graph.entity)
  <2>1. graph.entity \in [DOMAIN graph.entity -> Names]
    BY DEF GraphInv, TablesInv, NamesInv, EntitiesInv
  <2>2. DOMAIN graph.entity \in SUBSET Ids
    BY DEF GraphInv, WithinBounds
  <2>3. IsInjective(graph.entity)
    BY DEF GraphInv, TablesInv, NamesInv, EntitiesInv, IsInjective
  <2>. QED
    BY <2>1, <2>2, <2>3 DEF PartialFunctions
<1>2. /\ DOMAIN graph.alias \subseteq Names
      /\ \A n \in DOMAIN graph.alias : graph.alias[n] \in DOMAIN graph.entity
  BY DEF GraphInv, TablesInv, NamesInv, AliasesInv
<1>3. graph.edges \subseteq Edges
  <2>. SUFFICES ASSUME NEW e \in graph.edges PROVE e \in Edges
    OBVIOUS
  <2>1. e \in EdgeRows /\ e.id <= MaxEdges /\ e.src \in Ids /\ e.dst \in Ids
    BY DEF GraphInv, TablesInv, EdgesInv, WithinBounds
  <2>2. e.id \in 1..MaxEdges
    BY <2>1, GraphAssumption DEF EdgeRows
  <2>. QED
    BY <2>1, <2>2 DEF EdgeRows, Edges
<1>4. /\ \A e \in graph.edges : {e.src, e.dst} \subseteq DOMAIN graph.entity
      /\ \A e, f \in graph.edges : e.id = f.id => e = f
  BY DEF GraphInv, TablesInv, EdgesInv
<1>5. ASSUME NEW pair \in DOMAIN graph.pending
      PROVE  /\ pair \subseteq DOMAIN graph.entity /\ Cardinality(pair) = 2
             /\ graph.pending[pair] \in {"open", "dismissed"}
  <2>1. PICK i \in DOMAIN graph.entity, j \in DOMAIN graph.entity : i # j /\ pair = {i, j}
    BY DEF GraphInv, TablesInv, NamesInv, PairsInv
  <2>2. Cardinality({i}) = 1 /\ IsFiniteSet({i})
    BY FS_Singleton
  <2>3. Cardinality({i} \cup {j}) = 2
    BY <2>1, <2>2, FS_AddElement
  <2>4. {i} \cup {j} = pair
    BY <2>1
  <2>. QED
    BY <2>1, <2>3, <2>4 DEF GraphInv, TablesInv, NamesInv, PairsInv
<1>. QED
  BY <1>1, <1>2, <1>3, <1>4, <1>5 DEF GraphTypeOK, GraphInv

THEOREM GraphInvHolds == GraphSpec => []GraphInv
<1>1. GraphInv /\ [GraphNext]_graphVars => GraphInv'
  <2>1. GraphInv /\ GraphNext => GraphInv'
    BY GraphNextInv
  <2>2. GraphInv /\ UNCHANGED graphVars => GraphInv'
    BY DEF graphVars, GraphInv
  <2>. QED
    BY <2>1, <2>2
<1>. QED
  BY <1>1, GraphInitInv, PTL DEF GraphSpec

\* A name that was known stays known unless an entity is deleted, and leads
\* where it led after an extraction.
LEMMA NamesUnderGraphNext ==
  ASSUME GraphInv, GraphNext, NEW n \in Names, Resolved(graph, n) # None
  PROVE  /\ (\A i \in Ids : ~DeleteEntity(i)) => Resolved(graph', n) # None
         /\ (\E x \in Extractions, at \in Instants : Extract(x, at)) =>
              Resolved(graph', n) = Resolved(graph, n)
<1>1. CASE Tick
  <2>1. graph' = graph
    BY <1>1 DEF Tick
  <2>2. Resolved(graph', n) = Resolved(graph, n)
    BY <2>1
  <2>. QED
    BY <2>2
<1>2. ASSUME NEW x \in Extractions, NEW at \in Instants, Extract(x, at)
      PROVE  Resolved(graph', n) = Resolved(graph, n)
  BY <1>2, ExtractIs DEF Keeps
<1>3. CASE \E m \in Names : CreateEntity(m)
  BY <1>2, <1>3, CreateEntityIs
<1>4. CASE \E src, dst \in Ids, f \in HumanFacts, at \in Instants : AddFact(src, dst, f, at)
  BY <1>2, <1>4, AddFactIs
<1>5. CASE \E pair \in DOMAIN graph.pending : Dismiss(pair)
  BY <1>2, <1>5, DismissIs
<1>6. CASE \E keeper, absorbed \in Ids : Merge(keeper, absorbed)
  BY <1>2, <1>6, MergeIs
<1>. QED
  BY <1>1, <1>2, <1>3, <1>4, <1>5, <1>6 DEF GraphNext

\* No fact leaves the table but with an entity that is deleted.
LEMMA HistoryUnderGraphNext ==
  ASSUME GraphInv, GraphNext
  PROVE  \/ KeepsHistory(graph, graph')
         \/ \E i \in Ids :
              /\ DeleteEntity(i)
              /\ \A e \in graph.edges :
                   {e.src, e.dst} \subseteq DOMAIN graph'.entity => StaysIn(e, graph')
<1>1. CASE Tick
  <2>1. graph' = graph
    BY <1>1 DEF Tick
  <2>. QED
    BY <2>1 DEF KeepsHistory, StaysIn
<1>2. CASE \E x \in Extractions, at \in Instants : Extract(x, at)
  BY <1>2, ExtractIs
<1>3. CASE \E m \in Names : CreateEntity(m)
  BY <1>3, CreateEntityIs
<1>4. CASE \E src, dst \in Ids, f \in HumanFacts, at \in Instants : AddFact(src, dst, f, at)
  BY <1>4, AddFactIs
<1>5. CASE \E pair \in DOMAIN graph.pending : Dismiss(pair)
  BY <1>5, DismissIs
<1>6. CASE \E keeper, absorbed \in Ids : Merge(keeper, absorbed)
  BY <1>6, MergeIs
<1>7. CASE \E i \in Ids : DeleteEntity(i)
  BY <1>7, DeleteEntityIs
<1>. QED
  BY <1>1, <1>2, <1>3, <1>4, <1>5, <1>6, <1>7 DEF GraphNext

-----------------------------------------------------------------------------
(* Rows and what a sweep selects *)

RowType == [doc : Docs, text : Texts \ {Blank}]

Distinct(s) == \A i, j \in DOMAIN s : s[i].doc = s[j].doc => i = j

LEMMA SelectionIs ==
  ASSUME NEW n, Len(rows) \in Nat
  PROVE  /\ Selection(n)[0] = <<>>
         /\ \A k \in 1..Len(rows) : Selection(n)[k] = Taken(Selection(n)[k - 1], rows[k], n)
<1>. DEFINE Chain(f, m) == f = [k \in 0..m |-> IF k = 0 THEN <<>>
                                               ELSE Taken(f[k - 1], rows[k], n)]
            S == {m \in Nat : \E f : Chain(f, m)}
<1>1. 0 \in S
  <2>1. Chain([k \in 0..0 |-> <<>>], 0)
    OBVIOUS
  <2>. QED
    BY <2>1
<1>2. ASSUME NEW m \in Nat, m \in S PROVE m + 1 \in S
  <2>1. PICK f : Chain(f, m)
    BY <1>2
  <2>. DEFINE h == [k \in 0..(m + 1) |-> IF k = m + 1 THEN Taken(f[m], rows[m + 1], n)
                                         ELSE f[k]]
  <2>2. Chain(h, m + 1)
    BY <2>1
  <2>. HIDE DEF Chain, h
  <2>3. \E f_1 : Chain(f_1, m + 1)
    BY <2>2
  <2>. QED
    BY <2>3
<1>. HIDE DEF S
<1>3. Nat \subseteq S
  BY <1>1, <1>2, Steps
<1>4. \E f : Chain(f, Len(rows))
  BY <1>3 DEF S
<1>5. Chain(Selection(n), Len(rows))
  BY <1>4 DEF Selection
<1>. QED
  BY <1>5

LEMMA SelectedIs ==
  ASSUME rows \in Seq(RowType), NEW n \in Nat
  PROVE  Selected(n) \in Seq(Docs)
<1>. DEFINE docs == Selection(n)
            S == {k \in 0..Len(rows) : docs[k] \in Seq(Docs)}
<1>1. /\ Len(rows) \in Nat /\ docs[0] = <<>>
      /\ \A k \in 1..Len(rows) : docs[k] = Taken(docs[k - 1], rows[k], n)
  BY SelectionIs
<1>. HIDE DEF docs
<1>2. 0 \in S
  <2>1. <<>> \in Seq(Docs) /\ 0 \in 0..Len(rows)
    BY <1>1
  <2>. QED
    BY <1>1, <2>1
<1>3. ASSUME NEW k \in 1..Len(rows), k - 1 \in S PROVE k \in S
  <2>1. PICK row : row = rows[k] /\ row \in RowType
    BY MemberOf
  <2>2. row.doc \in Docs
    BY <2>1 DEF RowType
  <2>3. docs[k - 1] \in Seq(Docs) /\ k \in 0..Len(rows)
    BY <1>1, <1>3
  <2>4. docs[k] \in Seq(Docs)
    <3>1. \A v \in Seq(Docs) : Append(v, row.doc) \in Seq(Docs)
      BY <2>2
    <3>2. docs[k] = Taken(docs[k - 1], row, n)
      BY <1>1, <2>1
    <3>. QED
      BY <2>3, <3>1, <3>2 DEF Taken
  <2>. QED
    BY <2>3, <2>4
<1>. HIDE DEF S
<1>4. Len(rows) \in S
  <2>1. 0..Len(rows) \subseteq S
    BY <1>1, <1>2, <1>3, StepsTo
  <2>. QED
    BY <1>1, <2>1
<1>. QED
  BY <1>4 DEF S, Selected, docs

\* A row less.
LEMMA RemovedIs ==
  ASSUME NEW T, NEW s \in Seq(T), NEW k \in 1..Len(s), NEW r, r = RemoveAt(s, k)
  PROVE  /\ r \in Seq(T) /\ Len(r) = Len(s) - 1
         /\ \A i \in 1..Len(r) : r[i] = IF i < k THEN s[i] ELSE s[i + 1]
<1>1. r = SubSeq(s, 1, k - 1) \o SubSeq(s, k + 1, Len(s))
  BY DEF RemoveAt
<1>2. /\ SubSeq(s, 1, k - 1) \in Seq(T) /\ Len(SubSeq(s, 1, k - 1)) = k - 1
      /\ \A i \in 1..(k - 1) : SubSeq(s, 1, k - 1)[i] = s[i]
  OBVIOUS
<1>3. /\ SubSeq(s, k + 1, Len(s)) \in Seq(T) /\ Len(SubSeq(s, k + 1, Len(s))) = Len(s) - k
      /\ \A i \in 1..(Len(s) - k) : SubSeq(s, k + 1, Len(s))[i] = s[k + i]
  OBVIOUS
<1>4. PICK a, b : a = SubSeq(s, 1, k - 1) /\ b = SubSeq(s, k + 1, Len(s))
  OBVIOUS
<1>5. /\ a \in Seq(T) /\ b \in Seq(T) /\ Len(a) = k - 1 /\ Len(b) = Len(s) - k
      /\ \A i \in 1..(k - 1) : a[i] = s[i]
      /\ \A i \in 1..(Len(s) - k) : b[i] = s[k + i]
  BY <1>2, <1>3, <1>4
<1>6. r = a \o b
  BY <1>1, <1>4
<1>7. r \in Seq(T) /\ Len(r) = Len(s) - 1
  <2>1. Len(a \o b) = Len(a) + Len(b) /\ a \o b \in Seq(T)
    BY <1>5, ConcatProperties
  <2>. QED
    BY <1>5, <1>6, <2>1
<1>8. \A i \in 1..Len(r) : r[i] = IF i <= k - 1 THEN a[i] ELSE b[i - (k - 1)]
  BY <1>5, <1>6, <1>7
<1>9. ASSUME NEW i \in 1..Len(r) PROVE r[i] = IF i < k THEN s[i] ELSE s[i + 1]
  <2>1. CASE i < k
    BY <1>5, <1>8, <2>1
  <2>2. CASE i >= k
    <3>1. i - (k - 1) \in 1..(Len(s) - k) /\ k + (i - (k - 1)) = i + 1
      BY <1>7, <2>2
    <3>. QED
      BY <1>5, <1>8, <2>2, <3>1
  <2>. QED
    BY <2>1, <2>2
<1>. QED
  BY <1>7, <1>9

-----------------------------------------------------------------------------
(* A prune *)

\* prune_previous_revision: what is current afterwards was so before and is not
\* retracted, and what is not retracted is as it was.
LEMMA PrunedIs ==
  ASSUME NEW g, TablesInv(g), now \in Instants,
         NEW facts, NEW names, NEW claimed, NEW own,
         NEW h, h = Pruned(g, facts, names, claimed, own)
  PROVE  /\ TablesInv(h)
         /\ WithinBounds(g) => WithinBounds(h)
         /\ \A e \in Current(h) : e \in Current(g) /\ e.fact \notin facts
         /\ \A e \in Current(g) : e.fact \notin facts => e \in Current(h)
         /\ \A n \in claimed : n \notin names /\ Resolved(g, n) # None => Resolved(h, n) # None
         /\ \A e \in g.edges : {e.src, e.dst} \subseteq DOMAIN h.entity => StaysIn(e, h)
<1>. DEFINE hit(e) == e.fact \in facts /\ e.invalid = None
            end(e) == IF hit(e) THEN [e EXCEPT !.invalid = now] ELSE e
            edges == {end(e) : e \in g.edges}
            at(i) == {e \in edges : i \in {e.src, e.dst}}
            gone == {i \in DOMAIN g.entity :
                       /\ g.entity[i] \in names
                       /\ \A e \in at(i) : e.invalid # None /\ e.fact \in own
                       /\ \A n \in DOMAIN g.alias : g.alias[n] = i => n \notin claimed}
            A == {n \in DOMAIN g.alias : g.alias[n] \in gone}
            P == {pair \in DOMAIN g.pending : pair \cap gone # {}}
            kept == edges \ UNION {at(i) : i \in gone}
<1>1. h = [entity |-> Without(g.entity, gone), alias |-> Without(g.alias, A),
           pending |-> Without(g.pending, P), edges |-> kept]
  BY DEF Pruned
<1>2. now # None /\ now \in Nat
  BY GraphAssumption DEF Instants
<1>3. ASSUME NEW e \in g.edges
      PROVE  /\ end(e) \in EdgeRows /\ end(e).id = e.id
             /\ end(e).src = e.src /\ end(e).dst = e.dst /\ end(e).fact = e.fact
             /\ end(e).rel = e.rel /\ end(e).valid = e.valid
             /\ hit(e) => end(e).invalid # None /\ e.invalid = None
             /\ ~hit(e) => end(e) = e
  BY <1>2 DEF TablesInv, EdgesInv, EdgeRows
<1>4. \A i \in gone : i \in DOMAIN g.entity /\ g.entity[i] \in names
  OBVIOUS
<1>5. \A i \in gone, n \in DOMAIN g.alias : g.alias[n] = i => n \notin claimed
  OBVIOUS
<1>6. \A i \in gone, e \in edges : i \in {e.src, e.dst} => e.invalid # None
  OBVIOUS
<1>7. \A e \in kept : e \in edges /\ e.src \notin gone /\ e.dst \notin gone
  OBVIOUS
<1>8. \A e \in edges : e.src \notin gone /\ e.dst \notin gone => e \in kept
  OBVIOUS
<1>9. /\ \A n \in DOMAIN g.alias \ A : g.alias[n] \notin gone
      /\ \A pair \in DOMAIN g.pending \ P : pair \cap gone = {}
      /\ \A n \in A : g.alias[n] \in gone
  OBVIOUS
<1>. HIDE DEF hit, end, at, gone, A, P, kept
<1>10. h.edges = kept
  BY <1>1
<1>11. AreGone(g, h, gone, A, P)
  <2>1. kept \subseteq EdgeRows
    BY <1>3, <1>7
  <2>2. \A e \in kept : EdgeFrom(g.edges, e)
    BY <1>3, <1>7 DEF EdgeFrom
  <2>3. ASSUME NEW a \in kept, NEW b \in kept, a.id = b.id PROVE a = b
    <3>1. PICK c \in g.edges, d \in g.edges : a = end(c) /\ b = end(d)
      BY <1>7
    <3>2. c.id = d.id
      BY <2>3, <3>1, <1>3
    <3>. QED
      BY <3>1, <3>2 DEF TablesInv, EdgesInv
  <2>. QED
    BY <1>1, <1>7, <1>9, <1>10, <2>1, <2>2, <2>3 DEF AreGone
<1>12. TablesInv(h) /\ h.entity = Without(g.entity, gone) /\ h.alias = Without(g.alias, A)
  BY <1>11, FewerEntities
<1>13. ASSUME WithinBounds(g) PROVE WithinBounds(h)
  <2>1. DOMAIN h.entity \subseteq Ids
    BY <1>12, <1>13 DEF WithinBounds, Without
  <2>2. ASSUME NEW e \in h.edges PROVE e.id <= MaxEdges
    <3>1. PICK o \in g.edges : e = end(o)
      BY <1>7, <1>10
    <3>. QED
      BY <3>1, <1>3, <1>13 DEF WithinBounds
  <2>. QED
    BY <2>1, <2>2 DEF WithinBounds
<1>14. ASSUME NEW e \in Current(h) PROVE e \in Current(g) /\ e.fact \notin facts
  <2>1. PICK o \in g.edges : e = end(o)
    BY <1>7, <1>10 DEF Current
  <2>2. ~hit(o) /\ e = o
    BY <1>3, <2>1 DEF Current
  <2>. QED
    BY <2>2 DEF Current, hit
<1>15. ASSUME NEW e \in Current(g), e.fact \notin facts PROVE e \in Current(h)
  <2>1. e \in g.edges /\ e.invalid = None /\ end(e) = e
    BY <1>3, <1>15 DEF Current, hit
  <2>2. e \in edges
    BY <2>1
  <2>3. e.src \notin gone /\ e.dst \notin gone
    BY <1>6, <2>1, <2>2
  <2>. QED
    BY <1>8, <1>10, <2>1, <2>2, <2>3 DEF Current
<1>16. ASSUME NEW n \in claimed, n \notin names, Resolved(g, n) # None
       PROVE  Resolved(h, n) # None
  <2>1. Named(g, n) # {} \/ n \in DOMAIN g.alias
    BY <1>16, ResolvedIs DEF TablesInv
  <2>2. CASE Named(g, n) # {}
    <3>1. PICK i \in DOMAIN g.entity : g.entity[i] = n
      BY <2>2 DEF Named
    <3>2. i \in DOMAIN h.entity /\ h.entity[i] = n
      BY <1>4, <1>12, <1>16, <3>1 DEF Without
    <3>3. Named(h, n) # {}
      BY <3>2 DEF Named
    <3>. QED
      BY <1>12, <3>3, ResolvedIs DEF TablesInv
  <2>3. CASE n \in DOMAIN g.alias
    <3>1. n \notin A
      BY <1>5, <1>9, <1>16, <2>3
    <3>2. n \in DOMAIN h.alias
      BY <1>12, <2>3, <3>1 DEF Without
    <3>. QED
      BY <1>12, <3>2, ResolvedIs DEF TablesInv
  <2>. QED
    BY <2>1, <2>2, <2>3
<1>17. ASSUME NEW e \in g.edges, {e.src, e.dst} \subseteq DOMAIN h.entity
       PROVE  StaysIn(e, h)
  <2>1. e.src \notin gone /\ e.dst \notin gone
    BY <1>12, <1>17 DEF Without
  <2>2. end(e) \in h.edges
    <3>1. end(e) \in edges
      OBVIOUS
    <3>. QED
      BY <1>3, <1>8, <1>10, <2>1, <3>1
  <2>3. e.invalid # None => end(e).invalid = e.invalid
    BY <1>3
  <2>. QED
    BY <1>3, <2>2, <2>3 DEF StaysIn
<1>. QED
  BY <1>12, <1>13, <1>14, <1>15, <1>16, <1>17

-----------------------------------------------------------------------------
(* Passes *)

Places == {"idle", "read", "ledger", "write", "prune", "record"}

LedgerType == [Docs -> Texts \cup {None}]

PassType == [at : Places, todo : Seq(Docs), text : Texts \cup {None},
             seen : LedgerType \cup {None}]

\* What an ingester holds at each of its awaits.
PassOk(s) ==
  /\ s \in PassType
  /\ s.at = "idle" <=> s.todo = <<>>
  /\ s.at \in {"ledger", "write", "prune", "record"} => s.text \in Texts
  /\ s.at \in {"write", "prune", "record"} => s.seen \in LedgerType

PassesInv == pass = [p \in Ingesters |-> pass[p]] /\ \A p \in Ingesters : PassOk(pass[p])

IngestInv ==
  /\ GraphInv
  /\ file \in [Docs -> Texts \cup {None}]
  /\ rows \in Seq(RowType) /\ Distinct(rows)
  /\ ledger \in LedgerType
  /\ PassesInv
  /\ crossed \in SUBSET Ingesters
  /\ edits \in 0..MaxEdits /\ upsets \in 0..MaxUpsets

LEMMA IdleIsOk == PassOk(Idle) /\ Idle.at = "idle"
BY DEF PassOk, PassType, Places, Idle

LEMMA OnePassChanges ==
  ASSUME PassesInv, NEW p \in Ingesters, NEW s, pass' = [pass EXCEPT ![p] = s]
  PROVE  /\ PassOk(s) => PassesInv'
         /\ \A q \in Ingesters : pass'[q] = IF q = p THEN s ELSE pass[q]
BY DEF PassesInv

LEMMA TheDoc ==
  ASSUME PassesInv, NEW p \in Ingesters, pass[p].at # "idle"
  PROVE  Doc(p) \in Docs /\ pass[p].todo \in Seq(Docs) /\ pass[p].todo # <<>>
<1>1. pass[p].todo \in Seq(Docs) /\ pass[p].todo # <<>>
  BY DEF PassesInv, PassOk, PassType
<1>. QED
  BY <1>1 DEF Doc

LEMMA AdvanceIs ==
  ASSUME PassesInv, NEW p \in Ingesters, pass[p].at # "idle", Advance(p)
  PROVE  /\ PassesInv'
         /\ pass'[p].at \in {"idle", "read"}
         /\ \A q \in Ingesters : q # p => pass'[q] = pass[q]
<1>1. pass[p].todo \in Seq(Docs) /\ pass[p].todo # <<>>
  BY TheDoc
<1>2. PICK s : /\ pass' = [pass EXCEPT ![p] = s]
               /\ s = IF Len(pass[p].todo) = 1 THEN Idle
                      ELSE [Idle EXCEPT !.at = "read", !.todo = Tail(pass[p].todo)]
  BY DEF Advance
<1>3. PassOk(s) /\ s.at \in {"idle", "read"}
  <2>1. PICK t : t = pass[p].todo
    OBVIOUS
  <2>2. CASE Len(t) = 1
    BY <1>2, <2>1, <2>2, IdleIsOk
  <2>3. CASE Len(t) # 1
    <3>1. t \in Seq(Docs) /\ t # <<>>
      BY <1>1, <2>1
    <3>2. Tail(t) \in Seq(Docs) /\ Len(Tail(t)) = Len(t) - 1
      BY <3>1, HeadTailProperties
    <3>3. Len(t) \in Nat /\ Len(t) # 0
      BY <3>1, EmptySeq
    <3>4. Tail(t) # <<>>
      <4>1. Len(Tail(t)) # 0 /\ Len(<<>>) = 0
        BY <2>3, <3>2, <3>3
      <4>. QED
        BY <4>1
    <3>5. s = [at |-> "read", todo |-> Tail(t), text |-> None, seen |-> None]
      BY <1>2, <2>1, <2>3 DEF Idle
    <3>. QED
      BY <3>2, <3>4, <3>5 DEF PassOk, PassType, Places
  <2>. QED
    BY <2>2, <2>3
<1>4. pass' = [pass EXCEPT ![p] = s] /\ PassOk(s)
  BY <1>2, <1>3
<1>5. PassesInv' /\ \A q \in Ingesters : pass'[q] = IF q = p THEN s ELSE pass[q]
  BY <1>4, OnePassChanges
<1>. QED
  BY <1>3, <1>5

-----------------------------------------------------------------------------
(* The index *)

LEMMA RowTextIs ==
  ASSUME rows \in Seq(RowType), NEW d
  PROVE  /\ RowText(d) = None <=> \A i \in DOMAIN rows : rows[i].doc # d
         /\ RowText(d) # None => RowOf(d) \in DOMAIN rows /\ rows[RowOf(d)].doc = d
<1>1. \A i \in DOMAIN rows : rows[i].text # None
  <2>. SUFFICES ASSUME NEW i \in DOMAIN rows PROVE rows[i].text # None
    OBVIOUS
  <2>1. rows[i] \in RowType
    OBVIOUS
  <2>. QED
    BY <2>1, IngestAssumption DEF RowType
<1>2. (\E i \in DOMAIN rows : rows[i].doc = d) =>
        RowOf(d) \in DOMAIN rows /\ rows[RowOf(d)].doc = d
  BY DEF RowOf
<1>. QED
  BY <1>1, <1>2 DEF RowText

LEMMA OthersAre ==
  ASSUME rows \in Seq(RowType), Distinct(rows), NEW d, NEW others,
         others = IF RowText(d) = None THEN rows ELSE RemoveAt(rows, RowOf(d))
  PROVE  /\ others \in Seq(RowType) /\ Distinct(others)
         /\ \A i \in DOMAIN others : others[i].doc # d
<1>1. CASE RowText(d) = None
  BY <1>1, RowTextIs
<1>2. CASE RowText(d) # None
  <2>1. PICK k : k = RowOf(d)
    OBVIOUS
  <2>2. /\ k \in 1..Len(rows) /\ rows[k].doc = d /\ Len(rows) \in Nat
        /\ others = RemoveAt(rows, k)
    BY <1>2, <2>1, RowTextIs
  <2>3. /\ others \in Seq(RowType) /\ Len(others) = Len(rows) - 1
        /\ \A i \in 1..Len(others) : others[i] = IF i < k THEN rows[i] ELSE rows[i + 1]
    BY <2>2, RemovedIs
  <2>. DEFINE was(i) == IF i < k THEN i ELSE i + 1
  <2>4. \A i \in DOMAIN others :
          was(i) \in DOMAIN rows /\ was(i) # k /\ others[i] = rows[was(i)]
    BY <2>2, <2>3
  <2>5. \A i, j \in DOMAIN others : was(i) = was(j) => i = j
    BY <2>2, <2>3
  <2>. HIDE DEF was
  <2>6. ASSUME NEW i \in DOMAIN others PROVE others[i].doc # d
    <3>1. PICK w : w = was(i)
      OBVIOUS
    <3>2. w \in DOMAIN rows /\ w # k /\ others[i] = rows[w] /\ k \in DOMAIN rows
      BY <2>2, <2>4, <3>1
    <3>3. rows[w].doc # rows[k].doc
      BY <3>2 DEF Distinct
    <3>. QED
      BY <2>2, <3>2, <3>3
  <2>7. Distinct(others)
    BY <2>4, <2>5 DEF Distinct
  <2>. QED
    BY <2>3, <2>6, <2>7
<1>. QED
  BY <1>1, <1>2

LEMMA IndexIs ==
  ASSUME IngestInv, NEW d \in Docs, Index(d)
  PROVE  rows' \in Seq(RowType) /\ Distinct(rows')
<1>1. PICK others : others = IF RowText(d) = None THEN rows ELSE RemoveAt(rows, RowOf(d))
  OBVIOUS
<1>2. /\ others \in Seq(RowType) /\ Distinct(others)
      /\ \A i \in DOMAIN others : others[i].doc # d
  BY <1>1, OthersAre DEF IngestInv
<1>3. rows' = IF Indexed(d) = None THEN others ELSE <<[doc |-> d, text |-> file[d]]>> \o others
  BY <1>1 DEF Index
<1>4. CASE Indexed(d) = None
  BY <1>2, <1>3, <1>4
<1>5. CASE Indexed(d) # None
  <2>1. file[d] \in Texts \ {Blank}
    BY <1>5 DEF Indexed, IngestInv
  <2>2. PICK row : row = [doc |-> d, text |-> file[d]]
    OBVIOUS
  <2>3. row \in RowType /\ row.doc = d
    BY <2>1, <2>2 DEF RowType
  <2>4. PICK s : s = <<row>> \o others
    OBVIOUS
  <2>5. <<row>> \in Seq(RowType) /\ Len(<<row>>) = 1 /\ <<row>>[1] = row
    BY <2>3
  <2>6. /\ s \in Seq(RowType) /\ Len(s) = 1 + Len(others)
        /\ \A i \in 1..Len(s) : s[i] = IF i <= 1 THEN <<row>>[i] ELSE others[i - 1]
    BY <1>2, <2>4, <2>5, ConcatProperties
  <2>7. Len(others) \in Nat /\ DOMAIN others = 1..Len(others) /\ DOMAIN s = 1..Len(s)
    BY <1>2, <2>6
  <2>8. /\ s[1] = row
        /\ \A i \in DOMAIN s : i # 1 => i - 1 \in DOMAIN others /\ s[i] = others[i - 1]
    BY <2>5, <2>6, <2>7
  <2>9. \A i \in DOMAIN s : i # 1 => s[i].doc # d
    BY <1>2, <2>8
  <2>10. ASSUME NEW i \in DOMAIN s, NEW j \in DOMAIN s, s[i].doc = s[j].doc PROVE i = j
    <3>1. CASE i = 1 \/ j = 1
      BY <2>3, <2>8, <2>9, <2>10, <3>1
    <3>2. CASE i # 1 /\ j # 1
      <4>1. i - 1 = j - 1
        BY <1>2, <2>8, <2>10, <3>2 DEF Distinct
      <4>. QED
        BY <2>7, <4>1
    <3>. QED
      BY <3>1, <3>2
  <2>11. rows' = s
    BY <1>3, <1>5, <2>2, <2>4
  <2>. QED
    BY <2>6, <2>10, <2>11 DEF Distinct
<1>. QED
  BY <1>4, <1>5

-----------------------------------------------------------------------------
(* A pass, step by step *)

\* The rest of the state, when only the passes change.
OnlyPasses == UNCHANGED <<file, rows, ledger, crossed, edits, upsets, graphVars>>

LEMMA StartIs ==
  ASSUME PassesInv, NEW p \in Ingesters, NEW todo \in Seq(Docs), todo # <<>>,
         pass' = [pass EXCEPT ![p] = [Idle EXCEPT !.at = "read", !.todo = todo]]
  PROVE  /\ PassesInv' /\ pass'[p].at = "read"
         /\ \A q \in Ingesters : q # p => pass'[q] = pass[q]
<1>1. PICK s : s = [Idle EXCEPT !.at = "read", !.todo = todo]
  OBVIOUS
<1>2. s = [at |-> "read", todo |-> todo, text |-> None, seen |-> None]
  BY <1>1 DEF Idle
<1>3. PassOk(s) /\ s.at = "read"
  BY <1>2 DEF PassOk, PassType, Places
<1>4. pass' = [pass EXCEPT ![p] = s]
  BY <1>1
<1>5. PassesInv' /\ \A q \in Ingesters : pass'[q] = IF q = p THEN s ELSE pass[q]
  BY <1>3, <1>4, OnePassChanges
<1>. QED
  BY <1>3, <1>5

\* An ingester goes on to another place with another text and ledger in hand.
GoesTo(p, at, text, seen) ==
  pass' = [pass EXCEPT ![p] = [at |-> at, todo |-> pass[p].todo, text |-> text, seen |-> seen]]

LEMMA GoesOn ==
  ASSUME PassesInv, NEW p \in Ingesters, pass[p].at # "idle",
         NEW at \in Places, at # "idle",
         NEW text \in Texts, NEW seen \in LedgerType \cup {None},
         at \in {"write", "prune", "record"} => seen \in LedgerType,
         GoesTo(p, at, text, seen)
  PROVE  /\ PassesInv'
         /\ pass'[p].at = at /\ pass'[p].text = text /\ pass'[p].seen = seen
         /\ pass'[p].todo = pass[p].todo
         /\ \A q \in Ingesters : q # p => pass'[q] = pass[q]
<1>1. PICK s : s = [at |-> at, todo |-> pass[p].todo, text |-> text, seen |-> seen]
  OBVIOUS
<1>2. pass[p] \in PassType /\ pass[p].todo # <<>>
  BY DEF PassesInv, PassOk
<1>3. PassOk(s)
  BY <1>1, <1>2 DEF PassOk, PassType
<1>4. PassesInv /\ pass' = [pass EXCEPT ![p] = s] /\ PassOk(s)
  BY <1>1, <1>3 DEF GoesTo
<1>5. PassesInv' /\ \A q \in Ingesters : pass'[q] = IF q = p THEN s ELSE pass[q]
  BY <1>4, OnePassChanges
<1>. QED
  BY <1>1, <1>5

\* Where a pass is at each step, and that the graph and the ledger change only
\* where the step says so.
LEMMA ReadIs ==
  ASSUME PassesInv, file \in LedgerType, NEW p \in Ingesters, Read(p)
  PROVE  /\ PassesInv' /\ OnlyPasses
         /\ pass[p].at = "read" /\ pass'[p].at = "ledger"
         /\ \A q \in Ingesters : q # p => pass'[q] = pass[q]
<1>1. pass[p].at = "read" /\ OnlyPasses /\ file[Doc(p)] # None
  BY DEF Read, OnlyPasses, CanRead, counters
<1>2. Doc(p) \in Docs
  BY <1>1, TheDoc
<1>3. PICK text : text = file[Doc(p)]
  OBVIOUS
<1>4. text \in Texts
  BY <1>1, <1>2, <1>3 DEF LedgerType
<1>5. PICK s : s = [pass[p] EXCEPT !.at = "ledger", !.text = text]
  OBVIOUS
<1>6. pass' = [pass EXCEPT ![p] = s]
  BY <1>3, <1>5 DEF Read
<1>7. pass[p] \in PassType
  BY DEF PassesInv, PassOk
<1>8. s = [at |-> "ledger", todo |-> pass[p].todo, text |-> text, seen |-> pass[p].seen]
  BY <1>5, <1>7 DEF PassType
<1>9. pass[p].seen \in LedgerType \cup {None} /\ "ledger" \in Places
  BY <1>7 DEF PassType, Places
<1>10. /\ PassesInv' /\ pass'[p].at = "ledger"
       /\ \A q \in Ingesters : q # p => pass'[q] = pass[q]
  <2>1. GoesTo(p, "ledger", text, pass[p].seen)
    BY <1>6, <1>8 DEF GoesTo
  <2>. QED
    BY <2>1, <1>1, <1>4, <1>9, GoesOn
<1>. QED
  BY <1>1, <1>10

LEMMA LoadLedgerIs ==
  ASSUME PassesInv, ledger \in LedgerType, NEW p \in Ingesters, LoadLedger(p)
  PROVE  /\ PassesInv' /\ OnlyPasses /\ pass[p].at = "ledger"
         /\ \/ pass'[p].at \in {"idle", "read"}
            \/ pass'[p].at = "write" /\ pass'[p].seen = ledger
         /\ \A q \in Ingesters : q # p => pass'[q] = pass[q]
<1>1. pass[p].at = "ledger" /\ OnlyPasses
  BY DEF LoadLedger, OnlyPasses, counters
<1>2. CASE ledger[Doc(p)] = pass[p].text
  BY <1>1, <1>2, AdvanceIs DEF LoadLedger
<1>3. CASE ledger[Doc(p)] # pass[p].text
  <2>1. PICK s : s = [pass[p] EXCEPT !.at = "write", !.seen = ledger]
    OBVIOUS
  <2>2. pass' = [pass EXCEPT ![p] = s]
    BY <1>3, <2>1 DEF LoadLedger
  <2>3. pass[p] \in PassType /\ pass[p].text \in Texts
    BY <1>1 DEF PassesInv, PassOk
  <2>4. s = [at |-> "write", todo |-> pass[p].todo, text |-> pass[p].text, seen |-> ledger]
    BY <2>1, <2>3 DEF PassType
  <2>5. "write" \in Places
    BY DEF Places
  <2>6. PassesInv' /\ pass'[p].at = "write" /\ pass'[p].seen = ledger
        /\ \A q \in Ingesters : q # p => pass'[q] = pass[q]
    <3>1. GoesTo(p, "write", pass[p].text, ledger)
      BY <2>2, <2>4 DEF GoesTo
    <3>. QED
      BY <1>1, <2>3, <2>5, <3>1, GoesOn
  <2>. QED
    BY <1>1, <2>6
<1>. QED
  BY <1>2, <1>3

\* Between the reading of the ledger and the row that is written in the end, a
\* pass keeps what it works on.
LEMMA GotoIs ==
  ASSUME PassesInv, NEW p \in Ingesters, pass[p].at \in {"write", "prune"},
         NEW at \in {"prune", "record"}, Goto(p, at)
  PROVE  /\ PassesInv' /\ pass'[p].at = at
         /\ pass'[p].text = pass[p].text /\ pass'[p].seen = pass[p].seen
         /\ pass'[p].todo = pass[p].todo
         /\ \A q \in Ingesters : q # p => pass'[q] = pass[q]
<1>1. PICK s : s = [pass[p] EXCEPT !.at = at]
  OBVIOUS
<1>2. pass' = [pass EXCEPT ![p] = s]
  BY <1>1 DEF Goto
<1>3. pass[p] \in PassType /\ pass[p].text \in Texts /\ pass[p].seen \in LedgerType
  BY DEF PassesInv, PassOk
<1>4. s = [at |-> at, todo |-> pass[p].todo, text |-> pass[p].text, seen |-> pass[p].seen]
  BY <1>1, <1>3 DEF PassType
<1>5. at \in Places /\ at # "idle"
  BY DEF Places
<1>6. GoesTo(p, at, pass[p].text, pass[p].seen)
  BY <1>2, <1>4 DEF GoesTo
<1>. QED
  BY <1>3, <1>5, <1>6, GoesOn

Tables == UNCHANGED <<file, rows, ledger, edits, upsets, now>>

LEMMA WriteIs ==
  ASSUME IngestInv, NEW p \in Ingesters, Write(p)
  PROVE  /\ PassesInv' /\ GraphInv' /\ Tables /\ Keeps(graph, graph')
         /\ KeepsHistory(graph, graph')
         /\ pass[p].at = "write" /\ crossed' = crossed \cup Beside(p)
         /\ \/ pass'[p].at = "prune"
            \/ pass'[p].at = "record" /\ pass[p].seen[Doc(p)] = None
         /\ pass'[p].text = pass[p].text /\ pass'[p].seen = pass[p].seen
         /\ pass'[p].todo = pass[p].todo
         /\ \A q \in Ingesters : q # p => pass'[q] = pass[q]
         /\ \A e \in Current(graph') :
              e \in Current(graph) \/ e.fact \in FactsOf(pass[p].text)
<1>1. PassesInv /\ TablesInv(graph) /\ now \in Instants
  BY DEF IngestInv, GraphInv
<1>2. pass[p].at = "write" /\ crossed' = crossed \cup Beside(p) /\ Tables
  BY DEF Write, Tables, counters
<1>3. PICK at \in {"prune", "record"} :
        Goto(p, at) /\ (at = "prune" \/ pass[p].seen[Doc(p)] = None)
  BY DEF Write
<1>4. /\ PassesInv' /\ pass'[p].at = at
      /\ pass'[p].text = pass[p].text /\ pass'[p].seen = pass[p].seen
      /\ pass'[p].todo = pass[p].todo
      /\ \A q \in Ingesters : q # p => pass'[q] = pass[q]
  BY <1>1, <1>2, <1>3, GotoIs
<1>5. pass[p].text \in Texts
  BY <1>1, <1>2 DEF PassesInv, PassOk
<1>6. PICK x : x = Yield[pass[p].text]
  OBVIOUS
<1>7. x \in ExtractionType /\ "document" \in Writers
  BY <1>5, <1>6, IngestAssumption DEF Writers
<1>8. graph' = Extracted(graph, x, now, "document") /\ WithinBounds(graph')
  BY <1>6 DEF Write, Becomes
<1>9. /\ TablesInv(graph') /\ Keeps(graph, graph') /\ KeepsHistory(graph, graph')
      /\ \A e \in Current(graph') :
           e \in Current(graph) \/ (e.by = "document" /\ e.fact \in {f.fact : f \in ToSet(x.facts)})
  BY <1>1, <1>7, <1>8, ExtractedIs
<1>10. {f.fact : f \in ToSet(x.facts)} = FactsOf(pass[p].text)
  BY <1>5, <1>6, IngestAssumption DEF FactsOf
<1>11. GraphInv'
  BY <1>1, <1>2, <1>8, <1>9 DEF GraphInv, Tables
<1>. QED
  BY <1>2, <1>3, <1>4, <1>9, <1>10, <1>11

\* What a prune leaves alone: what the ledger, as the pass read it, says that
\* other documents claim.
LEMMA PruneIs ==
  ASSUME IngestInv, NEW p \in Ingesters, Prune(p)
  PROVE  /\ PassesInv' /\ GraphInv' /\ Tables
         /\ pass[p].at = "prune" /\ pass'[p].at = "record" /\ crossed' = crossed
         /\ pass'[p].text = pass[p].text /\ pass'[p].seen = pass[p].seen
         /\ pass'[p].todo = pass[p].todo
         /\ \A q \in Ingesters : q # p => pass'[q] = pass[q]
         /\ \A e \in Current(graph') :
              /\ e \in Current(graph)
              /\ e.fact \in FactsOf(pass[p].seen[Doc(p)]) =>
                   \/ e.fact \in FactsOf(pass[p].text)
                   \/ \E d \in Docs \ {Doc(p)} : e.fact \in FactsOf(pass[p].seen[d])
         /\ \A d \in Docs \ {Doc(p)} :
              /\ \A e \in Current(graph) :
                   e.fact \in FactsOf(pass[p].seen[d]) => e \in Current(graph')
              /\ \A n \in NamesOf(pass[p].seen[d]) :
                   Resolved(graph, n) # None => Resolved(graph', n) # None
         /\ \A e \in graph.edges :
              {e.src, e.dst} \subseteq DOMAIN graph'.entity => StaysIn(e, graph')
<1>1. PassesInv /\ TablesInv(graph) /\ WithinBounds(graph) /\ now \in Instants
  BY DEF IngestInv, GraphInv
<1>2. pass[p].at = "prune" /\ Tables /\ crossed' = crossed /\ Goto(p, "record")
  BY DEF Prune, Tables, counters
<1>3. /\ PassesInv' /\ pass'[p].at = "record"
      /\ pass'[p].text = pass[p].text /\ pass'[p].seen = pass[p].seen
      /\ pass'[p].todo = pass[p].todo
      /\ \A q \in Ingesters : q # p => pass'[q] = pass[q]
  BY <1>1, <1>2, GotoIs
<1>. DEFINE old == pass[p].seen[Doc(p)]
            elsewhere == {pass[p].seen[d] : d \in Docs \ {Doc(p)}}
            stated == UNION {FactsOf(t) : t \in elsewhere}
            claimed == UNION {NamesOf(t) : t \in elsewhere}
            facts == (FactsOf(old) \ FactsOf(pass[p].text)) \ stated
            names == (NamesOf(old) \ NamesOf(pass[p].text)) \ claimed
<1>4. graph' = Pruned(graph, facts, names, claimed, FactsOf(old))
  BY DEF Prune
<1>5. /\ \A x \in facts : x \notin stated
      /\ \A x \in FactsOf(old) : x \in facts \/ x \in FactsOf(pass[p].text) \/ x \in stated
      /\ \A n \in claimed : n \notin names
  OBVIOUS
<1>6. /\ \A x : x \in stated <=> \E d \in Docs \ {Doc(p)} : x \in FactsOf(pass[p].seen[d])
      /\ \A d \in Docs \ {Doc(p)} : \A n \in NamesOf(pass[p].seen[d]) : n \in claimed
  OBVIOUS
<1>. HIDE DEF stated, claimed, facts, names
<1>7. /\ TablesInv(graph') /\ WithinBounds(graph')
      /\ \A e \in Current(graph') : e \in Current(graph) /\ e.fact \notin facts
      /\ \A e \in Current(graph) : e.fact \notin facts => e \in Current(graph')
      /\ \A n \in claimed :
           n \notin names /\ Resolved(graph, n) # None => Resolved(graph', n) # None
      /\ \A e \in graph.edges :
           {e.src, e.dst} \subseteq DOMAIN graph'.entity => StaysIn(e, graph')
  BY <1>1, <1>4, PrunedIs
<1>8. GraphInv'
  BY <1>1, <1>2, <1>7 DEF GraphInv, Tables
<1>. QED
  BY <1>2, <1>3, <1>5, <1>6, <1>7, <1>8

\* The pass leaves the row for the next sweep, or request, to compare with.
LEMMA RecordIs ==
  ASSUME IngestInv, NEW p \in Ingesters, Record(p)
  PROVE  /\ PassesInv' /\ ledger' \in LedgerType
         /\ UNCHANGED <<file, rows, edits, upsets, graphVars>>
         /\ crossed' = (crossed \ {p}) \cup Beside(p)
         /\ pass[p].at = "record" /\ pass'[p].at \in {"idle", "read"}
         /\ \A q \in Ingesters : q # p => pass'[q] = pass[q]
         /\ \A d \in Docs : ledger'[d] = IF d = Doc(p) THEN pass[p].text ELSE ledger[d]
<1>1. PassesInv /\ ledger \in LedgerType
  BY DEF IngestInv
<1>2. /\ pass[p].at = "record" /\ Advance(p)
      /\ ledger' = [ledger EXCEPT ![Doc(p)] = pass[p].text]
      /\ UNCHANGED <<file, rows, edits, upsets, graphVars>>
      /\ crossed' = (crossed \ {p}) \cup Beside(p)
  BY DEF Record, counters
<1>3. /\ PassesInv' /\ pass'[p].at \in {"idle", "read"}
      /\ \A q \in Ingesters : q # p => pass'[q] = pass[q]
  BY <1>1, <1>2, AdvanceIs
<1>4. pass[p].text \in Texts
  BY <1>1, <1>2 DEF PassesInv, PassOk
<1>5. ledger' \in LedgerType
  BY <1>1, <1>2, <1>4 DEF LedgerType
<1>6. \A d \in Docs : ledger'[d] = IF d = Doc(p) THEN pass[p].text ELSE ledger[d]
  BY <1>1, <1>2 DEF LedgerType
<1>. QED
  BY <1>2, <1>3, <1>5, <1>6

-----------------------------------------------------------------------------
(* The invariant of the passes *)

LEMMA IngestInitInv == ASSUME IngestInit PROVE IngestInv
<1>1. GraphInv
  BY GraphInitInv DEF IngestInit
<1>2. rows \in Seq(RowType) /\ Distinct(rows)
  <2>1. rows = <<>>
    BY DEF IngestInit
  <2>. QED
    BY <2>1 DEF Distinct
<1>3. PassesInv
  BY IdleIsOk DEF IngestInit, PassesInv
<1>4. crossed \in SUBSET Ingesters /\ edits \in 0..MaxEdits /\ upsets \in 0..MaxUpsets
  BY IngestAssumption DEF IngestInit
<1>. QED
  BY <1>1, <1>2, <1>3, <1>4 DEF IngestInit, IngestInv, LedgerType

LEMMA EditIs ==
  ASSUME IngestInv, NEW d \in Docs, NEW t \in Texts \cup {None}, Edit(d, t)
  PROVE  file' \in [Docs -> Texts \cup {None}] /\ edits' \in 0..MaxEdits
BY IngestAssumption DEF IngestInv, Edit

LEMMA SweepIs ==
  ASSUME IngestInv, NEW p \in Ingesters, SweepStarts(p)
  PROVE  /\ PassesInv' /\ OnlyPasses /\ pass[p].at = "idle" /\ pass'[p].at = "read"
         /\ \A q \in Ingesters : q # p => pass'[q] = pass[q]
<1>1. Selected(MaxDocs) \in Seq(Docs)
  BY SelectedIs, IngestAssumption DEF IngestInv
<1>. QED
  BY <1>1, StartIs DEF SweepStarts, OnlyPasses, IngestInv, counters

LEMMA RequestIs ==
  ASSUME IngestInv, NEW p \in Ingesters, NEW d \in Docs, Request(p, d)
  PROVE  /\ PassesInv' /\ OnlyPasses /\ pass[p].at = "idle" /\ pass'[p].at = "read"
         /\ \A q \in Ingesters : q # p => pass'[q] = pass[q]
<1>1. <<d>> \in Seq(Docs) /\ <<d>> # <<>>
  OBVIOUS
<1>. QED
  BY <1>1, StartIs DEF Request, OnlyPasses, IngestInv, counters

LEMMA SkipIs ==
  ASSUME PassesInv, NEW p \in Ingesters, Skip(p)
  PROVE  /\ PassesInv' /\ OnlyPasses /\ pass'[p].at \in {"idle", "read"}
         /\ \A q \in Ingesters : q # p => pass'[q] = pass[q]
<1>1. pass[p].at # "idle" /\ Advance(p)
  BY DEF Skip
<1>. QED
  BY <1>1, AdvanceIs DEF Skip, OnlyPasses, counters

\* A failing call and a crash lose what the ingesters hold, and nothing else.
LEMMA FailsIs ==
  ASSUME IngestInv, NEW p \in Ingesters, Fails(p)
  PROVE  /\ PassesInv' /\ UNCHANGED <<file, rows, ledger, edits, graphVars>>
         /\ crossed' = crossed \ {p} /\ upsets' \in 0..MaxUpsets
         /\ pass'[p].at \in {"idle", "read"}
         /\ \A q \in Ingesters : q # p => pass'[q] = pass[q]
<1>1. pass[p].at # "idle" /\ Advance(p) /\ PassesInv
  BY DEF Fails, IngestInv
<1>2. upsets' \in 0..MaxUpsets
  BY IngestAssumption DEF Fails, IngestInv
<1>. QED
  BY <1>1, <1>2, AdvanceIs DEF Fails

LEMMA CrashIs ==
  ASSUME IngestInv, Crash
  PROVE  /\ PassesInv' /\ UNCHANGED <<file, rows, ledger, edits, graphVars>>
         /\ crossed' = {} /\ upsets' \in 0..MaxUpsets
         /\ \A q \in Ingesters : pass'[q].at = "idle"
<1>1. pass' = [p \in Ingesters |-> Idle]
  BY DEF Crash
<1>2. PassesInv' /\ \A q \in Ingesters : pass'[q].at = "idle"
  BY <1>1, IdleIsOk DEF PassesInv
<1>3. upsets' \in 0..MaxUpsets
  BY IngestAssumption DEF Crash, IngestInv
<1>. QED
  BY <1>2, <1>3 DEF Crash

LEMMA OthersStepIs ==
  ASSUME IngestInv, OthersStep
  PROVE  /\ GraphInv' /\ DocumentFactsFrom(graph, graph')
         /\ UNCHANGED <<file, rows, ledger, pass, crossed, edits>>
         /\ upsets' \in 0..MaxUpsets
<1>1. GraphInv' /\ DocumentFactsFrom(graph, graph')
  BY GraphNextInv DEF IngestInv, OthersStep
<1>2. upsets' \in 0..MaxUpsets
  BY IngestAssumption DEF IngestInv, OthersStep
<1>. QED
  BY <1>1, <1>2 DEF OthersStep

LEMMA PassStepInv ==
  ASSUME IngestInv, NEW p \in Ingesters, PassStep(p)
  PROVE  IngestInv'
<1>1. CASE Read(p) \/ Skip(p) \/ LoadLedger(p)
  <2>1. PassesInv' /\ OnlyPasses
    BY <1>1, ReadIs, SkipIs, LoadLedgerIs DEF IngestInv, LedgerType
  <2>. QED
    BY <2>1 DEF IngestInv, GraphInv, OnlyPasses, graphVars
<1>2. CASE Write(p) \/ Prune(p)
  <2>1. /\ PassesInv' /\ GraphInv' /\ Tables
        /\ crossed' = crossed \cup Beside(p) \/ crossed' = crossed
    BY <1>2, WriteIs, PruneIs
  <2>. QED
    BY <2>1 DEF IngestInv, Tables, Beside
<1>3. CASE Record(p)
  <2>1. /\ PassesInv' /\ ledger' \in LedgerType
        /\ UNCHANGED <<file, rows, edits, upsets, graphVars>>
        /\ crossed' = (crossed \ {p}) \cup Beside(p)
    BY <1>3, RecordIs
  <2>. QED
    BY <2>1 DEF IngestInv, GraphInv, graphVars, Beside
<1>. QED
  BY <1>1, <1>2, <1>3 DEF PassStep

LEMMA IngestNextInv ==
  ASSUME IngestInv, [IngestNext \/ OthersStep]_ingestVars
  PROVE  IngestInv'
<1>1. ASSUME NEW d \in Docs, NEW t \in Texts \cup {None}, Edit(d, t) PROVE IngestInv'
  BY <1>1, EditIs DEF IngestInv, GraphInv, PassesInv, Edit, graphVars
<1>2. ASSUME NEW d \in Docs, Index(d) PROVE IngestInv'
  BY <1>2, IndexIs DEF IngestInv, GraphInv, PassesInv, Index, graphVars, counters
<1>3. ASSUME NEW p \in Ingesters, SweepStarts(p) PROVE IngestInv'
  BY <1>3, SweepIs DEF IngestInv, GraphInv, OnlyPasses, graphVars
<1>4. ASSUME NEW p \in Ingesters, PassStep(p) PROVE IngestInv'
  BY <1>4, PassStepInv
<1>5. ASSUME NEW p \in Ingesters, Fails(p) PROVE IngestInv'
  BY <1>5, FailsIs DEF IngestInv, GraphInv, graphVars
<1>6. ASSUME NEW p \in Ingesters, NEW d \in Docs, Request(p, d) PROVE IngestInv'
  BY <1>6, RequestIs DEF IngestInv, GraphInv, OnlyPasses, graphVars
<1>7. CASE Crash
  BY <1>7, CrashIs DEF IngestInv, GraphInv, graphVars
<1>8. CASE OthersStep
  BY <1>8, OthersStepIs DEF IngestInv, PassesInv
<1>9. CASE UNCHANGED ingestVars
  BY <1>9 DEF IngestInv, GraphInv, PassesInv, ingestVars, graphVars, counters
<1>. QED
  BY <1>1, <1>2, <1>3, <1>4, <1>5, <1>6, <1>7, <1>8, <1>9 DEF IngestNext

\* The passes hold at each await what the next statement takes from them, and
\* the tables are in order, whoever works on the graph meanwhile.
THEOREM IngestInvHolds == IngestSpec => []IngestInv
BY IngestInitInv, IngestNextInv, PTL DEF IngestSpec

\* The tables keep the constraints of the schema: names are unique, aliases,
\* edges and pairs refer to entities that exist, ids are used once.
THEOREM GraphTypes == GraphSpec => []GraphTypeOK
BY GraphInvHolds, GraphInvTypes, PTL

\* So they do under passes; a document has one row, and an ingester holds a
\* text and the ledger wherever it goes on to use them.
THEOREM IngestTypes == IngestSpec => []IngestTypeOK
<1>1. IngestInv => IngestTypeOK
  <2>. SUFFICES ASSUME IngestInv PROVE IngestTypeOK
    OBVIOUS
  <2>1. GraphTypeOK
    BY GraphInvTypes DEF IngestInv
  <2>2. \A i \in DOMAIN rows : rows[i].doc \in Docs /\ rows[i].text \in Texts \ {Blank}
    <3>. SUFFICES ASSUME NEW i \in DOMAIN rows
                  PROVE  rows[i].doc \in Docs /\ rows[i].text \in Texts \ {Blank}
      OBVIOUS
    <3>1. rows[i] \in RowType
      BY DEF IngestInv
    <3>. QED
      BY <3>1 DEF RowType
  <2>3. ASSUME NEW p \in Ingesters
        PROVE  /\ pass[p].at \in {"idle", "read", "ledger", "write", "prune", "record"}
               /\ pass[p].at = "idle" <=> pass[p].todo = <<>>
               /\ pass[p].at \in {"ledger", "write", "prune", "record"} => pass[p].text \in Texts
               /\ pass[p].at \in {"write", "prune", "record"} =>
                    pass[p].seen \in [Docs -> Texts \cup {None}]
    <3>1. PassOk(pass[p])
      BY DEF IngestInv, PassesInv
    <3>. QED
      BY <3>1 DEF PassOk, PassType, Places, LedgerType
  <2>. QED
    BY <2>1, <2>2, <2>3 DEF IngestTypeOK, IngestInv, Distinct, LedgerType
<1>. QED
  BY <1>1, IngestInvHolds, PTL

-----------------------------------------------------------------------------
(* What documents claim *)

\* A pass that no other has crossed has the ledger in hand as it is.
SeenIsLedger ==
  \A p \in Ingesters \ crossed :
    pass[p].at \in {"write", "prune", "record"} => pass[p].seen = ledger

\* When it is about to record, it has ended what the old revision stated, this
\* one does not and no other document does.
Retracted ==
  \A p \in Ingesters \ crossed : pass[p].at = "record" =>
    \A f \in Held(graph) \cap FactsOf(pass[p].seen[Doc(p)]) :
      \/ f \in FactsOf(pass[p].text)
      \/ \E d \in Docs \ {Doc(p)} : f \in FactsOf(pass[p].seen[d])

ClaimsInv == SeenIsLedger /\ Retracted

LEMMA SameTodoSameDoc ==
  ASSUME NEW p, pass'[p].todo = pass[p].todo
  PROVE  Doc(p)' = Doc(p)
BY DEF Doc

\* What a document brought and holds after a step, of which no pass writes, was
\* held before.
LEMMA HeldFrom ==
  ASSUME NEW g, NEW h, DocumentFactsFrom(g, h)
  PROVE  Held(h) \subseteq Held(g)
BY DEF DocumentFactsFrom, Held

LEMMA HeldSame == ASSUME graph' = graph PROVE DocumentFactsFrom(graph, graph')
BY DEF DocumentFactsFrom

\* Nothing is written, and no pass moves towards its end.
Quiet ==
  /\ DocumentFactsFrom(graph, graph') /\ ledger' = ledger
  /\ \A p \in Ingesters :
       \/ pass'[p] = pass[p] /\ (p \in crossed => p \in crossed')
       \/ pass'[p].at \notin {"write", "prune", "record"}
       \/ pass'[p].at = "write" /\ pass'[p].seen = ledger

LEMMA QuietClaims ==
  ASSUME ClaimsInv, Quiet
  PROVE  ClaimsInv'
<1>1. SeenIsLedger'
  BY DEF SeenIsLedger, ClaimsInv, Quiet
<1>2. ASSUME NEW p \in Ingesters \ crossed', pass'[p].at = "record",
             NEW f \in Held(graph') \cap FactsOf(pass'[p].seen[Doc(p)'])
      PROVE  \/ f \in FactsOf(pass'[p].text)
             \/ \E d \in Docs \ {Doc(p)'} : f \in FactsOf(pass'[p].seen[d])
  <2>1. pass'[p] = pass[p] /\ p \in Ingesters \ crossed /\ Doc(p)' = Doc(p)
    BY <1>2 DEF Doc, Quiet
  <2>2. f \in Held(graph)
    BY HeldFrom DEF Quiet
  <2>. QED
    BY <1>2, <2>1, <2>2 DEF Retracted, ClaimsInv
<1>3. Retracted'
  BY <1>2 DEF Retracted
<1>. QED
  BY <1>1, <1>3 DEF ClaimsInv

\* The steps that neither write nor prune nor record.
QuietStep ==
  \/ \E d \in Docs, t \in Texts \cup {None} : Edit(d, t)
  \/ \E d \in Docs : Index(d)
  \/ \E p \in Ingesters :
       \/ SweepStarts(p) \/ Read(p) \/ Skip(p) \/ LoadLedger(p) \/ Fails(p)
       \/ \E d \in Docs : Request(p, d)
  \/ Crash \/ OthersStep \/ UNCHANGED ingestVars

LEMMA QuietStepIs ==
  ASSUME IngestInv, QuietStep
  PROVE  Quiet
<1>1. CASE UNCHANGED <<pass, crossed, ledger, graph>>
  BY <1>1, HeldSame DEF Quiet
<1>2. CASE \/ \E d \in Docs, t \in Texts \cup {None} : Edit(d, t)
           \/ \E d \in Docs : Index(d)
           \/ UNCHANGED ingestVars
  BY <1>1, <1>2 DEF Edit, Index, ingestVars, graphVars
<1>3. ASSUME NEW p \in Ingesters,
             SweepStarts(p) \/ Read(p) \/ Skip(p) \/ LoadLedger(p)
               \/ \E d \in Docs : Request(p, d)
      PROVE  Quiet
  <2>1. /\ graph' = graph /\ ledger' = ledger /\ crossed' = crossed
        /\ \/ pass'[p].at \notin {"write", "prune", "record"}
           \/ pass'[p].at = "write" /\ pass'[p].seen = ledger
        /\ \A q \in Ingesters : q # p => pass'[q] = pass[q]
    BY <1>3, SweepIs, RequestIs, ReadIs, SkipIs, LoadLedgerIs
       DEF IngestInv, LedgerType, OnlyPasses, graphVars
  <2>. QED
    BY <2>1, HeldSame DEF Quiet
<1>4. ASSUME NEW p \in Ingesters, Fails(p) PROVE Quiet
  <2>1. /\ graph' = graph /\ ledger' = ledger /\ crossed' = crossed \ {p}
        /\ pass'[p].at \in {"idle", "read"}
        /\ \A q \in Ingesters : q # p => pass'[q] = pass[q]
    BY <1>4, FailsIs DEF graphVars
  <2>. QED
    BY <2>1, HeldSame DEF Quiet
<1>5. CASE Crash
  <2>1. /\ graph' = graph /\ ledger' = ledger
        /\ \A q \in Ingesters : pass'[q].at = "idle"
    BY <1>5, CrashIs DEF graphVars
  <2>. QED
    BY <2>1, HeldSame DEF Quiet
<1>6. CASE OthersStep
  BY <1>6, OthersStepIs DEF Quiet
<1>. QED
  BY <1>2, <1>3, <1>4, <1>5, <1>6 DEF QuietStep

\* What another pass writes crosses every pass that has read the ledger.
LEMMA WriteClaims ==
  ASSUME IngestInv, ClaimsInv, NEW p \in Ingesters, Write(p)
  PROVE  ClaimsInv'
<1>1. /\ \A q \in Ingesters : q # p => pass'[q] = pass[q]
      /\ pass[p].at = "write" /\ crossed' = crossed \cup Beside(p)
      /\ pass'[p].at = "prune" \/ (pass'[p].at = "record" /\ pass[p].seen[Doc(p)] = None)
      /\ pass'[p].seen = pass[p].seen /\ Doc(p)' = Doc(p) /\ ledger' = ledger
  BY WriteIs, SameTodoSameDoc DEF Tables
<1>2. \A q \in Ingesters \ crossed' :
        /\ q \notin crossed
        /\ q = p \/ pass'[q].at \notin {"write", "prune", "record"}
  BY <1>1 DEF Beside
<1>3. SeenIsLedger'
  BY <1>1, <1>2 DEF SeenIsLedger, ClaimsInv
<1>4. \A q \in Ingesters \ crossed' :
        pass'[q].at = "record" => FactsOf(pass'[q].seen[Doc(q)']) = {}
  BY <1>1, <1>2 DEF FactsOf
<1>5. Retracted'
  BY <1>4 DEF Retracted
<1>. QED
  BY <1>3, <1>5 DEF ClaimsInv

LEMMA PruneClaims ==
  ASSUME IngestInv, ClaimsInv, NEW p \in Ingesters, Prune(p)
  PROVE  ClaimsInv'
<1>1. /\ \A q \in Ingesters : q # p => pass'[q] = pass[q] /\ Doc(q)' = Doc(q)
      /\ pass[p].at = "prune" /\ pass'[p].at = "record" /\ crossed' = crossed
      /\ pass'[p].text = pass[p].text /\ pass'[p].seen = pass[p].seen
      /\ Doc(p)' = Doc(p) /\ ledger' = ledger
  BY PruneIs, SameTodoSameDoc DEF Tables
<1>2. \A e \in Current(graph') :
        /\ e \in Current(graph)
        /\ e.fact \in FactsOf(pass[p].seen[Doc(p)]) =>
             \/ e.fact \in FactsOf(pass[p].text)
             \/ \E d \in Docs \ {Doc(p)} : e.fact \in FactsOf(pass[p].seen[d])
  BY PruneIs
<1>3. SeenIsLedger'
  BY <1>1 DEF SeenIsLedger, ClaimsInv
<1>4. ASSUME NEW q \in Ingesters \ crossed', pass'[q].at = "record",
             NEW f \in Held(graph') \cap FactsOf(pass'[q].seen[Doc(q)'])
      PROVE  \/ f \in FactsOf(pass'[q].text)
             \/ \E d \in Docs \ {Doc(q)'} : f \in FactsOf(pass'[q].seen[d])
  <2>1. PICK e \in Current(graph') : e.fact = f /\ e.by = "document"
    BY DEF Held
  <2>2. f \in Held(graph)
    BY <1>2, <2>1 DEF Held
  <2>3. CASE q = p
    BY <1>1, <1>2, <1>4, <2>1, <2>3
  <2>4. CASE q # p
    BY <1>1, <1>4, <2>2, <2>4 DEF Retracted, ClaimsInv
  <2>. QED
    BY <2>3, <2>4
<1>5. Retracted'
  BY <1>4 DEF Retracted
<1>. QED
  BY <1>3, <1>5 DEF ClaimsInv

LEMMA RecordClaims ==
  ASSUME IngestInv, NEW p \in Ingesters, Record(p)
  PROVE  ClaimsInv'
<1>1. /\ \A q \in Ingesters : q # p => pass'[q] = pass[q]
      /\ pass'[p].at \in {"idle", "read"}
      /\ crossed' = (crossed \ {p}) \cup Beside(p)
  BY RecordIs
<1>2. \A q \in Ingesters \ crossed' : pass'[q].at \notin {"write", "prune", "record"}
  BY <1>1 DEF Beside
<1>. QED
  BY <1>2 DEF ClaimsInv, SeenIsLedger, Retracted

LEMMA StepsAre ==
  ASSUME [IngestNext \/ OthersStep]_ingestVars
  PROVE  QuietStep \/ \E p \in Ingesters : Write(p) \/ Prune(p) \/ Record(p)
BY DEF IngestNext, PassStep, QuietStep

\* Others change the graph, or a pass that writes or prunes.
LEMMA OthersOrPasses ==
  ASSUME [IngestNext \/ OthersStep]_ingestVars
  PROVE  OthersStep \/ (\E p \in Ingesters : Write(p) \/ Prune(p)) \/ graph' = graph
BY DEF IngestNext, PassStep, Edit, Index, SweepStarts, Read, Skip, LoadLedger, Record,
       Fails, Request, Crash, ingestVars, graphVars

LEMMA ClaimsNext ==
  ASSUME IngestInv, ClaimsInv, [IngestNext \/ OthersStep]_ingestVars
  PROVE  ClaimsInv'
<1>1. CASE QuietStep
  BY <1>1, QuietStepIs, QuietClaims
<1>2. CASE \E p \in Ingesters : Write(p) \/ Prune(p) \/ Record(p)
  BY <1>2, WriteClaims, PruneClaims, RecordClaims
<1>. QED
  BY <1>1, <1>2, StepsAre

LEMMA ClaimsInit == ASSUME IngestInit PROVE ClaimsInv
<1>1. \A p \in Ingesters : pass[p].at = "idle"
  BY IdleIsOk DEF IngestInit
<1>. QED
  BY <1>1 DEF ClaimsInv, SeenIsLedger, Retracted

\* A pass that no other has crossed works on the ledger as it is, and has ended
\* what it is about to take out of the ledger; whatever fails meanwhile.
THEOREM ClaimsInvHolds == IngestSpec => []ClaimsInv
<1>1. IngestInv /\ ClaimsInv /\ [IngestNext \/ OthersStep]_ingestVars => ClaimsInv'
  BY ClaimsNext
<1>. QED
  BY <1>1, ClaimsInit, IngestInvHolds, PTL DEF IngestSpec

-----------------------------------------------------------------------------
(* A fact that loses its last claim *)

\* A fact that a pass has stopped on, or a row replaced by a crossed pass.
Astray(f) ==
  \/ \E p \in Ingesters :
       /\ pass[p].at \in {"prune", "record"} /\ f \in FactsOf(pass[p].text)
       /\ Fails(p) \/ Crash
  \/ \E p \in crossed : Record(p) /\ f \in FactsOf(ledger[Doc(p)])

\* A claim stands while the ledger does, and no pass that makes it goes.
LEMMA ClaimStands ==
  ASSUME NEW f, Claimed(f), ledger' = ledger,
         \A p \in Ingesters :
           \/ pass'[p] = pass[p] \/ pass[p].at \notin {"prune", "record"}
           \/ f \notin FactsOf(pass[p].text)
  PROVE  Claimed(f)'
BY DEF Claimed

LEMMA QuietKeepsClaims ==
  ASSUME IngestInv, QuietStep, NEW f, Claimed(f)
  PROVE  Claimed(f)' \/ Astray(f)
<1>1. CASE UNCHANGED <<pass, ledger>>
  BY <1>1, ClaimStands
<1>2. CASE \/ \E d \in Docs, t \in Texts \cup {None} : Edit(d, t)
           \/ \E d \in Docs : Index(d)
           \/ OthersStep \/ UNCHANGED ingestVars
  BY <1>1, <1>2 DEF Edit, Index, OthersStep, ingestVars
<1>3. ASSUME NEW p \in Ingesters,
             SweepStarts(p) \/ Read(p) \/ Skip(p) \/ LoadLedger(p)
               \/ \E d \in Docs : Request(p, d)
      PROVE  Claimed(f)'
  <2>1. /\ ledger' = ledger /\ pass[p].at \notin {"prune", "record"}
        /\ \A q \in Ingesters : q # p => pass'[q] = pass[q]
    BY <1>3, SweepIs, RequestIs, ReadIs, SkipIs, LoadLedgerIs
       DEF IngestInv, LedgerType, OnlyPasses, Skip
  <2>. QED
    BY <2>1, ClaimStands
<1>4. ASSUME NEW p \in Ingesters, Fails(p) PROVE Claimed(f)' \/ Astray(f)
  <2>1. ledger' = ledger /\ \A q \in Ingesters : q # p => pass'[q] = pass[q]
    BY <1>4, FailsIs
  <2>2. CASE pass[p].at \in {"prune", "record"} /\ f \in FactsOf(pass[p].text)
    BY <1>4, <2>2 DEF Astray
  <2>3. CASE pass[p].at \notin {"prune", "record"} \/ f \notin FactsOf(pass[p].text)
    BY <2>1, <2>3, ClaimStands
  <2>. QED
    BY <2>2, <2>3
<1>5. ASSUME Crash PROVE Claimed(f)' \/ Astray(f)
  <2>1. ledger' = ledger
    BY <1>5, CrashIs
  <2>. QED
    BY <1>5, <2>1 DEF Claimed, Astray
<1>. QED
  BY <1>2, <1>3, <1>4, <1>5 DEF QuietStep

LEMMA WriteKeepsClaims ==
  ASSUME IngestInv, NEW p \in Ingesters, Write(p),
         NEW f \in Held(graph'), f \in Held(graph) => Claimed(f)
  PROVE  Claimed(f)'
<1>1. /\ \A q \in Ingesters : q # p => pass'[q] = pass[q]
      /\ pass[p].at = "write" /\ pass'[p].at \in {"prune", "record"}
      /\ pass'[p].text = pass[p].text /\ ledger' = ledger
  BY WriteIs DEF Tables
<1>2. PICK e \in Current(graph') : e.fact = f /\ e.by = "document"
  BY DEF Held
<1>3. e \in Current(graph) \/ f \in FactsOf(pass[p].text)
  BY <1>2, WriteIs
<1>4. CASE f \in FactsOf(pass[p].text)
  BY <1>1, <1>4 DEF Claimed
<1>5. CASE e \in Current(graph)
  <2>1. f \in Held(graph)
    BY <1>2, <1>5 DEF Held
  <2>. QED
    BY <1>1, <2>1, ClaimStands
<1>. QED
  BY <1>3, <1>4, <1>5

LEMMA PruneKeepsClaims ==
  ASSUME IngestInv, NEW p \in Ingesters, Prune(p), NEW f, Claimed(f)
  PROVE  Claimed(f)'
<1>1. /\ \A q \in Ingesters : q # p => pass'[q] = pass[q]
      /\ pass'[p].at = "record" /\ pass'[p].text = pass[p].text /\ ledger' = ledger
  BY PruneIs DEF Tables
<1>. QED
  BY <1>1 DEF Claimed

\* The row takes the place of one whose claims are retracted, or are made by
\* this text or by another document.
LEMMA RecordKeepsClaims ==
  ASSUME IngestInv, ClaimsInv, NEW p \in Ingesters, Record(p),
         NEW f \in Held(graph), Claimed(f)
  PROVE  Claimed(f)' \/ Astray(f)
<1>1. /\ \A q \in Ingesters : q # p => pass'[q] = pass[q]
      /\ pass[p].at = "record"
      /\ \A d \in Docs : ledger'[d] = IF d = Doc(p) THEN pass[p].text ELSE ledger[d]
  BY RecordIs
<1>2. Doc(p) \in Docs
  BY <1>1, TheDoc DEF IngestInv
<1>3. CASE f \in FactsOf(pass[p].text)
  BY <1>1, <1>2, <1>3 DEF Claimed
<1>4. ASSUME NEW q \in Ingesters \ {p}, pass[q].at \in {"prune", "record"},
             f \in FactsOf(pass[q].text)
      PROVE  Claimed(f)'
  BY <1>1, <1>4 DEF Claimed
<1>5. ASSUME NEW d \in Docs \ {Doc(p)}, f \in FactsOf(ledger[d]) PROVE Claimed(f)'
  BY <1>1, <1>5 DEF Claimed
<1>6. CASE f \in FactsOf(ledger[Doc(p)])
  <2>1. CASE p \in crossed
    BY <1>6, <2>1 DEF Astray
  <2>2. CASE p \notin crossed
    <3>1. pass[p].seen = ledger
      BY <1>1, <2>2 DEF ClaimsInv, SeenIsLedger
    <3>2. \/ f \in FactsOf(pass[p].text)
          \/ \E d \in Docs \ {Doc(p)} : f \in FactsOf(ledger[d])
      BY <1>1, <1>6, <2>2, <3>1 DEF ClaimsInv, Retracted
    <3>. QED
      BY <3>2, <1>3, <1>5
  <2>. QED
    BY <2>1, <2>2
<1>. QED
  BY <1>3, <1>4, <1>5, <1>6 DEF Claimed

\* The revision rule on retraction, beside failures, crashes and other passes:
\* whatever takes the last claim on a fact that holds retracts it, but for a
\* pass that stops before its row and one that another has crossed.
THEOREM ClaimsRetract == IngestSpec => RetractedWithItsClaim
<1>1. ASSUME IngestInv, ClaimsInv, [IngestNext \/ OthersStep]_ingestVars,
             NEW f \in Held(graph'), f \in Held(graph) => Claimed(f)
      PROVE  Claimed(f)' \/ Astray(f)
  <2>1. CASE QuietStep
    <3>1. f \in Held(graph)
      BY <1>1, <2>1, QuietStepIs, HeldFrom DEF Quiet
    <3>. QED
      BY <1>1, <2>1, <3>1, QuietKeepsClaims
  <2>2. ASSUME NEW p \in Ingesters, Write(p) PROVE Claimed(f)'
    BY <1>1, <2>2, WriteKeepsClaims
  <2>3. ASSUME NEW p \in Ingesters, Prune(p) PROVE Claimed(f)'
    <3>1. f \in Held(graph)
      BY <1>1, <2>3, PruneIs DEF Held
    <3>. QED
      BY <1>1, <2>3, <3>1, PruneKeepsClaims
  <2>4. ASSUME NEW p \in Ingesters, Record(p) PROVE Claimed(f)' \/ Astray(f)
    <3>1. f \in Held(graph)
      BY <1>1, <2>4, RecordIs DEF graphVars
    <3>. QED
      BY <1>1, <2>4, <3>1, RecordKeepsClaims
  <2>. QED
    BY <1>1, <2>1, <2>2, <2>3, <2>4, StepsAre
<1>2. IngestInv /\ ClaimsInv /\ [IngestNext \/ OthersStep]_ingestVars =>
        \A f \in Facts :
          f \in Held(graph') /\ (f \in Held(graph) => Claimed(f)) =>
            \/ Claimed(f)'
            \/ \E p \in Ingesters :
                 /\ pass[p].at \in {"prune", "record"} /\ f \in FactsOf(pass[p].text)
                 /\ Fails(p) \/ Crash
            \/ \E p \in crossed : Record(p) /\ f \in FactsOf(ledger[Doc(p)])
  BY <1>1 DEF Astray
<1>. QED
  BY <1>2, IngestInvHolds, ClaimsInvHolds, PTL DEF IngestSpec, RetractedWithItsClaim

\* What a prune must not take, passes overlapping or not: it ends no fact and
\* unlearns no name that the ledger, as its pass read it, gives to another
\* document.
THEOREM ReadClaimsSurvive ==
  IngestSpec =>
    [][\A p \in Ingesters : Prune(p) =>
         \A d \in Docs \ {Doc(p)} :
           /\ {e \in Current(graph) : e.fact \in FactsOf(pass[p].seen[d])} \subseteq graph'.edges
           /\ \A n \in NamesOf(pass[p].seen[d]) :
                Resolved(graph, n) # None => Resolved(graph', n) # None]_ingestVars
<1>1. ASSUME IngestInv, NEW p \in Ingesters, Prune(p), NEW d \in Docs \ {Doc(p)}
      PROVE  /\ {e \in Current(graph) : e.fact \in FactsOf(pass[p].seen[d])} \subseteq graph'.edges
             /\ \A n \in NamesOf(pass[p].seen[d]) :
                  Resolved(graph, n) # None => Resolved(graph', n) # None
  <2>1. \A e \in Current(graph) :
          e.fact \in FactsOf(pass[p].seen[d]) => e \in Current(graph')
    BY <1>1, PruneIs
  <2>2. \A n \in NamesOf(pass[p].seen[d]) :
          Resolved(graph, n) # None => Resolved(graph', n) # None
    BY <1>1, PruneIs
  <2>. QED
    BY <2>1, <2>2 DEF Current
<1>2. IngestInv =>
        \A p \in Ingesters : Prune(p) =>
          \A d \in Docs \ {Doc(p)} :
            /\ {e \in Current(graph) : e.fact \in FactsOf(pass[p].seen[d])} \subseteq graph'.edges
            /\ \A n \in NamesOf(pass[p].seen[d]) :
                 Resolved(graph, n) # None => Resolved(graph', n) # None
  BY <1>1
<1>. QED
  BY <1>2, IngestInvHolds, PTL DEF IngestSpec

\* The revision rule on what others claim, beside failures, crashes and other
\* passes: a prune takes nothing that another document's row states, unless that
\* row has changed since the pass read the ledger.
THEOREM OthersClaims == IngestSpec => OthersClaimsSurvive
<1>1. ASSUME IngestInv, NEW p \in Ingesters, Prune(p), NEW d \in Docs \ {Doc(p)},
             ledger[d] = pass[p].seen[d]
      PROVE  /\ {e \in Current(graph) : e.fact \in FactsOf(ledger[d])} \subseteq graph'.edges
             /\ \A n \in NamesOf(ledger[d]) :
                  Resolved(graph, n) # None => Resolved(graph', n) # None
  <2>1. \A e \in Current(graph) : e.fact \in FactsOf(ledger[d]) => e \in Current(graph')
    BY <1>1, PruneIs
  <2>2. \A n \in NamesOf(ledger[d]) : Resolved(graph, n) # None => Resolved(graph', n) # None
    BY <1>1, PruneIs
  <2>. QED
    BY <2>1, <2>2 DEF Current
<1>2. IngestInv =>
        \A p \in Ingesters : Prune(p) =>
          \A d \in Docs \ {Doc(p)} : ledger[d] = pass[p].seen[d] =>
            /\ {e \in Current(graph) : e.fact \in FactsOf(ledger[d])} \subseteq graph'.edges
            /\ \A n \in NamesOf(ledger[d]) :
                 Resolved(graph, n) # None => Resolved(graph', n) # None
  BY <1>1
<1>. QED
  BY <1>2, IngestInvHolds, PTL DEF IngestSpec, OthersClaimsSurvive

\* resolve_entity_in and add_alias_in: a name that leads to an entity leads to
\* one until an entity is deleted, and no extraction changes to which.
THEOREM NamesKnown == IngestSpec => NamesStayKnown
<1>1. ASSUME IngestInv, [IngestNext \/ OthersStep]_ingestVars,
             NEW n \in Names, Resolved(graph, n) # None, Resolved(graph', n) # Resolved(graph, n)
      PROVE  /\ \A p \in Ingesters : ~Write(p)
             /\ \A x \in Extractions, at \in Instants : ~Extract(x, at)
             /\ Resolved(graph', n) = None =>
                  (\E i \in Ids : DeleteEntity(i)) \/ (\E p \in Ingesters : Prune(p))
  <2>1. ASSUME NEW p \in Ingesters, Write(p) PROVE Resolved(graph', n) = Resolved(graph, n)
    BY <1>1, <2>1, WriteIs DEF Keeps
  <2>2. ASSUME NEW x \in Extractions, NEW at \in Instants, Extract(x, at)
        PROVE  Resolved(graph', n) = Resolved(graph, n)
    BY <1>1, <2>2, ExtractIs DEF Keeps, IngestInv
  <2>3. CASE graph' = graph
    BY <1>1, <2>3
  <2>4. ASSUME OthersStep, Resolved(graph', n) = None PROVE \E i \in Ids : DeleteEntity(i)
    BY <1>1, <2>4, NamesUnderGraphNext DEF OthersStep, IngestInv
  <2>5. OthersStep \/ (\E p \in Ingesters : Write(p) \/ Prune(p)) \/ graph' = graph
    BY <1>1, OthersOrPasses
  <2>. QED
    BY <1>1, <2>1, <2>2, <2>3, <2>4, <2>5
<1>2. IngestInv /\ [IngestNext \/ OthersStep]_ingestVars =>
        \A n \in Names : Resolved(graph, n) \notin {None, Resolved(graph', n)} =>
          /\ \A p \in Ingesters : ~Write(p)
          /\ \A x \in Extractions, at \in Instants : ~Extract(x, at)
          /\ Resolved(graph', n) = None =>
               (\E i \in Ids : DeleteEntity(i)) \/ (\E p \in Ingesters : Prune(p))
  BY <1>1
<1>. QED
  BY <1>2, IngestInvHolds, PTL DEF IngestSpec, NamesStayKnown

\* upsert_fact_in: the same session again says nothing new, in whatever state
\* people, merges, other sessions and passes left the graph, and touches no row of
\* a relation that has a family.
LEMMA NothingNew ==
  ASSUME GraphInv
  PROVE  ReExtractionSaysNothingNew
<1>. SUFFICES ASSUME NEW x \in Extractions, OneTextPerRelation(x)
              PROVE  LET once == Extracted(graph, x, now, "session")
                         twice == Extracted(once, x, now, "session")
                     IN  /\ Statements(twice) = Statements(once)
                         /\ FamilyRows(twice) = FamilyRows(once)
  BY DEF ReExtractionSaysNothingNew
<1>1. x \in ExtractionType /\ "session" \in Writers
  BY GraphAssumption DEF Writers
<1>2. Coherent(x.facts)
  BY DEF Coherent, OneTextPerRelation
<1>3. SayTheSame(Extracted(graph, x, now, "session"),
                 Extracted(Extracted(graph, x, now, "session"), x, now, "session"))
  BY <1>1, <1>2, ExtractedTwice DEF GraphInv
<1>. QED
  BY <1>3 DEF SayTheSame

\* For every extraction and beside the passes.
THEOREM ReExtraction == IngestSpec => []ReExtractionSaysNothingNew
<1>1. IngestInv => ReExtractionSaysNothingNew
  BY NothingNew DEF IngestInv
<1>. QED
  BY <1>1, IngestInvHolds, PTL

\* And in the graph by itself.
THEOREM ReExtractionInTheGraph == GraphSpec => []ReExtractionSaysNothingNew
BY NothingNew, GraphInvHolds, PTL

\* Migration 0005, "edges are invalidated, never deleted": whatever is extracted,
\* stated by hand, superseded and merged, every fact stays in the table with the
\* end it was given; one goes only with an entity at its end that is deleted.
THEOREM History == GraphSpec => HistoryIsKept
<1>1. ASSUME GraphInv, [GraphNext]_graphVars, \A i \in Ids : ~DeleteEntity(i)
      PROVE  KeepsHistory(graph, graph')
  <2>1. CASE GraphNext
    BY <1>1, <2>1, HistoryUnderGraphNext
  <2>2. CASE graph' = graph
    BY <2>2 DEF KeepsHistory, StaysIn
  <2>. QED
    BY <1>1, <2>1, <2>2 DEF graphVars
<1>2. GraphInv /\ [GraphNext]_graphVars =>
        ((\A i \in Ids : ~DeleteEntity(i)) =>
           \A e \in graph.edges : \E h \in graph'.edges :
             /\ h.id = e.id /\ h.rel = e.rel /\ h.fact = e.fact /\ h.valid = e.valid
             /\ e.invalid # None => h.invalid = e.invalid)
  BY <1>1 DEF KeepsHistory, StaysIn
<1>. QED
  BY <1>2, GraphInvHolds, PTL DEF GraphSpec, HistoryIsKept

\* The same beside the passes, which delete entities of their own: an edge
\* leaves the table only in a deletion or a prune that takes one of its ends.
THEOREM HistoryBesidePasses ==
  IngestSpec =>
    [][\A e \in graph.edges :
         \/ StaysIn(e, graph')
         \/ /\ (\E i \in Ids : DeleteEntity(i)) \/ (\E p \in Ingesters : Prune(p))
            /\ ~({e.src, e.dst} \subseteq DOMAIN graph'.entity)]_ingestVars
<1>1. ASSUME IngestInv, [IngestNext \/ OthersStep]_ingestVars, NEW e \in graph.edges
      PROVE  \/ StaysIn(e, graph')
             \/ /\ (\E i \in Ids : DeleteEntity(i)) \/ (\E p \in Ingesters : Prune(p))
                /\ ~({e.src, e.dst} \subseteq DOMAIN graph'.entity)
  <2>1. CASE graph' = graph
    BY <2>1 DEF StaysIn
  <2>2. CASE OthersStep
    BY <1>1, <2>2, HistoryUnderGraphNext DEF OthersStep, IngestInv, KeepsHistory
  <2>3. ASSUME NEW p \in Ingesters, Write(p) PROVE StaysIn(e, graph')
    BY <1>1, <2>3, WriteIs DEF KeepsHistory
  <2>4. ASSUME NEW p \in Ingesters, Prune(p), {e.src, e.dst} \subseteq DOMAIN graph'.entity
        PROVE  StaysIn(e, graph')
    BY <1>1, <2>4, PruneIs
  <2>5. OthersStep \/ (\E p \in Ingesters : Write(p) \/ Prune(p)) \/ graph' = graph
    BY <1>1, OthersOrPasses
  <2>. QED
    BY <2>1, <2>2, <2>3, <2>4, <2>5
<1>2. IngestInv /\ [IngestNext \/ OthersStep]_ingestVars =>
        \A e \in graph.edges :
          \/ StaysIn(e, graph')
          \/ /\ (\E i \in Ids : DeleteEntity(i)) \/ (\E p \in Ingesters : Prune(p))
             /\ ~({e.src, e.dst} \subseteq DOMAIN graph'.entity)
  BY <1>1
<1>. QED
  BY <1>2, IngestInvHolds, PTL DEF IngestSpec
====
