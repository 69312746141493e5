---------------------------- MODULE MCGraphIngest ----------------------------
(* Two names and a few documents about them.  One text states a fact of the   *)
(* two and an alias of the first; one states two names, the alias and the     *)
(* second; one is blank.  A session may state what the first text does.       *)
EXTENDS GraphIngest

CONSTANTS uses, runs, likes, must, f1, f2, t1, t2, blank, doc1, doc2

\* The documents are told apart by their texts only.
Interchangeable == Permutations(Docs)

\* Two relations of one family, one of none, and one that is refused.
NoFamily == {likes, must}
Family == [r \in Relations |-> IF r \in NoFamily THEN None ELSE 1]

Entity(n, aliases) == [name |-> n, aliases |-> aliases]
States(f) == <<[src |-> 1, dst |-> 2, rel |-> uses, fact |-> f]>>

Yields ==
  (t1 :> [entities |-> <<Entity(1, {3}), Entity(2, {})>>, facts |-> States(f1)])
    @@ (t2 :> [entities |-> <<Entity(3, {}), Entity(2, {})>>, facts |-> <<>>])
    @@ (blank :> [entities |-> <<>>, facts |-> <<>>])

Likes(f) == <<[src |-> 1, dst |-> 2, rel |-> likes, fact |-> f]>>

Sessions ==
  {[entities |-> <<Entity(1, {}), Entity(2, {})>>, facts |-> States(f1) \o Likes(f2)]}

Alike == {<<2, 3>>, <<3, 2>>}

ByHand == {[rel |-> runs, fact |-> f2]}
=============================================================================
