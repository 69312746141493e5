--------------------------- MODULE MCDistillation ---------------------------
(* A small instance of the memory table and of a pass that fills it: three  *)
(* interchangeable facts of one scope, and one that may not be written.     *)
EXTENDS Distillation, TLC

CONSTANTS f1, f2, f3, banned, p1

OneScope == [f \in Facts |-> 1]
OneSession == [p \in Passes |-> 1]
Plain == Facts \ Forbidden
Lists == {<<>>} \cup {<<banned, f>> : f \in Plain}
Interchangeable == Permutations(Plain)
=============================================================================
