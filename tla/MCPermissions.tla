--------------------------- MODULE MCPermissions ---------------------------
(* Small instances of the permission cascade. *)
EXTENDS Permissions, TLC

CONSTANTS plain, risky, ruled, banned   \* titles

AllTitles == {plain, risky, ruled, banned}

\* The second rule also matches what the first one rejects.
TwoRules == << [matches |-> {banned}, action |-> "Reject"],
               [matches |-> {ruled, banned}, action |-> "Allow"] >>

NoRules == <<>>

BothOptions == {{"allow", "reject"}}
SomeOptions == {{"allow", "reject"}, {"reject"}}

AskSymmetry == Permutations(Asks) \cup Permutations(ToolCalls)
=============================================================================
