----------------------------- MODULE MCRunEvents -----------------------------
(***************************************************************************)
(* RunEvents for TLC: a run with three events and one without any, which   *)
(* share the channel; a client watches either.                             *)
(***************************************************************************)
EXTENDS RunEvents

CONSTANTS Watched, Other

TwoRuns == {Watched, Other}
LinesOf == [r \in TwoRuns |-> IF r = Watched THEN 3 ELSE 0]
==============================================================================
