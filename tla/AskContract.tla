---------------------------- MODULE AskContract ----------------------------
(***************************************************************************)
(* What the permission cascade promises about one ask of an agent: it is   *)
(* settled at most once, with an option it offered (or a plain no), and by *)
(* somebody entitled to it.  Cancelling is always allowed: the cascade     *)
(* fails closed.                                                           *)
(***************************************************************************)
CONSTANTS Asks, Deciders, Options

VARIABLES
  state,     \* state[a]: "none", "waiting", "answered" or "cancelled"
  answer,    \* answer[a]: who settled a, and with which option
  entitled,  \* entitled[a]: who may settle a
  offered    \* offered[a]: the options a came with

contractVars == <<state, answer, entitled, offered>>

NoAnswer == [by |-> "nobody", pick |-> "none"]

Init ==
  /\ state = [a \in Asks |-> "none"]
  /\ answer = [a \in Asks |-> NoAnswer]
  /\ entitled = [a \in Asks |-> {}]
  /\ offered = [a \in Asks |-> {}]

\* The agent asks; an ask nobody listens to any more is cancelled on the spot.
Raise(a) ==
  /\ state[a] = "none"
  /\ \E s \in {"waiting", "cancelled"} : state' = [state EXCEPT ![a] = s]
  /\ \E who \in SUBSET Deciders : entitled' = [entitled EXCEPT ![a] = who]
  /\ \E some \in SUBSET Options : offered' = [offered EXCEPT ![a] = some]
  /\ UNCHANGED answer

\* d answers a.
Settle(a, d) ==
  /\ state[a] = "waiting"
  /\ d \in entitled[a]
  /\ \E pick \in offered[a] \cup {"cancel"} :
       answer' = [answer EXCEPT ![a] = [by |-> d, pick |-> pick]]
  /\ state' = [state EXCEPT ![a] = "answered"]
  /\ UNCHANGED <<entitled, offered>>

\* The senders of these asks are dropped: their agents read a cancellation.
Drop(asks) ==
  /\ \A a \in asks : state[a] = "waiting"
  /\ state' = [a \in Asks |-> IF a \in asks THEN "cancelled" ELSE state[a]]
  /\ UNCHANGED <<answer, entitled, offered>>

Next ==
  \/ \E a \in Asks : Raise(a) \/ \E d \in Deciders : Settle(a, d)
  \/ \E asks \in SUBSET Asks : Drop(asks)

Spec == Init /\ [][Next]_contractVars
=============================================================================
