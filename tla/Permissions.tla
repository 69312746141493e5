---------------------------- MODULE Permissions ----------------------------
(***************************************************************************)
(* The permission cascade (crates/policy/src/lib.rs, PermissionPolicy;     *)
(* crates/acp/src/run.rs and chat.rs, the request_permission handlers;     *)
(* crates/daemon/src/runs.rs, the ask arm of supervise, run_approver,      *)
(* resolve_internal, park_external_ask, drop_pending_for;                  *)
(* crates/daemon/src/api.rs, resolve_permission).                          *)
(*                                                                         *)
(* Agents ask from runs and from chats.  An ask travels through a channel  *)
(* to the supervisor of its run, which consults the policy, or to the      *)
(* forwarder of its chat.  What no rule settles is parked in one inbox,    *)
(* keyed by context and tool call.  Humans and approver runs decide from a *)
(* copy of an entry and settle by key, later.  Every run here has the same *)
(* harness: runs and approver runs share the permits of one gate, which    *)
(* RunGate describes in full.                                              *)
(***************************************************************************)
EXTENDS Integers, Sequences, FiniteSets

CONSTANTS
  Runs, Chats,       \* the contexts an agent can ask from
  Approving,         \* the runs whose agent is the approver
  HasApprover,       \* whether [permissions.approver] is configured
  ToolCalls,         \* tool call ids, chosen by the agents
  Titles,            \* tool titles
  Rules, Default,    \* [permissions]: the rules in order, and the default
  HighRisk,          \* titles the approver may not decide
  Asks,              \* bound: the asks raised in a behaviour
  Offers,            \* the sets of option kinds an ask may come with
  Humans,            \* people at the inbox
  PerHarness,        \* permits of the gate
  UniqueToolCalls,   \* whether an agent asks at most once per tool call
  Reliable,          \* whether approver runs start, finish in time, and reply
  None

Actions == {"Allow", "Reject", "Ask"}

Contexts == Runs \cup Chats
Deciders == Humans \cup Asks   \* run_approver's task for ask a is decider a

\* An ask: where it comes from, and the kinds of option it offers.  An option id
\* is identified with its kind.
Requests == [ctx : Contexts, call : ToolCalls, title : Titles, offers : Offers]

ASSUME PermissionsAssumption ==
  /\ Runs \cap Chats = {} /\ Humans \cap Asks = {}
  /\ Approving \subseteq Runs /\ HighRisk \subseteq Titles
  /\ Rules \in Seq([matches : SUBSET Titles, action : Actions])
  /\ Default \in Actions
  /\ Offers \subseteq SUBSET {"allow", "reject"}
  /\ PerHarness \in Nat \ {0}
  /\ {HasApprover, UniqueToolCalls, Reliable} \subseteq BOOLEAN
  /\ None \notin Asks \cup Requests
  /\ IsFiniteSet(Asks)

VARIABLES
  phase,    \* phase[c]: how far the run or chat c is
  talking,  \* contexts whose ACP connection is up: it asks, and hears answers
  req,      \* req[a]: what the agent asked
  channel,  \* channel[c]: asks sent by the connection and not yet received
  pending,  \* pending[c, t]: the ask parked in the inbox under that key
  state,    \* state[a]: what the oneshot of a has come to
  answer,   \* answer[a]: who answered a, with which option
  trace,    \* trace[a]: the PermissionResolved event in a run's transcript
  hand,     \* hand[d]: the decision d is about to apply
  task,     \* task[a]: the run_approver task for ask a
  run,      \* run[a]: the approver run that task launched
  verdict   \* verdict[a]: what that run replied

vars == <<phase, talking, req, channel, pending, state, answer, trace, hand,
          task, run, verdict>>
approverVars == <<task, run, verdict>>

Nobody == [by |-> "nobody", pick |-> "none"]
Idle   == [step |-> "idle", meant |-> None, got |-> None, pick |-> "none"]

Kinds == {"allow", "reject"}
Picks == Kinds \cup {"cancel"}

\* queued, live, draining and left are the gate, the select! loop before and
\* after the end of the driver, and the code after it; a chat is closing from
\* its removal from the registry until its asks are dropped.
TypeOK ==
  /\ phase \in [Contexts -> {"queued", "live", "draining", "left", "closing", "closed"}]
  /\ talking \subseteq Contexts
  /\ req \in [Asks -> Requests \cup {None}]
  /\ channel \in [Contexts -> Seq(Asks)]
  /\ pending \in [Contexts \X ToolCalls -> Asks \cup {None}]
  /\ state \in [Asks -> {"none", "waiting", "answered", "cancelled"}]
  /\ answer \in [Asks -> [by : {"rule", "approver", "human"}, pick : Picks] \cup {Nobody}]
  /\ trace \in [Asks -> [by : {"rule", "approver", "human"}, pick : Kinds] \cup {Nobody}]
  /\ hand \in [Deciders -> [step : {"decided", "taken"}, meant : Asks,
                            got : Asks \cup {None}, pick : Picks] \cup {Idle}]
  /\ task \in [Asks -> {"none", "asked", "waiting", "ended"}]
  /\ run \in [Asks -> {"none", "queued", "live", "ended"}]
  /\ verdict \in [Asks -> {"none", "allow", "reject", "unclear"}]

Init ==
  /\ phase = [c \in Contexts |-> IF c \in Runs THEN "queued" ELSE "live"]
  /\ talking = Chats
  /\ req = [a \in Asks |-> None]
  /\ channel = [c \in Contexts |-> <<>>]
  /\ pending = [k \in Contexts \X ToolCalls |-> None]
  /\ state = [a \in Asks |-> "none"]
  /\ answer = [a \in Asks |-> Nobody]
  /\ trace = [a \in Asks |-> Nobody]
  /\ hand = [d \in Deciders |-> Idle]
  /\ task = [a \in Asks |-> "none"]
  /\ run = [a \in Asks |-> "none"]
  /\ verdict = [a \in Asks |-> "none"]

-----------------------------------------------------------------------------
(* The policy *)

\* First matching rule wins, else the default.
Decide(title) ==
  LET hits == {i \in DOMAIN Rules : title \in Rules[i].matches}
  IN  IF hits = {} THEN Default
      ELSE Rules[CHOOSE i \in hits : \A j \in hits : i <= j].action

\* Mutated form: high-risk titles are delegated too.
PathForgetsRisk(c, title) ==
  IF Decide(title) # "Ask" THEN "Auto"
  ELSE IF HasApprover /\ c \notin Approving THEN "Delegate" ELSE "Human"

\* Mutated form: the approver decides what its own runs ask.
PathForgetsWhoAsks(c, title) ==
  IF Decide(title) # "Ask" THEN "Auto"
  ELSE IF HasApprover /\ title \notin HighRisk THEN "Delegate" ELSE "Human"

\* Who decides an ask of a run for this title.
Path(c, title) ==
  IF Decide(title) # "Ask" THEN "Auto"
  ELSE IF HasApprover /\ title \notin HighRisk /\ c \notin Approving
         THEN "Delegate" ELSE "Human"

\* The option kind a rule's action selects; without such an option it cancels.
RulePick(a) ==
  LET wanted == IF Decide(req[a].title) = "Allow" THEN "allow" ELSE "reject"
  IN  IF wanted \in req[a].offers THEN wanted ELSE "cancel"

Key(a) == <<req[a].ctx, req[a].call>>
AsksOf(c) == {a \in Asks : req[a] # None /\ req[a].ctx = c}
InChannel(c) == {channel[c][i] : i \in DOMAIN channel[c]}
Parked(c) == {pending[k] : k \in {c} \X ToolCalls} \ {None}

\* The oneshot of these asks loses its sender or its receiver: whoever still
\* listens reads a cancellation.
CancelAll(asks) ==
  state' = [a \in Asks |-> IF a \in asks /\ state[a] = "waiting"
                             THEN "cancelled" ELSE state[a]]

\* Send an answer; the send fails when the receiver is gone.
Send(a, by, pick) ==
  IF state[a] = "waiting"
    THEN /\ state' = [state EXCEPT ![a] = "answered"]
         /\ answer' = [answer EXCEPT ![a] = [by |-> by, pick |-> pick]]
    ELSE UNCHANGED <<state, answer>>

\* Mutated form: the transcript stops with the driver.
RecordWhileLive(a, by, kind) ==
  IF req[a].ctx \in Runs /\ phase[req[a].ctx] = "live"
    THEN trace' = [trace EXCEPT ![a] = [by |-> by, pick |-> kind]]
    ELSE UNCHANGED trace

\* PermissionResolved for a: the transcript takes it while the supervisor of the
\* run still reads its events; a chat's entry carries a dead channel.
Record(a, by, kind) ==
  IF req[a].ctx \in Runs /\ phase[req[a].ctx] \in {"live", "draining"}
    THEN trace' = [trace EXCEPT ![a] = [by |-> by, pick |-> kind]]
    ELSE UNCHANGED trace

-----------------------------------------------------------------------------
(* The agent's side: run_once, start_chat *)

\* The request_permission handler: the ask goes to the daemon, and is cancelled
\* at once when nobody receives any more.
Raise(a) ==
  /\ state[a] = "none"
  /\ \E r \in Requests :
       /\ r.ctx \in talking
       /\ UniqueToolCalls => \A b \in AsksOf(r.ctx) : req[b].call # r.call
       /\ req' = [req EXCEPT ![a] = r]
       /\ IF r.ctx \in Runs /\ phase[r.ctx] = "closed"
            THEN /\ state' = [state EXCEPT ![a] = "cancelled"]
                 /\ UNCHANGED channel
            ELSE /\ state' = [state EXCEPT ![a] = "waiting"]
                 /\ channel' = [channel EXCEPT ![r.ctx] = Append(@, a)]
  /\ UNCHANGED <<phase, talking, pending, answer, trace, hand, approverVars>>

\* The connection goes down, and with it the receivers of its asks.
HangUp(c) ==
  /\ c \in talking
  /\ talking' = talking \ {c}
  /\ CancelAll(AsksOf(c))

\* The driver of a run ends by itself: its prompt is answered or it fails.
DriverEnds(r) ==
  /\ phase[r] = "live"
  /\ HangUp(r)
  /\ phase' = [phase EXCEPT ![r] = "draining"]
  /\ UNCHANGED <<req, channel, pending, answer, trace, hand, approverVars>>

\* An aborted driver is dropped at its next await, whatever its supervisor does.
DriverDrops(r) ==
  /\ phase[r] \in {"draining", "left", "closed"}
  /\ HangUp(r)
  /\ UNCHANGED <<phase, req, channel, pending, answer, trace, hand, approverVars>>

\* A chat session ends: on Shutdown, or because its agent died.
SessionEnds(c) ==
  /\ HangUp(c)
  /\ UNCHANGED <<phase, req, channel, pending, answer, trace, hand, approverVars>>

-----------------------------------------------------------------------------
(* The gate, and the supervisor of a run *)

Permits == {r \in Runs : phase[r] \in {"live", "draining", "left"}}
             \cup {a \in Asks : run[a] = "live"}
FreePermit == Cardinality(Permits) < PerHarness

\* The run gets a permit and its driver is spawned.
Admit(r) ==
  /\ phase[r] = "queued" /\ FreePermit
  /\ phase' = [phase EXCEPT ![r] = "live"]
  /\ talking' = talking \cup {r}
  /\ UNCHANGED <<req, channel, pending, state, answer, trace, hand, approverVars>>

\* cancel_run: the supervisor aborts the driver and starts to drain.
CancelRun(r) ==
  /\ phase[r] = "live"
  /\ phase' = [phase EXCEPT ![r] = "draining"]
  /\ UNCHANGED <<talking, req, channel, pending, state, answer, trace, hand, approverVars>>

\* insert into the inbox: an older entry under the key is dropped, sender and all.
Park(a) ==
  /\ pending' = [pending EXCEPT ![Key(a)] = a]
  /\ CancelAll({pending[Key(a)]} \ {None})

Receive(c) == channel[c] # <<>> /\ channel' = [channel EXCEPT ![c] = Tail(@)]

\* The ask arm of the select! loop; the three ways are those of Path.
HandleAuto(r) ==
  LET a == Head(channel[r]) IN
  /\ phase[r] \in {"live", "draining"} /\ Receive(r)
  /\ Path(r, req[a].title) = "Auto"
  /\ Send(a, "rule", RulePick(a))
  /\ IF RulePick(a) = "cancel" THEN UNCHANGED trace
                               ELSE Record(a, "rule", RulePick(a))
  /\ UNCHANGED <<phase, talking, req, pending, hand, approverVars>>

\* Mutated form: nobody asks the approver.
HandleDelegateParksOnly(r) ==
  LET a == Head(channel[r]) IN
  /\ phase[r] \in {"live", "draining"} /\ Receive(r)
  /\ Path(r, req[a].title) = "Delegate"
  /\ Park(a)
  /\ UNCHANGED <<phase, talking, req, answer, trace, hand, approverVars>>

HandleDelegate(r) ==
  LET a == Head(channel[r]) IN
  /\ phase[r] \in {"live", "draining"} /\ Receive(r)
  /\ Path(r, req[a].title) = "Delegate"
  /\ Park(a)
  /\ task' = [task EXCEPT ![a] = "asked"]
  /\ UNCHANGED <<phase, talking, req, answer, trace, hand, run, verdict>>

HandleHuman(r) ==
  LET a == Head(channel[r]) IN
  /\ phase[r] \in {"live", "draining"} /\ Receive(r)
  /\ Path(r, req[a].title) = "Human"
  /\ Park(a)
  /\ UNCHANGED <<phase, talking, req, answer, trace, hand, approverVars>>

\* Mutated form: the loop waits for the asks it parked.
LoopEndsWhenSettled(r) ==
  /\ phase[r] = "draining" /\ channel[r] = <<>> /\ Parked(r) = {}
  /\ phase' = [phase EXCEPT ![r] = "left"]
  /\ UNCHANGED <<talking, req, channel, pending, state, answer, trace, hand, approverVars>>

\* The drained loop is left.
LoopEnds(r) ==
  /\ phase[r] = "draining" /\ channel[r] = <<>>
  /\ phase' = [phase EXCEPT ![r] = "left"]
  /\ UNCHANGED <<talking, req, channel, pending, state, answer, trace, hand, approverVars>>

\* pending.retain, then the supervisor returns: the inbox forgets the asks of
\* the run, the receiver of its channel is dropped, the permit is released.
RunCloses(r) ==
  /\ phase[r] = "left"
  /\ phase' = [phase EXCEPT ![r] = "closed"]
  /\ pending' = [k \in DOMAIN pending |-> IF k[1] = r THEN None ELSE pending[k]]
  /\ channel' = [channel EXCEPT ![r] = <<>>]
  /\ CancelAll(Parked(r) \cup InChannel(r))
  /\ UNCHANGED <<talking, req, answer, trace, hand, approverVars>>

-----------------------------------------------------------------------------
(* The chats *)

\* The forwarder task parks whatever the channel still holds; no rule is asked.
Forward(c) ==
  /\ Receive(c)
  /\ Park(Head(channel[c]))
  /\ UNCHANGED <<phase, talking, req, answer, trace, hand, approverVars>>

\* close: the chat leaves the registry and its session is told to shut down ...
CloseChat(c) ==
  /\ phase[c] = "live"
  /\ phase' = [phase EXCEPT ![c] = "closing"]
  /\ UNCHANGED <<talking, req, channel, pending, state, answer, trace, hand, approverVars>>

\* ... and drop_pending_for drops the asks parked for it.
DropAsks(c) ==
  /\ phase[c] = "closing"
  /\ phase' = [phase EXCEPT ![c] = "closed"]
  /\ pending' = [k \in DOMAIN pending |-> IF k[1] = c THEN None ELSE pending[k]]
  /\ CancelAll(Parked(c))
  /\ UNCHANGED <<talking, req, channel, answer, trace, hand, approverVars>>

-----------------------------------------------------------------------------
(* The deciders *)

\* resolve_permission (HTTP): the answer is made from a copy of the entry.
HumanDecides(h) ==
  /\ hand[h] = Idle
  /\ \E k \in DOMAIN pending :
       /\ pending[k] # None
       /\ \E pick \in req[pending[k]].offers \cup {"cancel"} :
            hand' = [hand EXCEPT ![h] = [step |-> "decided", meant |-> pending[k],
                                         got |-> None, pick |-> pick]]
  /\ UNCHANGED <<phase, talking, req, channel, pending, state, answer, trace, approverVars>>

\* run_approver: the approver run is launched and queues at the gate, ...
ApproverStarts(a) ==
  /\ task[a] = "asked"
  /\ task' = [task EXCEPT ![a] = "waiting"]
  /\ run' = [run EXCEPT ![a] = "queued"]
  /\ UNCHANGED <<phase, talking, req, channel, pending, state, answer, trace, hand, verdict>>

\* ... is admitted, ...
ApproverAdmitted(a) ==
  /\ run[a] = "queued" /\ FreePermit
  /\ run' = [run EXCEPT ![a] = "live"]
  /\ UNCHANGED <<phase, talking, req, channel, pending, state, answer, trace, hand, task, verdict>>

\* ... and ends with a verdict, or with none that can be used.
ApproverReplies(a) ==
  /\ run[a] = "live"
  /\ run' = [run EXCEPT ![a] = "ended"]
  /\ \E v \in IF Reliable THEN {"allow", "reject"} ELSE {"allow", "reject", "unclear"} :
       verdict' = [verdict EXCEPT ![a] = v]
  /\ UNCHANGED <<phase, talking, req, channel, pending, state, answer, trace, hand, task>>

\* The task gives up: the launch is refused or fails, or wait_terminal reaches
\* its ceiling with the run queued or live.
ApproverGivesUp(a) ==
  /\ ~Reliable
  /\ task[a] \in {"asked", "waiting"} /\ run[a] # "ended"
  /\ task' = [task EXCEPT ![a] = "ended"]
  /\ UNCHANGED <<phase, talking, req, channel, pending, state, answer, trace, hand, run, verdict>>

\* The task reads the verdict; one that is unclear, or that no option of the ask
\* matches, leaves the ask with the human.
ApproverDecides(a) ==
  /\ task[a] = "waiting" /\ run[a] = "ended" /\ hand[a] = Idle
  /\ task' = [task EXCEPT ![a] = "ended"]
  /\ hand' = IF verdict[a] \in req[a].offers
               THEN [hand EXCEPT ![a] = [step |-> "decided", meant |-> a,
                                         got |-> None, pick |-> verdict[a]]]
               ELSE hand
  /\ UNCHANGED <<phase, talking, req, channel, pending, state, answer, trace, run, verdict>>

\* Mutated form: the entry is read and stays in the inbox.
TakeCopy(d) ==
  /\ hand[d].step = "decided"
  /\ LET k == Key(hand[d].meant) IN
       hand' = [hand EXCEPT ![d] = IF pending[k] = None THEN Idle
                  ELSE [@ EXCEPT !.step = "taken", !.got = pending[k]]]
  /\ UNCHANGED <<phase, talking, req, channel, pending, state, answer, trace, approverVars>>

\* resolve_internal: the entry under the key is removed under the lock, ...
Take(d) ==
  /\ hand[d].step = "decided"
  /\ LET k == Key(hand[d].meant) IN
     /\ hand' = [hand EXCEPT ![d] = IF pending[k] = None THEN Idle
                   ELSE [@ EXCEPT !.step = "taken", !.got = pending[k]]]
     /\ pending' = [pending EXCEPT ![k] = None]
  /\ UNCHANGED <<phase, talking, req, channel, state, answer, trace, approverVars>>

Tier(d) == IF d \in Humans THEN "human" ELSE "approver"

\* ... then the event is sent, and the answer.  An option the entry did not
\* offer, like a cancellation, is recorded as a rejection.
Deliver(d) ==
  LET a    == hand[d].got
      kind == IF hand[d].pick \in req[a].offers THEN hand[d].pick ELSE "reject"
  IN
  /\ hand[d].step = "taken"
  /\ Record(a, Tier(d), kind)
  /\ Send(a, Tier(d), hand[d].pick)
  /\ hand' = [hand EXCEPT ![d] = Idle]
  /\ UNCHANGED <<phase, talking, req, channel, pending, approverVars>>

-----------------------------------------------------------------------------
RunStep(r) == Admit(r) \/ CancelRun(r) \/ DriverEnds(r) \/ DriverDrops(r)
  \/ HandleAuto(r) \/ HandleDelegate(r) \/ HandleHuman(r) \/ LoopEnds(r) \/ RunCloses(r)
ChatStep(c) == Forward(c) \/ CloseChat(c) \/ DropAsks(c) \/ SessionEnds(c)
ApproverStep(a) == ApproverStarts(a) \/ ApproverAdmitted(a) \/ ApproverReplies(a)
  \/ ApproverGivesUp(a) \/ ApproverDecides(a)

Next ==
  \/ \E r \in Runs : RunStep(r)
  \/ \E c \in Chats : ChatStep(c)
  \/ \E a \in Asks : Raise(a) \/ ApproverStep(a)
  \/ \E h \in Humans : HumanDecides(h)
  \/ \E d \in Deciders : Take(d) \/ Deliver(d)

Spec == Init /\ [][Next]_vars

\* The runtime polls every task that can go on, and a launched approver run
\* replies.  No human, agent or cancellation is owed.
Fairness ==
  /\ \A r \in Runs : /\ WF_vars(Admit(r)) /\ WF_vars(LoopEnds(r)) /\ WF_vars(RunCloses(r))
                     /\ WF_vars(HandleAuto(r) \/ HandleDelegate(r) \/ HandleHuman(r))
                     /\ WF_vars(DriverDrops(r))
  /\ \A a \in Asks : /\ WF_vars(ApproverStarts(a)) /\ SF_vars(ApproverAdmitted(a))
                     /\ WF_vars(ApproverReplies(a)) /\ WF_vars(ApproverDecides(a))
  /\ \A d \in Deciders : WF_vars(Take(d)) /\ WF_vars(Deliver(d))

FairSpec == Spec /\ Fairness

-----------------------------------------------------------------------------
(* What the cascade promises *)

\* Who may settle a.  Where the rules do not decide, the human may, and so may
\* the approver unless the title is high-risk or the asking run is its own
\* (policy lib.rs, PermissionPath); a chat's ask is the human's alone (runs.rs,
\* park_external_ask).
MaySettle(a) ==
  LET automatic == req[a].ctx \in Runs /\ Decide(req[a].title) # "Ask"
  IN  {who \in {"rule", "approver", "human"} :
         CASE who = "rule"     -> automatic
           [] who = "human"    -> ~automatic
           [] who = "approver" -> /\ ~automatic /\ HasApprover
                                  /\ req[a].ctx \in Runs \ Approving
                                  /\ req[a].title \notin HighRisk}

Entitled == [a \in Asks |-> IF req[a] = None THEN {} ELSE MaySettle(a)]
Offered  == [a \in Asks |-> IF req[a] = None THEN {} ELSE req[a].offers]

Contract == INSTANCE AskContract WITH
  Deciders <- {"rule", "approver", "human"}, Options <- Kinds,
  entitled <- Entitled, offered <- Offered

\* The detailed cascade implements the contract: an ask is settled at most once,
\* with an option it offered and by a tier entitled to it, whatever order the
\* inbox, the approver run and the end of the run come in.
KeepsTheContract == Contract!Spec

Holders(a) ==
  Cardinality({h \in Contexts \X (1..Cardinality(Asks)) :
                 h[2] \in DOMAIN channel[h[1]] /\ channel[h[1]][h[2]] = a})
    + Cardinality({k \in DOMAIN pending : pending[k] = a})
    + Cardinality({d \in Deciders : hand[d].got = a})

\* The sender of a waiting ask is in exactly one place, the channel, the inbox
\* or the hand of one decider: no agent waits for an answer nobody can give, and
\* no two deciders hold one ask (the lock in resolve_internal).
OneHolder == \A a \in Asks : state[a] = "waiting" => Holders(a) = 1

\* Once the supervisor of a run has returned, the inbox lists nothing of the run
\* and a waiting ask of it can only be in the hands of somebody who took it
\* before (pending.retain, and the drop of the receiver).
ClosedRunsLeaveNoAsk ==
  \A r \in Runs : phase[r] = "closed" =>
    /\ Parked(r) = {} /\ channel[r] = <<>>
    /\ \A a \in AsksOf(r) : state[a] = "waiting" => \E d \in Deciders : hand[d].got = a

\* The transcript of a run whose supervisor still reads agrees with what its
\* agent was told: who settled the ask, and which kind of option it was.  Only a
\* rule that finds no option to select leaves no event.
AnswersAreTraced ==
  \A a \in Asks :
    /\ state[a] = "answered" /\ req[a].ctx \in Runs
    /\ phase[req[a].ctx] \in {"live", "draining"}
    /\ answer[a] # [by |-> "rule", pick |-> "cancel"]
    => trace[a] = [answer[a] EXCEPT !.pick = IF @ = "cancel" THEN "reject" ELSE @]

\* Every permit is held by a run that is no approver: none can be admitted.
GateIsFull == ~FreePermit /\ Permits \subseteq Runs

\* An ask parked for the approver is settled with no human at the inbox, if
\* approver runs do what they are asked (e2e_daemon.rs, approver_agent_answers_
\* ask_unattended), unless runs that never end hold every permit for ever: so
\* they do when each of them waits for an approver that waits for a permit
\* (run_approver calls start_run, runs.rs:407), until wait_terminal's 30
\* minutes are over and the asks are left with the human.
UnattendedAsksAreSettled ==
  \A a \in Asks :
    /\ state[a] = "waiting" /\ req[a].ctx \in Runs
    /\ Path(req[a].ctx, req[a].title) = "Delegate"
    ~> state[a] # "waiting" \/ []GateIsFull

\* A run that ends or is cancelled takes its asks with it: its agent never waits
\* on, whoever was deciding.
AsksEndWithTheRun ==
  \A r \in Runs : phase[r] = "draining" ~>
    phase[r] = "closed" /\ \A a \in AsksOf(r) : state[a] # "waiting"

=============================================================================
