------------------------- MODULE Permissions_proofs -------------------------
(***************************************************************************)
(* Proofs about the permission cascade, for every set of runs, chats, asks *)
(* and humans, every policy and every number of permits.                   *)
(***************************************************************************)
EXTENDS Permissions, FiniteSetTheorems, TLAPS

Raised(a) == req[a] # None
\* The policy, or the chat's forwarder, lets a into the inbox.
Parkable(a) == req[a].ctx \in Runs => Decide(req[a].title) = "Ask"

AskedInv == \A a \in Asks : Raised(a) <=> state[a] # "none"

ChannelInv ==
  \A c \in Contexts : \A i \in 1..Len(channel[c]) :
    LET a == channel[c][i] IN Raised(a) /\ req[a].ctx = c

InboxInv ==
  \A k \in Contexts \X ToolCalls :
    LET a == pending[k] IN a # None => Raised(a) /\ Key(a) = k /\ Parkable(a)

ApproverInv ==
  \A a \in Asks : task[a] # "none" =>
    /\ Raised(a) /\ req[a].ctx \in Runs
    /\ Path(req[a].ctx, req[a].title) = "Delegate"

\* A decision is about an ask that was in the inbox, picks one of its options,
\* and is applied to an ask with the same key.
HandInv ==
  \A d \in Deciders : hand[d].step # "idle" =>
    LET a == hand[d].meant IN
    /\ a \in Asks /\ Raised(a) /\ Parkable(a)
    /\ hand[d].pick \in req[a].offers \cup {"cancel"}
    /\ d \in Asks => task[a] # "none"
    /\ hand[d].step = "decided" => hand[d].got = None
    /\ hand[d].step = "taken" =>
         hand[d].got \in Asks /\ Raised(hand[d].got) /\ Key(hand[d].got) = Key(a)

KeyInv ==
  UniqueToolCalls =>
    \A a, b \in Asks : Raised(a) /\ Raised(b) /\ Key(a) = Key(b) => a = b

\* The sender of a waiting ask is held by somebody.
HeldInv ==
  \A a \in Asks : state[a] = "waiting" =>
    \/ \E i \in 1..Len(channel[req[a].ctx]) : channel[req[a].ctx][i] = a
    \/ pending[Key(a)] = a
    \/ \E d \in Deciders : hand[d].got = a

ClosedInv ==
  \A r \in Runs : phase[r] = "closed" =>
    channel[r] = <<>> /\ \A t \in ToolCalls : pending[<<r, t>>] = None

CascadeInv ==
  /\ TypeOK
  /\ AskedInv /\ ChannelInv /\ InboxInv /\ ApproverInv /\ HandInv /\ KeyInv
  /\ HeldInv /\ ClosedInv

-----------------------------------------------------------------------------
(* The pieces the actions are made of. *)

States == {"none", "waiting", "answered", "cancelled"}

LEMMA CancelAllEffect ==
  ASSUME TypeOK, NEW asks, CancelAll(asks)
  PROVE  /\ state' \in [Asks -> States]
         /\ \A a \in Asks : /\ state'[a] = "none" <=> state[a] = "none"
                            /\ state'[a] = "waiting" <=> state[a] = "waiting" /\ a \notin asks
BY DEF CancelAll, TypeOK, States

LEMMA SendEffect ==
  ASSUME TypeOK, NEW a \in Asks, NEW by \in {"rule", "approver", "human"},
         NEW pick \in Picks, Send(a, by, pick)
  PROVE  /\ state' \in [Asks -> States]
         /\ answer' \in [Asks -> [by : {"rule", "approver", "human"}, pick : Picks] \cup {Nobody}]
         /\ \A b \in Asks : /\ state'[b] = "none" <=> state[b] = "none"
                            /\ state'[b] = "waiting" => state[b] = "waiting" /\ b # a
<1>1. CASE state[a] = "waiting"
  <2>1. state' = [state EXCEPT ![a] = "answered"]
    BY <1>1 DEF Send
  <2>2. answer' = [answer EXCEPT ![a] = [by |-> by, pick |-> pick]]
    BY <1>1 DEF Send
  <2>3. answer' \in [Asks -> [by : {"rule", "approver", "human"}, pick : Picks] \cup {Nobody}]
    BY <2>2 DEF TypeOK
  <2>. QED
    BY <1>1, <2>1, <2>3 DEF TypeOK, States
<1>2. CASE state[a] # "waiting"
  BY <1>2 DEF Send, TypeOK, States
<1>. QED
  BY <1>1, <1>2

LEMMA RecordEffect ==
  ASSUME TypeOK, NEW a \in Asks, NEW by \in {"rule", "approver", "human"},
         NEW kind \in Kinds, Record(a, by, kind)
  PROVE  trace' \in [Asks -> [by : {"rule", "approver", "human"}, pick : Kinds] \cup {Nobody}]
BY DEF Record, TypeOK

LEMMA ReceiveEffect ==
  ASSUME TypeOK, NEW c \in Contexts, Receive(c)
  PROVE  /\ channel' \in [Contexts -> Seq(Asks)]
         /\ Len(channel[c]) >= 1
         /\ Head(channel[c]) = channel[c][1] /\ Head(channel[c]) \in Asks
         /\ channel'[c] = Tail(channel[c])
         /\ \A d \in Contexts : d # c => channel'[d] = channel[d]
         /\ \A i \in 1..Len(channel'[c]) : i + 1 \in 1..Len(channel[c])
                                           /\ channel'[c][i] = channel[c][i + 1]
         /\ \A i \in 1..Len(channel[c]) : i # 1 => i - 1 \in 1..Len(channel'[c])
                                           /\ channel'[c][i - 1] = channel[c][i]
<1>1. channel[c] \in Seq(Asks) /\ channel[c] # <<>>
  BY DEF TypeOK, Receive
<1>2. channel'[c] = Tail(channel[c]) /\ \A d \in Contexts : d # c => channel'[d] = channel[d]
  BY DEF TypeOK, Receive
<1>3. Tail(channel[c]) \in Seq(Asks) /\ Len(Tail(channel[c])) = Len(channel[c]) - 1
  BY <1>1
<1>4. \A i \in 1..(Len(channel[c]) - 1) : Tail(channel[c])[i] = channel[c][i + 1]
  BY <1>1
<1>5. Len(channel[c]) \in Nat \ {0}
  BY <1>1
<1>6. channel' \in [Contexts -> Seq(Asks)]
  BY <1>3 DEF TypeOK, Receive
<1>7. Head(channel[c]) = channel[c][1] /\ Head(channel[c]) \in Asks
  BY <1>1
<1>8. \A i \in 1..Len(channel'[c]) : i + 1 \in 1..Len(channel[c])
                                       /\ channel'[c][i] = channel[c][i + 1]
  BY <1>2, <1>3, <1>4, <1>5
<1>9. \A i \in 1..Len(channel[c]) : i # 1 => i - 1 \in 1..Len(channel'[c])
                                       /\ channel'[c][i - 1] = channel[c][i]
  BY <1>2, <1>3, <1>4, <1>5
<1>. QED
  BY <1>2, <1>5, <1>6, <1>7, <1>8, <1>9

LEMMA InitHolds == Init => CascadeInv
<1>. SUFFICES ASSUME Init PROVE CascadeInv
  OBVIOUS
<1>1. TypeOK
  BY DEF Init, TypeOK, Contexts
<1>2. AskedInv /\ ChannelInv /\ InboxInv /\ ApproverInv /\ KeyInv /\ HeldInv
  BY DEF Init, AskedInv, ChannelInv, InboxInv, ApproverInv, KeyInv, HeldInv, Raised
<1>3. HandInv
  BY DEF Init, HandInv, Idle
<1>4. ClosedInv
  BY DEF Init, ClosedInv, Contexts
<1>. QED
  BY <1>1, <1>2, <1>3, <1>4 DEF CascadeInv

LEMMA RaiseKeeps ==
  ASSUME CascadeInv, NEW a \in Asks, Raise(a)
  PROVE  CascadeInv'
<1>. USE DEF CascadeInv
<1>1. PICK r \in Requests :
        /\ UniqueToolCalls => \A b \in AsksOf(r.ctx) : req[b].call # r.call
        /\ r.ctx \in Contexts
        /\ req' = [req EXCEPT ![a] = r]
        /\ IF r.ctx \in Runs /\ phase[r.ctx] = "closed"
             THEN state' = [state EXCEPT ![a] = "cancelled"] /\ UNCHANGED channel
             ELSE /\ state' = [state EXCEPT ![a] = "waiting"]
                  /\ channel' = [channel EXCEPT ![r.ctx] = Append(@, a)]
  BY DEF Raise, Requests
<1>. UNCHANGED <<phase, talking, pending, answer, trace, hand, task, run, verdict>>
  BY DEF Raise, approverVars
<1>2. state[a] = "none" /\ ~ Raised(a) /\ a \in Asks
  BY DEF Raise, AskedInv
<1>3. \A b \in Asks : b # a => req'[b] = req[b]
  BY <1>1 DEF TypeOK
<1>4. req'[a] = r /\ r # None
  BY <1>1, PermissionsAssumption DEF TypeOK, Requests
<1>a. /\ channel' \in [Contexts -> Seq(Asks)]
      /\ \A c \in Contexts : c # r.ctx => channel'[c] = channel[c]
      /\ channel'[r.ctx] = channel[r.ctx]
           \/ /\ channel'[r.ctx] = Append(channel[r.ctx], a)
              /\ ~(r.ctx \in Runs /\ phase[r.ctx] = "closed")
  <2>1. CASE r.ctx \in Runs /\ phase[r.ctx] = "closed"
    BY <1>1, <2>1 DEF TypeOK
  <2>2. CASE ~(r.ctx \in Runs /\ phase[r.ctx] = "closed")
    <3>1. channel' = [channel EXCEPT ![r.ctx] = Append(@, a)]
      BY <1>1, <2>2
    <3>2. Append(channel[r.ctx], a) \in Seq(Asks)
      BY <1>1 DEF TypeOK
    <3>. QED
      BY <2>2, <3>1, <3>2, <1>1 DEF TypeOK
  <2>. QED
    BY <2>1, <2>2
<1>b. \A c \in Contexts : channel[c] \in Seq(Asks)
  BY DEF TypeOK
<1>5. TypeOK'
  <2>1. channel' \in [Contexts -> Seq(Asks)]
    BY <1>a
  <2>2. req' \in [Asks -> Requests \cup {None}]
    BY <1>1 DEF TypeOK
  <2>3. state' \in [Asks -> {"none", "waiting", "answered", "cancelled"}]
    BY <1>1 DEF TypeOK
  <2>. QED
    BY <2>1, <2>2, <2>3 DEF TypeOK
<1>6. AskedInv'
  BY <1>1, <1>3, <1>4 DEF AskedInv, Raised, TypeOK
<1>7. \A c \in Contexts : \A i \in 1..Len(channel'[c]) :
        \/ i \in 1..Len(channel[c]) /\ channel'[c][i] = channel[c][i]
        \/ c = r.ctx /\ channel'[c][i] = a
  <2>. SUFFICES ASSUME NEW c \in Contexts, NEW i \in 1..Len(channel'[c]), c = r.ctx,
                       channel'[c] = Append(channel[c], a)
                PROVE  \/ i \in 1..Len(channel[c]) /\ channel'[c][i] = channel[c][i]
                       \/ channel'[c][i] = a
    BY <1>a
  <2>1. channel[c] \in Seq(Asks)
    BY <1>b
  <2>. QED
    BY <2>1
<1>8. ChannelInv'
  <2>. SUFFICES ASSUME NEW c \in Contexts, NEW i \in 1..Len(channel'[c])
                PROVE  req'[channel'[c][i]] # None /\ req'[channel'[c][i]].ctx = c
    BY DEF ChannelInv, Raised
  <2>1. CASE i \in 1..Len(channel[c]) /\ channel'[c][i] = channel[c][i]
    <3>1. channel[c][i] \in Asks
      BY <2>1, <1>b
    <3>2. Raised(channel[c][i]) /\ req[channel[c][i]].ctx = c
      BY <2>1 DEF ChannelInv
    <3>. QED
      BY <2>1, <3>1, <3>2, <1>2, <1>3 DEF Raised
  <2>2. CASE c = r.ctx /\ channel'[c][i] = a
    BY <2>2, <1>4
  <2>. QED
    BY <2>1, <2>2, <1>7
<1>9. InboxInv' /\ ApproverInv' /\ HandInv'
  <2>1. \A b \in Asks : Raised(b) =>
          /\ Raised(b)' /\ Key(b)' = Key(b) /\ req'[b] = req[b]
          /\ Parkable(b) <=> Parkable(b)'
    BY <1>2, <1>3 DEF Raised, Key, Parkable
  <2>2. InboxInv'
    BY <2>1 DEF InboxInv, TypeOK
  <2>3. ApproverInv'
    BY <2>1 DEF ApproverInv
  <2>4. HandInv'
    BY <2>1 DEF HandInv
  <2>. QED
    BY <2>2, <2>3, <2>4
<1>10. KeyInv'
  <2>. SUFFICES ASSUME UniqueToolCalls, NEW b \in Asks, Raised(b), b # a
                PROVE  Key(b) # Key(a)'
    BY <1>2, <1>3, <1>4 DEF KeyInv, Raised, Key
  <2>1. req[b].ctx = r.ctx => req[b].call # r.call
    BY <1>1 DEF AsksOf, Raised
  <2>. QED
    BY <2>1, <1>4 DEF Key
<1>11. HeldInv'
  <2>. SUFFICES ASSUME NEW b \in Asks, state'[b] = "waiting"
                PROVE  \/ \E i \in 1..Len(channel'[req'[b].ctx]) : channel'[req'[b].ctx][i] = b
                       \/ pending[Key(b)'] = b
                       \/ \E d \in Deciders : hand[d].got = b
    BY DEF HeldInv, Key
  <2>0. \A c \in Contexts : \A i \in 1..Len(channel[c]) :
          i \in 1..Len(channel'[c]) /\ channel'[c][i] = channel[c][i]
    <3>. SUFFICES ASSUME NEW c \in Contexts, NEW i \in 1..Len(channel[c]),
                         channel'[c] = Append(channel[c], a)
                  PROVE  i \in 1..Len(channel'[c]) /\ channel'[c][i] = channel[c][i]
      BY <1>a
    <3>1. channel[c] \in Seq(Asks)
      BY <1>b
    <3>. QED
      BY <3>1
  <2>1. CASE b = a
    <3>1. channel' = [channel EXCEPT ![r.ctx] = Append(@, a)]
      BY <1>1, <2>1 DEF TypeOK
    <3>2. channel'[r.ctx] = Append(channel[r.ctx], a) /\ channel[r.ctx] \in Seq(Asks)
      BY <3>1, <1>1 DEF TypeOK
    <3>3. Len(channel'[r.ctx]) \in 1..Len(channel'[r.ctx])
           /\ channel'[r.ctx][Len(channel'[r.ctx])] = a
      BY <3>2
    <3>. QED
      BY <3>3, <1>4, <2>1
  <2>2. CASE b # a
    <3>1. state[b] = "waiting" /\ req'[b] = req[b] /\ req[b].ctx \in Contexts
      BY <1>1, <1>3, <2>2, <1>2 DEF TypeOK, AskedInv, Raised, Requests
    <3>. QED
      BY <3>1, <2>0 DEF HeldInv, Key
  <2>. QED
    BY <2>1, <2>2
<1>12. ClosedInv'
  <2>. SUFFICES ASSUME NEW s \in Runs, phase[s] = "closed"
                PROVE  channel'[s] = channel[s]
    BY DEF ClosedInv
  <2>1. s \in Contexts
    BY DEF Contexts
  <2>. QED
    BY <1>a, <2>1
<1>. QED
  BY <1>5, <1>6, <1>8, <1>9, <1>10, <1>11, <1>12

\* Actions that touch none of the asks.
LEMMA QuietStepsKeep ==
  ASSUME CascadeInv, NEW c \in Contexts,
         \/ c \in Runs /\ (Admit(c) \/ CancelRun(c) \/ LoopEnds(c))
         \/ CloseChat(c)
  PROVE  CascadeInv'
<1>. USE DEF CascadeInv
<1>. UNCHANGED <<req, channel, pending, state, answer, trace, hand, task, run, verdict>>
  BY DEF Admit, CancelRun, LoopEnds, CloseChat, approverVars
<1>1. TypeOK'
  <2>1. talking' \subseteq Contexts
    BY DEF TypeOK, Admit, CancelRun, LoopEnds, CloseChat
  <2>2. \E v \in {"live", "draining", "left", "closing"} : phase' = [phase EXCEPT ![c] = v]
    BY DEF Admit, CancelRun, LoopEnds, CloseChat
  <2>3. phase' \in [Contexts -> {"queued", "live", "draining", "left", "closing", "closed"}]
    BY <2>2 DEF TypeOK
  <2>. QED
    BY <2>1, <2>3 DEF TypeOK
<1>2. AskedInv' /\ ChannelInv' /\ InboxInv' /\ ApproverInv' /\ KeyInv' /\ HeldInv' /\ HandInv'
  BY DEF AskedInv, ChannelInv, InboxInv, ApproverInv, KeyInv, HeldInv, HandInv,
         Raised, Parkable, Key
<1>3. ClosedInv'
  <2>1. \A r \in Runs : phase'[r] = "closed" => phase[r] = "closed"
    BY DEF TypeOK, Admit, CancelRun, LoopEnds, CloseChat, Contexts
  <2>. QED
    BY <2>1 DEF ClosedInv
<1>. QED
  BY <1>1, <1>2, <1>3

\* The receivers of a context's asks go away.
LEMMA HangUpKeeps ==
  ASSUME CascadeInv, NEW c \in Contexts, HangUp(c),
         phase' = phase \/ (c \in Runs /\ phase' = [phase EXCEPT ![c] = "draining"]),
         UNCHANGED <<req, channel, pending, answer, trace, hand, approverVars>>
  PROVE  CascadeInv'
<1>. USE DEF CascadeInv
<1>. UNCHANGED <<task, run, verdict>>
  BY DEF approverVars
<1>1. /\ state' \in [Asks -> States]
      /\ \A a \in Asks : /\ state'[a] = "none" <=> state[a] = "none"
                         /\ state'[a] = "waiting" => state[a] = "waiting"
  BY CancelAllEffect DEF HangUp
<1>2. TypeOK'
  BY <1>1 DEF TypeOK, States, HangUp
<1>3. AskedInv'
  BY <1>1 DEF AskedInv, Raised
<1>4. HeldInv'
  BY <1>1 DEF HeldInv, Key
<1>5. ClosedInv'
  <2>1. \A r \in Runs : phase'[r] = "closed" => phase[r] = "closed"
    BY DEF TypeOK, Contexts
  <2>. QED
    BY <2>1 DEF ClosedInv
<1>6. ChannelInv' /\ InboxInv' /\ ApproverInv' /\ KeyInv' /\ HandInv'
  BY DEF ChannelInv, InboxInv, ApproverInv, KeyInv, HandInv, Raised, Parkable, Key
<1>. QED
  BY <1>2, <1>3, <1>4, <1>5, <1>6

\* What is common to the three ways an ask leaves its channel.
LEMMA ReceiveKeeps ==
  ASSUME CascadeInv, NEW c \in Contexts, Receive(c), UNCHANGED <<req, phase>>
  PROVE  /\ ChannelInv'
         /\ Raised(Head(channel[c])) /\ req[Head(channel[c])].ctx = c
         /\ \A a \in Asks : Raised(a) /\ a # Head(channel[c])
              /\ (\E i \in 1..Len(channel[req[a].ctx]) : channel[req[a].ctx][i] = a)
              => \E i \in 1..Len(channel'[req[a].ctx]) : channel'[req[a].ctx][i] = a
         /\ c \in Runs => phase[c] # "closed"
         /\ \A d \in Contexts : channel[d] = <<>> => channel'[d] = <<>>
<1>. USE DEF CascadeInv
<1>0. TypeOK
  OBVIOUS
<1>1. Raised(channel[c][1]) /\ req[channel[c][1]].ctx = c
  BY ReceiveEffect DEF ChannelInv
<1>2. ChannelInv'
  <2>. SUFFICES ASSUME NEW d \in Contexts, NEW i \in 1..Len(channel'[d])
                PROVE  Raised(channel'[d][i]) /\ req[channel'[d][i]].ctx = d
    BY DEF ChannelInv, Raised
  <2>1. CASE d = c
    BY <2>1, ReceiveEffect DEF ChannelInv
  <2>2. CASE d # c
    BY <2>2, ReceiveEffect DEF ChannelInv
  <2>. QED
    BY <2>1, <2>2
<1>3. ASSUME NEW a \in Asks, Raised(a), a # Head(channel[c]),
             NEW i \in 1..Len(channel[req[a].ctx]), channel[req[a].ctx][i] = a
      PROVE  \E j \in 1..Len(channel'[req[a].ctx]) : channel'[req[a].ctx][j] = a
  <2>1. req[a].ctx \in Contexts
    BY <1>3 DEF TypeOK, Raised, Requests
  <2>2. CASE req[a].ctx = c
    <3>1. i # 1
      BY <1>3, <2>2, ReceiveEffect
    <3>2. i - 1 \in 1..Len(channel'[c]) /\ channel'[c][i - 1] = a
      BY <1>3, <2>2, <3>1, ReceiveEffect
    <3>. QED
      BY <2>2, <3>2
  <2>3. CASE req[a].ctx # c
    BY <1>3, <2>1, <2>3, ReceiveEffect
  <2>. QED
    BY <2>2, <2>3
<1>4. c \in Runs => phase[c] # "closed"
  BY DEF ClosedInv, Receive
<1>5. \A d \in Contexts : channel[d] = <<>> => channel'[d] = <<>>
  BY ReceiveEffect DEF Receive
<1>. QED
  BY <1>1, <1>2, <1>3, <1>4, <1>5, ReceiveEffect

-----------------------------------------------------------------------------
(* Asks on their way to the inbox, and out of it. *)

LEMMA ParkKeeps ==
  ASSUME CascadeInv, NEW c \in Contexts, NEW a \in Asks, a = Head(channel[c]),
         Receive(c), Park(a), Parkable(a),
         UNCHANGED <<phase, talking, req, answer, trace, hand, run, verdict>>,
         \/ task' = task
         \/ /\ task' = [task EXCEPT ![a] = "asked"]
            /\ c \in Runs /\ Path(c, req[a].title) = "Delegate"
  PROVE  CascadeInv'
<1>. USE DEF CascadeInv
<1>1. /\ ChannelInv' /\ Raised(a) /\ req[a].ctx = c
      /\ c \in Runs => phase[c] # "closed"
      /\ \A d \in Contexts : channel[d] = <<>> => channel'[d] = <<>>
  BY ReceiveKeeps
<1>2. Key(a) \in Contexts \X ToolCalls /\ Key(a)[1] = c
  BY <1>1 DEF Key, Raised, TypeOK, Requests
<1>3. /\ state' \in [Asks -> States]
      /\ \A b \in Asks : /\ state'[b] = "none" <=> state[b] = "none"
                         /\ state'[b] = "waiting" <=>
                              state[b] = "waiting" /\ b \notin {pending[Key(a)]} \ {None}
  BY CancelAllEffect DEF Park
<1>4. /\ pending'[Key(a)] = a
      /\ \A k \in Contexts \X ToolCalls : k # Key(a) => pending'[k] = pending[k]
  BY <1>2 DEF Park, TypeOK
<1>5. TypeOK'
  <2>1. channel' \in [Contexts -> Seq(Asks)]
    BY ReceiveEffect
  <2>2. pending' \in [Contexts \X ToolCalls -> Asks \cup {None}]
    BY DEF Park, TypeOK
  <2>3. task' \in [Asks -> {"none", "asked", "waiting", "ended"}]
    BY DEF TypeOK
  <2>. QED
    BY <1>3, <2>1, <2>2, <2>3 DEF TypeOK, States
<1>6. AskedInv' /\ KeyInv'
  BY <1>3 DEF AskedInv, KeyInv, Raised, Key
<1>7. InboxInv'
  <2>1. Raised(a)' /\ Key(a)' = Key(a) /\ Parkable(a)'
    BY <1>1 DEF Raised, Key, Parkable
  <2>. QED
    BY <1>4, <2>1 DEF InboxInv, Raised, Key, Parkable
<1>8. ApproverInv'
  <2>. SUFFICES ASSUME NEW b \in Asks, task'[b] # "none"
                PROVE  /\ Raised(b) /\ req[b].ctx \in Runs
                       /\ Path(req[b].ctx, req[b].title) = "Delegate"
    BY DEF ApproverInv, Raised
  <2>1. CASE task[b] # "none"
    BY <2>1 DEF ApproverInv
  <2>2. CASE task[b] = "none"
    <3>1. b = a /\ c \in Runs /\ Path(c, req[a].title) = "Delegate"
      BY <2>2 DEF TypeOK
    <3>. QED
      BY <1>1, <3>1
  <2>. QED
    BY <2>1, <2>2
<1>9. HandInv'
  <2>1. \A b \in Asks : task[b] # "none" => task'[b] # "none"
    BY DEF TypeOK
  <2>. QED
    BY <2>1 DEF HandInv, Raised, Parkable, Key
<1>10. HeldInv'
  <2>. SUFFICES ASSUME NEW b \in Asks, state'[b] = "waiting"
                PROVE  \/ \E i \in 1..Len(channel'[req[b].ctx]) : channel'[req[b].ctx][i] = b
                       \/ pending'[Key(b)] = b
                       \/ \E d \in Deciders : hand[d].got = b
    BY DEF HeldInv, Key
  <2>1. state[b] = "waiting" /\ Raised(b) /\ b # pending[Key(a)]
    BY <1>3, PermissionsAssumption DEF AskedInv
  <2>2. Key(b) \in Contexts \X ToolCalls
    BY <2>1 DEF Key, Raised, TypeOK, Requests
  <2>3. CASE b = a
    BY <2>3, <1>4
  <2>4. CASE b # a
    <3>1. CASE \E i \in 1..Len(channel[req[b].ctx]) : channel[req[b].ctx][i] = b
      BY <3>1, <2>1, <2>4, ReceiveKeeps
    <3>2. CASE pending[Key(b)] = b
      <4>1. Key(b) # Key(a)
        BY <3>2, <2>1
      <4>. QED
        BY <4>1, <3>2, <2>2, <1>4
    <3>3. CASE \E d \in Deciders : hand[d].got = b
      BY <3>3
    <3>. QED
      BY <2>1, <3>1, <3>2, <3>3 DEF HeldInv
  <2>. QED
    BY <2>3, <2>4
<1>11. ClosedInv'
  <2>. SUFFICES ASSUME NEW r \in Runs, phase[r] = "closed"
                PROVE  channel'[r] = <<>> /\ \A t \in ToolCalls : pending'[<<r, t>>] = None
    BY DEF ClosedInv
  <2>1. r # c /\ r \in Contexts
    BY <1>1 DEF Contexts
  <2>2. channel'[r] = <<>>
    BY <1>1, <2>1 DEF ClosedInv
  <2>3. ASSUME NEW t \in ToolCalls PROVE pending'[<<r, t>>] = None
    <3>1. <<r, t>> \in Contexts \X ToolCalls /\ <<r, t>> # Key(a)
      BY <1>1, <2>1 DEF Key
    <3>. QED
      BY <3>1, <1>4 DEF ClosedInv
  <2>. QED
    BY <2>2, <2>3
<1>. QED
  BY <1>1, <1>5, <1>6, <1>7, <1>8, <1>9, <1>10, <1>11

LEMMA HandlersKeep ==
  ASSUME CascadeInv, NEW r \in Runs, HandleDelegate(r) \/ HandleHuman(r)
  PROVE  CascadeInv'
<1>1. r \in Contexts /\ Head(channel[r]) \in Asks /\ req[Head(channel[r])].ctx = r
  BY ReceiveEffect, ReceiveKeeps DEF CascadeInv, HandleDelegate, HandleHuman, Contexts
<1>2. Parkable(Head(channel[r]))
  BY DEF HandleDelegate, HandleHuman, Path, Parkable
<1>. QED
  BY <1>1, <1>2, ParkKeeps DEF HandleDelegate, HandleHuman, approverVars

LEMMA ForwardKeeps ==
  ASSUME CascadeInv, NEW c \in Chats, Forward(c)
  PROVE  CascadeInv'
<1>1. c \in Contexts /\ Head(channel[c]) \in Asks /\ req[Head(channel[c])].ctx = c
  BY ReceiveEffect, ReceiveKeeps DEF CascadeInv, Forward, Contexts
<1>2. Parkable(Head(channel[c]))
  BY <1>1, PermissionsAssumption DEF Parkable
<1>. QED
  BY <1>1, <1>2, ParkKeeps DEF Forward, approverVars

LEMMA RulePickIsOffered ==
  ASSUME NEW a, req[a] \in Requests
  PROVE  RulePick(a) \in req[a].offers \cup {"cancel"} /\ RulePick(a) \in Picks
BY DEF RulePick, Picks, Kinds

LEMMA HandleAutoKeeps ==
  ASSUME CascadeInv, NEW r \in Runs, HandleAuto(r)
  PROVE  CascadeInv'
<1>. USE DEF CascadeInv
<1>. DEFINE a == Head(channel[r])
<1>0. r \in Contexts /\ Receive(r)
  BY DEF Contexts, HandleAuto
<1>. UNCHANGED <<phase, talking, req, pending, hand, task, run, verdict>>
  BY DEF HandleAuto, approverVars
<1>1. /\ ChannelInv' /\ Raised(a) /\ req[a].ctx = r
      /\ \A d \in Contexts : channel[d] = <<>> => channel'[d] = <<>>
      /\ a \in Asks
  BY <1>0, ReceiveKeeps, ReceiveEffect
<1>2. RulePick(a) \in Picks
  BY <1>1, RulePickIsOffered DEF Raised, TypeOK
<1>3. Send(a, "rule", RulePick(a))
  BY DEF HandleAuto
<1>4. /\ state' \in [Asks -> States]
      /\ answer' \in [Asks -> [by : {"rule", "approver", "human"}, pick : Picks] \cup {Nobody}]
      /\ \A b \in Asks : /\ state'[b] = "none" <=> state[b] = "none"
                         /\ state'[b] = "waiting" => state[b] = "waiting" /\ b # a
  <2>. HIDE DEF a
  <2>. QED
    BY <1>1, <1>2, <1>3, SendEffect
<1>5. trace' \in [Asks -> [by : {"rule", "approver", "human"}, pick : Kinds] \cup {Nobody}]
  <2>1. CASE RulePick(a) = "cancel"
    BY <2>1 DEF HandleAuto, TypeOK
  <2>2. CASE RulePick(a) # "cancel"
    <3>1. Record(a, "rule", RulePick(a)) /\ RulePick(a) \in Kinds
      BY <2>2, <1>2 DEF HandleAuto, Picks
    <3>. HIDE DEF a
    <3>. QED
      BY <3>1, <1>1, RecordEffect
  <2>. QED
    BY <2>1, <2>2
<1>6. TypeOK'
  <2>1. channel' \in [Contexts -> Seq(Asks)]
    BY <1>0, ReceiveEffect
  <2>. QED
    BY <1>4, <1>5, <2>1 DEF TypeOK, States
<1>7. AskedInv' /\ KeyInv' /\ InboxInv' /\ ApproverInv' /\ HandInv'
  BY <1>4 DEF AskedInv, KeyInv, InboxInv, ApproverInv, HandInv, Raised, Key, Parkable
<1>8. HeldInv'
  <2>. SUFFICES ASSUME NEW b \in Asks, state'[b] = "waiting"
                PROVE  \/ \E i \in 1..Len(channel'[req[b].ctx]) : channel'[req[b].ctx][i] = b
                       \/ pending[Key(b)] = b
                       \/ \E d \in Deciders : hand[d].got = b
    BY DEF HeldInv, Key
  <2>1. state[b] = "waiting" /\ b # a /\ Raised(b)
    BY <1>4 DEF AskedInv
  <2>. QED
    BY <2>1, <1>0, ReceiveKeeps DEF HeldInv
<1>9. ClosedInv'
  BY <1>1 DEF ClosedInv, Contexts
<1>. QED
  BY <1>1, <1>6, <1>7, <1>8, <1>9

\* The inbox forgets the asks of a context: pending.retain, drop_pending_for.
LEMMA ForgetKeeps ==
  ASSUME CascadeInv, NEW c \in Contexts,
         phase' = [phase EXCEPT ![c] = "closed"],
         pending' = [k \in DOMAIN pending |-> IF k[1] = c THEN None ELSE pending[k]],
         \/ CancelAll(Parked(c)) /\ channel' = channel /\ c \in Chats
         \/ /\ CancelAll(Parked(c) \cup InChannel(c))
            /\ channel' = [channel EXCEPT ![c] = <<>>]
            /\ c \in Runs,
         UNCHANGED <<talking, req, answer, trace, hand, approverVars>>
  PROVE  CascadeInv'
<1>. USE DEF CascadeInv
<1>. UNCHANGED <<task, run, verdict>>
  BY DEF approverVars
<1>1. /\ state' \in [Asks -> States]
      /\ \A a \in Asks : /\ state'[a] = "none" <=> state[a] = "none"
                         /\ state'[a] = "waiting" =>
                              /\ state[a] = "waiting" /\ a \notin Parked(c)
                              /\ c \in Runs => a \notin InChannel(c)
  <2>1. CASE CancelAll(Parked(c)) /\ c \in Chats
    BY <2>1, CancelAllEffect, PermissionsAssumption
  <2>2. CASE CancelAll(Parked(c) \cup InChannel(c)) /\ c \in Runs
    BY <2>2, CancelAllEffect
  <2>. QED
    BY <2>1, <2>2
<1>2. /\ channel' \in [Contexts -> Seq(Asks)]
      /\ \A d \in Contexts : \/ channel'[d] = channel[d]
                             \/ c \in Runs /\ d = c /\ channel'[d] = <<>>
  <2>1. CASE channel' = channel
    BY <2>1 DEF TypeOK
  <2>2. CASE c \in Runs /\ channel' = [channel EXCEPT ![c] = <<>>]
    <3>1. <<>> \in Seq(Asks)
      OBVIOUS
    <3>. QED
      BY <2>2, <3>1 DEF TypeOK
  <2>. QED
    BY <2>1, <2>2
<1>3. \A k \in Contexts \X ToolCalls :
        pending'[k] = IF k[1] = c THEN None ELSE pending[k]
  BY DEF TypeOK
<1>4. TypeOK'
  <2>1. pending' \in [Contexts \X ToolCalls -> Asks \cup {None}]
    BY DEF TypeOK
  <2>2. phase' \in [Contexts -> {"queued", "live", "draining", "left", "closing", "closed"}]
    BY DEF TypeOK
  <2>. QED
    BY <1>1, <1>2, <2>1, <2>2 DEF TypeOK, States
<1>5. AskedInv' /\ KeyInv' /\ ApproverInv' /\ HandInv'
  BY <1>1 DEF AskedInv, KeyInv, ApproverInv, HandInv, Raised, Key, Parkable
<1>6. InboxInv'
  BY <1>3 DEF InboxInv, Raised, Key, Parkable
<1>7. ChannelInv'
  BY <1>2 DEF ChannelInv, Raised
<1>8. HeldInv'
  <2>. SUFFICES ASSUME NEW a \in Asks, state'[a] = "waiting"
                PROVE  \/ \E i \in 1..Len(channel'[req[a].ctx]) : channel'[req[a].ctx][i] = a
                       \/ pending'[Key(a)] = a
                       \/ \E d \in Deciders : hand[d].got = a
    BY DEF HeldInv, Key
  <2>1. state[a] = "waiting" /\ Raised(a) /\ a # None /\ req[a].ctx \in Contexts
    BY <1>1, PermissionsAssumption DEF AskedInv, Raised, TypeOK, Requests
  <2>2. Key(a) \in Contexts \X ToolCalls
    BY <2>1 DEF Key, Raised, TypeOK, Requests
  <2>3. ASSUME NEW i \in 1..Len(channel[req[a].ctx]), channel[req[a].ctx][i] = a
        PROVE  channel'[req[a].ctx] = channel[req[a].ctx]
    <3>1. CASE c \in Runs /\ req[a].ctx = c
      <4>1. i \in DOMAIN channel[c]
        BY <2>3, <3>1 DEF TypeOK
      <4>2. a \in InChannel(c)
        BY <4>1, <2>3, <3>1 DEF InChannel
      <4>. QED
        BY <4>2, <3>1, <1>1
    <3>2. CASE ~(c \in Runs /\ req[a].ctx = c)
      BY <3>2, <2>1, <1>2
    <3>. QED
      BY <3>1, <3>2
  <2>4. CASE pending[Key(a)] = a
    <3>1. Key(a)[1] # c
      <4>. SUFFICES ASSUME Key(a)[1] = c PROVE FALSE
        OBVIOUS
      <4>1. a \in Parked(c)
        BY <2>1, <2>2, <2>4 DEF Parked, Key
      <4>. QED
        BY <4>1, <1>1
    <3>. QED
      BY <3>1, <2>2, <2>4, <1>3
  <2>. QED
    BY <2>1, <2>3, <2>4 DEF HeldInv
<1>9. ClosedInv'
  <2>. SUFFICES ASSUME NEW r \in Runs, phase'[r] = "closed"
                PROVE  channel'[r] = <<>> /\ \A t \in ToolCalls : pending'[<<r, t>>] = None
    BY DEF ClosedInv
  <2>1. r \in Contexts /\ \A t \in ToolCalls : <<r, t>> \in Contexts \X ToolCalls
    BY DEF Contexts
  <2>2. CASE r = c
    <3>1. channel'[r] = <<>>
      BY <2>1, <2>2, PermissionsAssumption DEF TypeOK
    <3>. QED
      BY <2>1, <2>2, <3>1, <1>3
  <2>3. CASE r # c
    <3>1. phase[r] = "closed"
      BY <2>1, <2>3 DEF TypeOK
    <3>. QED
      BY <2>1, <2>3, <3>1, <1>2, <1>3 DEF ClosedInv
  <2>. QED
    BY <2>2, <2>3
<1>. QED
  BY <1>4, <1>5, <1>6, <1>7, <1>8, <1>9

-----------------------------------------------------------------------------
(* The deciders. *)

\* A decider picks an option of an ask that is, or was, in the inbox.
LEMMA DecidingKeeps ==
  ASSUME CascadeInv, NEW d \in Deciders, NEW a \in Asks, NEW pick \in Picks,
         Raised(a), Parkable(a), pick \in req[a].offers \cup {"cancel"},
         d \in Asks => task[a] # "none",
         hand[d] = Idle \/ hand[d].step = "decided",
         hand' = [hand EXCEPT ![d] = [step |-> "decided", meant |-> a,
                                      got |-> None, pick |-> pick]],
         \A b \in Asks : task[b] # "none" => task'[b] # "none",
         UNCHANGED req
  PROVE  /\ hand' \in [Deciders -> [step : {"decided", "taken"}, meant : Asks,
                                    got : Asks \cup {None}, pick : Picks] \cup {Idle}]
         /\ HandInv'
         /\ \A b \in Asks : (\E e \in Deciders : hand[e].got = b)
                             => \E e \in Deciders : hand'[e].got = b
<1>. USE DEF CascadeInv
<1>1. hand' \in [Deciders -> [step : {"decided", "taken"}, meant : Asks,
                             got : Asks \cup {None}, pick : Picks] \cup {Idle}]
  BY DEF TypeOK
<1>2. hand'[d] = [step |-> "decided", meant |-> a, got |-> None, pick |-> pick]
      /\ \A e \in Deciders : e # d => hand'[e] = hand[e]
  BY DEF TypeOK
<1>3. HandInv'
  <2>. SUFFICES ASSUME NEW e \in Deciders, hand'[e].step # "idle"
                PROVE  LET b == hand'[e].meant IN
                       /\ b \in Asks /\ Raised(b) /\ Parkable(b)
                       /\ hand'[e].pick \in req[b].offers \cup {"cancel"}
                       /\ e \in Asks => task'[b] # "none"
                       /\ hand'[e].step = "decided" => hand'[e].got = None
                       /\ hand'[e].step = "taken" =>
                            /\ hand'[e].got \in Asks /\ Raised(hand'[e].got)
                            /\ Key(hand'[e].got) = Key(b)
    BY DEF HandInv, Raised, Parkable, Key
  <2>1. CASE e = d
    BY <2>1, <1>2
  <2>2. CASE e # d
    BY <2>2, <1>2 DEF HandInv
  <2>. QED
    BY <2>1, <2>2
<1>4. hand[d].got \notin Asks
  BY PermissionsAssumption DEF HandInv, Idle
<1>. QED
  BY <1>1, <1>2, <1>3, <1>4

LEMMA HumanDecidesKeeps ==
  ASSUME CascadeInv, NEW h \in Humans, HumanDecides(h)
  PROVE  CascadeInv'
<1>. USE DEF CascadeInv
<1>. UNCHANGED <<phase, talking, req, channel, pending, state, answer, trace, task, run, verdict>>
  BY DEF HumanDecides, approverVars
<1>1. PICK k \in Contexts \X ToolCalls :
        /\ pending[k] # None
        /\ \E pick \in req[pending[k]].offers \cup {"cancel"} :
             hand' = [hand EXCEPT ![h] = [step |-> "decided", meant |-> pending[k],
                                          got |-> None, pick |-> pick]]
  BY DEF HumanDecides, TypeOK
<1>2. PICK pick \in req[pending[k]].offers \cup {"cancel"} :
        hand' = [hand EXCEPT ![h] = [step |-> "decided", meant |-> pending[k],
                                     got |-> None, pick |-> pick]]
  BY <1>1
<1>3. pending[k] \in Asks /\ Raised(pending[k]) /\ Parkable(pending[k])
  BY <1>1 DEF InboxInv, TypeOK
<1>4. pick \in Picks
  BY <1>3, PermissionsAssumption DEF Raised, TypeOK, Requests, Picks, Kinds
<1>5. h \in Deciders /\ h \notin Asks /\ hand[h] = Idle
  BY PermissionsAssumption DEF HumanDecides, Deciders
<1>6. /\ hand' \in [Deciders -> [step : {"decided", "taken"}, meant : Asks,
                                 got : Asks \cup {None}, pick : Picks] \cup {Idle}]
      /\ HandInv'
      /\ \A b \in Asks : (\E e \in Deciders : hand[e].got = b)
                          => \E e \in Deciders : hand'[e].got = b
  BY <1>2, <1>3, <1>4, <1>5, DecidingKeeps
<1>7. TypeOK'
  BY <1>6 DEF TypeOK
<1>8. HeldInv'
  BY <1>6 DEF HeldInv, Key
<1>9. AskedInv' /\ ChannelInv' /\ InboxInv' /\ ApproverInv' /\ KeyInv' /\ ClosedInv'
  BY DEF AskedInv, ChannelInv, InboxInv, ApproverInv, KeyInv, ClosedInv, Raised, Parkable, Key
<1>. QED
  BY <1>6, <1>7, <1>8, <1>9

LEMMA ApproverTaskKeeps ==
  ASSUME CascadeInv, NEW a \in Asks,
         ApproverStarts(a) \/ ApproverAdmitted(a) \/ ApproverReplies(a) \/ ApproverGivesUp(a)
  PROVE  CascadeInv'
<1>. USE DEF CascadeInv
<1>. UNCHANGED <<phase, talking, req, channel, pending, state, answer, trace, hand>>
  BY DEF ApproverStarts, ApproverAdmitted, ApproverReplies, ApproverGivesUp
<1>1. /\ task' \in [Asks -> {"none", "asked", "waiting", "ended"}]
      /\ \A b \in Asks : task'[b] # "none" <=> task[b] # "none"
  BY DEF TypeOK, ApproverStarts, ApproverAdmitted, ApproverReplies, ApproverGivesUp
<1>2. run' \in [Asks -> {"none", "queued", "live", "ended"}]
  BY DEF TypeOK, ApproverStarts, ApproverAdmitted, ApproverReplies, ApproverGivesUp
<1>3. verdict' \in [Asks -> {"none", "allow", "reject", "unclear"}]
  <2>1. CASE ApproverReplies(a)
    BY <2>1 DEF TypeOK, ApproverReplies
  <2>2. CASE ~ApproverReplies(a)
    BY <2>2 DEF TypeOK, ApproverStarts, ApproverAdmitted, ApproverGivesUp
  <2>. QED
    BY <2>1, <2>2
<1>4. TypeOK'
  BY <1>1, <1>2, <1>3 DEF TypeOK
<1>5. ApproverInv' /\ HandInv'
  BY <1>1 DEF ApproverInv, HandInv, Raised, Parkable, Key
<1>6. AskedInv' /\ ChannelInv' /\ InboxInv' /\ HeldInv' /\ KeyInv' /\ ClosedInv'
  BY DEF AskedInv, ChannelInv, InboxInv, HeldInv, KeyInv, ClosedInv, Raised, Parkable, Key
<1>. QED
  BY <1>4, <1>5, <1>6

LEMMA ApproverDecidesKeeps ==
  ASSUME CascadeInv, NEW a \in Asks, ApproverDecides(a)
  PROVE  CascadeInv'
<1>. USE DEF CascadeInv
<1>. UNCHANGED <<phase, talking, req, channel, pending, state, answer, trace, run, verdict>>
  BY DEF ApproverDecides
<1>1. /\ task' \in [Asks -> {"none", "asked", "waiting", "ended"}]
      /\ \A b \in Asks : task'[b] # "none" <=> task[b] # "none"
      /\ task[a] # "none"
  BY DEF TypeOK, ApproverDecides
<1>2. Raised(a) /\ Parkable(a)
  BY <1>1 DEF ApproverInv, Parkable, Path
<1>3. /\ hand' \in [Deciders -> [step : {"decided", "taken"}, meant : Asks,
                                 got : Asks \cup {None}, pick : Picks] \cup {Idle}]
      /\ HandInv'
      /\ \A b \in Asks : (\E e \in Deciders : hand[e].got = b)
                          => \E e \in Deciders : hand'[e].got = b
  <2>1. CASE verdict[a] \in req[a].offers
    <3>1. verdict[a] \in Picks
      BY <2>1, <1>2, PermissionsAssumption DEF Raised, TypeOK, Requests, Picks, Kinds
    <3>2. hand' = [hand EXCEPT ![a] = [step |-> "decided", meant |-> a,
                                       got |-> None, pick |-> verdict[a]]]
      BY <2>1 DEF ApproverDecides
    <3>3. a \in Deciders /\ (hand[a] = Idle \/ hand[a].step = "decided")
      BY DEF Deciders, ApproverDecides
    <3>. QED
      BY <2>1, <3>1, <3>2, <3>3, <1>1, <1>2, DecidingKeeps
  <2>2. CASE verdict[a] \notin req[a].offers
    BY <2>2, <1>1 DEF ApproverDecides, TypeOK, HandInv, Raised, Parkable, Key
  <2>. QED
    BY <2>1, <2>2
<1>4. TypeOK'
  BY <1>1, <1>3 DEF TypeOK
<1>5. ApproverInv'
  BY <1>1 DEF ApproverInv, Raised
<1>6. HeldInv'
  BY <1>3 DEF HeldInv, Key
<1>7. AskedInv' /\ ChannelInv' /\ InboxInv' /\ KeyInv' /\ ClosedInv'
  BY DEF AskedInv, ChannelInv, InboxInv, KeyInv, ClosedInv, Raised, Parkable, Key
<1>. QED
  BY <1>3, <1>4, <1>5, <1>6, <1>7

LEMMA TakeKeeps ==
  ASSUME CascadeInv, NEW d \in Deciders, Take(d)
  PROVE  CascadeInv'
<1>. USE DEF CascadeInv
<1>. DEFINE a == hand[d].meant
            k == Key(a)
<1>. UNCHANGED <<phase, talking, req, channel, state, answer, trace, task, run, verdict>>
  BY DEF Take, approverVars
<1>0. a \in Asks /\ Raised(a) /\ Parkable(a) /\ k \in Contexts \X ToolCalls
  BY DEF Take, HandInv, Raised, TypeOK, Requests, Key
<1>1. /\ pending'[k] = None
      /\ \A j \in Contexts \X ToolCalls : j # k => pending'[j] = pending[j]
      /\ pending' \in [Contexts \X ToolCalls -> Asks \cup {None}]
  BY <1>0 DEF Take, TypeOK
<1>2. CASE pending[k] = None
  <2>1. hand' = [hand EXCEPT ![d] = Idle]
    BY <1>2 DEF Take
  <2>2. pending' = pending
    BY <1>2, <1>0, <1>1 DEF TypeOK, Take
  <2>3. hand'[d] = Idle /\ \A e \in Deciders : e # d => hand'[e] = hand[e]
    BY <2>1 DEF TypeOK
  <2>4. TypeOK'
    BY <2>1, <2>2 DEF TypeOK
  <2>5. HandInv'
    BY <2>3 DEF HandInv, Idle, Raised, Parkable, Key
  <2>6. hand[d].got = None
    BY DEF Take, HandInv
  <2>7. HeldInv'
    BY <2>2, <2>3, <2>6, PermissionsAssumption DEF HeldInv, Key
  <2>8. AskedInv' /\ ChannelInv' /\ InboxInv' /\ ApproverInv' /\ KeyInv' /\ ClosedInv'
    BY <2>2 DEF AskedInv, ChannelInv, InboxInv, ApproverInv, KeyInv, ClosedInv,
                Raised, Parkable, Key
  <2>. QED
    BY <2>4, <2>5, <2>7, <2>8
<1>3. CASE pending[k] # None
  <2>1. hand' = [hand EXCEPT ![d] = [hand[d] EXCEPT !.step = "taken", !.got = pending[k]]]
    BY <1>3 DEF Take
  <2>2. hand[d] \in [step : {"decided", "taken"}, meant : Asks,
                     got : Asks \cup {None}, pick : Picks]
    BY DEF Take, TypeOK, Idle
  <2>3. hand'[d] = [step |-> "taken", meant |-> a, got |-> pending[k], pick |-> hand[d].pick]
        /\ \A e \in Deciders : e # d => hand'[e] = hand[e]
    BY <2>1, <2>2, ZenonT(60) DEF TypeOK
  <2>4. pending[k] \in Asks /\ Raised(pending[k]) /\ Key(pending[k]) = k
    BY <1>0, <1>3 DEF InboxInv, TypeOK
  <2>5. TypeOK'
    <3>1. hand' \in [Deciders -> [step : {"decided", "taken"}, meant : Asks,
                                 got : Asks \cup {None}, pick : Picks] \cup {Idle}]
      BY <2>1, <2>2, <2>4 DEF TypeOK
    <3>. QED
      BY <1>1, <3>1 DEF TypeOK
  <2>6. HandInv'
    <3>. SUFFICES ASSUME NEW e \in Deciders, hand'[e].step # "idle"
                  PROVE  LET b == hand'[e].meant IN
                         /\ b \in Asks /\ Raised(b) /\ Parkable(b)
                         /\ hand'[e].pick \in req[b].offers \cup {"cancel"}
                         /\ e \in Asks => task[b] # "none"
                         /\ hand'[e].step = "decided" => hand'[e].got = None
                         /\ hand'[e].step = "taken" =>
                              /\ hand'[e].got \in Asks /\ Raised(hand'[e].got)
                              /\ Key(hand'[e].got) = Key(b)
      BY DEF HandInv, Raised, Parkable, Key
    <3>1. CASE e = d
      <4>1. hand[d].pick \in req[a].offers \cup {"cancel"} /\ (d \in Asks => task[a] # "none")
        BY DEF Take, HandInv
      <4>. QED
        BY <3>1, <4>1, <2>3, <2>4, <1>0
    <3>2. CASE e # d
      BY <3>2, <2>3 DEF HandInv
    <3>. QED
      BY <3>1, <3>2
  <2>7. HeldInv'
    <3>. SUFFICES ASSUME NEW b \in Asks, state[b] = "waiting"
                  PROVE  \/ \E i \in 1..Len(channel[req[b].ctx]) : channel[req[b].ctx][i] = b
                         \/ pending'[Key(b)] = b
                         \/ \E e \in Deciders : hand'[e].got = b
      BY DEF HeldInv, Key
    <3>1. Key(b) \in Contexts \X ToolCalls
      BY DEF AskedInv, Raised, TypeOK, Requests, Key
    <3>2. CASE pending[Key(b)] = b
      BY <3>1, <3>2, <1>1, <2>3
    <3>3. ASSUME NEW e \in Deciders, hand[e].got = b PROVE hand'[e].got = b
      <4>1. e # d
        BY <3>3, PermissionsAssumption DEF Take, HandInv
      <4>. QED
        BY <4>1, <3>3, <2>3
    <3>. QED
      BY <3>2, <3>3 DEF HeldInv
  <2>8. InboxInv'
    BY <1>1, PermissionsAssumption DEF InboxInv, Raised, Parkable, Key
  <2>9. ClosedInv'
    <3>1. \A r \in Runs, t \in ToolCalls : <<r, t>> \in Contexts \X ToolCalls
      BY DEF Contexts
    <3>. QED
      BY <1>1, <3>1 DEF ClosedInv
  <2>10. AskedInv' /\ ChannelInv' /\ ApproverInv' /\ KeyInv'
    BY DEF AskedInv, ChannelInv, ApproverInv, KeyInv, Raised, Key
  <2>. QED
    BY <2>5, <2>6, <2>7, <2>8, <2>9, <2>10
<1>. QED
  BY <1>2, <1>3

LEMMA DeliverKeeps ==
  ASSUME CascadeInv, NEW d \in Deciders, Deliver(d)
  PROVE  CascadeInv'
<1>. USE DEF CascadeInv
<1>. DEFINE a    == hand[d].got
            kind == IF hand[d].pick \in req[a].offers THEN hand[d].pick ELSE "reject"
<1>. UNCHANGED <<phase, talking, req, channel, pending, task, run, verdict>>
  BY DEF Deliver, approverVars
<1>1. a \in Asks /\ Raised(a)
  BY DEF Deliver, HandInv
<1>2. hand[d].pick \in Picks /\ Tier(d) \in {"rule", "approver", "human"}
  BY DEF Deliver, TypeOK, Idle, Tier
<1>3. kind \in Kinds
  <2>1. req[a] \in Requests
    BY <1>1 DEF Raised, TypeOK
  <2>2. req[a].offers \subseteq Kinds
    BY <2>1, PermissionsAssumption DEF Requests, Kinds
  <2>. QED
    BY <2>2 DEF Kinds
<1>4. /\ state' \in [Asks -> States]
      /\ answer' \in [Asks -> [by : {"rule", "approver", "human"}, pick : Picks] \cup {Nobody}]
      /\ \A b \in Asks : /\ state'[b] = "none" <=> state[b] = "none"
                         /\ state'[b] = "waiting" => state[b] = "waiting" /\ b # a
  <2>1. Send(a, Tier(d), hand[d].pick)
    BY DEF Deliver
  <2>. HIDE DEF a
  <2>. QED
    BY <1>1, <1>2, <2>1, SendEffect
<1>5. trace' \in [Asks -> [by : {"rule", "approver", "human"}, pick : Kinds] \cup {Nobody}]
  <2>1. Record(a, Tier(d), kind)
    BY DEF Deliver
  <2>. HIDE DEF a, kind
  <2>. QED
    BY <1>1, <1>2, <1>3, <2>1, RecordEffect
<1>6. hand'[d] = Idle /\ \A e \in Deciders : e # d => hand'[e] = hand[e]
  BY DEF Deliver, TypeOK
<1>7. TypeOK'
  <2>1. hand' \in [Deciders -> [step : {"decided", "taken"}, meant : Asks,
                               got : Asks \cup {None}, pick : Picks] \cup {Idle}]
    BY DEF Deliver, TypeOK
  <2>. QED
    BY <1>4, <1>5, <2>1 DEF TypeOK, States
<1>8. AskedInv' /\ KeyInv' /\ InboxInv' /\ ApproverInv' /\ ChannelInv' /\ ClosedInv'
  BY <1>4 DEF AskedInv, KeyInv, InboxInv, ApproverInv, ChannelInv, ClosedInv,
              Raised, Key, Parkable
<1>9. HandInv'
  BY <1>6 DEF HandInv, Idle, Raised, Key, Parkable
<1>10. HeldInv'
  BY <1>4, <1>6 DEF HeldInv, Key
<1>. QED
  BY <1>7, <1>8, <1>9, <1>10

-----------------------------------------------------------------------------

LEMMA StepKeeps == CascadeInv /\ [Next]_vars => CascadeInv'
<1>. SUFFICES ASSUME CascadeInv, [Next]_vars PROVE CascadeInv'
  OBVIOUS
<1>1. ASSUME NEW r \in Runs, RunStep(r) PROVE CascadeInv'
  <2>1. r \in Contexts
    BY DEF Contexts
  <2>2. CASE DriverEnds(r)
    BY <2>1, <2>2, HangUpKeeps DEF DriverEnds
  <2>3. CASE DriverDrops(r)
    BY <2>1, <2>3, HangUpKeeps DEF DriverDrops
  <2>4. CASE RunCloses(r)
    BY <2>1, <2>4, ForgetKeeps DEF RunCloses
  <2>. QED
    BY <1>1, <2>1, <2>2, <2>3, <2>4, QuietStepsKeep, HandleAutoKeeps, HandlersKeep DEF RunStep
<1>2. ASSUME NEW c \in Chats, ChatStep(c) PROVE CascadeInv'
  <2>1. c \in Contexts
    BY DEF Contexts
  <2>2. CASE SessionEnds(c)
    BY <2>1, <2>2, HangUpKeeps DEF SessionEnds
  <2>3. CASE DropAsks(c)
    BY <2>1, <2>3, ForgetKeeps DEF DropAsks
  <2>. QED
    BY <1>2, <2>1, <2>2, <2>3, QuietStepsKeep, ForwardKeeps DEF ChatStep
<1>3. ASSUME NEW a \in Asks, Raise(a) \/ ApproverStep(a) PROVE CascadeInv'
  BY <1>3, RaiseKeeps, ApproverTaskKeeps, ApproverDecidesKeeps DEF ApproverStep
<1>4. ASSUME NEW h \in Humans, HumanDecides(h) PROVE CascadeInv'
  BY <1>4, HumanDecidesKeeps
<1>5. ASSUME NEW d \in Deciders, Take(d) \/ Deliver(d) PROVE CascadeInv'
  BY <1>5, TakeKeeps, DeliverKeeps
<1>6. CASE UNCHANGED vars
  BY <1>6 DEF vars, approverVars, CascadeInv, TypeOK, AskedInv, ChannelInv, InboxInv, ApproverInv,
              HandInv, KeyInv, HeldInv, ClosedInv, Raised, Parkable, Key
<1>. QED
  BY <1>1, <1>2, <1>3, <1>4, <1>5, <1>6 DEF Next

LEMMA CascadeInvHolds == Spec => []CascadeInv
BY InitHolds, StepKeeps, PTL DEF Spec

\* The state of the cascade keeps its shape: Permissions!TypeOK.
THEOREM CascadeTypeCorrect == Spec => []TypeOK
BY CascadeInvHolds, PTL DEF CascadeInv

\* When the supervisor of a run has returned, the inbox and the channel hold
\* nothing of the run, and an ask of it that still waits is in the hands of a
\* decider who took it before (runs.rs, pending.retain and the end of supervise).
THEOREM ClosedRunsAreForgotten == Spec => []ClosedRunsLeaveNoAsk
<1>1. CascadeInv => ClosedRunsLeaveNoAsk
  <2>. SUFFICES ASSUME CascadeInv, NEW r \in Runs, phase[r] = "closed"
                PROVE  /\ Parked(r) = {} /\ channel[r] = <<>>
                       /\ \A a \in AsksOf(r) : state[a] = "waiting" =>
                            \E d \in Deciders : hand[d].got = a
    BY DEF ClosedRunsLeaveNoAsk
  <2>1. channel[r] = <<>> /\ \A t \in ToolCalls : pending[<<r, t>>] = None
    BY DEF CascadeInv, ClosedInv
  <2>2. Parked(r) = {}
    <3>1. \A k \in {r} \X ToolCalls : pending[k] = None
      BY <2>1
    <3>. QED
      BY <3>1 DEF Parked
  <2>3. ASSUME NEW a \in AsksOf(r), state[a] = "waiting"
        PROVE  \E d \in Deciders : hand[d].got = a
    <3>1. a \in Asks /\ req[a].ctx = r /\ req[a] \in Requests
      BY DEF AsksOf, CascadeInv, TypeOK
    <3>2. pending[Key(a)] = None /\ a # None
      BY <2>1, <3>1, PermissionsAssumption DEF Key, Requests
    <3>3. ~ \E i \in 1..Len(channel[req[a].ctx]) : channel[req[a].ctx][i] = a
      BY <2>1, <3>1
    <3>. QED
      BY <2>3, <3>1, <3>2, <3>3 DEF CascadeInv, HeldInv
  <2>. QED
    BY <2>1, <2>2, <2>3
<1>. QED
  BY <1>1, CascadeInvHolds, PTL

-----------------------------------------------------------------------------
(* Nobody else holds what one holds. *)

InAChannel(a) == \E c \in Contexts : \E i \in 1..Len(channel[c]) : channel[c][i] = a
InTheInbox(a) == \E k \in Contexts \X ToolCalls : pending[k] = a
InAHand(a) == \E d \in Deciders : hand[d].got = a
Nowhere(a) == ~InAChannel(a) /\ ~InTheInbox(a) /\ ~InAHand(a)

\* An ask is in one place of one channel, or under its key, or in one hand; one
\* that was answered is nowhere.
ChannelsOnce == \A c \in Contexts : \A i, j \in 1..Len(channel[c]) :
                  channel[c][i] = channel[c][j] => i = j
HandsOnce == \A d, e \in Deciders : hand[d].got # None /\ hand[d].got = hand[e].got => d = e
Apart == \A a \in Asks : /\ InAChannel(a) => ~InTheInbox(a) /\ ~InAHand(a)
                         /\ InTheInbox(a) => ~InAHand(a)
AnsweredInv == \A a \in Asks : state[a] = "answered" => Nowhere(a)

OnceInv == ChannelsOnce /\ HandsOnce /\ Apart /\ AnsweredInv

LEMMA InitOnce == Init => OnceInv
<1>. SUFFICES ASSUME Init PROVE OnceInv
  OBVIOUS
<1>1. \A c \in Contexts : channel[c] = <<>>
  BY DEF Init
<1>2. \A d \in Deciders : hand[d].got = None
  BY DEF Init, Idle
<1>3. \A a \in Asks : Nowhere(a)
  <2>1. \A a \in Asks : a # None
    BY PermissionsAssumption
  <2>2. \A a \in Asks : ~InAChannel(a)
    BY <1>1 DEF InAChannel
  <2>3. \A a \in Asks : ~InTheInbox(a) /\ ~InAHand(a)
    BY <1>2, <2>1 DEF Init, InTheInbox, InAHand
  <2>. QED
    BY <2>2, <2>3 DEF Nowhere
<1>4. ChannelsOnce
  BY <1>1 DEF ChannelsOnce
<1>5. HandsOnce
  BY <1>2 DEF HandsOnce
<1>. QED
  BY <1>3, <1>4, <1>5 DEF OnceInv, Apart, AnsweredInv, Nowhere

\* A cancellation answers nobody.
LEMMA CancelAllAnswersNobody ==
  ASSUME TypeOK, NEW asks, CancelAll(asks)
  PROVE  \A a \in Asks : state'[a] = "answered" <=> state[a] = "answered"
BY DEF CancelAll, TypeOK

LEMMA SendAnswers ==
  ASSUME TypeOK, NEW a \in Asks, NEW by, NEW pick, Send(a, by, pick)
  PROVE  \A b \in Asks : /\ b # a => state'[b] = state[b] /\ answer'[b] = answer[b]
                         /\ state'[a] = "answered" /\ state[a] # "answered" =>
                              answer'[a] = [by |-> by, pick |-> pick]
                         /\ state[a] = "answered" => answer'[a] = answer[a]
BY DEF Send, TypeOK

\* No ask moves, and none is answered.
LEMMA StayingKeepsOnce ==
  ASSUME OnceInv, UNCHANGED <<channel, pending>>,
         \A d \in Deciders : hand'[d].got = hand[d].got,
         \A a \in Asks : state'[a] = "answered" => state[a] = "answered"
  PROVE  OnceInv'
BY DEF OnceInv, ChannelsOnce, HandsOnce, Apart, AnsweredInv, Nowhere, InAChannel, InTheInbox, InAHand

LEMMA RaiseKeepsOnce ==
  ASSUME CascadeInv, OnceInv, NEW a \in Asks, Raise(a)
  PROVE  OnceInv'
<1>. USE DEF CascadeInv
<1>. UNCHANGED <<pending, hand>>
  BY DEF Raise
<1>1. state[a] = "none" /\ ~ Raised(a) /\ Nowhere(a)
  <2>1. state[a] = "none" /\ ~ Raised(a)
    BY DEF Raise, AskedInv
  <2>2. a # None
    BY PermissionsAssumption
  <2>3. ~InAChannel(a)
    BY <2>1 DEF InAChannel, ChannelInv
  <2>4. ~InTheInbox(a)
    BY <2>1, <2>2 DEF InTheInbox, InboxInv
  <2>5. ~InAHand(a)
    <3>. SUFFICES ASSUME NEW d \in Deciders, hand[d].got = a PROVE FALSE
      BY DEF InAHand
    <3>1. hand[d].step \in {"decided", "taken", "idle"} /\ hand[d] \in [step : {"decided", "taken"}, meant : Asks,
                            got : Asks \cup {None}, pick : Picks] \cup {Idle}
      BY DEF TypeOK, Idle
    <3>2. CASE hand[d].step = "idle"
      BY <3>1, <3>2, <2>2 DEF Idle
    <3>3. CASE hand[d].step # "idle"
      BY <3>1, <3>3, <2>1, <2>2 DEF HandInv
    <3>. QED
      BY <3>2, <3>3
  <2>. QED
    BY <2>1, <2>3, <2>4, <2>5 DEF Nowhere
<1>2. PICK c \in Contexts :
        channel' = channel \/ channel' = [channel EXCEPT ![c] = Append(@, a)]
  BY DEF Raise, Requests
<1>3. \A b \in Asks : state'[b] = "answered" => state[b] = "answered" /\ b # a
  <2>1. state' = [state EXCEPT ![a] = "cancelled"] \/ state' = [state EXCEPT ![a] = "waiting"]
    BY DEF Raise
  <2>. QED
    BY <2>1 DEF TypeOK
<1>4. channel[c] \in Seq(Asks)
  BY DEF TypeOK
<1>5. \A d \in Contexts : \A i \in 1..Len(channel'[d]) :
        \/ i \in 1..Len(channel[d]) /\ channel'[d][i] = channel[d][i]
        \/ d = c /\ i = Len(channel[c]) + 1 /\ channel'[d][i] = a
  <2>1. CASE channel' = channel
    BY <2>1
  <2>2. CASE channel' = [channel EXCEPT ![c] = Append(@, a)]
    <3>1. channel'[c] = Append(channel[c], a) /\ \A d \in Contexts : d # c => channel'[d] = channel[d]
      BY <2>2 DEF TypeOK
    <3>2. \A i \in 1..Len(Append(channel[c], a)) :
            \/ i \in 1..Len(channel[c]) /\ Append(channel[c], a)[i] = channel[c][i]
            \/ i = Len(channel[c]) + 1 /\ Append(channel[c], a)[i] = a
      BY <1>4
    <3>. QED
      BY <3>1, <3>2
  <2>. QED
    BY <1>2, <2>1, <2>2
<1>6. ChannelsOnce'
  <2>. SUFFICES ASSUME NEW d \in Contexts, NEW i \in 1..Len(channel'[d]), NEW j \in 1..Len(channel'[d]),
                       channel'[d][i] = channel'[d][j]
                PROVE  i = j
    BY DEF ChannelsOnce
  <2>1. \A n \in 1..Len(channel[d]) : channel[d][n] # a
    BY <1>1 DEF Nowhere, InAChannel
  <2>. QED
    BY <1>5, <2>1 DEF OnceInv, ChannelsOnce
<1>7. \A b \in Asks : InAChannel(b)' => InAChannel(b) \/ b = a
  BY <1>5 DEF InAChannel
<1>8. \A b \in Asks : (InTheInbox(b)' <=> InTheInbox(b)) /\ (InAHand(b)' <=> InAHand(b))
  BY DEF InTheInbox, InAHand
<1>9. HandsOnce'
  BY DEF OnceInv, HandsOnce
<1>. QED
  BY <1>1, <1>3, <1>6, <1>7, <1>8, <1>9 DEF OnceInv, Apart, AnsweredInv, Nowhere

LEMMA ReceiveOnce ==
  ASSUME CascadeInv, OnceInv, NEW c \in Contexts, Receive(c)
  PROVE  /\ ChannelsOnce' /\ Head(channel[c]) \in Asks /\ InAChannel(Head(channel[c]))
         /\ \A a \in Asks : InAChannel(a)' => InAChannel(a) /\ a # Head(channel[c])
<1>. USE DEF CascadeInv
<1>0. TypeOK
  OBVIOUS
<1>1. /\ Len(channel[c]) >= 1 /\ Head(channel[c]) = channel[c][1] /\ Head(channel[c]) \in Asks
      /\ \A d \in Contexts : d # c => channel'[d] = channel[d]
      /\ \A i \in 1..Len(channel'[c]) : i + 1 \in 1..Len(channel[c])
                                        /\ channel'[c][i] = channel[c][i + 1]
  BY ReceiveEffect
<1>2. Len(channel[c]) \in Nat /\ 1 \in 1..Len(channel[c])
  BY <1>1 DEF TypeOK
<1>3. InAChannel(Head(channel[c]))
  BY <1>1, <1>2 DEF InAChannel
<1>4. ChannelsOnce'
  <2>. SUFFICES ASSUME NEW d \in Contexts, NEW i \in 1..Len(channel'[d]), NEW j \in 1..Len(channel'[d]),
                       channel'[d][i] = channel'[d][j]
                PROVE  i = j
    BY DEF ChannelsOnce
  <2>1. CASE d = c
    <3>1. i + 1 = j + 1
      BY <2>1, <1>1 DEF OnceInv, ChannelsOnce
    <3>. QED
      BY <3>1
  <2>2. CASE d # c
    BY <2>2, <1>1 DEF OnceInv, ChannelsOnce
  <2>. QED
    BY <2>1, <2>2
<1>5. ASSUME NEW a \in Asks, NEW d \in Contexts, NEW i \in 1..Len(channel'[d]), channel'[d][i] = a
      PROVE  InAChannel(a) /\ a # Head(channel[c])
  <2>1. CASE d = c
    <3>1. i + 1 \in 1..Len(channel[c]) /\ channel[c][i + 1] = a /\ i + 1 # 1
      BY <1>5, <2>1, <1>1
    <3>. QED
      BY <3>1, <1>1, <1>2 DEF OnceInv, ChannelsOnce, InAChannel
  <2>2. CASE d # c
    <3>1. i \in 1..Len(channel[d]) /\ channel[d][i] = a
      BY <1>5, <2>2, <1>1
    <3>2. req[a].ctx = d /\ req[Head(channel[c])].ctx = c
      BY <3>1, <1>1, <1>2 DEF ChannelInv
    <3>. QED
      BY <3>1, <3>2, <2>2 DEF InAChannel
  <2>. QED
    BY <2>1, <2>2
<1>. QED
  BY <1>1, <1>3, <1>4, <1>5 DEF InAChannel

LEMMA ParkKeepsOnce ==
  ASSUME CascadeInv, OnceInv, NEW c \in Contexts, Receive(c), Park(Head(channel[c])),
         UNCHANGED <<req, hand>>
  PROVE  OnceInv'
<1>. USE DEF CascadeInv
<1>. DEFINE a == Head(channel[c])
<1>1. /\ ChannelsOnce' /\ a \in Asks /\ InAChannel(a)
      /\ \A b \in Asks : InAChannel(b)' => InAChannel(b) /\ b # a
  BY ReceiveOnce
<1>2. Raised(a)
  BY <1>1 DEF InAChannel, ChannelInv
<1>3. Key(a) \in Contexts \X ToolCalls
  BY <1>1, <1>2 DEF Key, Raised, TypeOK, Requests
<1>4. \A b \in Asks : InTheInbox(b)' => InTheInbox(b) \/ b = a
  BY <1>3 DEF Park, TypeOK, InTheInbox
<1>5. \A b \in Asks : InAHand(b)' <=> InAHand(b)
  BY DEF InAHand
<1>6. \A b \in Asks : state'[b] = "answered" => state[b] = "answered"
  BY CancelAllAnswersNobody DEF Park
<1>7. ~InAHand(a) /\ state[a] # "answered"
  BY <1>1 DEF OnceInv, Apart, AnsweredInv, Nowhere
<1>8. HandsOnce'
  BY DEF OnceInv, HandsOnce
<1>. HIDE DEF a
<1>. QED
  BY <1>1, <1>4, <1>5, <1>6, <1>7, <1>8 DEF OnceInv, Apart, AnsweredInv, Nowhere

LEMMA HandleAutoKeepsOnce ==
  ASSUME CascadeInv, OnceInv, NEW r \in Runs, HandleAuto(r)
  PROVE  OnceInv'
<1>. USE DEF CascadeInv
<1>. DEFINE a == Head(channel[r])
<1>. UNCHANGED <<pending, hand>>
  BY DEF HandleAuto
<1>0. r \in Contexts
  BY DEF Contexts
<1>1. /\ ChannelsOnce' /\ a \in Asks /\ InAChannel(a)
      /\ \A b \in Asks : InAChannel(b)' => InAChannel(b) /\ b # a
  BY <1>0, ReceiveOnce DEF HandleAuto
<1>2. Send(a, "rule", RulePick(a))
  BY DEF HandleAuto
<1>. HIDE DEF a
<1>3. \A b \in Asks : state'[b] = "answered" => state[b] = "answered" \/ b = a
  BY <1>1, <1>2, SendAnswers
<1>4. \A b \in Asks : (InTheInbox(b)' <=> InTheInbox(b)) /\ (InAHand(b)' <=> InAHand(b))
  BY DEF InTheInbox, InAHand
<1>5. HandsOnce'
  BY DEF OnceInv, HandsOnce
<1>. QED
  BY <1>1, <1>3, <1>4, <1>5 DEF OnceInv, Apart, AnsweredInv, Nowhere

LEMMA ForgetKeepsOnce ==
  ASSUME CascadeInv, OnceInv, NEW c \in Contexts, NEW asks, CancelAll(asks),
         pending' = [k \in DOMAIN pending |-> IF k[1] = c THEN None ELSE pending[k]],
         channel' = channel \/ channel' = [channel EXCEPT ![c] = <<>>],
         UNCHANGED hand
  PROVE  OnceInv'
<1>. USE DEF CascadeInv
<1>1. \A d \in Contexts : \A i \in 1..Len(channel'[d]) :
        channel'[d] = channel[d]
  BY DEF TypeOK
<1>2. ChannelsOnce'
  BY <1>1 DEF OnceInv, ChannelsOnce
<1>3. \A b \in Asks : InAChannel(b)' => InAChannel(b)
  BY <1>1 DEF InAChannel
<1>4. \A b \in Asks : InTheInbox(b)' => InTheInbox(b)
  BY PermissionsAssumption DEF InTheInbox, TypeOK
<1>5. \A b \in Asks : InAHand(b)' <=> InAHand(b)
  BY DEF InAHand
<1>6. \A b \in Asks : state'[b] = "answered" => state[b] = "answered"
  BY CancelAllAnswersNobody
<1>7. HandsOnce'
  BY DEF OnceInv, HandsOnce
<1>. QED
  BY <1>2, <1>3, <1>4, <1>5, <1>6, <1>7 DEF OnceInv, Apart, AnsweredInv, Nowhere

LEMMA TakeKeepsOnce ==
  ASSUME CascadeInv, OnceInv, NEW d \in Deciders, Take(d)
  PROVE  OnceInv'
<1>. USE DEF CascadeInv
<1>. DEFINE k == Key(hand[d].meant)
<1>. UNCHANGED <<req, channel, state>>
  BY DEF Take
<1>0. /\ k \in Contexts \X ToolCalls
      /\ hand[d].got = None
  BY DEF Take, HandInv, Raised, TypeOK, Requests, Key
<1>1. /\ pending'[k] = None
      /\ \A j \in Contexts \X ToolCalls : j # k => pending'[j] = pending[j]
  BY <1>0 DEF Take, TypeOK
<1>2. /\ hand'[d].got = pending[k]
      /\ \A e \in Deciders : e # d => hand'[e] = hand[e]
  <2>1. CASE pending[k] = None
    <3>1. hand' = [hand EXCEPT ![d] = Idle]
      BY <2>1 DEF Take
    <3>. QED
      BY <3>1, <2>1 DEF TypeOK, Idle
  <2>2. CASE pending[k] # None
    <3>1. hand' = [hand EXCEPT ![d] = [hand[d] EXCEPT !.step = "taken", !.got = pending[k]]]
      BY <2>2 DEF Take
    <3>2. hand[d] \in [step : {"decided", "taken"}, meant : Asks,
                       got : Asks \cup {None}, pick : Picks]
      BY DEF Take, TypeOK, Idle
    <3>. QED
      BY <3>1, <3>2, ZenonT(60) DEF TypeOK
  <2>. QED
    BY <2>1, <2>2
<1>. HIDE DEF k
<1>3. pending[k] \in Asks \cup {None}
  BY <1>0 DEF TypeOK
<1>4. \A b \in Asks : InAChannel(b)' <=> InAChannel(b)
  BY DEF InAChannel
<1>5. \A b \in Asks : InAHand(b)' => InAHand(b) \/ b = pending[k]
  BY <1>2 DEF InAHand
<1>6. \A b \in Asks : InTheInbox(b)' => InTheInbox(b) /\ b # pending[k]
  <2>. SUFFICES ASSUME NEW b \in Asks, NEW j \in Contexts \X ToolCalls, pending'[j] = b
                PROVE  InTheInbox(b) /\ b # pending[k]
    BY DEF InTheInbox
  <2>1. j # k /\ pending[j] = b /\ b # None
    BY <1>1, PermissionsAssumption
  <2>2. Key(b) = j
    BY <2>1 DEF InboxInv
  <2>3. b # pending[k]
    BY <2>1, <2>2, <1>0 DEF InboxInv
  <2>. QED
    BY <2>1, <2>3 DEF InTheInbox
<1>7. /\ pending[k] # None => InTheInbox(pending[k])
      /\ \A b \in Asks : b # None
  BY <1>0, PermissionsAssumption DEF InTheInbox
<1>8. HandsOnce'
  <2>1. pending[k] # None => \A e \in Deciders : hand[e].got # pending[k]
    <3>1. \A b \in Asks : InTheInbox(b) => ~InAHand(b)
      BY DEF OnceInv, Apart
    <3>. QED
      BY <3>1, <1>3, <1>7 DEF InAHand
  <2>. QED
    BY <1>2, <2>1 DEF OnceInv, HandsOnce
<1>9. ChannelsOnce'
  BY DEF OnceInv, ChannelsOnce
<1>. QED
  BY <1>3, <1>4, <1>5, <1>6, <1>7, <1>8, <1>9 DEF OnceInv, Apart, AnsweredInv, Nowhere

LEMMA DeliverKeepsOnce ==
  ASSUME CascadeInv, OnceInv, NEW d \in Deciders, Deliver(d)
  PROVE  OnceInv'
<1>. USE DEF CascadeInv
<1>. DEFINE a == hand[d].got
<1>. UNCHANGED <<channel, pending>>
  BY DEF Deliver
<1>1. a \in Asks /\ InAHand(a) /\ a # None
  BY PermissionsAssumption DEF Deliver, HandInv, InAHand
<1>2. Send(a, Tier(d), hand[d].pick)
  BY DEF Deliver
<1>3. hand'[d].got = None /\ \A e \in Deciders : e # d => hand'[e] = hand[e]
  BY DEF Deliver, TypeOK, Idle
<1>4. \A e \in Deciders : hand'[e].got # a
  BY <1>1, <1>3 DEF OnceInv, HandsOnce
<1>5. \A b \in Asks : InAHand(b)' => InAHand(b) /\ b # a
  BY <1>3, <1>4, PermissionsAssumption DEF InAHand
<1>8. HandsOnce'
  BY <1>3 DEF OnceInv, HandsOnce
<1>. HIDE DEF a
<1>6. \A b \in Asks : state'[b] = "answered" => state[b] = "answered" \/ b = a
  BY <1>1, <1>2, SendAnswers
<1>7. \A b \in Asks : (InTheInbox(b)' <=> InTheInbox(b)) /\ (InAChannel(b)' <=> InAChannel(b))
  BY DEF InTheInbox, InAChannel
<1>9. ChannelsOnce'
  BY DEF OnceInv, ChannelsOnce
<1>. QED
  BY <1>1, <1>5, <1>6, <1>7, <1>8, <1>9 DEF OnceInv, Apart, AnsweredInv, Nowhere

LEMMA StepKeepsOnce ==
  ASSUME CascadeInv, OnceInv, [Next]_vars
  PROVE  OnceInv'
<1>. USE DEF CascadeInv
<1>1. ASSUME NEW r \in Runs, RunStep(r) PROVE OnceInv'
  <2>1. r \in Contexts
    BY DEF Contexts
  <2>2. CASE Admit(r) \/ CancelRun(r) \/ LoopEnds(r)
    <3>1. UNCHANGED <<channel, pending, hand, state>>
      BY <2>2 DEF Admit, CancelRun, LoopEnds
    <3>. QED
      BY <3>1, StayingKeepsOnce
  <2>3. CASE DriverEnds(r) \/ DriverDrops(r)
    <3>1. UNCHANGED <<channel, pending, hand>> /\ CancelAll(AsksOf(r))
      BY <2>3 DEF DriverEnds, DriverDrops, HangUp
    <3>. QED
      BY <3>1, CancelAllAnswersNobody, StayingKeepsOnce
  <2>4. CASE HandleDelegate(r) \/ HandleHuman(r)
    BY <2>1, <2>4, ParkKeepsOnce DEF HandleDelegate, HandleHuman
  <2>5. CASE RunCloses(r)
    BY <2>1, <2>5, ForgetKeepsOnce DEF RunCloses
  <2>. QED
    BY <1>1, <2>2, <2>3, <2>4, <2>5, HandleAutoKeepsOnce DEF RunStep
<1>2. ASSUME NEW c \in Chats, ChatStep(c) PROVE OnceInv'
  <2>1. c \in Contexts
    BY DEF Contexts
  <2>2. CASE Forward(c)
    BY <2>1, <2>2, ParkKeepsOnce DEF Forward
  <2>3. CASE CloseChat(c)
    BY <2>3, StayingKeepsOnce DEF CloseChat
  <2>4. CASE DropAsks(c)
    BY <2>1, <2>4, ForgetKeepsOnce DEF DropAsks
  <2>5. CASE SessionEnds(c)
    <3>1. UNCHANGED <<channel, pending, hand>> /\ CancelAll(AsksOf(c))
      BY <2>5 DEF SessionEnds, HangUp
    <3>. QED
      BY <3>1, CancelAllAnswersNobody, StayingKeepsOnce
  <2>. QED
    BY <1>2, <2>2, <2>3, <2>4, <2>5 DEF ChatStep
<1>3. ASSUME NEW a \in Asks, ApproverStep(a) PROVE OnceInv'
  <2>1. UNCHANGED <<channel, pending, state>>
    BY <1>3 DEF ApproverStep, ApproverStarts, ApproverAdmitted, ApproverReplies,
                ApproverGivesUp, ApproverDecides
  <2>2. \A d \in Deciders : hand'[d].got = hand[d].got
    <3>1. CASE UNCHANGED hand
      BY <3>1
    <3>2. CASE hand[a] = Idle /\ hand' = [hand EXCEPT ![a] =
                 [step |-> "decided", meant |-> a, got |-> None, pick |-> verdict[a]]]
      BY <3>2 DEF TypeOK, Idle
    <3>. QED
      BY <1>3, <3>1, <3>2 DEF ApproverStep, ApproverStarts, ApproverAdmitted, ApproverReplies,
                              ApproverGivesUp, ApproverDecides
  <2>. QED
    BY <2>1, <2>2, StayingKeepsOnce
<1>4. ASSUME NEW h \in Humans, HumanDecides(h) PROVE OnceInv'
  <2>1. UNCHANGED <<channel, pending, state>>
    BY <1>4 DEF HumanDecides
  <2>2. \A d \in Deciders : hand'[d].got = hand[d].got
    <3>1. hand[h] = Idle /\ \E b, pick : hand' = [hand EXCEPT ![h] =
            [step |-> "decided", meant |-> b, got |-> None, pick |-> pick]]
      BY <1>4 DEF HumanDecides
    <3>. QED
      BY <3>1 DEF TypeOK, Idle
  <2>. QED
    BY <2>1, <2>2, StayingKeepsOnce
<1>5. CASE UNCHANGED vars
  BY <1>5, StayingKeepsOnce DEF vars
<1>. QED
  BY <1>1, <1>2, <1>3, <1>4, <1>5, RaiseKeepsOnce, TakeKeepsOnce, DeliverKeepsOnce DEF Next

LEMMA OnceInvHolds == Spec => [](CascadeInv /\ OnceInv)
<1>1. Init => CascadeInv /\ OnceInv
  BY InitHolds, InitOnce
<1>2. CascadeInv /\ OnceInv /\ [Next]_vars => (CascadeInv /\ OnceInv)'
  BY StepKeeps, StepKeepsOnce
<1>. QED
  BY <1>1, <1>2, PTL DEF Spec

\* The sender of an ask that waits is in the channel, under its key or in the
\* hand of one decider, and in no second place: Permissions!OneHolder (runs.rs,
\* the ask arm, resolve_internal, pending.retain).
THEOREM AsksHaveOneHolder == Spec => []OneHolder
<1>1. CascadeInv /\ OnceInv => OneHolder
  <2>. SUFFICES ASSUME CascadeInv, OnceInv, NEW a \in Asks, state[a] = "waiting"
                PROVE  Holders(a) = 1
    BY DEF OneHolder
  <2>. USE DEF CascadeInv
  <2>. DEFINE Spots == {h \in Contexts \X (1..Cardinality(Asks)) :
                          h[2] \in DOMAIN channel[h[1]] /\ channel[h[1]][h[2]] = a}
              Entries == {k \in DOMAIN pending : pending[k] = a}
              Hands == {d \in Deciders : hand[d].got = a}
  <2>0. a # None /\ Raised(a) /\ req[a].ctx \in Contexts /\ Key(a) \in Contexts \X ToolCalls
    BY PermissionsAssumption DEF AskedInv, Raised, TypeOK, Requests, Key
  <2>1. DOMAIN pending = Contexts \X ToolCalls
    BY DEF TypeOK
  <2>2. \A c \in Contexts : /\ DOMAIN channel[c] = 1..Len(channel[c]) /\ Len(channel[c]) \in Nat
                            /\ Len(channel[c]) <= Cardinality(Asks)
    <3>. SUFFICES ASSUME NEW c \in Contexts
                  PROVE  /\ DOMAIN channel[c] = 1..Len(channel[c]) /\ Len(channel[c]) \in Nat
                         /\ Len(channel[c]) <= Cardinality(Asks)
      OBVIOUS
    <3>1. channel[c] \in Seq(Asks)
      BY DEF TypeOK
    <3>2. channel[c] \in [1..Len(channel[c]) -> Asks] /\ Len(channel[c]) \in Nat
      BY <3>1
    <3>3. channel[c] \in Injection(1..Len(channel[c]), Asks)
      BY <3>2 DEF Injection, IsInjective, OnceInv, ChannelsOnce
    <3>4. Cardinality(1..Len(channel[c])) <= Cardinality(Asks)
      BY <3>3, FS_Injection, PermissionsAssumption
    <3>5. Cardinality(1..Len(channel[c])) = Len(channel[c])
      BY <3>2, FS_Interval
    <3>. QED
      BY <3>2, <3>4, <3>5
  <2>3. Cardinality(Asks) \in Nat
    BY FS_CardinalityType, PermissionsAssumption
  <2>4. Spots = {} <=> ~InAChannel(a)
    <3>1. ASSUME InAChannel(a) PROVE Spots # {}
      <4>1. PICK c \in Contexts : \E i \in 1..Len(channel[c]) : channel[c][i] = a
        BY <3>1 DEF InAChannel
      <4>2. PICK i \in 1..Len(channel[c]) : channel[c][i] = a
        BY <4>1
      <4>3. <<c, i>> \in Spots
        BY <4>2, <2>2, <2>3
      <4>. QED
        BY <4>3
    <3>2. ASSUME NEW h \in Spots PROVE InAChannel(a)
      BY <2>2 DEF InAChannel
    <3>. QED
      BY <3>1, <3>2
  <2>5. ASSUME InAChannel(a) PROVE Cardinality(Spots) = 1
    <3>1. PICK c \in Contexts : \E i \in 1..Len(channel[c]) : channel[c][i] = a
      BY <2>5 DEF InAChannel
    <3>2. PICK i \in 1..Len(channel[c]) : channel[c][i] = a
      BY <3>1
    <3>3. ASSUME NEW e \in Contexts, NEW j \in 1..Len(channel[e]), channel[e][j] = a
          PROVE  e = c /\ j = i
      <4>1. req[a].ctx = e /\ req[a].ctx = c
        BY <3>2, <3>3 DEF ChannelInv
      <4>. QED
        BY <3>2, <3>3, <4>1 DEF OnceInv, ChannelsOnce
    <3>4. <<c, i>> \in Spots
      BY <3>2, <2>2, <2>3
    <3>5. ASSUME NEW h \in Spots PROVE h = <<c, i>>
      <4>1. PICK e \in Contexts, j \in 1..Cardinality(Asks) :
              h = <<e, j>> /\ j \in DOMAIN channel[e] /\ channel[e][j] = a
        OBVIOUS
      <4>2. j \in 1..Len(channel[e])
        BY <4>1, <2>2
      <4>. QED
        BY <3>3, <4>1, <4>2
    <3>6. Spots = {<<c, i>>}
      BY <3>4, <3>5
    <3>. QED
      BY <3>6, FS_Singleton
  <2>6. Entries = {} <=> ~InTheInbox(a)
    BY <2>1 DEF InTheInbox
  <2>7. ASSUME InTheInbox(a) PROVE Cardinality(Entries) = 1
    <3>1. PICK k \in Contexts \X ToolCalls : pending[k] = a
      BY <2>7 DEF InTheInbox
    <3>2. Entries = {k}
      BY <3>1, <2>0, <2>1 DEF InboxInv
    <3>. QED
      BY <3>2, FS_Singleton
  <2>8. Hands = {} <=> ~InAHand(a)
    BY DEF InAHand
  <2>9. ASSUME InAHand(a) PROVE Cardinality(Hands) = 1
    <3>1. PICK d \in Deciders : hand[d].got = a
      BY <2>9 DEF InAHand
    <3>2. Hands = {d}
      BY <3>1, <2>0 DEF OnceInv, HandsOnce
    <3>. QED
      BY <3>2, FS_Singleton
  <2>10. InAChannel(a) \/ InTheInbox(a) \/ InAHand(a)
    BY <2>0 DEF HeldInv, InAChannel, InTheInbox, InAHand
  <2>11. /\ InAChannel(a) => ~InTheInbox(a) /\ ~InAHand(a)
         /\ InTheInbox(a) => ~InAHand(a)
    BY DEF OnceInv, Apart
  <2>12. Holders(a) = Cardinality(Spots) + Cardinality(Entries) + Cardinality(Hands)
    BY DEF Holders
  <2>. HIDE DEF Spots, Entries, Hands
  <2>. QED
    BY <2>4, <2>5, <2>6, <2>7, <2>8, <2>9, <2>10, <2>11, <2>12, FS_EmptySet
<1>. QED
  BY <1>1, OnceInvHolds, PTL

-----------------------------------------------------------------------------
(* The transcript. *)

Reading == {"live", "draining"}

\* A run whose agent asked is past the gate.
RunningInv ==
  /\ \A r \in Runs : r \in talking => phase[r] # "queued"
  /\ \A a \in Asks : Raised(a) /\ req[a].ctx \in Runs => phase[req[a].ctx] # "queued"

LEMMA PhasesAdvance ==
  ASSUME CascadeInv, [Next]_vars, NEW r \in Runs
  PROVE  /\ phase'[r] \in Reading => phase[r] \in Reading \cup {"queued"}
         /\ phase'[r] = "queued" => phase[r] = "queued"
         /\ r \in talking' => r \in talking \/ phase'[r] # "queued"
<1>. USE DEF CascadeInv, Reading
<1>1. ASSUME NEW s \in Runs, RunStep(s)
      PROVE  /\ phase'[r] \in Reading => phase[r] \in Reading \cup {"queued"}
             /\ phase'[r] = "queued" => phase[r] = "queued"
             /\ r \in talking' => r \in talking \/ phase'[r] # "queued"
  <2>1. s \in Contexts /\ r \in Contexts
    BY DEF Contexts
  <2>2. \/ UNCHANGED phase
        \/ phase[s] = "queued" /\ phase' = [phase EXCEPT ![s] = "live"]
        \/ phase[s] = "live" /\ phase' = [phase EXCEPT ![s] = "draining"]
        \/ phase' = [phase EXCEPT ![s] = "left"]
        \/ phase' = [phase EXCEPT ![s] = "closed"]
    BY <1>1 DEF RunStep, Admit, CancelRun, DriverEnds, DriverDrops, HandleAuto, HandleDelegate,
                HandleHuman, LoopEnds, RunCloses
  <2>3. talking' \subseteq talking \/ (talking' = talking \cup {s} /\ phase' = [phase EXCEPT ![s] = "live"])
    BY <1>1 DEF RunStep, Admit, CancelRun, DriverEnds, DriverDrops, HandleAuto, HandleDelegate,
                HandleHuman, LoopEnds, RunCloses, HangUp
  <2>4. /\ phase'[r] \in Reading => phase[r] \in Reading \cup {"queued"}
        /\ phase'[r] = "queued" => phase[r] = "queued"
    BY <2>1, <2>2 DEF TypeOK
  <2>5. r \in talking' => r \in talking \/ phase'[r] # "queued"
    BY <2>1, <2>3 DEF TypeOK
  <2>. QED
    BY <2>4, <2>5
<1>2. ASSUME NEW c \in Chats, ChatStep(c)
      PROVE  phase'[r] = phase[r] /\ (r \in talking' => r \in talking)
  <2>1. c # r
    BY PermissionsAssumption
  <2>2. UNCHANGED phase \/ \E p : phase' = [phase EXCEPT ![c] = p]
    BY <1>2 DEF ChatStep, Forward, CloseChat, DropAsks, SessionEnds
  <2>3. talking' \subseteq talking
    BY <1>2 DEF ChatStep, Forward, CloseChat, DropAsks, SessionEnds, HangUp
  <2>4. r \in Contexts
    BY DEF Contexts
  <2>. QED
    BY <2>1, <2>2, <2>3, <2>4 DEF TypeOK
<1>3. CASE \/ \E a \in Asks : Raise(a) \/ ApproverStep(a)
           \/ \E h \in Humans : HumanDecides(h)
           \/ \E d \in Deciders : Take(d) \/ Deliver(d)
           \/ UNCHANGED vars
  <2>1. UNCHANGED <<phase, talking>>
    BY <1>3 DEF Raise, ApproverStep, ApproverStarts, ApproverAdmitted, ApproverReplies,
                ApproverGivesUp, ApproverDecides, HumanDecides, Take, Deliver, vars
  <2>. QED
    BY <2>1
<1>. QED
  BY <1>1, <1>2, <1>3 DEF Next

\* What an agent asked stays, and only an agent that is heard asks.
LEMMA RequestsStay ==
  ASSUME CascadeInv, [Next]_vars, NEW a \in Asks
  PROVE  \/ req'[a] = req[a]
         \/ /\ ~Raised(a) /\ state'[a] # "answered"
            /\ req'[a] \in Requests /\ req'[a].ctx \in talking /\ UNCHANGED phase
<1>1. ASSUME NEW b \in Asks, Raise(b), req'[a] # req[a]
      PROVE  /\ ~Raised(a) /\ state'[a] # "answered"
             /\ req'[a] \in Requests /\ req'[a].ctx \in talking /\ UNCHANGED phase
  <2>1. PICK r \in Requests : r.ctx \in talking /\ req' = [req EXCEPT ![b] = r]
    BY <1>1 DEF Raise
  <2>2. a = b /\ req'[a] = r
    BY <1>1, <2>1 DEF CascadeInv, TypeOK
  <2>3. state' = [state EXCEPT ![a] = "cancelled"] \/ state' = [state EXCEPT ![a] = "waiting"]
    BY <1>1, <2>2 DEF Raise
  <2>4. state'[a] # "answered"
    BY <2>3 DEF CascadeInv, TypeOK
  <2>. QED
    BY <1>1, <2>1, <2>2, <2>4 DEF Raise, CascadeInv, AskedInv
<1>2. CASE ~ \E b \in Asks : Raise(b)
  <2>1. UNCHANGED req
    BY <1>2 DEF Next, RunStep, Admit, CancelRun, DriverEnds, DriverDrops, HandleAuto,
       HandleDelegate, HandleHuman, LoopEnds, RunCloses, ChatStep, Forward, CloseChat, DropAsks,
       SessionEnds, ApproverStep, ApproverStarts, ApproverAdmitted, ApproverReplies,
       ApproverGivesUp, ApproverDecides, HumanDecides, Take, Deliver, vars
  <2>. QED
    BY <2>1
<1>. QED
  BY <1>1, <1>2

LEMMA RunningKeeps ==
  ASSUME CascadeInv, RunningInv, [Next]_vars
  PROVE  RunningInv'
<1>1. ASSUME NEW r \in Runs, r \in talking' PROVE phase'[r] # "queued"
  BY <1>1, PhasesAdvance DEF RunningInv
<1>2. ASSUME NEW a \in Asks, req'[a] # None, req'[a].ctx \in Runs
      PROVE  phase'[req'[a].ctx] # "queued"
  <2>1. CASE req'[a] = req[a]
    BY <1>2, <2>1, PhasesAdvance DEF RunningInv, Raised
  <2>2. CASE req'[a].ctx \in talking /\ UNCHANGED phase
    BY <1>2, <2>2 DEF RunningInv
  <2>. QED
    BY <2>1, <2>2, RequestsStay
<1>. QED
  BY <1>1, <1>2 DEF RunningInv, Raised

\* What the transcript owes to an ask.
Owed(a) ==
  /\ state[a] = "answered" /\ req[a].ctx \in Runs
  /\ phase[req[a].ctx] \in {"live", "draining"}
  /\ answer[a] # [by |-> "rule", pick |-> "cancel"]
Told(a) == [answer[a] EXCEPT !.pick = IF @ = "cancel" THEN "reject" ELSE @]

LEMMA KeptTraced ==
  ASSUME CascadeInv, RunningInv, AnswersAreTraced, [Next]_vars, NEW a \in Asks, Owed(a)',
         state[a] = "answered", answer'[a] = answer[a], trace'[a] = trace[a]
  PROVE  trace'[a] = Told(a)'
<1>1. Raised(a)
  BY DEF CascadeInv, AskedInv
<1>2. req'[a] = req[a] /\ req[a].ctx \in Runs
  BY <1>1, RequestsStay DEF Owed
<1>3. phase[req[a].ctx] \in {"live", "draining"}
  BY <1>1, <1>2, PhasesAdvance DEF Owed, RunningInv, Reading
<1>. QED
  BY <1>2, <1>3 DEF Owed, Told, AnswersAreTraced

LEMMA QuietTraced ==
  ASSUME CascadeInv, RunningInv, AnswersAreTraced, [Next]_vars, UNCHANGED <<answer, trace>>,
         \A a \in Asks : state'[a] = "answered" => state[a] = "answered"
  PROVE  AnswersAreTraced'
<1>. SUFFICES ASSUME NEW a \in Asks, Owed(a)' PROVE trace'[a] = Told(a)'
  BY DEF AnswersAreTraced, Owed, Told
<1>. QED
  BY KeptTraced DEF Owed

LEMMA HandleAutoTraced ==
  ASSUME CascadeInv, OnceInv, RunningInv, AnswersAreTraced, NEW r \in Runs, HandleAuto(r)
  PROVE  AnswersAreTraced'
<1>. USE DEF CascadeInv
<1>. DEFINE a == Head(channel[r])
            kind == RulePick(a)
<1>. UNCHANGED <<req, phase>>
  BY DEF HandleAuto
<1>0. r \in Contexts /\ Receive(r)
  BY DEF Contexts, HandleAuto
<1>1. a \in Asks /\ InAChannel(a) /\ Raised(a) /\ req[a].ctx = r
  BY <1>0, ReceiveOnce, ReceiveKeeps
<1>2. state[a] # "answered"
  BY <1>1 DEF OnceInv, AnsweredInv, Nowhere
<1>3. Send(a, "rule", kind) /\ phase[r] \in {"live", "draining"}
  BY DEF HandleAuto
<1>4. kind # "cancel" => Record(a, "rule", kind)
  BY DEF HandleAuto
<1>5. kind = "cancel" => UNCHANGED trace
  BY DEF HandleAuto
<1>6. [Next]_vars
  BY DEF Next, RunStep
<1>. HIDE DEF a, kind
<1>7. ASSUME NEW b \in Asks, Owed(b)' PROVE trace'[b] = Told(b)'
  <2>1. CASE b = a
    <3>1. answer'[a] = [by |-> "rule", pick |-> kind]
      BY <1>1, <1>2, <1>3, <1>7, <2>1, SendAnswers DEF Owed
    <3>2. kind # "cancel"
      BY <1>7, <2>1, <3>1 DEF Owed
    <3>3. trace' = [trace EXCEPT ![a] = [by |-> "rule", pick |-> kind]]
      BY <1>1, <1>3, <1>4, <3>2 DEF Record
    <3>4. trace'[a] = [by |-> "rule", pick |-> kind]
      BY <1>1, <3>3 DEF TypeOK
    <3>. QED
      BY <2>1, <3>1, <3>2, <3>4 DEF Told
  <2>2. CASE b # a
    <3>1. state[b] = "answered" /\ answer'[b] = answer[b]
      BY <1>1, <1>3, <1>7, <2>2, SendAnswers DEF Owed
    <3>2. trace'[b] = trace[b]
      BY <1>4, <1>5, <2>2 DEF Record, TypeOK
    <3>. QED
      BY <1>6, <1>7, <3>1, <3>2, KeptTraced
  <2>. QED
    BY <2>1, <2>2
<1>. QED
  BY <1>7 DEF AnswersAreTraced, Owed, Told

\* With unique tool calls the entry a decider took is the one it meant.
LEMMA DeliverTraced ==
  ASSUME CascadeInv, OnceInv, RunningInv, AnswersAreTraced, UniqueToolCalls,
         NEW d \in Deciders, Deliver(d)
  PROVE  AnswersAreTraced'
<1>. USE DEF CascadeInv
<1>. DEFINE a == hand[d].got
            pick == hand[d].pick
            kind == IF pick \in req[a].offers THEN pick ELSE "reject"
<1>. UNCHANGED <<req, phase>>
  BY DEF Deliver
<1>1. a \in Asks /\ Raised(a) /\ InAHand(a) /\ a = hand[d].meant
  BY DEF Deliver, HandInv, InAHand, KeyInv
<1>2. state[a] # "answered"
  BY <1>1 DEF OnceInv, AnsweredInv, Nowhere
<1>3. Send(a, Tier(d), pick) /\ Record(a, Tier(d), kind) /\ Tier(d) # "rule"
  BY DEF Deliver, Tier
<1>4. kind = IF pick = "cancel" THEN "reject" ELSE pick
  <2>1. pick \in req[a].offers \cup {"cancel"}
    BY <1>1 DEF Deliver, HandInv
  <2>2. req[a] \in Requests
    BY <1>1 DEF Raised, TypeOK
  <2>3. req[a].offers \in Offers
    BY <2>2 DEF Requests
  <2>4. "cancel" \notin req[a].offers
    BY <2>3, PermissionsAssumption
  <2>. HIDE DEF a, pick
  <2>. QED
    BY <2>1, <2>4 DEF kind
<1>6. [Next]_vars
  BY DEF Next
<1>. HIDE DEF a, kind, pick
<1>7. ASSUME NEW b \in Asks, Owed(b)' PROVE trace'[b] = Told(b)'
  <2>1. CASE b = a
    <3>1. answer'[a] = [by |-> Tier(d), pick |-> pick]
      BY <1>1, <1>2, <1>3, <1>7, <2>1, SendAnswers DEF Owed
    <3>2. trace' = [trace EXCEPT ![a] = [by |-> Tier(d), pick |-> kind]]
      BY <1>3, <1>7, <2>1 DEF Record, Owed
    <3>3. trace'[a] = [by |-> Tier(d), pick |-> kind]
      BY <1>1, <3>2 DEF TypeOK
    <3>. QED
      BY <2>1, <3>1, <3>3, <1>4 DEF Told
  <2>2. CASE b # a
    <3>1. state[b] = "answered" /\ answer'[b] = answer[b]
      BY <1>1, <1>3, <1>7, <2>2, SendAnswers DEF Owed
    <3>2. trace'[b] = trace[b]
      BY <1>3, <2>2 DEF Record, TypeOK
    <3>. QED
      BY <1>6, <1>7, <3>1, <3>2, KeptTraced
  <2>. QED
    BY <2>1, <2>2
<1>. QED
  BY <1>7 DEF AnswersAreTraced, Owed, Told

LEMMA StepTraced ==
  ASSUME CascadeInv, OnceInv, RunningInv, AnswersAreTraced, UniqueToolCalls, [Next]_vars
  PROVE  AnswersAreTraced'
<1>1. CASE \E r \in Runs : HandleAuto(r)
  BY <1>1, HandleAutoTraced
<1>2. CASE \E d \in Deciders : Deliver(d)
  BY <1>2, DeliverTraced
<1>3. CASE ~(\E r \in Runs : HandleAuto(r)) /\ ~(\E d \in Deciders : Deliver(d))
  <2>1. UNCHANGED <<answer, trace>>
    BY <1>3 DEF Next, RunStep, Admit, CancelRun, DriverEnds, DriverDrops,
       HandleDelegate, HandleHuman, LoopEnds, RunCloses, ChatStep, Forward, CloseChat, DropAsks,
       SessionEnds, Raise, ApproverStep, ApproverStarts, ApproverAdmitted, ApproverReplies,
       ApproverGivesUp, ApproverDecides, HumanDecides, Take, vars
  <2>2. \/ UNCHANGED state
        \/ \E asks : CancelAll(asks)
        \/ \E a \in Asks : \/ state' = [state EXCEPT ![a] = "cancelled"]
                            \/ state' = [state EXCEPT ![a] = "waiting"]
    <3>1. CASE \E r \in Runs : RunStep(r)
      BY <1>3, <3>1 DEF RunStep, Admit, CancelRun, DriverEnds, DriverDrops, HangUp, Park,
                        HandleDelegate, HandleHuman, LoopEnds, RunCloses
    <3>2. CASE \E c \in Chats : ChatStep(c)
      BY <3>2 DEF ChatStep, Forward, CloseChat, DropAsks, SessionEnds, HangUp, Park
    <3>3. CASE \E a \in Asks : Raise(a)
      BY <3>3 DEF Raise
    <3>4. CASE \/ \E a \in Asks : ApproverStep(a)
               \/ \E h \in Humans : HumanDecides(h)
               \/ \E d \in Deciders : Take(d)
               \/ UNCHANGED vars
      BY <3>4 DEF ApproverStep, ApproverStarts, ApproverAdmitted, ApproverReplies,
                  ApproverGivesUp, ApproverDecides, HumanDecides, Take, vars
    <3>. QED
      BY <1>3, <3>1, <3>2, <3>3, <3>4 DEF Next
  <2>3. \A a \in Asks : state'[a] = "answered" => state[a] = "answered"
    BY <2>2, CancelAllAnswersNobody DEF CascadeInv, TypeOK
  <2>. QED
    BY <2>1, <2>3, QuietTraced
<1>. QED
  BY <1>1, <1>2, <1>3

\* If agents ask at most once per tool call, the transcript of a run that is
\* still read says of every ask what its agent was told:
\* Permissions!AnswersAreTraced (runs.rs, resolve_internal and the rule arm).
THEOREM TranscriptsAgree ==
  ASSUME UniqueToolCalls
  PROVE  Spec => []AnswersAreTraced
<1>. DEFINE Inv == CascadeInv /\ OnceInv /\ RunningInv /\ AnswersAreTraced
<1>1. Init => Inv
  <2>1. Init => RunningInv /\ AnswersAreTraced
    BY PermissionsAssumption DEF Init, RunningInv, AnswersAreTraced, Raised
  <2>. QED
    BY <2>1, InitHolds, InitOnce
<1>2. Inv /\ [Next]_vars => Inv'
  BY StepKeeps, StepKeepsOnce, RunningKeeps, StepTraced
<1>3. Inv => AnswersAreTraced
  OBVIOUS
<1>. HIDE DEF Inv
<1>. QED
  BY <1>1, <1>2, <1>3, PTL DEF Spec

-----------------------------------------------------------------------------
(* The cascade implements the contract of an ask. *)

\* What the contract sees.
seen == <<state, answer, Entitled, Offered>>

LEMMA AttributesStay ==
  ASSUME UNCHANGED req
  PROVE  UNCHANGED <<Entitled, Offered>>
BY DEF Entitled, Offered, MaySettle

LEMMA UnseenStep ==
  ASSUME UNCHANGED <<state, answer, req>>
  PROVE  UNCHANGED seen
BY AttributesStay DEF seen

LEMMA CancellingMaps ==
  ASSUME TypeOK, NEW asks, CancelAll(asks), UNCHANGED <<answer, req>>
  PROVE  Contract!Next
<1>. DEFINE S == {a \in Asks : a \in asks /\ state[a] = "waiting"}
<1>1. state' = [a \in Asks |-> IF a \in S THEN "cancelled" ELSE state[a]]
  BY DEF CancelAll
<1>2. Contract!Drop(S)
  BY <1>1, AttributesStay DEF Contract!Drop
<1>. QED
  BY <1>2 DEF Contract!Next

LEMMA SendingMaps ==
  ASSUME TypeOK, NEW a \in Asks, NEW by \in {"rule", "approver", "human"}, NEW pick,
         Raised(a), by \in MaySettle(a), pick \in req[a].offers \cup {"cancel"},
         Send(a, by, pick), UNCHANGED req
  PROVE  Contract!Next \/ UNCHANGED seen
<1>1. CASE state[a] = "waiting"
  <2>1. /\ state' = [state EXCEPT ![a] = "answered"]
        /\ answer' = [answer EXCEPT ![a] = [by |-> by, pick |-> pick]]
    BY <1>1 DEF Send
  <2>2. by \in Entitled[a] /\ pick \in Offered[a] \cup {"cancel"}
    BY DEF Entitled, Offered, Raised
  <2>3. Contract!Settle(a, by)
    BY <1>1, <2>1, <2>2, AttributesStay DEF Contract!Settle
  <2>. QED
    BY <2>3 DEF Contract!Next
<1>2. CASE state[a] # "waiting"
  <2>1. UNCHANGED <<state, answer>>
    BY <1>2 DEF Send
  <2>. QED
    BY <2>1, UnseenStep
<1>. QED
  BY <1>1, <1>2

LEMMA RaisingMaps ==
  ASSUME TypeOK, AskedInv, NEW a \in Asks, Raise(a)
  PROVE  Contract!Next
<1>1. PICK r \in Requests :
        /\ req' = [req EXCEPT ![a] = r]
        /\ \/ state' = [state EXCEPT ![a] = "cancelled"]
           \/ state' = [state EXCEPT ![a] = "waiting"]
  BY DEF Raise
<1>2. state[a] = "none" /\ req[a] = None /\ answer' = answer
  BY DEF Raise, AskedInv, Raised
<1>3. req'[a] = r /\ \A b \in Asks : b # a => req'[b] = req[b]
  BY <1>1 DEF TypeOK
<1>4. Entitled' = [Entitled EXCEPT ![a] = Entitled'[a]]
  <2>1. ASSUME NEW b \in Asks, b # a PROVE MaySettle(b)' = MaySettle(b)
    BY <1>3, <2>1 DEF MaySettle
  <2>2. /\ Entitled' = [b \in Asks |-> IF req'[b] = None THEN {} ELSE MaySettle(b)']
        /\ Entitled = [b \in Asks |-> IF req[b] = None THEN {} ELSE MaySettle(b)]
    BY DEF Entitled
  <2>3. \A b \in Asks : b # a => Entitled'[b] = Entitled[b]
    BY <1>3, <2>1, <2>2
  <2>. QED
    BY <2>2, <2>3
<1>5. Offered' = [Offered EXCEPT ![a] = Offered'[a]]
  BY <1>3 DEF Offered
<1>6. Entitled'[a] \in SUBSET {"rule", "approver", "human"}
  BY DEF Entitled, MaySettle
<1>7. Offered'[a] \in SUBSET Kinds
  BY <1>1, <1>3, PermissionsAssumption DEF Offered, Requests, Kinds
<1>8. Contract!Raise(a)
  BY <1>1, <1>2, <1>4, <1>5, <1>6, <1>7 DEF Contract!Raise
<1>. QED
  BY <1>8 DEF Contract!Next

LEMMA HandlingMaps ==
  ASSUME CascadeInv, NEW r \in Runs, HandleAuto(r)
  PROVE  Contract!Next \/ UNCHANGED seen
<1>. DEFINE a == Head(channel[r])
<1>1. r \in Contexts /\ Receive(r) /\ TypeOK /\ UNCHANGED <<req, phase>>
  BY DEF Contexts, HandleAuto, CascadeInv
<1>2. a \in Asks /\ Raised(a) /\ req[a].ctx = r
  BY <1>1, ReceiveKeeps, ReceiveEffect
<1>3. "rule" \in MaySettle(a)
  BY <1>2 DEF HandleAuto, Path, MaySettle
<1>4. RulePick(a) \in req[a].offers \cup {"cancel"}
  BY <1>1, <1>2, RulePickIsOffered DEF Raised, TypeOK
<1>5. Send(a, "rule", RulePick(a))
  BY DEF HandleAuto
<1>. HIDE DEF a
<1>. QED
  BY <1>1, <1>2, <1>3, <1>4, <1>5, SendingMaps

\* With one ask per tool call, what a decider holds is what it decided about.
LEMMA DeliveringMaps ==
  ASSUME CascadeInv, UniqueToolCalls, NEW d \in Deciders, Deliver(d)
  PROVE  Contract!Next \/ UNCHANGED seen
<1>. DEFINE a == hand[d].got
<1>1. /\ a \in Asks /\ Raised(a) /\ hand[d].meant = a /\ Parkable(a)
      /\ hand[d].pick \in req[a].offers \cup {"cancel"}
      /\ d \in Asks => task[a] # "none"
  BY DEF Deliver, CascadeInv, HandInv, KeyInv
<1>2. req[a].ctx \in Runs \cup Chats
  BY <1>1 DEF CascadeInv, TypeOK, Raised, Requests, Contexts
<1>3. CASE d \in Humans
  <2>1. "human" \in MaySettle(a)
    BY <1>1 DEF Parkable, MaySettle
  <2>. HIDE DEF a
  <2>. QED
    BY <1>1, <1>3, <2>1, SendingMaps DEF Deliver, Tier, CascadeInv, a
<1>4. CASE d \notin Humans
  <2>1. req[a].ctx \in Runs /\ Path(req[a].ctx, req[a].title) = "Delegate"
    BY <1>1, <1>4 DEF Deciders, CascadeInv, ApproverInv
  <2>2. "approver" \in MaySettle(a)
    BY <1>1, <2>1 DEF Path, MaySettle
  <2>. HIDE DEF a
  <2>. QED
    BY <1>1, <1>4, <2>2, SendingMaps DEF Deliver, Tier, CascadeInv, a
<1>. QED
  BY <1>3, <1>4

LEMMA StepMaps ==
  ASSUME UniqueToolCalls
  PROVE  CascadeInv /\ [Next]_vars => [Contract!Next]_seen
<1>. SUFFICES ASSUME CascadeInv, [Next]_vars
              PROVE  Contract!Next \/ UNCHANGED seen
  OBVIOUS
<1>0. TypeOK /\ AskedInv
  BY DEF CascadeInv
<1>1. ASSUME NEW r \in Runs, RunStep(r) PROVE Contract!Next \/ UNCHANGED seen
  <2>1. CASE Admit(r) \/ CancelRun(r) \/ LoopEnds(r)
    BY <2>1, UnseenStep DEF Admit, CancelRun, LoopEnds
  <2>2. CASE DriverEnds(r) \/ DriverDrops(r)
    BY <2>2, <1>0, CancellingMaps DEF DriverEnds, DriverDrops, HangUp
  <2>3. CASE HandleAuto(r)
    BY <2>3, HandlingMaps
  <2>4. CASE HandleDelegate(r) \/ HandleHuman(r)
    BY <2>4, <1>0, CancellingMaps DEF HandleDelegate, HandleHuman, Park
  <2>5. CASE RunCloses(r)
    BY <2>5, <1>0, CancellingMaps DEF RunCloses
  <2>. QED
    BY <1>1, <2>1, <2>2, <2>3, <2>4, <2>5 DEF RunStep
<1>2. ASSUME NEW c \in Chats, ChatStep(c) PROVE Contract!Next \/ UNCHANGED seen
  <2>1. CASE CloseChat(c)
    BY <2>1, UnseenStep DEF CloseChat
  <2>2. CASE Forward(c)
    BY <2>2, <1>0, CancellingMaps DEF Forward, Park
  <2>3. CASE DropAsks(c)
    BY <2>3, <1>0, CancellingMaps DEF DropAsks
  <2>4. CASE SessionEnds(c)
    BY <2>4, <1>0, CancellingMaps DEF SessionEnds, HangUp
  <2>. QED
    BY <1>2, <2>1, <2>2, <2>3, <2>4 DEF ChatStep
<1>3. ASSUME NEW a \in Asks, Raise(a) PROVE Contract!Next
  BY <1>3, <1>0, RaisingMaps
<1>4. ASSUME NEW a \in Asks, ApproverStep(a) PROVE UNCHANGED seen
  BY <1>4, UnseenStep DEF ApproverStep, ApproverStarts, ApproverAdmitted, ApproverReplies,
                          ApproverGivesUp, ApproverDecides
<1>5. ASSUME NEW h \in Humans, HumanDecides(h) PROVE UNCHANGED seen
  BY <1>5, UnseenStep DEF HumanDecides
<1>6. ASSUME NEW d \in Deciders, Take(d) PROVE UNCHANGED seen
  BY <1>6, UnseenStep DEF Take
<1>7. ASSUME NEW d \in Deciders, Deliver(d) PROVE Contract!Next \/ UNCHANGED seen
  BY <1>7, DeliveringMaps
<1>8. CASE UNCHANGED vars
  BY <1>8, UnseenStep DEF vars
<1>. QED
  BY <1>1, <1>2, <1>3, <1>4, <1>5, <1>6, <1>7, <1>8 DEF Next

\* If an agent asks at most once per tool call, the cascade keeps the contract:
\* each ask is settled at most once, with one of its own options, and by a tier
\* that is entitled to it (PermissionPath, park_external_ask).  The hypothesis
\* is needed: resolve_internal settles by key, not by ask.
THEOREM CascadeKeepsTheContract ==
  ASSUME UniqueToolCalls
  PROVE  Spec => KeepsTheContract
<1>1. Init => Contract!Init
  BY DEF Init, Contract!Init, Contract!NoAnswer, Nobody, Entitled, Offered
<1>2. CascadeInv /\ [Next]_vars => [Contract!Next]_Contract!contractVars
  BY StepMaps DEF seen, Contract!contractVars
<1>. QED
  BY <1>1, <1>2, CascadeInvHolds, PTL DEF Spec, KeepsTheContract, Contract!Spec
=============================================================================
