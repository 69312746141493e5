----------------------------- MODULE Chats_proofs -----------------------------
(***************************************************************************)
(* Proofs about the registry of chats, for every set of conversations and  *)
(* sessions, and about a session, for every number of prompts and stops.   *)
(***************************************************************************)
EXTENDS Chats, ChatSession, TLAPS

\* A session that took a conversation keeps it.
Named == \A s \in Sessions : stage[s] # "unused" => conv[s] \in Convs

\* What the registry holds was opened, under its own conversation.
Registered == \A c \in Convs : chats[c] # NoSession => conv[chats[c]] = c /\ stage[chats[c]] = "open"

\* Only what was open is closed.
WasOpen == \A s \in Sessions : closing[s] # "no" => stage[s] = "open"

ClosedFor(c) == \E d \in Sessions : conv[d] = c /\ closing[d] # "no"

\* The registry forgets a conversation only when one of its sessions is closed.
Accounted == \A s \in Sessions : stage[s] = "open" => chats[conv[s]] # NoSession \/ ClosedFor(conv[s])

RegistryInv == TypeOK /\ Named /\ Registered /\ WasOpen /\ Accounted

LEMMA InitHolds == Init => RegistryInv
<1>. SUFFICES ASSUME Init PROVE RegistryInv
  OBVIOUS
<1>1. TypeOK
  BY DEF Init, TypeOK
<1>2. Named /\ Registered /\ WasOpen /\ Accounted
  BY DEF Init, Named, Registered, WasOpen, Accounted
<1>. QED
  BY <1>1, <1>2 DEF RegistryInv

\* A session takes a conversation; a switch closes the old one with it.
LEMMA TakingKeeps ==
  ASSUME RegistryInv, NEW s \in Sessions, NEW c \in Convs, NEW to \in {"found", "checked"},
         Takes(s, c, to),
         \/ UNCHANGED <<chats, closing>>
         \/ \E b \in Convs : Removes(b),
         UNCHANGED <<row, deleting, window, children, agent, attr, sighted, ref>>
  PROVE  RegistryInv'
<1>. USE DEF RegistryInv
<1>1. /\ stage[s] = "unused" /\ stage' = [stage EXCEPT ![s] = to]
      /\ conv' = [conv EXCEPT ![s] = c]
  BY DEF Takes, Moves
<1>2. /\ stage'[s] = to /\ conv'[s] = c
      /\ \A t \in Sessions : t # s => stage'[t] = stage[t] /\ conv'[t] = conv[t]
  BY <1>1 DEF TypeOK
<1>3. chats' \in [Convs -> Sessions \cup {NoSession}]
      /\ closing' \in [Sessions -> {"no", "removed", "waiting", "reclaimed"}]
  BY DEF Removes, TypeOK
<1>4. \A b \in Convs : chats'[b] # NoSession => chats'[b] = chats[b]
  BY DEF Removes, TypeOK
<1>5. \A t \in Sessions : closing'[t] # "no" => closing[t] # "no" \/ stage[t] = "open"
  BY DEF Removes, Registered, TypeOK
<1>6. \A b \in Convs : chats[b] # NoSession /\ chats'[b] = NoSession => closing'[chats[b]] # "no"
  BY DEF Removes, TypeOK
<1>7. \A t \in Sessions : closing[t] # "no" => closing'[t] # "no"
  BY DEF Removes, TypeOK
<1>8. TypeOK'
  <2>1. stage' \in [Sessions -> {"unused", "checked", "found", "snapped", "spawned", "recorded",
                                 "open", "refused", "abandoned"}]
    BY <1>1 DEF TypeOK
  <2>2. conv' \in [Sessions -> Convs \cup {NoConv}]
    BY <1>1 DEF TypeOK
  <2>3. \A t \in Sessions : (attr[t] = "none") <=> (stage'[t] # "open")
    BY <1>1, <1>2 DEF TypeOK
  <2>. QED
    BY <1>3, <2>1, <2>2, <2>3 DEF TypeOK
<1>9. Named'
  BY <1>2 DEF Named
<1>10. Registered'
  <2>. SUFFICES ASSUME NEW b \in Convs, chats'[b] # NoSession
                PROVE  conv'[chats'[b]] = b /\ stage'[chats'[b]] = "open"
    BY DEF Registered
  <2>1. chats'[b] = chats[b] /\ chats[b] \in Sessions
    BY <1>4 DEF TypeOK
  <2>2. conv[chats[b]] = b /\ stage[chats[b]] = "open"
    BY <2>1 DEF Registered
  <2>. QED
    BY <2>1, <2>2, <1>1, <1>2
<1>11. WasOpen'
  BY <1>1, <1>2, <1>5 DEF WasOpen
<1>12. Accounted'
  <2>. SUFFICES ASSUME NEW t \in Sessions, stage'[t] = "open", chats'[conv'[t]] = NoSession
                PROVE  \E d \in Sessions : conv'[d] = conv'[t] /\ closing'[d] # "no"
    BY DEF Accounted, ClosedFor
  <2>1. t # s /\ stage[t] = "open" /\ conv'[t] = conv[t] /\ conv[t] \in Convs
    BY <1>1, <1>2 DEF Named
  <2>2. CASE chats[conv[t]] # NoSession
    <3>1. closing'[chats[conv[t]]] # "no"
      BY <1>6, <2>1, <2>2
    <3>2. chats[conv[t]] \in Sessions /\ conv[chats[conv[t]]] = conv[t]
          /\ stage[chats[conv[t]]] = "open"
      BY <2>1, <2>2 DEF Registered, TypeOK
    <3>. QED
      BY <3>1, <3>2, <2>1, <1>1, <1>2
  <2>3. CASE ClosedFor(conv[t])
    <3>1. PICK d \in Sessions : conv[d] = conv[t] /\ closing[d] # "no"
      BY <2>3 DEF ClosedFor
    <3>2. d # s
      BY <3>1, <1>1 DEF WasOpen
    <3>. QED
      BY <3>1, <3>2, <2>1, <1>2, <1>7
  <2>. QED
    BY <2>1, <2>2, <2>3 DEF Accounted
<1>. QED
  BY <1>8, <1>9, <1>10, <1>11, <1>12

\* A session moves on, short of the registry.
LEMMA MovingKeeps ==
  ASSUME RegistryInv, NEW s \in Sessions,
         stage[s] \notin {"unused", "open"},
         NEW to \in {"found", "snapped", "spawned", "recorded", "refused", "abandoned"},
         stage' = [stage EXCEPT ![s] = to],
         row' \in [Convs -> BOOLEAN], window' \in [Sessions -> SUBSET Sessions],
         UNCHANGED <<conv, deleting, chats, children, agent, attr, sighted, closing, ref>>
  PROVE  RegistryInv'
<1>. USE DEF RegistryInv
<1>1. \A t \in Sessions : /\ stage'[t] = "open" <=> stage[t] = "open"
                          /\ stage'[t] = "unused" <=> stage[t] = "unused"
  BY DEF TypeOK
<1>2. TypeOK'
  <2>1. stage' \in [Sessions -> {"unused", "checked", "found", "snapped", "spawned", "recorded",
                                 "open", "refused", "abandoned"}]
    BY DEF TypeOK
  <2>2. \A t \in Sessions : (attr[t] = "none") <=> (stage'[t] # "open")
    BY <1>1 DEF TypeOK
  <2>. QED
    BY <2>1, <2>2 DEF TypeOK
<1>3. Named' /\ WasOpen' /\ Accounted'
  BY <1>1 DEF Named, WasOpen, Accounted, ClosedFor
<1>4. Registered'
  BY <1>1 DEF Registered, TypeOK
<1>. QED
  BY <1>2, <1>3, <1>4

LEMMA OpeningKeeps ==
  ASSUME RegistryInv, NEW s \in Sessions, Opening(s), ~Registers(s)
  PROVE  RegistryInv'
<1>. USE DEF RegistryInv
<1>1. stage[s] \notin {"unused", "open"}
  BY DEF Opening, ResumeReadsRow, Snapshots, Spawns, WritesRow, GivesUp, Moves
<1>2. UNCHANGED <<conv, deleting, chats, children, agent, attr, sighted, closing, ref>>
  BY DEF Opening, ResumeReadsRow, Snapshots, Spawns, WritesRow, GivesUp, attrVars, closeVars
<1>3. window' \in [Sessions -> SUBSET Sessions]
  BY DEF Opening, ResumeReadsRow, Snapshots, Spawns, WritesRow, GivesUp, TypeOK, Alive
<1>4. row' \in [Convs -> BOOLEAN]
  BY DEF Opening, ResumeReadsRow, Snapshots, Spawns, WritesRow, GivesUp, TypeOK
<1>5. \E to \in {"found", "snapped", "spawned", "recorded", "refused", "abandoned"} :
        stage' = [stage EXCEPT ![s] = to]
  BY DEF Opening, ResumeReadsRow, Snapshots, Spawns, WritesRow, GivesUp, Moves
<1>. QED
  BY <1>1, <1>2, <1>3, <1>4, <1>5, MovingKeeps

LEMMA RegisteringKeeps ==
  ASSUME RegistryInv, NEW s \in Sessions, Registers(s)
  PROVE  RegistryInv'
<1>. USE DEF RegistryInv
<1>. UNCHANGED <<row, deleting, conv, window, children, agent, sighted, closing, ref>>
  BY DEF Registers, closeVars
<1>1. /\ stage[s] = "recorded" /\ stage' = [stage EXCEPT ![s] = "open"]
      /\ chats' = [chats EXCEPT ![conv[s]] = s] /\ attr' = [attr EXCEPT ![s] = "polling"]
  BY DEF Registers, Moves
<1>2. conv[s] \in Convs
  BY <1>1 DEF Named
<1>3. /\ stage'[s] = "open" /\ attr'[s] = "polling"
      /\ \A t \in Sessions : t # s => stage'[t] = stage[t] /\ attr'[t] = attr[t]
      /\ chats'[conv[s]] = s
      /\ \A c \in Convs : c # conv[s] => chats'[c] = chats[c]
  BY <1>1, <1>2 DEF TypeOK
<1>4. TypeOK'
  <2>1. stage' \in [Sessions -> {"unused", "checked", "found", "snapped", "spawned", "recorded",
                                 "open", "refused", "abandoned"}]
    BY <1>1 DEF TypeOK
  <2>2. chats' \in [Convs -> Sessions \cup {NoSession}]
    BY <1>1 DEF TypeOK
  <2>3. attr' \in [Sessions -> {"none", "polling", "sighted", "keeping", "done"}]
    BY <1>1 DEF TypeOK
  <2>4. \A t \in Sessions : (attr'[t] = "none") <=> (stage'[t] # "open")
    BY <1>3 DEF TypeOK
  <2>. QED
    BY <2>1, <2>2, <2>3, <2>4 DEF TypeOK
<1>5. Named'
  BY <1>2, <1>3 DEF Named
<1>6. Registered'
  <2>. SUFFICES ASSUME NEW c \in Convs, chats'[c] # NoSession
                PROVE  conv[chats'[c]] = c /\ stage'[chats'[c]] = "open"
    BY DEF Registered
  <2>1. CASE c = conv[s]
    BY <2>1, <1>3
  <2>2. CASE c # conv[s]
    <3>1. chats[c] \in Sessions /\ chats'[c] = chats[c]
      BY <2>2, <1>3 DEF TypeOK
    <3>. QED
      BY <3>1, <1>3 DEF Registered
  <2>. QED
    BY <2>1, <2>2
<1>7. WasOpen'
  BY <1>3 DEF WasOpen
<1>8. Accounted'
  <2>. SUFFICES ASSUME NEW t \in Sessions, stage'[t] = "open", conv[t] # conv[s]
                PROVE  chats'[conv[t]] # NoSession \/ ClosedFor(conv[t])
    BY <1>3, ChatsAssumption DEF Accounted, ClosedFor
  <2>1. t # s /\ stage[t] = "open" /\ conv[t] \in Convs
    BY <1>3 DEF Named
  <2>. QED
    BY <2>1, <1>3 DEF Accounted
<1>. QED
  BY <1>4, <1>5, <1>6, <1>7, <1>8

LEMMA RemovingKeeps ==
  ASSUME RegistryInv, NEW c \in Convs, Removes(c), deleting' \subseteq Convs,
         UNCHANGED <<row, stage, conv, window, children, agent, attr, sighted, ref>>
  PROVE  RegistryInv'
<1>. USE DEF RegistryInv
<1>1. /\ chats[c] \in Sessions /\ conv[chats[c]] = c /\ stage[chats[c]] = "open"
      /\ chats' = [chats EXCEPT ![c] = NoSession]
      /\ closing' = [closing EXCEPT ![chats[c]] = "removed"]
  BY DEF Removes, Registered, TypeOK
<1>2. /\ chats'[c] = NoSession /\ \A b \in Convs : b # c => chats'[b] = chats[b]
      /\ closing'[chats[c]] = "removed"
      /\ \A t \in Sessions : t # chats[c] => closing'[t] = closing[t]
  BY <1>1 DEF TypeOK
<1>3. TypeOK'
  <2>1. chats' \in [Convs -> Sessions \cup {NoSession}]
    BY <1>1 DEF TypeOK
  <2>2. closing' \in [Sessions -> {"no", "removed", "waiting", "reclaimed"}]
    BY <1>1 DEF TypeOK
  <2>. QED
    BY <2>1, <2>2 DEF TypeOK
<1>4. Named' /\ WasOpen'
  BY <1>1, <1>2 DEF Named, WasOpen
<1>5. Registered'
  BY <1>2 DEF Registered
<1>6. Accounted'
  <2>. SUFFICES ASSUME NEW t \in Sessions, stage[t] = "open", chats'[conv[t]] = NoSession
                PROVE  \E d \in Sessions : conv[d] = conv[t] /\ closing'[d] # "no"
    BY DEF Accounted, ClosedFor
  <2>1. CASE conv[t] = c
    BY <2>1, <1>1, <1>2
  <2>2. CASE conv[t] # c
    <3>1. chats[conv[t]] = NoSession
      BY <2>2, <1>2 DEF Named
    <3>2. PICK d \in Sessions : conv[d] = conv[t] /\ closing[d] # "no"
      BY <3>1 DEF Accounted, ClosedFor
    <3>. QED
      BY <3>2, <1>2
  <2>. QED
    BY <2>1, <2>2
<1>. QED
  BY <1>3, <1>4, <1>5, <1>6

\* Agents, attribution and the rest of a close leave the registry alone.
LEMMA ElsewhereKeeps ==
  ASSUME RegistryInv, UNCHANGED <<stage, conv, chats, window>>,
         row' \in [Convs -> BOOLEAN], deleting' \subseteq Convs,
         children' \in [Convs -> Sessions \cup {NoSession}],
         agent' \in [Sessions -> {"none", "alive", "dead"}],
         attr' \in [Sessions -> {"none", "polling", "sighted", "keeping", "done"}],
         \A t \in Sessions : attr'[t] = "none" <=> attr[t] = "none",
         sighted' \in [Sessions -> Sessions \cup {NoSession}],
         closing' \in [Sessions -> {"no", "removed", "waiting", "reclaimed"}],
         \A t \in Sessions : closing'[t] = "no" <=> closing[t] = "no",
         ref' \in [Sessions -> Sessions \cup {NoSession}]
  PROVE  RegistryInv'
<1>. USE DEF RegistryInv
<1>1. TypeOK'
  BY DEF TypeOK
<1>2. Named' /\ Registered' /\ WasOpen' /\ Accounted'
  BY DEF Named, Registered, WasOpen, Accounted, ClosedFor
<1>. QED
  BY <1>1, <1>2

LEMMA AttributionKeeps ==
  ASSUME RegistryInv, NEW s \in Sessions, Attribution(s)
  PROVE  RegistryInv'
<1>. USE DEF RegistryInv
<1>1. UNCHANGED <<row, deleting, stage, conv, window, chats, closing, ref>>
  BY DEF Attribution, Sights, StopsLooking, FindsChatOpen, Keeps, FindsChatClosed,
         requestVars, closeVars
<1>2. attr[s] # "none" /\ \E a \in {"sighted", "keeping", "done"} : attr' = [attr EXCEPT ![s] = a]
  BY DEF Attribution, Sights, StopsLooking, FindsChatOpen, Keeps, FindsChatClosed
<1>3. sighted' \in [Sessions -> Sessions \cup {NoSession}]
  BY DEF Attribution, Sights, StopsLooking, FindsChatOpen, Keeps, FindsChatClosed, TypeOK
<1>4. agent' \in [Sessions -> {"none", "alive", "dead"}]
  BY DEF Attribution, Sights, StopsLooking, FindsChatOpen, Keeps, FindsChatClosed, Killed, TypeOK
<1>5. children' \in [Convs -> Sessions \cup {NoSession}]
  BY DEF Attribution, Sights, StopsLooking, FindsChatOpen, Keeps, FindsChatClosed, TypeOK
<1>6. /\ attr' \in [Sessions -> {"none", "polling", "sighted", "keeping", "done"}]
      /\ \A t \in Sessions : attr'[t] = "none" <=> attr[t] = "none"
  BY <1>2 DEF TypeOK
<1>7. /\ row' \in [Convs -> BOOLEAN] /\ deleting' \subseteq Convs
      /\ closing' \in [Sessions -> {"no", "removed", "waiting", "reclaimed"}]
      /\ ref' \in [Sessions -> Sessions \cup {NoSession}]
  BY <1>1 DEF TypeOK
<1>. QED
  BY <1>1, <1>3, <1>4, <1>5, <1>6, <1>7, ElsewhereKeeps

LEMMA ReclaimingKeeps ==
  ASSUME RegistryInv, NEW s \in Sessions, CloseTakesChild(s) \/ Reclaims(s)
  PROVE  RegistryInv'
<1>. USE DEF RegistryInv
<1>1. UNCHANGED <<row, deleting, stage, conv, window, chats, attr, sighted>>
  BY DEF CloseTakesChild, Reclaims, requestVars, attrVars
<1>2. closing[s] # "no" /\ \E p \in {"waiting", "reclaimed"} : closing' = [closing EXCEPT ![s] = p]
  BY DEF CloseTakesChild, Reclaims
<1>3. conv[s] \in Convs
  BY <1>2 DEF WasOpen, Named
<1>4. ref' \in [Sessions -> Sessions \cup {NoSession}]
  BY <1>3 DEF CloseTakesChild, Reclaims, TypeOK
<1>5. children' \in [Convs -> Sessions \cup {NoSession}]
  BY DEF CloseTakesChild, Reclaims, TypeOK
<1>6. agent' \in [Sessions -> {"none", "alive", "dead"}]
  BY DEF CloseTakesChild, Reclaims, Killed, TypeOK
<1>7. /\ closing' \in [Sessions -> {"no", "removed", "waiting", "reclaimed"}]
      /\ \A t \in Sessions : closing'[t] = "no" <=> closing[t] = "no"
  BY <1>2 DEF TypeOK
<1>8. /\ row' \in [Convs -> BOOLEAN] /\ deleting' \subseteq Convs
      /\ attr' \in [Sessions -> {"none", "polling", "sighted", "keeping", "done"}]
      /\ sighted' \in [Sessions -> Sessions \cup {NoSession}]
  BY <1>1 DEF TypeOK
<1>. QED
  BY <1>1, <1>4, <1>5, <1>6, <1>7, <1>8, ElsewhereKeeps

LEMMA AgentsKeep ==
  ASSUME RegistryInv, NEW s \in Sessions, AgentStarts(s) \/ AgentDies(s)
  PROVE  RegistryInv'
<1>. USE DEF RegistryInv
<1>1. UNCHANGED <<row, deleting, stage, conv, window, chats, children, attr, sighted, closing, ref>>
  BY DEF AgentStarts, AgentDies, requestVars, attrVars, closeVars
<1>2. agent' \in [Sessions -> {"none", "alive", "dead"}]
  BY DEF AgentStarts, AgentDies, TypeOK
<1>3. /\ row' \in [Convs -> BOOLEAN] /\ deleting' \subseteq Convs
      /\ children' \in [Convs -> Sessions \cup {NoSession}]
      /\ attr' \in [Sessions -> {"none", "polling", "sighted", "keeping", "done"}]
      /\ sighted' \in [Sessions -> Sessions \cup {NoSession}]
      /\ closing' \in [Sessions -> {"no", "removed", "waiting", "reclaimed"}]
      /\ ref' \in [Sessions -> Sessions \cup {NoSession}]
  BY <1>1 DEF TypeOK
<1>. QED
  BY <1>1, <1>2, <1>3, ElsewhereKeeps

LEMMA DeletingKeeps ==
  ASSUME RegistryInv, NEW c \in Convs, DeleteCloses(c) \/ DeleteDropsRow(c)
  PROVE  RegistryInv'
<1>. USE DEF RegistryInv
<1>1. deleting' \subseteq Convs /\ row' \in [Convs -> BOOLEAN]
  BY DEF DeleteCloses, DeleteDropsRow, TypeOK
<1>2. UNCHANGED <<stage, conv, window, children, agent, attr, sighted, ref>>
  BY DEF DeleteCloses, DeleteDropsRow, attrVars, closeVars
<1>3. CASE Removes(c) /\ row' = row
  BY <1>1, <1>2, <1>3, RemovingKeeps
<1>4. CASE UNCHANGED <<chats, closing>>
  <2>1. /\ children' \in [Convs -> Sessions \cup {NoSession}]
        /\ agent' \in [Sessions -> {"none", "alive", "dead"}]
        /\ attr' \in [Sessions -> {"none", "polling", "sighted", "keeping", "done"}]
        /\ sighted' \in [Sessions -> Sessions \cup {NoSession}]
        /\ closing' \in [Sessions -> {"no", "removed", "waiting", "reclaimed"}]
        /\ ref' \in [Sessions -> Sessions \cup {NoSession}]
    BY <1>2, <1>4 DEF TypeOK
  <2>. QED
    BY <1>1, <1>2, <1>4, <2>1, ElsewhereKeeps
<1>. QED
  BY <1>3, <1>4 DEF DeleteCloses, DeleteDropsRow, closeVars

LEMMA StepKeeps == RegistryInv /\ [Next]_vars => RegistryInv'
<1>. SUFFICES ASSUME RegistryInv, [Next]_vars PROVE RegistryInv'
  OBVIOUS
<1>1. ASSUME NEW s \in Sessions, NEW c \in Convs, Start(s, c) \/ ResumeChecks(s, c)
      PROVE  RegistryInv'
  BY <1>1, TakingKeeps DEF Start, ResumeChecks, attrVars, closeVars
<1>2. ASSUME NEW s \in Sessions, NEW c \in Convs, NEW c2 \in Convs, Switches(c, s, c2)
      PROVE  RegistryInv'
  BY <1>2, TakingKeeps DEF Switches, attrVars
<1>3. ASSUME NEW s \in Sessions,
             Opening(s) \/ AgentStarts(s) \/ AgentDies(s) \/ Attribution(s)
               \/ CloseTakesChild(s) \/ Reclaims(s)
      PROVE  RegistryInv'
  BY <1>3, OpeningKeeps, RegisteringKeeps, AgentsKeep, AttributionKeeps, ReclaimingKeeps
<1>4. ASSUME NEW c \in Convs, Close(c) PROVE RegistryInv'
  <2>1. deleting' \subseteq Convs
    BY <1>4 DEF Close, requestVars, RegistryInv, TypeOK
  <2>. QED
    BY <1>4, <2>1, RemovingKeeps DEF Close, requestVars, attrVars
<1>5. ASSUME NEW c \in Convs, DeleteCloses(c) \/ DeleteDropsRow(c) PROVE RegistryInv'
  BY <1>5, DeletingKeeps
<1>6. CASE UNCHANGED vars
  BY <1>6 DEF vars, RegistryInv, TypeOK, Named, Registered, WasOpen, Accounted, ClosedFor
<1>. QED
  BY <1>1, <1>2, <1>3, <1>4, <1>5, <1>6 DEF Next

\* The inductive invariant of the registry: what it holds was opened under its
\* conversation, and it forgets a conversation only by a close (chat.rs,
\* start_inner and close).
THEOREM RegistryInvHolds == Spec => []RegistryInv
BY InitHolds, StepKeeps, PTL DEF Spec

\* The state of the registry keeps its shape: Chats!TypeOK.
THEOREM ChatTypes == Spec => []TypeOK
BY RegistryInvHolds, PTL DEF RegistryInv

\* Attribution kills what it found only after a close of that conversation: no
\* start, resume or switch that is under way looks like one (chat.rs, start_inner
\* registers before it attributes).
THEOREM ReclaimsFollowAClose == Spec => []OnlyClosedChatsAreReclaimed
<1>1. RegistryInv => OnlyClosedChatsAreReclaimed
  BY DEF RegistryInv, TypeOK, Accounted, ClosedFor, OnlyClosedChatsAreReclaimed
<1>. QED
  BY <1>1, RegistryInvHolds, PTL

(***************************************************************************)
(* A session (ChatSession.tla).                                            *)
(***************************************************************************)

\* The commands to come, in the order the loop takes them.
Ahead == pend \o mail

\* Commands after prompt b of the s accepted: all prompts after b are there, in
\* order, and a stop comes with a number larger than every prompt before it.
InOrder(q, b, s) ==
  /\ \A i \in 1..Len(q) :
       /\ q[i].kind = "prompt" => q[i].n \in (b + 1)..s
       /\ q[i].kind = "stop" => q[i].n \in (b + 1)..(s + 1)
  /\ \A i, j \in 1..Len(q) :
       i < j /\ q[i].kind = "prompt" /\ q[j].kind \in {"prompt", "stop"} => q[i].n < q[j].n
  /\ \A m \in (b + 1)..s : \E i \in 1..Len(q) : q[i].kind = "prompt" /\ q[i].n = m

HasPrompt(q) == \E i \in 1..Len(q) : q[i].kind = "prompt"

\* r is q with cmd at the end; r is q without its command at k.
Longer(r, q, cmd) ==
  Len(r) = Len(q) + 1 /\ r[Len(q) + 1] = cmd /\ \A i \in 1..Len(q) : r[i] = q[i]

Shorter(r, q, k) ==
  Len(r) = Len(q) - 1 /\ \A i \in 1..Len(r) : r[i] = IF i < k THEN q[i] ELSE q[i + 1]

\* Where the turns of the session stand.
Turns ==
  /\ began <= sent /\ sent + asking <= MaxPrompts
  /\ flight # 0 => flight = began /\ sup = "up" /\ over <= began
  /\ flight = 0 => cancelled = 0 /\ over <= began + (IF sup = "down" THEN 2 ELSE 1)
  /\ sup = "starting" => over <= began
  /\ cancelled # 0 => flight < cancelled

Queued == Listening => InOrder(Ahead, began, sent)

Earned == Works /\ generating => flight # 0 \/ HasPrompt(Ahead) \/ over > 0

SessionInv == SessionTypeOK /\ Turns /\ Queued /\ Earned

-----------------------------------------------------------------------------
LEMMA AheadIs ==
  ASSUME NEW p \in Seq(Commands), NEW m \in Seq(Commands)
  PROVE  /\ p \o m \in Seq(Commands) /\ Len(p \o m) = Len(p) + Len(m)
         /\ Len(p) \in Nat /\ Len(m) \in Nat
         /\ DOMAIN (p \o m) = 1..Len(p \o m)
         /\ \A i \in 1..Len(p \o m) : (p \o m)[i] = IF i <= Len(p) THEN p[i] ELSE m[i - Len(p)]
  OBVIOUS

LEMMA AppendIs ==
  ASSUME NEW q \in Seq(Commands), NEW cmd \in Commands
  PROVE  /\ Append(q, cmd) \in Seq(Commands) /\ Len(Append(q, cmd)) = Len(q) + 1
         /\ Append(q, cmd)[Len(q) + 1] = cmd
         /\ \A i \in 1..Len(q) : Append(q, cmd)[i] = q[i]
  OBVIOUS

LEMMA TailIs ==
  ASSUME NEW q \in Seq(Commands), q # <<>>
  PROVE  /\ Len(q) \in Nat \ {0} /\ Head(q) = q[1] /\ Head(q) \in Commands
         /\ Tail(q) \in Seq(Commands) /\ Len(Tail(q)) = Len(q) - 1
         /\ \A i \in 1..Len(Tail(q)) : Tail(q)[i] = q[i + 1]
  OBVIOUS

LEMMA DeliveredIs ==
  ASSUME NEW p \in Seq(Commands), NEW m \in Seq(Commands), NEW cmd \in Commands
  PROVE  Longer(p \o Append(m, cmd), p \o m, cmd)
  BY AheadIs, AppendIs DEF Longer

LEMMA SetAsideIs ==
  ASSUME NEW p \in Seq(Commands), NEW m \in Seq(Commands), m # <<>>
  PROVE  Append(p, Head(m)) \o Tail(m) = p \o m
<1>. DEFINE q == p \o m
            r == Append(p, Head(m)) \o Tail(m)
<1>1. Append(p, Head(m)) \in Seq(Commands) /\ Tail(m) \in Seq(Commands)
  BY AppendIs, TailIs
<1>2. Len(r) = Len(q) /\ r \in Seq(Commands) /\ q \in Seq(Commands)
  BY <1>1, AheadIs, AppendIs, TailIs
<1>3. \A i \in 1..Len(q) : r[i] = q[i]
  BY <1>1, AheadIs, AppendIs, TailIs
<1>. HIDE DEF q, r
<1>4. r = q
  BY <1>2, <1>3
<1>. QED
  BY <1>4 DEF q, r

LEMMA StoppedIs ==
  ASSUME NEW p \in Seq(Commands), NEW m \in Seq(Commands), m # <<>>
  PROVE  /\ Shorter(p \o Tail(m), p \o m, Len(p) + 1)
         /\ (p \o m)[Len(p) + 1] = Head(m) /\ Len(p) + 1 \in 1..Len(p \o m)
  BY AheadIs, TailIs DEF Shorter

LEMMA TakenIs ==
  ASSUME NEW p \in Seq(Commands), NEW m \in Seq(Commands), p # <<>>
  PROVE  Shorter(Tail(p) \o m, p \o m, 1)
<1>1. Tail(p) \in Seq(Commands)
  BY TailIs
<1>. QED
  BY <1>1, AheadIs, TailIs DEF Shorter

-----------------------------------------------------------------------------
\* What each change of the queue does to its order.
LEMMA PromptComes ==
  ASSUME NEW q \in Seq(Commands), NEW r \in Seq(Commands), NEW b \in Nat, NEW s \in Nat,
         InOrder(q, b, s), b <= s, Longer(r, q, Prompt(s + 1))
  PROVE  InOrder(r, b, s + 1) /\ HasPrompt(r)
<1>. DEFINE cmd == Prompt(s + 1)
<1>1. cmd.kind = "prompt" /\ cmd.n = s + 1
  BY DEF Prompt
<1>2. /\ Len(q) \in Nat /\ Len(r) = Len(q) + 1
      /\ r[Len(q) + 1] = cmd /\ \A i \in 1..Len(q) : r[i] = q[i]
  BY DEF Longer
<1>. HIDE DEF cmd
<1>3. \A i \in 1..Len(r) : i \in 1..Len(q) \/ i = Len(q) + 1
  BY <1>2
<1>4. ASSUME NEW i \in 1..Len(r)
      PROVE  /\ r[i].kind = "prompt" => r[i].n \in (b + 1)..(s + 1)
             /\ r[i].kind = "stop" => r[i].n \in (b + 1)..(s + 2)
  <2>1. CASE i \in 1..Len(q)
    <3>1. /\ q[i].kind = "prompt" => q[i].n \in (b + 1)..s
          /\ q[i].kind = "stop" => q[i].n \in (b + 1)..(s + 1)
      BY <2>1 DEF InOrder
    <3>. QED
      BY <1>2, <2>1, <3>1
  <2>2. CASE i = Len(q) + 1
    BY <1>1, <1>2, <2>2
  <2>. QED
    BY <1>3, <2>1, <2>2
<1>5. ASSUME NEW i \in 1..Len(r), NEW j \in 1..Len(r), i < j, r[i].kind = "prompt",
             r[j].kind \in {"prompt", "stop"}
      PROVE  r[i].n < r[j].n
  <2>1. i \in 1..Len(q)
    BY <1>2, <1>5
  <2>2. CASE j \in 1..Len(q)
    BY <1>2, <1>5, <2>1, <2>2 DEF InOrder
  <2>3. CASE j = Len(q) + 1
    <3>1. q[i].n \in (b + 1)..s
      BY <1>2, <1>5, <2>1 DEF InOrder
    <3>. QED
      BY <1>1, <1>2, <2>1, <2>3, <3>1
  <2>. QED
    BY <1>3, <2>2, <2>3
<1>6. ASSUME NEW m \in (b + 1)..(s + 1)
      PROVE  \E i \in 1..Len(r) : r[i].kind = "prompt" /\ r[i].n = m
  <2>1. CASE m = s + 1
    BY <1>1, <1>2, <2>1
  <2>2. CASE m \in (b + 1)..s
    <3>1. PICK i \in 1..Len(q) : q[i].kind = "prompt" /\ q[i].n = m
      BY <2>2 DEF InOrder
    <3>. QED
      BY <1>2, <3>1
  <2>. QED
    BY <2>1, <2>2
<1>7. HasPrompt(r)
  BY <1>1, <1>2 DEF HasPrompt
<1>. QED
  BY <1>4, <1>5, <1>6, <1>7 DEF InOrder

LEMMA OtherComes ==
  ASSUME NEW q \in Seq(Commands), NEW r \in Seq(Commands), NEW b \in Nat, NEW s \in Nat,
         NEW cmd, b <= s, cmd.kind # "prompt", cmd.kind = "stop" => cmd.n = s + 1,
         Longer(r, q, cmd)
  PROVE  /\ InOrder(q, b, s) => InOrder(r, b, s)
         /\ HasPrompt(q) => HasPrompt(r)
<1>2. /\ Len(q) \in Nat /\ Len(r) = Len(q) + 1
      /\ r[Len(q) + 1] = cmd /\ \A i \in 1..Len(q) : r[i] = q[i]
  BY DEF Longer
<1>3. \A i \in 1..Len(r) : i \in 1..Len(q) \/ i = Len(q) + 1
  BY <1>2
<1>4. HasPrompt(q) => HasPrompt(r)
  BY <1>2 DEF HasPrompt
<1>5. ASSUME InOrder(q, b, s) PROVE InOrder(r, b, s)
  <2>1. \A i \in 1..Len(r) :
          /\ r[i].kind = "prompt" => r[i].n \in (b + 1)..s
          /\ r[i].kind = "stop" => r[i].n \in (b + 1)..(s + 1)
    BY <1>2, <1>3, <1>5 DEF InOrder
  <2>2. ASSUME NEW i \in 1..Len(r), NEW j \in 1..Len(r), i < j, r[i].kind = "prompt",
               r[j].kind \in {"prompt", "stop"}
        PROVE  r[i].n < r[j].n
    <3>1. i \in 1..Len(q) /\ q[i] = r[i]
      BY <1>2, <2>2
    <3>2. CASE j \in 1..Len(q)
      BY <1>2, <1>5, <2>2, <3>1, <3>2 DEF InOrder
    <3>3. CASE j = Len(q) + 1
      <4>1. r[j].n = s + 1
        BY <1>2, <2>2, <3>3
      <4>. QED
        BY <2>1, <2>2, <4>1
    <3>. QED
      BY <1>3, <3>2, <3>3
  <2>3. ASSUME NEW m \in (b + 1)..s
        PROVE  \E i \in 1..Len(r) : r[i].kind = "prompt" /\ r[i].n = m
    <3>1. PICK i \in 1..Len(q) : q[i].kind = "prompt" /\ q[i].n = m
      BY <1>5 DEF InOrder
    <3>. QED
      BY <1>2, <3>1
  <2>. QED
    BY <2>1, <2>2, <2>3 DEF InOrder
<1>. QED
  BY <1>4, <1>5

LEMMA OtherGoes ==
  ASSUME NEW q \in Seq(Commands), NEW r \in Seq(Commands), NEW b \in Nat, NEW s \in Nat,
         NEW k \in 1..Len(q), q[k].kind # "prompt", Shorter(r, q, k)
  PROVE  /\ InOrder(q, b, s) => InOrder(r, b, s)
         /\ HasPrompt(q) => HasPrompt(r)
<1>. DEFINE at(i) == IF i < k THEN i ELSE i + 1
<1>1. Len(q) \in Nat /\ Len(r) = Len(q) - 1
  BY DEF Shorter
<1>2. \A i \in 1..Len(r) : at(i) \in 1..Len(q) /\ r[i] = q[at(i)]
  BY <1>1 DEF Shorter
<1>3. \A i, j \in 1..Len(r) : i < j => at(i) < at(j)
  BY <1>1
<1>4. \A i \in 1..Len(q) : q[i].kind = "prompt" => \E j \in 1..Len(r) : r[j] = q[i]
  <2>. SUFFICES ASSUME NEW i \in 1..Len(q), i # k
                PROVE  \E j \in 1..Len(r) : r[j] = q[i]
    OBVIOUS
  <2>1. CASE i < k
    <3>1. i \in 1..Len(r) /\ r[i] = q[i]
      BY <1>1, <2>1 DEF Shorter
    <3>. QED
      BY <3>1
  <2>2. CASE i > k
    <3>1. i - 1 \in 1..Len(r) /\ r[i - 1] = q[(i - 1) + 1]
      BY <1>1, <2>2 DEF Shorter
    <3>. QED
      BY <3>1
  <2>. QED
    BY <1>1, <2>1, <2>2
<1>. HIDE DEF at
<1>5. HasPrompt(q) => HasPrompt(r)
  BY <1>4 DEF HasPrompt
<1>6. ASSUME InOrder(q, b, s) PROVE InOrder(r, b, s)
  <2>1. \A i \in 1..Len(r) :
          /\ r[i].kind = "prompt" => r[i].n \in (b + 1)..s
          /\ r[i].kind = "stop" => r[i].n \in (b + 1)..(s + 1)
    BY <1>2, <1>6 DEF InOrder
  <2>2. ASSUME NEW i \in 1..Len(r), NEW j \in 1..Len(r), i < j, r[i].kind = "prompt",
               r[j].kind \in {"prompt", "stop"}
        PROVE  r[i].n < r[j].n
    <3>1. /\ at(i) < at(j) /\ at(i) \in 1..Len(q) /\ at(j) \in 1..Len(q)
          /\ r[i] = q[at(i)] /\ r[j] = q[at(j)]
      BY <1>2, <1>3, <2>2
    <3>. QED
      BY <1>6, <2>2, <3>1 DEF InOrder
  <2>3. ASSUME NEW m \in (b + 1)..s
        PROVE  \E i \in 1..Len(r) : r[i].kind = "prompt" /\ r[i].n = m
    <3>1. PICK i \in 1..Len(q) : q[i].kind = "prompt" /\ q[i].n = m
      BY <1>6 DEF InOrder
    <3>. QED
      BY <1>4, <3>1
  <2>. QED
    BY <2>1, <2>2, <2>3 DEF InOrder
<1>. QED
  BY <1>5, <1>6

LEMMA PromptGoes ==
  ASSUME NEW q \in Seq(Commands), NEW r \in Seq(Commands), NEW b \in Nat, NEW s \in Nat,
         q # <<>>, q[1].kind = "prompt", InOrder(q, b, s), Shorter(r, q, 1)
  PROVE  /\ q[1].n \in (b + 1)..s
         /\ InOrder(r, q[1].n, s)
<1>1. Len(q) \in Nat \ {0} /\ Len(r) = Len(q) - 1
  BY DEF Shorter
<1>2. \A i \in 1..Len(r) : i + 1 \in 1..Len(q) /\ r[i] = q[i + 1] /\ 1 < i + 1
  BY <1>1 DEF Shorter
<1>3. 1 \in 1..Len(q) /\ q[1].n \in (b + 1)..s
  BY <1>1 DEF InOrder
<1>4. \A i \in 1..Len(r) :
        /\ r[i].kind = "prompt" => r[i].n \in (q[1].n + 1)..s
        /\ r[i].kind = "stop" => r[i].n \in (q[1].n + 1)..(s + 1)
  <2>. SUFFICES ASSUME NEW i \in 1..Len(r), r[i].kind \in {"prompt", "stop"}
                PROVE  /\ q[1].n < r[i].n
                       /\ r[i].kind = "prompt" => r[i].n \in (b + 1)..s
                       /\ r[i].kind = "stop" => r[i].n \in (b + 1)..(s + 1)
    BY <1>3
  <2>1. 1 < i + 1 /\ i + 1 \in 1..Len(q) /\ r[i] = q[i + 1]
    BY <1>2
  <2>2. q[1].n < q[i + 1].n
    BY <1>3, <2>1 DEF InOrder
  <2>3. /\ q[i + 1].kind = "prompt" => q[i + 1].n \in (b + 1)..s
        /\ q[i + 1].kind = "stop" => q[i + 1].n \in (b + 1)..(s + 1)
    BY <2>1 DEF InOrder
  <2>. QED
    BY <2>1, <2>2, <2>3
<1>5. \A i, j \in 1..Len(r) :
        i < j /\ r[i].kind = "prompt" /\ r[j].kind \in {"prompt", "stop"} => r[i].n < r[j].n
  <2>. SUFFICES ASSUME NEW i \in 1..Len(r), NEW j \in 1..Len(r), i < j,
                       r[i].kind = "prompt", r[j].kind \in {"prompt", "stop"}
                PROVE  r[i].n < r[j].n
    OBVIOUS
  <2>1. /\ i + 1 < j + 1 /\ i + 1 \in 1..Len(q) /\ j + 1 \in 1..Len(q)
        /\ r[i] = q[i + 1] /\ r[j] = q[j + 1]
    BY <1>2
  <2>. QED
    BY <2>1 DEF InOrder
<1>6. ASSUME NEW m \in (q[1].n + 1)..s
      PROVE  \E i \in 1..Len(r) : r[i].kind = "prompt" /\ r[i].n = m
  <2>1. PICK i \in 1..Len(q) : q[i].kind = "prompt" /\ q[i].n = m
    BY <1>3 DEF InOrder
  <2>2. i # 1
    BY <1>3, <2>1
  <2>3. i - 1 \in 1..Len(r) /\ r[i - 1] = q[(i - 1) + 1]
    BY <1>1, <1>2, <2>2
  <2>. QED
    BY <2>1, <2>3
<1>. QED
  BY <1>3, <1>4, <1>5, <1>6 DEF InOrder

-----------------------------------------------------------------------------
LEMMA InitSession == SessionInit => SessionInv
<1>. SUFFICES ASSUME SessionInit PROVE SessionInv
  OBVIOUS
<1>1. Turns /\ Earned
  BY ChatSessionAssumption DEF SessionInit, Turns, Earned, Works
<1>2. pend \in Seq(Commands) /\ mail \in Seq(Commands) /\ Len(pend) = 0 /\ Len(mail) = 0
  BY DEF SessionInit
<1>3. /\ 0 \in 0..MaxPrompts /\ 0 \in 0..(MaxPrompts + 1) /\ 0 \in 0..(MaxPrompts + 2)
      /\ 0 \in 0..MaxStops
  BY ChatSessionAssumption
<1>4. SessionTypeOK
  BY <1>2, <1>3 DEF SessionInit, SessionTypeOK
<1>5. Len(Ahead) = 0
  BY <1>2, AheadIs DEF Ahead
<1>6. InOrder(Ahead, began, sent)
  BY <1>5 DEF InOrder, SessionInit
<1>. QED
  BY <1>1, <1>4, <1>6 DEF SessionInv, Queued

\* The two queues are sequences of commands, and so is what they make.
LEMMA AheadTypes ==
  ASSUME SessionInv
  PROVE  /\ Ahead \in Seq(Commands) /\ mail \in Seq(Commands) /\ pend \in Seq(Commands)
         /\ began \in Nat /\ sent \in Nat /\ began <= sent
  BY AheadIs DEF SessionInv, SessionTypeOK, Ahead, Turns

\* A command other than a prompt goes into the channel, or none does.
LEMMA OrderAfterDelivery ==
  ASSUME SessionInv, NEW cmd \in Commands,
         cmd.kind # "prompt", cmd.kind = "stop" => cmd.n = sent + 1,
         mail' = Delivered(cmd) \/ mail' = mail,
         UNCHANGED <<sup, pend, began, sent>>
  PROVE  /\ mail' \in Seq(Commands)
         /\ Queued' /\ (Works /\ HasPrompt(Ahead) => HasPrompt(Ahead'))
<1>1. CASE mail' = mail
  BY <1>1, AheadTypes DEF SessionInv, Queued, Listening, Works, Ahead
<1>2. CASE mail' # mail
  <2>1. Listening /\ mail' = Append(mail, cmd)
    BY <1>2 DEF Delivered
  <2>2. Longer(Ahead', Ahead, cmd)
    BY <2>1, AheadTypes, DeliveredIs DEF Ahead
  <2>3. mail' \in Seq(Commands) /\ Ahead' \in Seq(Commands)
    BY <2>1, AheadTypes, AppendIs, AheadIs DEF Ahead
  <2>. QED
    BY <2>1, <2>2, <2>3, AheadTypes, OtherComes DEF SessionInv, Queued
<1>. QED
  BY <1>1, <1>2

\* A step that leaves the loop's own state alone.
LEMMA QuietStep ==
  ASSUME SessionInv, SessionTypeOK', UNCHANGED <<sup, pend, flight, cancelled, began, sent>>,
         NEW cmd \in Commands, cmd.kind # "prompt", cmd.kind = "stop" => cmd.n = sent + 1,
         mail' = Delivered(cmd) \/ mail' = mail,
         sent + asking' <= MaxPrompts, over' <= over,
         generating' => generating /\ over' = over
  PROVE  SessionInv'
<1>1. Queued' /\ (Works /\ HasPrompt(Ahead) => HasPrompt(Ahead'))
  BY OrderAfterDelivery
<1>2. Turns'
  BY DEF SessionInv, Turns, SessionTypeOK
<1>3. Earned'
  BY <1>1 DEF SessionInv, Earned, Works
<1>. QED
  BY <1>1, <1>2, <1>3 DEF SessionInv

LEMMA ClientsKeep ==
  ASSUME SessionInv, MessageArrives \/ WatcherHears \/ ProcessDies
  PROVE  SessionInv'
<1>1. SessionTypeOK'
  <2>1. CASE MessageArrives
    BY <2>1, ChatSessionAssumption
       DEF SessionInv, SessionTypeOK, MessageArrives, loopVars, holderVars
  <2>2. CASE WatcherHears
    <3>1. generating' \in BOOLEAN
      BY <2>2 DEF WatcherHears
    <3>2. over' \in 0..(MaxPrompts + 2)
      BY <2>2, ChatSessionAssumption DEF WatcherHears, SessionInv, SessionTypeOK
    <3>. QED
      BY <2>2, <3>1, <3>2
         DEF SessionInv, SessionTypeOK, WatcherHears, loopVars, clientVars, holderVars
  <2>3. CASE ProcessDies
    BY <2>3 DEF SessionInv, SessionTypeOK, ProcessDies, clientVars, holderVars, outsideLoop
  <2>. QED
    BY <2>1, <2>2, <2>3
<1>2. /\ UNCHANGED <<sup, pend, flight, cancelled, began, sent>> /\ mail' = mail
      /\ sent + asking' <= MaxPrompts /\ over' <= over
      /\ generating' => generating /\ over' = over
  BY ChatSessionAssumption
     DEF SessionInv, SessionTypeOK, Turns, MessageArrives, WatcherHears, ProcessDies, loopVars,
         clientVars, holderVars, outsideLoop
<1>3. SetConfig \in Commands /\ SetConfig.kind = "set"
  BY DEF SetConfig, Commands
<1>. QED
  BY <1>1, <1>2, <1>3, QuietStep

\* Handlers that leave the channel alone or put a stop, an option or a shutdown
\* into it.
LEMMA HandlersKeep ==
  ASSUME SessionInv,
         \/ StopArrives \/ OptionArrives \/ IsAttributed \/ SessionCloses \/ Replaced
         \/ SessionReclaims \/ DeletionStops \/ DeletionCloses \/ DeletionDropsRow
  PROVE  SessionInv'
<1>1. PICK cmd \in {SetConfig, Shutdown, Stop(sent + 1)} :
        mail' = Delivered(cmd) \/ mail' = mail
  BY DEF StopArrives, OptionArrives, IsAttributed, SessionCloses, Replaced, SessionReclaims,
         DeletionStops, DeletionCloses, DeletionDropsRow, Removed, loopVars
<1>2. cmd \in Commands /\ cmd.kind # "prompt" /\ (cmd.kind = "stop" => cmd.n = sent + 1)
  BY AheadTypes DEF SetConfig, Shutdown, Stop, Commands
<1>3. UNCHANGED <<sup, pend, flight, cancelled, began, sent, asking, over, generating>>
  BY DEF StopArrives, OptionArrives, IsAttributed, SessionCloses, Replaced, SessionReclaims,
         DeletionStops, DeletionCloses, DeletionDropsRow, Removed, loopVars, clientVars,
         holderVars
<1>4. mail' \in Seq(Commands)
  BY <1>1, <1>2, <1>3, OrderAfterDelivery
<1>5. SessionTypeOK'
  <2>. USE DEF SessionInv, SessionTypeOK
  <2>1. CASE StopArrives
    BY <1>3, <1>4, <2>1, ChatSessionAssumption DEF StopArrives, holderVars
  <2>2. CASE OptionArrives \/ DeletionStops
    BY <1>3, <1>4, <2>2 DEF OptionArrives, DeletionStops, clientVars, holderVars
  <2>3. CASE IsAttributed \/ Replaced \/ DeletionDropsRow
    BY <1>3, <1>4, <2>3 DEF IsAttributed, Replaced, DeletionDropsRow, clientVars, loopVars
  <2>4. CASE SessionCloses \/ DeletionCloses
    BY <1>3, <1>4, <2>4 DEF SessionCloses, DeletionCloses, Removed, clientVars, loopVars
  <2>5. CASE SessionReclaims
    BY <1>3, <1>4, <2>5 DEF SessionReclaims, clientVars
  <2>. QED
    BY <2>1, <2>2, <2>3, <2>4, <2>5
<1>6. sent + asking' <= MaxPrompts /\ over' <= over
  BY <1>3 DEF SessionInv, SessionTypeOK, Turns
<1>. QED
  BY <1>1, <1>2, <1>3, <1>5, <1>6, QuietStep

\* send_prompt: the prompt takes the next number.
LEMMA MessageSentKeeps ==
  ASSUME SessionInv, MessageSent
  PROVE  SessionInv'
<1>1. /\ asking > 0 /\ asking' = asking - 1 /\ Listening /\ generating'
      /\ sent' = sent + 1 /\ mail' = Append(mail, Prompt(sent + 1))
      /\ UNCHANGED <<sup, process, pend, flight, cancelled, began, stops, over, holderVars>>
      /\ asking \in 0..MaxPrompts /\ sent \in 0..MaxPrompts /\ sent + asking <= MaxPrompts
      /\ asking' \in 0..MaxPrompts /\ sent' + asking' <= MaxPrompts
      /\ sent' \in 0..MaxPrompts
  BY ChatSessionAssumption DEF MessageSent, SessionInv, SessionTypeOK, Turns
<1>2. generating' \in BOOLEAN
  BY DEF MessageSent
<1>3. Prompt(sent + 1) \in Commands
  BY <1>1 DEF Prompt, Commands
<1>4. Longer(Ahead', Ahead, Prompt(sent + 1))
  BY <1>1, <1>3, AheadTypes, DeliveredIs DEF Ahead
<1>5. mail' \in Seq(Commands) /\ Ahead' \in Seq(Commands)
  BY <1>1, <1>3, AheadTypes, AppendIs, AheadIs DEF Ahead
<1>6. InOrder(Ahead', began, sent + 1) /\ HasPrompt(Ahead')
  BY <1>1, <1>4, <1>5, AheadTypes, PromptComes DEF SessionInv, Queued
<1>7. SessionTypeOK'
  BY <1>1, <1>2, <1>5 DEF SessionInv, SessionTypeOK, holderVars
<1>8. Turns'
  BY <1>1 DEF SessionInv, SessionTypeOK, Turns
<1>9. Queued' /\ Earned'
  BY <1>1, <1>6 DEF Queued, Earned
<1>. QED
  BY <1>7, <1>8, <1>9 DEF SessionInv

\* send_prompt on a closed channel.
LEMMA MessageRefusedKeeps ==
  ASSUME SessionInv, MessageRefused
  PROVE  SessionInv'
<1>1. /\ asking > 0 /\ asking' = asking - 1 /\ sup = "down" /\ ~Listening /\ ~Works
      /\ UNCHANGED <<loopVars, sent, stops, over, holderVars>>
      /\ asking \in 0..MaxPrompts /\ sent \in 0..MaxPrompts /\ sent + asking <= MaxPrompts
      /\ asking' \in 0..MaxPrompts /\ sent' + asking' <= MaxPrompts
  BY ChatSessionAssumption DEF MessageRefused, Listening, Works, SessionInv, SessionTypeOK, Turns
<1>2. generating' \in BOOLEAN
  BY DEF MessageRefused
<1>3. SessionTypeOK'
  BY <1>1, <1>2 DEF SessionInv, SessionTypeOK, loopVars, holderVars
<1>4. Turns' /\ Queued' /\ Earned'
  BY <1>1 DEF SessionInv, SessionTypeOK, Turns, Queued, Earned, Listening, Works, loopVars
<1>. QED
  BY <1>3, <1>4 DEF SessionInv

\* Before the loop, and an option answered.
LEMMA AnswersKeep ==
  ASSUME SessionInv, AgentReady \/ OptionAnswered
  PROVE  SessionInv'
<1>1. /\ sup' = "up" /\ sup \in {"starting", "setting"} /\ Works /\ Works'
      /\ Listening /\ Listening' /\ over' \in {over, over + 1}
      /\ sup = "setting" => over' = over
      /\ UNCHANGED <<sent, stops, asking, generating, holderVars, process, mail, pend, flight,
                     cancelled, began>>
  BY DEF AgentReady, OptionAnswered, Works, Listening, outsideLoop, clientVars
<1>2. /\ flight = 0 /\ cancelled = 0 /\ over \in 0..(MaxPrompts + 2) /\ over <= began + 1
      /\ sup = "starting" => over <= began
      /\ began \in 0..MaxPrompts /\ sent \in 0..MaxPrompts /\ began <= sent
      /\ sent + asking <= MaxPrompts
  BY <1>1 DEF SessionInv, SessionTypeOK, Turns
<1>3. over' \in 0..(MaxPrompts + 2) /\ over' <= began + 1 /\ (over > 0 => over' > 0)
  BY <1>1, <1>2, ChatSessionAssumption
<1>4. SessionTypeOK'
  BY <1>1, <1>3 DEF SessionInv, SessionTypeOK, holderVars
<1>5. Turns' /\ Queued' /\ Earned'
  BY <1>1, <1>2, <1>3 DEF SessionInv, Turns, Queued, Earned, Ahead
<1>. QED
  BY <1>4, <1>5 DEF SessionInv

-----------------------------------------------------------------------------
(* The loop. *)

LEMMA LoopTakesKeeps ==
  ASSUME SessionInv, LoopTakes
  PROVE  SessionInv'
<1>. DEFINE cmd == Head(pend \o mail)
<1>1. /\ sup = "up" /\ flight = 0 /\ Ahead # <<>> /\ Listening
      /\ UNCHANGED <<clientVars, generating, holderVars, process, cancelled, over>>
      /\ TakeCommand
      /\ \/ cmd.kind = "prompt" /\ flight' = cmd.n /\ began' = cmd.n /\ sup' = sup
         \/ cmd.kind = "stop" /\ UNCHANGED <<flight, began, sup>>
         \/ cmd.kind = "set" /\ sup' = "setting" /\ UNCHANGED <<flight, began>>
         \/ cmd.kind = "shutdown" /\ sup' = "leaving" /\ UNCHANGED <<flight, began>>
  BY DEF LoopTakes, Ahead, Listening, outsideLoop
<1>2. cmd = Ahead[1] /\ 1 \in 1..Len(Ahead)
  BY <1>1, AheadTypes, TailIs DEF Ahead
<1>3. /\ mail' \in Seq(Commands) /\ pend' \in Seq(Commands) /\ Shorter(Ahead', Ahead, 1)
  <2>1. CASE pend # <<>>
    BY <1>1, <2>1, AheadTypes, TailIs, TakenIs DEF TakeCommand, Ahead
  <2>2. CASE pend = <<>>
    <3>1. mail # <<>> /\ Len(pend) = 0
      BY <1>1, <2>2, AheadTypes, AheadIs DEF Ahead
    <3>2. pend' = pend /\ mail' = Tail(mail)
      BY <1>1, <2>2 DEF TakeCommand
    <3>3. mail' \in Seq(Commands) /\ pend' \in Seq(Commands)
      BY <3>1, <3>2, AheadTypes, TailIs
    <3>4. Shorter(pend \o Tail(mail), pend \o mail, Len(pend) + 1)
      BY <3>1, AheadTypes, StoppedIs
    <3>5. Shorter(Ahead', Ahead, 1)
      BY <3>1, <3>2, <3>4 DEF Ahead
    <3>. QED
      BY <3>3, <3>5
  <2>. QED
    BY <2>1, <2>2
<1>4. Ahead' \in Seq(Commands)
  BY <1>3, AheadIs DEF Ahead
<1>5. InOrder(Ahead, began, sent)
  BY <1>1 DEF SessionInv, Queued
<1>. HIDE DEF cmd
<1>6. /\ began \in 0..MaxPrompts /\ sent \in 0..MaxPrompts /\ over \in 0..(MaxPrompts + 2)
      /\ over <= began + 1 /\ began <= sent /\ sent + asking <= MaxPrompts
      /\ asking \in 0..MaxPrompts /\ cancelled = 0
      /\ UNCHANGED <<sent, asking, over, cancelled, generating>>
  BY <1>1 DEF SessionInv, SessionTypeOK, Turns, clientVars
<1>7. CASE cmd.kind = "prompt"
  <2>1. flight' = cmd.n /\ began' = cmd.n /\ sup' = "up"
    BY <1>1, <1>7
  <2>2. cmd.n \in (began + 1)..sent /\ InOrder(Ahead', cmd.n, sent)
    BY <1>1, <1>2, <1>3, <1>4, <1>5, <1>7, AheadTypes, PromptGoes
  <2>3. flight' # 0 /\ began' \in 0..MaxPrompts /\ began' <= sent /\ over <= began'
    BY <1>6, <2>1, <2>2, ChatSessionAssumption
  <2>4. SessionTypeOK'
    BY <1>1, <1>3, <1>6, <2>1, <2>3 DEF SessionInv, SessionTypeOK, clientVars, holderVars
  <2>5. Turns'
    BY <1>1, <1>6, <2>1, <2>3 DEF SessionInv, Turns
  <2>6. Queued' /\ Earned'
    BY <1>6, <2>1, <2>2, <2>3 DEF Queued, Earned
  <2>. QED
    BY <2>4, <2>5, <2>6 DEF SessionInv
<1>8. CASE cmd.kind # "prompt"
  <2>1. UNCHANGED <<flight, began>> /\ sup' \in {"up", "setting", "leaving"}
    BY <1>1, <1>8
  <2>2. InOrder(Ahead', began, sent) /\ (HasPrompt(Ahead) => HasPrompt(Ahead'))
    BY <1>2, <1>3, <1>4, <1>5, <1>8, AheadTypes, OtherGoes
  <2>3. SessionTypeOK'
    BY <1>1, <1>3, <1>6, <2>1 DEF SessionInv, SessionTypeOK, clientVars, holderVars
  <2>4. Turns'
    BY <1>1, <1>6, <2>1 DEF SessionInv, Turns
  <2>5. Queued' /\ Earned'
    BY <1>1, <1>6, <2>1, <2>2 DEF SessionInv, Queued, Earned, Works
  <2>. QED
    BY <2>3, <2>4, <2>5 DEF SessionInv
<1>. QED
  BY <1>7, <1>8

\* The turn goes on; the loop sets a command aside, or a stop cancels the turn.
LEMMA LoopListensKeeps ==
  ASSUME SessionInv, LoopListens
  PROVE  SessionInv'
<1>1. /\ sup = "up" /\ flight # 0 /\ cancelled = 0 /\ mail # <<>> /\ mail' = Tail(mail)
      /\ UNCHANGED <<clientVars, generating, holderVars, sup, process, flight, began, over>>
  BY DEF LoopListens, outsideLoop
<1>2. mail' \in Seq(Commands) /\ Head(mail) \in Commands
  BY <1>1, AheadTypes, TailIs
<1>3. Listening /\ InOrder(Ahead, began, sent)
  BY <1>1 DEF SessionInv, Queued, Listening
<1>4. /\ began \in 0..MaxPrompts /\ sent \in 0..MaxPrompts /\ flight = began
      /\ UNCHANGED <<sent, asking, stops>>
  BY <1>1 DEF SessionInv, SessionTypeOK, Turns, clientVars
<1>5. CASE Head(mail).kind = "stop"
  <2>1. cancelled' = Head(mail).n /\ pend' = pend
    BY <1>5 DEF LoopListens
  <2>2. /\ Shorter(Ahead', Ahead, Len(pend) + 1)
        /\ Ahead[Len(pend) + 1] = Head(mail) /\ Len(pend) + 1 \in 1..Len(Ahead)
    BY <1>1, <2>1, AheadTypes, StoppedIs DEF Ahead
  <2>3. Ahead' \in Seq(Commands)
    BY <1>2, <2>1, AheadTypes, AheadIs DEF Ahead
  <2>4. InOrder(Ahead', began, sent)
    BY <1>3, <1>5, <2>2, <2>3, AheadTypes, OtherGoes
  <2>5. Head(mail).n \in (began + 1)..(sent + 1)
    BY <1>3, <1>5, <2>2 DEF InOrder
  <2>6. cancelled' \in 0..(MaxPrompts + 1) /\ flight < cancelled'
    BY <1>4, <2>1, <2>5, ChatSessionAssumption
  <2>7. SessionTypeOK'
    BY <1>1, <1>2, <1>4, <2>1, <2>6 DEF SessionInv, SessionTypeOK, holderVars
  <2>8. Turns' /\ Queued' /\ Earned'
    BY <1>1, <1>4, <2>4, <2>6 DEF SessionInv, Turns, Queued, Earned, Works
  <2>. QED
    BY <2>7, <2>8 DEF SessionInv
<1>6. CASE Head(mail).kind # "stop"
  <2>1. pend' = Append(pend, Head(mail)) /\ cancelled' = cancelled
    BY <1>6 DEF LoopListens
  <2>2. pend' \in Seq(Commands)
    BY <1>2, <2>1, AheadTypes, AppendIs
  <2>3. Ahead' = Ahead
    BY <1>1, <2>1, AheadTypes, SetAsideIs DEF Ahead
  <2>4. SessionTypeOK'
    BY <1>1, <1>2, <1>4, <2>1, <2>2 DEF SessionInv, SessionTypeOK, holderVars
  <2>5. Turns' /\ Queued' /\ Earned'
    BY <1>1, <1>3, <1>4, <2>1, <2>3 DEF SessionInv, Turns, Queued, Earned, Works
  <2>. QED
    BY <2>4, <2>5 DEF SessionInv
<1>. QED
  BY <1>5, <1>6

\* A turn ends with an event; nobody holds the session any more.
LEMMA TurnsEndKeeps ==
  ASSUME SessionInv, AgentAnswers \/ PromptFails \/ LoopFindsNobody
  PROVE  SessionInv'
<1>1. /\ UNCHANGED <<sent, stops, asking, generating, holderVars, process, mail, pend, began>>
      /\ sup = "up" /\ sup' \in {"up", "leaving"} /\ Ahead' = Ahead
  BY DEF AgentAnswers, PromptFails, LoopFindsNobody, TurnEnds, outsideLoop, clientVars, Ahead
<1>2. /\ began \in 0..MaxPrompts /\ over \in 0..(MaxPrompts + 2)
      /\ began <= sent /\ sent + asking <= MaxPrompts
      /\ flight \in 0..MaxPrompts /\ (flight # 0 => over <= began)
      /\ flight = 0 => cancelled = 0 /\ over <= began + 1
  BY <1>1 DEF SessionInv, SessionTypeOK, Turns
<1>3. CASE flight # 0
  <2>1. flight' = 0 /\ cancelled' = 0 /\ over' = over + 1
    BY <1>3 DEF AgentAnswers, PromptFails, LoopFindsNobody, TurnEnds
  <2>2. over' \in 0..(MaxPrompts + 2) /\ over' <= began + 1 /\ over' > 0
    BY <1>2, <1>3, <2>1, ChatSessionAssumption
  <2>3. SessionTypeOK'
    BY <1>1, <2>1, <2>2, ChatSessionAssumption DEF SessionInv, SessionTypeOK, holderVars
  <2>4. Turns' /\ Queued' /\ Earned'
    BY <1>1, <1>2, <2>1, <2>2 DEF SessionInv, Turns, Queued, Earned, Listening, Works
  <2>. QED
    BY <2>3, <2>4 DEF SessionInv
<1>4. CASE flight = 0
  <2>1. UNCHANGED <<flight, cancelled, over>> /\ sup' = "leaving"
    BY <1>4 DEF AgentAnswers, PromptFails, LoopFindsNobody
  <2>2. SessionTypeOK'
    BY <1>1, <2>1 DEF SessionInv, SessionTypeOK, holderVars
  <2>3. Turns' /\ Queued' /\ Earned'
    BY <1>1, <1>2, <1>4, <2>1 DEF SessionInv, Turns, Queued, Earned, Listening, Works
  <2>. QED
    BY <2>2, <2>3 DEF SessionInv
<1>. QED
  BY <1>3, <1>4

\* The supervisor returns, and what is left in the channel is lost.
LEMMA ReturnsKeeps ==
  ASSUME SessionInv, ConnectionFails \/ AgentRefuses \/ SupervisorReturns
  PROVE  SessionInv'
<1>1. /\ UNCHANGED <<sent, stops, asking, generating, holderVars, began>>
      /\ sup # "down" /\ sup' = "down" /\ mail' = <<>> /\ pend' = <<>>
      /\ process' \in {process, "dead"}
      /\ \/ flight' = 0 /\ cancelled' = 0 /\ over' = over + 1
         \/ sup # "up" /\ UNCHANGED <<flight, cancelled, over>>
  BY DEF ConnectionFails, AgentRefuses, SupervisorReturns, Works, ChannelCloses, TurnEnds,
         outsideLoop, clientVars
<1>2. /\ began \in 0..MaxPrompts /\ over \in 0..(MaxPrompts + 2) /\ sent \in 0..MaxPrompts
      /\ began <= sent /\ sent + asking <= MaxPrompts /\ over <= began + 1
      /\ (sup # "up" => flight = 0 /\ cancelled = 0)
  BY <1>1 DEF SessionInv, SessionTypeOK, Turns
<1>3. flight' = 0 /\ cancelled' = 0 /\ over' \in 0..(MaxPrompts + 2) /\ over' <= began + 2
  BY <1>1, <1>2, ChatSessionAssumption
<1>4. mail' \in Seq(Commands) /\ pend' \in Seq(Commands)
  BY <1>1
<1>5. SessionTypeOK'
  BY <1>1, <1>3, <1>4, ChatSessionAssumption DEF SessionInv, SessionTypeOK, holderVars
<1>6. Turns' /\ Queued' /\ Earned'
  BY <1>1, <1>2, <1>3 DEF Turns, Queued, Earned, Listening, Works
<1>. QED
  BY <1>5, <1>6 DEF SessionInv

LEMMA SessionStepKeeps ==
  ASSUME SessionInv, [SessionNext]_sessionVars
  PROVE  SessionInv'
<1>1. CASE UNCHANGED sessionVars
  BY <1>1 DEF sessionVars, SessionInv, SessionTypeOK, Turns, Queued, Earned, Ahead, Listening, Works
<1>. QED
  BY <1>1, ClientsKeep, HandlersKeep, MessageSentKeeps, MessageRefusedKeeps, AnswersKeep,
     LoopTakesKeeps, LoopListensKeeps, TurnsEndKeeps, ReturnsKeeps DEF SessionNext, Supervisor

-----------------------------------------------------------------------------
\* The inductive invariant of a session: types, where its turns stand, the order
\* of the commands to come, and what the generating flag rests on.
THEOREM SessionInvHolds == SessionSpec => []SessionInv
<1>1. SessionInit => SessionInv
  BY InitSession
<1>2. SessionInv /\ [SessionNext]_sessionVars => SessionInv'
  BY SessionStepKeeps
<1>. QED
  BY <1>1, <1>2, PTL DEF SessionSpec

\* The variables of a session keep their types.
THEOREM SessionTypes == SessionSpec => []SessionTypeOK
<1>1. SessionInv => SessionTypeOK
  BY DEF SessionInv
<1>. QED
  BY <1>1, SessionInvHolds, PTL

\* Commands set aside while a prompt runs are processed in arrival order
\* (supervise_chat, crates/acp/src/chat.rs:515): no prompt accepted is lost or
\* overtaken while the session listens, and no stop cancels a later prompt.
THEOREM CommandsKeepTheirOrder == SessionSpec => []CommandsInArrivalOrder
<1>1. SessionInv => CommandsInArrivalOrder
  <2>. SUFFICES ASSUME SessionInv PROVE CommandsInArrivalOrder
    OBVIOUS
  <2>1. DOMAIN (pend \o mail) = 1..Len(Ahead) /\ Ahead = pend \o mail
    BY AheadTypes, AheadIs DEF Ahead
  <2>2. ASSUME Listening
        PROVE  {(pend \o mail)[i].n : i \in Prompts} = (began + 1)..sent
    <3>1. \A i \in Prompts : i \in 1..Len(Ahead) /\ Ahead[i].kind = "prompt"
      BY <2>1 DEF Prompts
    <3>2. \A i \in Prompts : (pend \o mail)[i].n \in (began + 1)..sent
      BY <2>1, <2>2, <3>1 DEF SessionInv, Queued, InOrder
    <3>3. ASSUME NEW m \in (began + 1)..sent
          PROVE  \E i \in Prompts : (pend \o mail)[i].n = m
      <4>1. PICK i \in 1..Len(Ahead) : Ahead[i].kind = "prompt" /\ Ahead[i].n = m
        BY <2>2 DEF SessionInv, Queued, InOrder
      <4>. QED
        BY <2>1, <4>1 DEF Prompts
    <3>. QED
      BY <3>2, <3>3
  <2>3. ASSUME Listening, NEW i \in Prompts, NEW j \in Prompts, i < j
        PROVE  (pend \o mail)[i].n < (pend \o mail)[j].n
    BY <2>1, <2>3 DEF Prompts, SessionInv, Queued, InOrder
  <2>. QED
    BY <2>2, <2>3 DEF CommandsInArrivalOrder, SessionInv, Turns
<1>. QED
  BY <1>1, SessionInvHolds, PTL

\* The generating flag never stands without a turn, a prompt or an event that
\* will clear it, on a session that works (run-state watcher, chat.rs).
THEOREM TheFlagIsEarned == SessionSpec => []GeneratingIsEarned
<1>1. SessionInv => GeneratingIsEarned
  BY AheadTypes, AheadIs
     DEF SessionInv, Earned, HasPrompt, Ahead, GeneratingIsEarned, Prompts
<1>. QED
  BY <1>1, SessionInvHolds, PTL
=============================================================================
