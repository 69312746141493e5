------------------------------- MODULE Chats -------------------------------
(***************************************************************************)
(* The registry of live chats and the agents it believes they have: the    *)
(* requests that start, resume, switch, close and delete chats             *)
(* (crates/daemon/src/chat.rs), and the attribution and reclamation of     *)
(* agent processes (crates/daemon/src/orphans.rs).  What a session does    *)
(* between its start and its end is module ChatSession.                    *)
(*                                                                         *)
(* A conversation is one RunId.  It may be held by several sessions in     *)
(* turn: every start, resume and switch starts a new one, with an agent    *)
(* process of its own.  A session names its agent: pid and start time      *)
(* identify a process (orphans.rs, ChildRef), so no two agents are the     *)
(* same one.  All agents here run the same program, the case attribution   *)
(* finds hard.                                                             *)
(***************************************************************************)
EXTENDS Naturals, FiniteSets

CONSTANTS Convs,       \* conversations
          Sessions,    \* sessions the daemon may start, each at most once
          NoSession, NoConv

ASSUME ChatsAssumption == NoSession \notin Sessions /\ NoConv \notin Convs

VARIABLES row,        \* conversation -> its chats row exists
          chats,      \* the registry: conversation -> the session it holds
          children,   \* the attributed agents: conversation -> whose process
          deleting,   \* conversations whose row a delete is about to drop
          stage,      \* session -> how far start_inner came
          conv,       \* session -> its conversation
          window,     \* session -> agents that lived before it spawned
          agent,      \* session -> its agent process
          attr,       \* session -> its attribution task
          sighted,    \* session -> the agent that task picked
          closing,    \* session -> the close that removed it
          ref         \* session -> the agent its close took from children

requestVars == <<row, deleting, stage, conv, window>>
attrVars == <<attr, sighted>>
closeVars == <<closing, ref>>
vars == <<row, chats, children, deleting, stage, conv, window, agent, attr,
          sighted, closing, ref>>

Alive == {s \in Sessions : agent[s] = "alive"}

-----------------------------------------------------------------------------
Init ==
    /\ row = [c \in Convs |-> FALSE]
    /\ chats = [c \in Convs |-> NoSession]
    /\ children = [c \in Convs |-> NoSession]
    /\ deleting = {}
    /\ stage = [s \in Sessions |-> "unused"]
    /\ conv = [s \in Sessions |-> NoConv]
    /\ window = [s \in Sessions |-> {}]
    /\ agent = [s \in Sessions |-> "none"]
    /\ attr = [s \in Sessions |-> "none"]
    /\ sighted = [s \in Sessions |-> NoSession]
    /\ closing = [s \in Sessions |-> "no"]
    /\ ref = [s \in Sessions |-> NoSession]

-----------------------------------------------------------------------------
(* Starting a session.                                                     *)

Moves(s, from, to) == stage[s] = from /\ stage' = [stage EXCEPT ![s] = to]

Unused(c) == ~row[c] /\ \A s \in Sessions : conv[s] # c

Takes(s, c, to) == Moves(s, "unused", to) /\ conv' = [conv EXCEPT ![s] = c]

(* ChatManager::start: a new conversation, straight into start_inner.      *)
Start(s, c) ==
    /\ Unused(c)
    /\ Takes(s, c, "found")
    /\ UNCHANGED <<row, deleting, window, chats, children, agent, attrVars,
                   closeVars>>

(* resume_chat's first look: the conversation must not be live.            *)
ResumeChecks(s, c) ==
    /\ chats[c] = NoSession
    /\ ~Unused(c)
    /\ Takes(s, c, "checked")
    /\ UNCHANGED <<row, deleting, window, chats, children, agent, attrVars,
                   closeVars>>

(* Its second, after an await: the row must exist.                         *)
ResumeReadsRow(s) ==
    /\ Moves(s, "checked", IF row[conv[s]] THEN "found" ELSE "refused")
    /\ UNCHANGED <<row, deleting, conv, window, chats, children, agent,
                   attrVars, closeVars>>

(* start_inner fails before the spawn, or the client hangs up and the      *)
(* handler is dropped at an await.  After the spawn that drops the Chat it *)
(* had built; the supervisor task goes on without it, and the row may be   *)
(* there already.                                                          *)
GivesUp(s) ==
    /\ \/ stage[s] \in {"checked", "found", "snapped"}
          /\ stage' = [stage EXCEPT ![s] = "refused"]
       \/ stage[s] \in {"spawned", "recorded"}
          /\ stage' = [stage EXCEPT ![s] = "abandoned"]
    /\ UNCHANGED <<row, deleting, conv, window, chats, children, agent,
                   attrVars, closeVars>>

(* The snapshot of our own children, taken on a blocking thread.           *)
Snapshots(s) ==
    /\ Moves(s, "found", "snapped")
    /\ window' = [window EXCEPT ![s] = Alive]
    /\ UNCHANGED <<row, deleting, conv, chats, children, agent, attrVars,
                   closeVars>>

(* start_chat: the supervisor task.                                        *)
Spawns(s) ==
    /\ Moves(s, "snapped", "spawned")
    /\ UNCHANGED <<row, deleting, conv, window, chats, children, agent,
                   attrVars, closeVars>>

(* In that task, in its own time, the agent process.                       *)
AgentStarts(s) ==
    /\ stage[s] \in {"spawned", "recorded", "open", "abandoned"}
    /\ agent[s] = "none"
    /\ agent' = [agent EXCEPT ![s] = "alive"]
    /\ UNCHANGED <<requestVars, chats, children, attrVars, closeVars>>

(* Mutant: attribution starts with the spawn, before the registration.     *)
WritesRowAttributing(s) ==
    /\ Moves(s, "spawned", "recorded")
    /\ row' \in {row, [row EXCEPT ![conv[s]] = TRUE]}
    /\ attr' = [attr EXCEPT ![s] = "polling"]
    /\ UNCHANGED <<deleting, conv, window, chats, children, agent, sighted,
                   closeVars>>

(* The history row: inserted, or refreshed when the conversation has one.  *)
(* An error of the store is dropped.                                       *)
WritesRow(s) ==
    /\ Moves(s, "spawned", "recorded")
    /\ row' \in {row, [row EXCEPT ![conv[s]] = TRUE]}
    /\ UNCHANGED <<deleting, conv, window, chats, children, agent, attrVars,
                   closeVars>>

(* The registry takes the session, dropping one it may have held under the *)
(* same id, and the attribution task starts.                               *)
Registers(s) ==
    /\ Moves(s, "recorded", "open")
    /\ chats' = [chats EXCEPT ![conv[s]] = s]
    /\ attr' = [attr EXCEPT ![s] = "polling"]
    /\ UNCHANGED <<row, deleting, conv, window, children, agent, sighted,
                   closeVars>>

(* An agent process ends: by itself, or by the SDK's child guard when its  *)
(* session is over.  Nothing says when, or that the guard fires.           *)
AgentDies(s) ==
    /\ agent[s] = "alive"
    /\ agent' = [agent EXCEPT ![s] = "dead"]
    /\ UNCHANGED <<requestVars, chats, children, attrVars, closeVars>>

-----------------------------------------------------------------------------
(* Closing a chat: the close route, the idle reaper, delete and switch.    *)

Removes(c) ==
    /\ chats[c] # NoSession
    /\ chats' = [chats EXCEPT ![c] = NoSession]
    /\ closing' = [closing EXCEPT ![chats[c]] = "removed"]

Close(c) ==
    /\ Removes(c)
    /\ UNCHANGED <<requestVars, children, agent, attrVars, ref>>

(* switch_agent, and switch_model when the live switch fails: the old chat *)
(* is closed before the new one is started under a new id.                 *)
Switches(c, s, c2) ==
    /\ Removes(c)
    /\ Unused(c2)
    /\ Takes(s, c2, "found")
    /\ UNCHANGED <<row, deleting, window, children, agent, attrVars, ref>>

(* The rest of close: the attributed agent leaves the map under a lock of  *)
(* its own, and the reclamation is spawned with what was there.            *)
CloseTakesChild(s) ==
    /\ closing[s] = "removed"
    /\ closing' = [closing EXCEPT ![s] = "waiting"]
    /\ ref' = [ref EXCEPT ![s] = children[conv[s]]]
    /\ children' = [children EXCEPT ![conv[s]] = NoSession]
    /\ UNCHANGED <<requestVars, chats, agent, attrVars>>

(* reclaim_refs: the process is killed if it still is that process.        *)
Killed(t) == IF t \in Alive THEN [agent EXCEPT ![t] = "dead"] ELSE agent

(* reclaim_after_close: after the teardown was seen, or its grace is over. *)
Reclaims(s) ==
    /\ closing[s] = "waiting"
    /\ closing' = [closing EXCEPT ![s] = "reclaimed"]
    /\ agent' = Killed(ref[s])
    /\ UNCHANGED <<requestVars, chats, children, attrVars, ref>>

(* ChatManager::delete: the chat is closed if it is live, and the row is   *)
(* dropped after an await.                                                 *)
DeleteCloses(c) ==
    /\ c \notin deleting /\ ~Unused(c)
    /\ deleting' = deleting \cup {c}
    /\ \/ Removes(c)
       \/ chats[c] = NoSession /\ UNCHANGED <<chats, closing>>
    /\ UNCHANGED <<row, stage, conv, window, children, agent, attrVars, ref>>

DeleteDropsRow(c) ==
    /\ c \in deleting
    /\ deleting' = deleting \ {c}
    /\ row' = [row EXCEPT ![c] = FALSE]
    /\ UNCHANGED <<stage, conv, window, chats, children, agent, attrVars,
                   closeVars>>

-----------------------------------------------------------------------------
(* Attribution (attribute_child).                                          *)

(* The evidence: a live agent that was not there before the session, and   *)
(* no other live agent with its image.                                     *)
Evidence(s) == {t \in Alive \ window[s] : Alive = {t}}

Sights(s, t) ==
    /\ attr[s] = "polling"
    /\ t \in Evidence(s)
    /\ attr' = [attr EXCEPT ![s] = "sighted"]
    /\ sighted' = [sighted EXCEPT ![s] = t]
    /\ UNCHANGED <<requestVars, chats, children, agent, closeVars>>

(* The window is over.                                                     *)
StopsLooking(s) ==
    /\ attr[s] = "polling"
    /\ attr' = [attr EXCEPT ![s] = "done"]
    /\ UNCHANGED <<requestVars, chats, children, agent, sighted, closeVars>>

(* The registry is asked first; the entry is written under another lock.   *)
FindsChatOpen(s) ==
    /\ attr[s] = "sighted"
    /\ chats[conv[s]] # NoSession
    /\ attr' = [attr EXCEPT ![s] = "keeping"]
    /\ UNCHANGED <<requestVars, chats, children, agent, sighted, closeVars>>

Keeps(s) ==
    /\ attr[s] = "keeping"
    /\ attr' = [attr EXCEPT ![s] = "done"]
    /\ children' = [children EXCEPT ![conv[s]] = sighted[s]]
    /\ UNCHANGED <<requestVars, chats, agent, sighted, closeVars>>

(* Closed while its pid was being learnt: reclaimed here.                  *)
FindsChatClosed(s) ==
    /\ attr[s] = "sighted"
    /\ chats[conv[s]] = NoSession
    /\ attr' = [attr EXCEPT ![s] = "done"]
    /\ agent' = Killed(sighted[s])
    /\ UNCHANGED <<requestVars, chats, children, sighted, closeVars>>

-----------------------------------------------------------------------------
Opening(s) == \/ ResumeReadsRow(s) \/ Snapshots(s) \/ Spawns(s) \/ WritesRow(s)
              \/ Registers(s) \/ GivesUp(s)
Attribution(s) == \/ \E t \in Sessions : Sights(s, t)
                  \/ StopsLooking(s) \/ FindsChatOpen(s) \/ Keeps(s)
                  \/ FindsChatClosed(s)

Next ==
    \/ \E s \in Sessions :
          \/ \E c \in Convs : Start(s, c) \/ ResumeChecks(s, c)
          \/ \E c, c2 \in Convs : Switches(c, s, c2)
          \/ Opening(s) \/ AgentStarts(s) \/ AgentDies(s)
          \/ Attribution(s)
          \/ CloseTakesChild(s) \/ Reclaims(s)
    \/ \E c \in Convs : Close(c) \/ DeleteCloses(c) \/ DeleteDropsRow(c)

Spec == Init /\ [][Next]_vars

-----------------------------------------------------------------------------
TypeOK ==
    /\ row \in [Convs -> BOOLEAN]
    /\ chats \in [Convs -> Sessions \cup {NoSession}]
    /\ children \in [Convs -> Sessions \cup {NoSession}]
    /\ deleting \subseteq Convs
    /\ stage \in [Sessions -> {"unused", "checked", "found", "snapped",
                              "spawned", "recorded", "open", "refused",
                              "abandoned"}]
    /\ conv \in [Sessions -> Convs \cup {NoConv}]
    /\ window \in [Sessions -> SUBSET Sessions]
    /\ agent \in [Sessions -> {"none", "alive", "dead"}]
    /\ attr \in [Sessions -> {"none", "polling", "sighted", "keeping", "done"}]
    /\ sighted \in [Sessions -> Sessions \cup {NoSession}]
    /\ closing \in [Sessions -> {"no", "removed", "waiting", "reclaimed"}]
    /\ ref \in [Sessions -> Sessions \cup {NoSession}]
    /\ \A s \in Sessions : (attr[s] = "none") <=> (stage[s] # "open")

(* A chat "that is merely still STARTING" is not taken for one that was    *)
(* closed while its pid was being learnt (chat.rs:1151-1156): attribution  *)
(* kills what it found only after a close of that conversation.            *)
OnlyClosedChatsAreReclaimed ==
    \A s \in Sessions :
        attr[s] = "sighted" /\ chats[conv[s]] = NoSession =>
            \E d \in Sessions : conv[d] = conv[s] /\ closing[d] # "no"

-----------------------------------------------------------------------------
(* Where the code does not do what its comments say (README, section 6):   *)
(* TLC refutes both.                                                       *)

(* A wrapped program goes unattributed, "which costs a reading and never a *)
(* stranger's agent" (orphans.rs:533-534): what a session is given is its  *)
(* own agent.                                                              *)
NeverAStrangersAgent == \A s \in Sessions : sighted[s] \in {s, NoSession}

(* "A close REMOVES its entry, so anything left here after closes is       *)
(* itself the bug issue #60 is about" (chat.rs:1201-1203).                 *)
NothingIsLeftBehind ==
    \A c \in Convs : children[c] # NoSession =>
        \/ chats[c] # NoSession
        \/ \E s \in Sessions : conv[s] = c /\ closing[s] = "removed"

=============================================================================
