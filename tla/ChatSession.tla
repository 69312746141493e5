---------------------------- MODULE ChatSession ----------------------------
(***************************************************************************)
(* One live chat session: the supervisor task that owns the agent and the  *)
(* command channel (crates/acp/src/chat.rs, supervise_chat), the handlers  *)
(* that write into the channel, the generating flag, and the close that    *)
(* ends it all (crates/daemon/src/chat.rs).  How sessions come into the    *)
(* registry, and whose agent is attributed to whom, is module Chats.       *)
(***************************************************************************)
EXTENDS Naturals, Sequences

CONSTANTS MaxPrompts,  \* bound: prompts sent to the session
          MaxStops     \* bound: stops sent by the stop route

ASSUME ChatSessionAssumption == MaxPrompts \in Nat /\ MaxStops \in Nat

VARIABLES sup,         \* the supervisor task
          process,     \* its agent process
          mail,        \* the command channel
          pend,        \* commands set aside while a prompt runs
          flight,      \* the prompt in flight, 0 when none
          cancelled,   \* the stop that cancelled it, 0 when none
          began,       \* the last prompt the agent was given
          holder,      \* where the registry's Chat is
          attributed,  \* the registry knows the agent's process
          deletion,    \* where a delete request stands
          history,     \* the history row exists
          sent,        \* prompts accepted
          stops,       \* stops the stop route has sent
          asking,      \* message handlers that hold the Chat
          generating,  \* the flag the history route shows
          over         \* turn ends the watcher has not heard yet

loopVars == <<sup, process, mail, pend, flight, cancelled, began>>
clientVars == <<sent, stops, asking>>
holderVars == <<holder, attributed, deletion, history>>
sessionVars == <<sup, process, mail, pend, flight, cancelled, began, holder, attributed,
          deletion, history, sent, stops, asking, generating, over>>

-----------------------------------------------------------------------------
(* The commands.  A prompt carries its number, a stop the number of the    *)
(* prompt that would follow it.                                            *)

Prompt(n) == [kind |-> "prompt", n |-> n]
Stop(n) == [kind |-> "stop", n |-> n]
SetConfig == [kind |-> "set", n |-> 0]
Shutdown == [kind |-> "shutdown", n |-> 0]
Commands == [kind : {"prompt", "stop", "set", "shutdown"}, n : Nat]

(* The channel is open until the supervisor has returned.                  *)
Listening == sup # "down"

(* The session works: its agent is being greeted ("starting": initialize,  *)
(* the new session, the first model), the loop runs ("up"), or the loop    *)
(* waits for the agent's answer to an option ("setting").                  *)
Works == sup \in {"starting", "up", "setting"}
Delivered(cmd) == IF Listening THEN Append(mail, cmd) ELSE mail

(* Mutant: a task of the session keeps a clone of its own Chat.            *)
HeldByItself == Works

(* The Chat clones that keep the channel open.                             *)
Held == holder \in {"registry", "close"} \/ asking > 0

SessionInit ==
    /\ sup = "starting" /\ process = "alive"
    /\ mail = <<>> /\ pend = <<>>
    /\ flight = 0 /\ cancelled = 0 /\ began = 0
    /\ holder = "registry" /\ attributed = FALSE
    /\ deletion = "no" /\ history = TRUE
    /\ sent = 0 /\ stops = 0 /\ asking = 0
    /\ generating = FALSE /\ over = 0

-----------------------------------------------------------------------------
(* The handlers.                                                           *)

(* chat_message finds the chat; send_prompt then awaits the context and    *)
(* the title update.                                                       *)
MessageArrives ==
    /\ holder = "registry"
    /\ sent + asking < MaxPrompts
    /\ asking' = asking + 1
    /\ UNCHANGED <<loopVars, sent, stops, generating, over, holderVars>>

(* The flag is set, then the prompt is queued.                             *)
MessageSent ==
    /\ asking > 0 /\ Listening
    /\ asking' = asking - 1
    /\ generating' = TRUE
    /\ sent' = sent + 1
    /\ mail' = Append(mail, Prompt(sent + 1))
    /\ UNCHANGED <<sup, process, pend, flight, cancelled, began, stops, over,
                   holderVars>>

(* The channel is closed: the prompt goes nowhere, and the flag is unset.  *)
MessageRefused ==
    /\ asking > 0 /\ ~Listening
    /\ asking' = asking - 1
    /\ generating' = FALSE
    /\ UNCHANGED <<loopVars, sent, stops, over, holderVars>>

(* chat_stop.                                                              *)
StopArrives ==
    /\ holder = "registry"
    /\ stops < MaxStops
    /\ stops' = stops + 1
    /\ mail' = Delivered(Stop(sent + 1))
    /\ UNCHANGED <<sup, process, pend, flight, cancelled, began, sent, asking,
                   generating, over, holderVars>>

(* set_option, and the live half of switch_model; one at a time.           *)
OptionArrives ==
    /\ holder = "registry"
    /\ SetConfig \notin {(mail \o pend)[i] : i \in DOMAIN (mail \o pend)}
    /\ mail' = Delivered(SetConfig)
    /\ UNCHANGED <<sup, process, pend, flight, cancelled, began, clientVars,
                   generating, over, holderVars>>

(* The run-state watcher: a terminal event clears the flag.                *)
WatcherHears ==
    /\ over > 0
    /\ over' = over - 1
    /\ generating' = FALSE
    /\ UNCHANGED <<loopVars, clientVars, holderVars>>

-----------------------------------------------------------------------------
(* Before the loop.  Three requests are awaited with nothing else selected *)
(* (initialize, the new session, the first model): the agent answers them, *)
(* or it does not; until then no command is taken.                         *)

outsideLoop == <<clientVars, generating, holderVars>>

(* The agent has answered; a model it refuses is reported as an error.     *)
AgentReady ==
    /\ sup = "starting"
    /\ sup' = "up"
    /\ over' \in {over, over + 1}
    /\ UNCHANGED <<outsideLoop, process, mail, pend, flight, cancelled, began>>

-----------------------------------------------------------------------------
(* The supervisor's loop.                                                  *)

(* Mutant: the channel is read before what was set aside.                  *)
TakeNewest ==
    \/ mail # <<>> /\ mail' = Tail(mail) /\ UNCHANGED pend
    \/ mail = <<>> /\ pend' = Tail(pend) /\ UNCHANGED mail

(* The next command: what was set aside first, then the channel.           *)
TakeCommand ==
    \/ pend # <<>> /\ pend' = Tail(pend) /\ UNCHANGED mail
    \/ pend = <<>> /\ mail' = Tail(mail) /\ UNCHANGED pend

(* A stop with nothing in flight does nothing; an option is sent to the    *)
(* agent, and the loop waits for the answer and for nothing else.          *)
LoopTakes ==
    /\ sup = "up" /\ flight = 0
    /\ pend \o mail # <<>>
    /\ TakeCommand
    /\ LET cmd == Head(pend \o mail) IN
       \/ /\ cmd.kind = "prompt"
          /\ flight' = cmd.n /\ began' = cmd.n
          /\ UNCHANGED sup
       \/ /\ cmd.kind = "stop"
          /\ UNCHANGED <<flight, began, sup>>
       \/ /\ cmd.kind = "set"
          /\ sup' = "setting"
          /\ UNCHANGED <<flight, began>>
       \/ /\ cmd.kind = "shutdown"
          /\ sup' = "leaving"
          /\ UNCHANGED <<flight, began>>
    /\ UNCHANGED <<outsideLoop, process, cancelled, over>>

(* The agent answers the option, or its connection fails the request.      *)
OptionAnswered ==
    /\ sup = "setting"
    /\ sup' = "up"
    /\ UNCHANGED <<outsideLoop, process, mail, pend, flight, cancelled, began,
                   over>>

(* recv() answers None: nobody holds the session any more.                 *)
LoopFindsNobody ==
    /\ sup = "up" /\ flight = 0
    /\ pend \o mail = <<>>
    /\ ~Held
    /\ sup' = "leaving"
    /\ UNCHANGED <<outsideLoop, process, mail, pend, flight, cancelled, began,
                   over>>

(* A prompt is in flight and not yet cancelled: a stop cancels it, any     *)
(* other command is set aside.                                             *)
LoopListens ==
    /\ sup = "up" /\ flight # 0 /\ cancelled = 0
    /\ mail # <<>>
    /\ mail' = Tail(mail)
    /\ \/ /\ Head(mail).kind = "stop"
          /\ cancelled' = Head(mail).n
          /\ UNCHANGED pend
       \/ /\ Head(mail).kind # "stop"
          /\ pend' = Append(pend, Head(mail))
          /\ UNCHANGED cancelled
    /\ UNCHANGED <<outsideLoop, sup, process, flight, began, over>>

(* A turn is over: the terminal event goes out.                            *)
TurnEnds == flight' = 0 /\ cancelled' = 0 /\ over' = over + 1

(* Mutant: an acknowledged cancellation sends no terminal event.           *)
AgentAnswersSilently ==
    /\ sup = "up" /\ flight # 0 /\ process = "alive"
    /\ flight' = 0 /\ cancelled' = 0
    /\ over' = IF cancelled = 0 THEN over + 1 ELSE over
    /\ UNCHANGED <<outsideLoop, sup, process, mail, pend, began>>

(* The agent answers the prompt, or acknowledges its cancellation.         *)
AgentAnswers ==
    /\ sup = "up" /\ flight # 0 /\ process = "alive"
    /\ TurnEnds
    /\ UNCHANGED <<outsideLoop, sup, process, mail, pend, began>>

(* The prompt fails: the session breaks off.                               *)
PromptFails ==
    /\ sup = "up" /\ flight # 0
    /\ TurnEnds
    /\ sup' = "leaving"
    /\ UNCHANGED <<outsideLoop, process, mail, pend, began>>

(* The agent process exits by itself.                                      *)
ProcessDies ==
    /\ process = "alive"
    /\ process' = "dead"
    /\ UNCHANGED <<outsideLoop, sup, mail, pend, flight, cancelled, began,
                   over>>

ChannelCloses == sup' = "down" /\ mail' = <<>> /\ pend' = <<>>

(* The connection of a dead agent fails, idle or in the middle of any      *)
(* request: supervise_chat returns the error, then the error event goes    *)
(* out.                                                                    *)
ConnectionFails ==
    /\ Works /\ process = "dead"
    /\ TurnEnds
    /\ ChannelCloses
    /\ UNCHANGED <<outsideLoop, process, began>>

(* The agent refuses the greeting or the new session: the same way out,    *)
(* and the child guard may find the agent alive.                           *)
AgentRefuses ==
    /\ sup = "starting"
    /\ TurnEnds
    /\ ChannelCloses
    /\ process' \in {process, "dead"}
    /\ UNCHANGED <<outsideLoop, began>>

(* The supervisor returns: the commands left in the channel are lost, and  *)
(* the SDK's child guard kills the agent -- or does not fire.              *)
SupervisorReturns ==
    /\ sup = "leaving"
    /\ ChannelCloses
    /\ process' \in {process, "dead"}
    /\ UNCHANGED <<outsideLoop, flight, cancelled, began, over>>

-----------------------------------------------------------------------------
(* Attribution, as far as this session sees it.                            *)
IsAttributed ==
    /\ holder = "registry" /\ ~attributed
    /\ attributed' = TRUE
    /\ UNCHANGED <<loopVars, clientVars, generating, over, holder, deletion,
                   history>>

(* ChatManager::close, for the close route, the reaper, a switch or a      *)
(* delete: out of the registry, and a shutdown into the channel.           *)
Removed ==
    /\ holder = "registry"
    /\ holder' = "close"
    /\ mail' = Delivered(Shutdown)
    /\ UNCHANGED <<sup, process, pend, flight, cancelled, began>>

SessionCloses ==
    /\ Removed
    /\ UNCHANGED <<clientVars, generating, over, attributed, deletion, history>>

(* A second resume of the same conversation replaces the registry entry:   *)
(* nobody shuts this session down.                                         *)
Replaced ==
    /\ holder = "registry"
    /\ holder' = "nobody"
    /\ UNCHANGED <<loopVars, clientVars, generating, over, attributed, deletion,
                   history>>

(* Mutant: the reclamation waits for the teardown without a grace.         *)
ReclaimsAfterTeardown ==
    /\ holder = "close" /\ sup = "down"
    /\ holder' = "nobody"
    /\ process' = IF attributed THEN "dead" ELSE process
    /\ UNCHANGED <<sup, mail, pend, flight, cancelled, began, clientVars,
                   generating, over, attributed, deletion, history>>

(* reclaim_after_close, after the teardown was seen or its grace is over.  *)
SessionReclaims ==
    /\ holder = "close"
    /\ holder' = "nobody"
    /\ process' = IF attributed THEN "dead" ELSE process
    /\ UNCHANGED <<sup, mail, pend, flight, cancelled, began, clientVars,
                   generating, over, attributed, deletion, history>>

(* ChatManager::delete: stop a chat that is generating, close it, then     *)
(* drop the row.                                                           *)
DeletionStops ==
    /\ deletion = "no"
    /\ deletion' = "closing"
    /\ mail' = IF holder = "registry" /\ generating
               THEN Delivered(Stop(sent + 1)) ELSE mail
    /\ UNCHANGED <<sup, process, pend, flight, cancelled, began, clientVars,
                   generating, over, holder, attributed, history>>

DeletionCloses ==
    /\ deletion = "closing"
    /\ deletion' = "row"
    /\ \/ Removed
       \/ holder # "registry" /\ UNCHANGED <<holder, loopVars>>
    /\ UNCHANGED <<clientVars, generating, over, attributed, history>>

DeletionDropsRow ==
    /\ deletion = "row"
    /\ deletion' = "done"
    /\ history' = FALSE
    /\ UNCHANGED <<loopVars, clientVars, generating, over, holder, attributed>>

-----------------------------------------------------------------------------
Supervisor == LoopTakes \/ LoopFindsNobody \/ LoopListens \/ ConnectionFails
              \/ SupervisorReturns

SessionNext == \/ MessageArrives \/ MessageSent \/ MessageRefused
        \/ StopArrives \/ OptionArrives \/ WatcherHears
        \/ AgentReady \/ AgentRefuses \/ OptionAnswered
        \/ Supervisor \/ AgentAnswers \/ PromptFails \/ ProcessDies
        \/ IsAttributed \/ SessionCloses \/ Replaced \/ SessionReclaims
        \/ DeletionStops \/ DeletionCloses \/ DeletionDropsRow

(* The tasks the runtime schedules.  Nothing makes a client call, an agent *)
(* answer or a child guard fire.                                           *)
Fairness == /\ WF_sessionVars(MessageSent \/ MessageRefused)
            /\ WF_sessionVars(WatcherHears)
            /\ WF_sessionVars(Supervisor) /\ WF_sessionVars(SessionReclaims)

SessionSpec == SessionInit /\ [][SessionNext]_sessionVars /\ Fairness

-----------------------------------------------------------------------------
SessionTypeOK ==
    /\ sup \in {"starting", "up", "setting", "leaving", "down"}
    /\ process \in {"alive", "dead"}
    /\ mail \in Seq(Commands) /\ pend \in Seq(Commands)
    /\ flight \in 0..MaxPrompts /\ began \in 0..MaxPrompts
    /\ cancelled \in 0..(MaxPrompts + 1)
    /\ holder \in {"registry", "close", "nobody"}
    /\ attributed \in BOOLEAN /\ history \in BOOLEAN
    /\ deletion \in {"no", "closing", "row", "done"}
    /\ sent \in 0..MaxPrompts /\ stops \in 0..MaxStops
    /\ asking \in 0..MaxPrompts
    /\ generating \in BOOLEAN
    /\ over \in 0..(MaxPrompts + 2)

(* The prompts still to come, by their place in the order of taking.       *)
Prompts == {i \in DOMAIN (pend \o mail) : (pend \o mail)[i].kind = "prompt"}

(* "commands that arrive while a prompt runs are buffered and processed in *)
(* arrival order" (acp/src/chat.rs:515-516): over both queues, the prompts *)
(* still to come are all those accepted after the last one the agent was   *)
(* given, in the order they were accepted, and a stop never cancels a      *)
(* prompt accepted after it.                                               *)
CommandsInArrivalOrder ==
    /\ Listening =>
         /\ {(pend \o mail)[i].n : i \in Prompts} = (began + 1)..sent
         /\ \A i, j \in Prompts : i < j => (pend \o mail)[i].n < (pend \o mail)[j].n
    /\ cancelled # 0 => flight < cancelled

(* generating "is cleared by the session own terminal event"               *)
(* (chat.rs:1084-1085): on a session that still works, the flag is never   *)
(* left standing without a turn, a waiting prompt or an event to clear it. *)
GeneratingIsEarned ==
    Works /\ generating => flight # 0 \/ Prompts # {} \/ over > 0

(* "a closed chat must not keep its agent alive for however long the       *)
(* prompt takes" (chat.rs:459-463): closing a chat whose agent was         *)
(* attributed ends the agent and the session, also in the middle of a      *)
(* prompt, an option or a greeting that the agent never answers.           *)
ClosedAgentsAreReclaimed ==
    (holder = "close" /\ attributed) ~> (process = "dead" /\ sup = "down")

(* The supervisor waits for an answer of an agent that lives: to the       *)
(* greeting, an option or a prompt.                                        *)
AwaitsAgent == process = "alive" /\ (sup \in {"starting", "setting"} \/ flight # 0)

(* A session nobody holds any more works off what it was sent and ends,    *)
(* also one that was replaced in the registry without a shutdown: unless   *)
(* its agent owes it one answer for ever (acp/chat.rs:442-506 and 633      *)
(* await the agent with nothing else selected; a closed or cancelled       *)
(* prompt awaits it at 574-599).                                           *)
AbandonedSessionsEnd == (holder = "nobody") ~> (sup = "down" \/ []AwaitsAgent)

=============================================================================
