------------------------------ MODULE RunEvents ------------------------------
(***************************************************************************)
(* The event stream of a run: transcript file, broadcast channel and the   *)
(* SSE handler that replays the one and then tails the other               *)
(* (crates/daemon/src/api.rs, run_events; crates/daemon/src/runs.rs, emit  *)
(* and the end of supervise; crates/store/src/transcript.rs).              *)
(*                                                                         *)
(* A supervisor appends every event to the transcript and broadcasts it    *)
(* under the same number.  A handler reads the run's row, subscribes,      *)
(* reads the file, sends what it read and goes on with what the channel    *)
(* holds; a number it has passed is not sent again.  The three reads are   *)
(* three steps, and the supervisor moves in between.                       *)
(***************************************************************************)
EXTENDS Integers, Sequences, FiniteSets

CONSTANTS
  Runs, Clients,
  Capacity,    \* messages the broadcast channel keeps for a slow receiver
  MaxLines,    \* bound: MaxLines[r] events of run r
  None

ASSUME RunEventsAssumption ==
  /\ Capacity \in Nat \ {0}
  /\ MaxLines \in [Runs -> Nat]
  /\ None \notin Runs

VARIABLES
  phase,     \* phase[r]: how far the supervisor of r is
  row,       \* row[r]: what the status column of r says
  written,   \* TranscriptWriter.seq: the number the next event receives
  filed,     \* lines a reader of the file finds
  ahead,     \* runs with a line appended and not yet broadcast
  snapshots, \* snapshots[r]: statuses of detached update_run tasks
  conn,      \* conn[c]: how far the handler that serves c is
  of,        \* of[c]: the run it serves
  over,      \* clients whose handler read a terminal row
  inbox,     \* inbox[c]: messages in the broadcast receiver
  lagged,    \* receivers the channel has overrun
  last,      \* last[c]: last_seq
  got,       \* got[c]: numbers of the lines sent to c
  replayed,  \* replayed[c]: lines read from the file
  unfiled    \* unfiled[c]: lines appended but not on disk when c's was read

runVars    == <<phase, row, written, filed, ahead, snapshots>>
clientVars == <<conn, of, over, last, got, replayed, unfiled>>
busVars    == <<inbox, lagged>>
vars       == <<runVars, clientVars, busVars>>

(***************************************************************************)
(*  none        not launched            queued  row inserted, at the gate  *)
(*  live        events are emitted      draining  the driver has ended     *)
(*  sealing     drained and flushed     announcing  final row written      *)
(*  over        Finished was broadcast                                     *)
(*  unannounced the supervisor returned without a word on the channel      *)
(***************************************************************************)
Phase == {"none", "queued", "live", "draining", "sealing", "announcing",
          "over", "unannounced"}

(***************************************************************************)
(*  opened      the row was read        subscribed  mgr.broadcast()        *)
(*  tail        replay sent, reading the channel                           *)
(*  ended       the end marker was sent                                    *)
(*  cut         the stream stopped without a marker                        *)
(***************************************************************************)
Conn == {"idle", "opened", "subscribed", "tail", "ended", "cut"}

Finished == -1   \* StreamMsg::Finished, in the place of a line's number
Message  == [run : Runs, line : Int]

TypeOK ==
  /\ phase \in [Runs -> Phase]
  /\ row \in [Runs -> {"none", "active", "terminal"}]
  /\ written \in [Runs -> Nat] /\ filed \in [Runs -> Nat]
  /\ \A r \in Runs : filed[r] <= written[r]
  /\ ahead \subseteq Runs
  /\ snapshots \in [Runs -> SUBSET {"active", "terminal"}]
  /\ conn \in [Clients -> Conn]
  /\ of \in [Clients -> Runs \cup {None}]
  /\ \A c \in Clients : conn[c] # "idle" => of[c] \in Runs
  /\ over \subseteq Clients /\ lagged \subseteq Clients
  /\ inbox \in [Clients -> Seq(Message)]
  /\ \A c \in Clients : Len(inbox[c]) <= Capacity
  /\ last \in [Clients -> Int]
  /\ got \in [Clients -> Seq(Nat)]
  /\ replayed \in [Clients -> Nat]
  /\ unfiled \in [Clients -> SUBSET Nat]

Init ==
  /\ phase = [r \in Runs |-> "none"]
  /\ row = [r \in Runs |-> "none"]
  /\ written = [r \in Runs |-> 0] /\ filed = [r \in Runs |-> 0]
  /\ ahead = {}
  /\ snapshots = [r \in Runs |-> {}]
  /\ conn = [c \in Clients |-> "idle"]
  /\ of = [c \in Clients |-> None]
  /\ over = {} /\ lagged = {}
  /\ inbox = [c \in Clients |-> <<>>]
  /\ last = [c \in Clients |-> 0]
  /\ got = [c \in Clients |-> <<>>]
  /\ replayed = [c \in Clients |-> 0]
  /\ unfiled = [c \in Clients |-> {}]

Listening(c) == conn[c] \in {"subscribed", "tail"}

(***************************************************************************)
(* broadcast::Sender::send: every receiver gets the message; one that has  *)
(* Capacity messages unread loses the oldest and is told so by its next    *)
(* recv.  The handler stops at that error, so what is left is not kept.    *)
(***************************************************************************)
Send(m) ==
  LET reached == {c \in Clients : Listening(c) /\ c \notin lagged}
      full    == {c \in reached : Len(inbox[c]) = Capacity}
  IN  /\ lagged' = lagged \cup full
      /\ inbox' = [c \in Clients |->
                     IF c \in full THEN <<>>
                     ELSE IF c \in reached THEN Append(inbox[c], m)
                     ELSE inbox[c]]

MoveTo(r, p) == phase' = [phase EXCEPT ![r] = p]

(***************************************************************************)
(* The supervisor.                                                         *)
(***************************************************************************)

\* start_run: the row is inserted, Queued or Spawning.
Launch(r) ==
  /\ phase[r] = "none"
  /\ MoveTo(r, "queued")
  /\ row' = [row EXCEPT ![r] = "active"]
  /\ UNCHANGED <<written, filed, ahead, snapshots, clientVars, busVars>>

\* supervise creates the transcript.
OpenTranscript(r) ==
  /\ phase[r] = "queued"
  /\ MoveTo(r, "live")
  /\ UNCHANGED <<row, written, filed, ahead, snapshots, clientVars, busVars>>

\* The supervisor gives up: cancelled in the queue, no workspace, no
\* transcript, or a failing flush, final update or task update.  The row is
\* made terminal and nothing is broadcast.
GiveUp(r) ==
  /\ phase[r] \in {"queued", "draining", "sealing", "announcing"}
  /\ r \notin ahead
  /\ MoveTo(r, "unannounced")
  /\ row' = [row EXCEPT ![r] = "terminal"]
  /\ UNCHANGED <<written, filed, ahead, snapshots, clientVars, busVars>>

Emits(r) == phase[r] \in {"live", "draining"} /\ r \notin ahead /\ written[r] < MaxLines[r]

\* append_event.  A flush that fails keeps the line in the BufWriter, which
\* writes it with the next one; the failure is logged and the line broadcast.
\* A write into the BufWriter that fails, which leaves the number to the next
\* event (transcript.rs 42-43), is left out: lines are known by their numbers.
AppendEvent(r) ==
  /\ Emits(r)
  /\ written' = [written EXCEPT ![r] = @ + 1]
  /\ filed' \in {[filed EXCEPT ![r] = written[r] + 1], filed}
  /\ ahead' = ahead \cup {r}
  /\ UNCHANGED <<phase, row, clientVars, busVars>>

\* A usage update writes the run as it stands from a detached task.
Snapshot(r) == IF phase[r] = "draining" THEN "terminal" ELSE "active"

Emit(r) ==
  /\ AppendEvent(r)
  /\ snapshots' \in {snapshots, [snapshots EXCEPT ![r] = @ \cup {Snapshot(r)}]}

Broadcast(r) ==
  /\ r \in ahead
  /\ ahead' = ahead \ {r}
  /\ Send([run |-> r, line |-> written[r] - 1])
  /\ UNCHANGED <<phase, row, written, filed, snapshots, clientVars>>

WriteSnapshot(r) ==
  \E s \in snapshots[r] :
    /\ row' = [row EXCEPT ![r] = s]
    /\ snapshots' = [snapshots EXCEPT ![r] = @ \ {s}]
    /\ UNCHANGED <<phase, written, filed, ahead, clientVars, busVars>>

\* The driver returned, or the run was cancelled: what is queued is drained.
DriverEnds(r) ==
  /\ phase[r] = "live" /\ r \notin ahead
  /\ MoveTo(r, "draining")
  /\ UNCHANGED <<row, written, filed, ahead, snapshots, clientVars, busVars>>

\* transcript.flush()
Flush(r) ==
  /\ phase[r] = "draining" /\ r \notin ahead
  /\ MoveTo(r, "sealing")
  /\ filed' = [filed EXCEPT ![r] = written[r]]
  /\ UNCHANGED <<row, written, ahead, snapshots, clientVars, busVars>>

\* The final update_run.
Finalize(r) ==
  /\ phase[r] = "sealing"
  /\ MoveTo(r, "announcing")
  /\ row' = [row EXCEPT ![r] = "terminal"]
  /\ UNCHANGED <<written, filed, ahead, snapshots, clientVars, busVars>>

\* StreamMsg::Finished.
\* Mutated form: the supervisor returns without a word.
AnnounceNothing(r) ==
  /\ phase[r] = "announcing"
  /\ MoveTo(r, "over")
  /\ UNCHANGED <<row, written, filed, ahead, snapshots, clientVars, busVars>>

Announce(r) ==
  /\ phase[r] = "announcing"
  /\ MoveTo(r, "over")
  /\ Send([run |-> r, line |-> Finished])
  /\ UNCHANGED <<row, written, filed, ahead, snapshots, clientVars>>

(***************************************************************************)
(* The daemon dies and the next one boots: connections, receivers, tasks   *)
(* and what was not flushed are gone, active rows become Interrupted.      *)
(***************************************************************************)
CrashAndBoot ==
  /\ phase' = [r \in Runs |-> IF phase[r] \in {"none", "over"} THEN phase[r]
                              ELSE "unannounced"]
  /\ row' = [r \in Runs |-> IF row[r] = "active" THEN "terminal" ELSE row[r]]
  /\ written' = filed
  /\ ahead' = {}
  /\ snapshots' = [r \in Runs |-> {}]
  /\ conn' = [c \in Clients |-> IF conn[c] \in {"idle", "ended"} THEN conn[c] ELSE "cut"]
  /\ inbox' = [c \in Clients |-> <<>>]
  /\ lagged' = {}
  /\ UNCHANGED <<filed, of, over, last, got, replayed, unfiled>>

(***************************************************************************)
(* The handler.                                                            *)
(***************************************************************************)

\* get_run
ReadRow(c, r) ==
  /\ conn[c] = "idle" /\ row[r] # "none"
  /\ conn' = [conn EXCEPT ![c] = "opened"]
  /\ of' = [of EXCEPT ![c] = r]
  /\ over' = IF row[r] = "terminal" THEN over \cup {c} ELSE over
  /\ UNCHANGED <<runVars, busVars, last, got, replayed, unfiled>>

Subscribe(c) ==
  /\ conn[c] = "opened"
  /\ conn' = [conn EXCEPT ![c] = "subscribed"]
  /\ UNCHANGED <<runVars, busVars, of, over, last, got, replayed, unfiled>>

\* read_transcript, then the spawned task sends what was read; the marker
\* follows at once for a run that was terminal when its row was read.
ReplayTo(c, n) ==
  /\ got' = [got EXCEPT ![c] = [i \in 1..n |-> i - 1]]
  /\ last' = [last EXCEPT ![c] = IF n = 0 THEN 0 ELSE n - 1]
  /\ replayed' = [replayed EXCEPT ![c] = n]
  /\ unfiled' = [unfiled EXCEPT ![c] = n .. (written[of[c]] - 1)]

Replay(c) ==
  /\ conn[c] = "subscribed"
  /\ ReplayTo(c, filed[of[c]])
  /\ conn' = [conn EXCEPT ![c] = IF c \in over THEN "ended" ELSE "tail"]
  /\ inbox' = IF c \in over THEN [inbox EXCEPT ![c] = <<>>] ELSE inbox
  /\ lagged' = IF c \in over THEN lagged \ {c} ELSE lagged
  /\ UNCHANGED <<runVars, of, over>>

\* The seq check: a line at or below last_seq is not sent.
\* Mutated form: the line the replay ended with passes.
IsNewOrLast(c, n) == n >= last[c]

IsNew(c, n) == n > last[c]

Received(c, n) ==
  IF IsNew(c, n)
  THEN /\ got' = [got EXCEPT ![c] = Append(@, n)]
       /\ last' = [last EXCEPT ![c] = n]
  ELSE UNCHANGED <<got, last>>

TailLine(c) ==
  /\ conn[c] = "tail" /\ inbox[c] # <<>>
  /\ LET m == Head(inbox[c])
     IN  /\ m.line # Finished \/ m.run # of[c]
         /\ IF m.run = of[c] THEN Received(c, m.line) ELSE UNCHANGED <<got, last>>
  /\ inbox' = [inbox EXCEPT ![c] = Tail(@)]
  /\ UNCHANGED <<runVars, lagged, conn, of, over, replayed, unfiled>>

\* Mutated form: the end of any run ends the stream.
TailFinishedOfAny(c) ==
  /\ conn[c] = "tail" /\ inbox[c] # <<>>
  /\ Head(inbox[c]).line = Finished
  /\ conn' = [conn EXCEPT ![c] = "ended"]
  /\ inbox' = [inbox EXCEPT ![c] = <<>>]
  /\ UNCHANGED <<runVars, lagged, of, over, last, got, replayed, unfiled>>

TailFinished(c) ==
  /\ conn[c] = "tail" /\ inbox[c] # <<>>
  /\ Head(inbox[c]) = [run |-> of[c], line |-> Finished]
  /\ conn' = [conn EXCEPT ![c] = "ended"]
  /\ inbox' = [inbox EXCEPT ![c] = <<>>]
  /\ UNCHANGED <<runVars, lagged, of, over, last, got, replayed, unfiled>>

\* recv returns Lagged: the handler takes it for the daemon's shutdown.
\* Mutated form: it reads on.
TailLaggedReadsOn(c) ==
  /\ conn[c] = "tail" /\ c \in lagged
  /\ lagged' = lagged \ {c}
  /\ UNCHANGED <<runVars, clientVars, inbox>>

TailLagged(c) ==
  /\ conn[c] = "tail" /\ c \in lagged
  /\ conn' = [conn EXCEPT ![c] = "cut"]
  /\ lagged' = lagged \ {c}
  /\ UNCHANGED <<runVars, inbox, of, over, last, got, replayed, unfiled>>

RunStep(r) ==
  \/ Launch(r) \/ OpenTranscript(r) \/ GiveUp(r) \/ Emit(r) \/ Broadcast(r)
  \/ WriteSnapshot(r) \/ DriverEnds(r) \/ Flush(r) \/ Finalize(r) \/ Announce(r)

HandlerStep(c) ==
  \/ Subscribe(c) \/ Replay(c) \/ TailLine(c) \/ TailFinished(c) \/ TailLagged(c)

Next ==
  \/ \E r \in Runs : RunStep(r)
  \/ \E c \in Clients : HandlerStep(c) \/ \E r \in Runs : ReadRow(c, r)
  \/ CrashAndBoot

Safety == Init /\ [][Next]_vars

\* Handlers and supervisors that have left their loop are polled; neither an
\* agent, a client nor a crash owes a step.
Spec ==
  /\ Safety
  /\ \A c \in Clients : WF_vars(HandlerStep(c))
  /\ \A r \in Runs : WF_vars(Broadcast(r) \/ Flush(r) \/ Finalize(r) \/ Announce(r))

(***************************************************************************)
(* What the stream promises.                                               *)
(***************************************************************************)

\* Lines arrive in the order of their numbers and none twice, whatever part
\* of the run the file and the channel both hold.
InOrderAndOnce ==
  \A c \in Clients : \A i, j \in 1..Len(got[c]) : i < j => got[c][i] < got[c][j]

Seen(c) == {got[c][i] : i \in 1..Len(got[c])}

\* The lines the code may withhold: those a failed flush kept off the disk
\* when the file was read, and line 0 when the file was empty (last_seq is 0
\* before anything was sent, so line 0 never passes the check).
Excused(c) == unfiled[c] \cup IF replayed[c] = 0 THEN {0} ELSE {}

\* Up to the last line a client received it has every line, so a client never
\* sees a later event without the earlier ones.
NoHole ==
  \A c \in Clients :
    conn[c] \in {"tail", "ended"} =>
      \A n \in 0..(last[c] - 1) : n \in Seen(c) \cup Excused(c)

\* An end marker that announces Finished comes after every line of the run.
FinishedMeansComplete ==
  \A c \in Clients :
    conn[c] = "ended" /\ c \notin over =>
      \A n \in 0..(written[of[c]] - 1) : n \in Seen(c) \cup Excused(c)

\* A client that is attached while the run is drained gets the end marker, or
\* is cut for its lag, or the supervisor gives up.
AttachedStreamsEnd ==
  \A c \in Clients, r \in Runs :
    (conn[c] = "tail" /\ of[c] = r /\ phase[r] = "draining")
      ~> (conn[c] \in {"ended", "cut"} \/ phase[r] = "unannounced")

==============================================================================
