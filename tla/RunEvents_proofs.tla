-------------------------- MODULE RunEvents_proofs --------------------------
(***************************************************************************)
(* What the event stream promises, for every number of runs, events and    *)
(* subscribers and every capacity of the channel.                          *)
(***************************************************************************)
EXTENDS RunEvents, TLAPS

Lines(c) == {n \in Nat : \E i \in 1..Len(inbox[c]) :
                           inbox[c][i] = [run |-> of[c], line |-> n]}

\* A run whose line is appended and not yet broadcast still has its loop.
Appending == \A r \in ahead : phase[r] \in {"live", "draining"} /\ written[r] > 0

\* What a receiver holds of a run was broadcast, in order, Finished last.
Ordered(c) ==
  \A i, j \in 1..Len(inbox[c]) :
    i < j /\ inbox[c][i].run = inbox[c][j].run =>
      /\ inbox[c][i].line # Finished
      /\ inbox[c][j].line = Finished \/ inbox[c][i].line < inbox[c][j].line

IsSent(m) ==
  IF m.line = Finished THEN phase[m.run] = "over"
  ELSE /\ m.line \in 0..(written[m.run] - 1)
       /\ m.run \in ahead => m.line < written[m.run] - 1

Queued == \A c \in Clients :
            Ordered(c) /\ \A i \in 1..Len(inbox[c]) : IsSent(inbox[c][i])

\* The cursor is the last line sent, or 0 before there is one.
Cursor ==
  \A c \in Clients :
    /\ last[c] \in Nat
    /\ \A i \in 1..Len(got[c]) : got[c][i] <= last[c]
    /\ conn[c] \in {"tail", "ended"} =>
         last[c] \in Seen(c) \/ (last[c] = 0 /\ replayed[c] = 0)

\* A receiver the channel has overrun holds nothing.
Overrun == \A c \in lagged : inbox[c] = <<>>

\* A line of the run is sent, excused, in the receiver, or about to be there.
Reaches(c, n) ==
  \/ n \in Seen(c) \cup Excused(c) \cup Lines(c)
  \/ of[c] \in ahead /\ n = written[of[c]] - 1

Complete ==
  \A c \in Clients :
    conn[c] = "tail" /\ c \notin lagged =>
      \A n \in 0..(written[of[c]] - 1) : Reaches(c, n)

\* A run that announced its end writes no more.
Closed ==
  \A c \in Clients :
    conn[c] = "ended" /\ c \notin over => phase[of[c]] = "over"

StreamInv == /\ TypeOK /\ Appending /\ Queued /\ Overrun /\ Cursor /\ Complete /\ Closed
             /\ InOrderAndOnce /\ NoHole /\ FinishedMeansComplete

-----------------------------------------------------------------------------
\* What a channel holds after a message is sent or taken.
LEMMA AppendToChannel ==
  ASSUME NEW S, NEW q \in Seq(S), NEW e \in S
  PROVE  /\ Append(q, e) \in Seq(S) /\ Len(Append(q, e)) = Len(q) + 1
         /\ Append(q, e)[Len(q) + 1] = e
         /\ \A i \in 1..Len(q) : Append(q, e)[i] = q[i]
  OBVIOUS

LEMMA TailOfChannel ==
  ASSUME NEW S, NEW q \in Seq(S), q # <<>>
  PROVE  /\ Len(q) \in Nat \ {0}
         /\ Head(q) = q[1] /\ Head(q) \in S
         /\ Tail(q) \in Seq(S) /\ Len(Tail(q)) = Len(q) - 1
         /\ \A i \in 1..Len(Tail(q)) : i + 1 \in 1..Len(q) /\ Tail(q)[i] = q[i + 1]
  OBVIOUS

\* A message reaches whoever listens and keeps up; a receiver it overruns is
\* emptied and marked.
LEMMA SendReaches ==
  ASSUME TypeOK, NEW m \in Message, Send(m)
  PROVE  /\ lagged \subseteq lagged' /\ lagged' \subseteq Clients
         /\ inbox' \in [Clients -> Seq(Message)]
         /\ \A c \in Clients : Len(inbox'[c]) <= Capacity
         /\ \A c \in Clients :
              \/ inbox'[c] = inbox[c] /\ (Listening(c) => c \in lagged')
              \/ inbox'[c] = <<>> /\ c \in lagged'
              \/ inbox'[c] = Append(inbox[c], m) /\ c \notin lagged'
<1> DEFINE reached == {c \in Clients : Listening(c) /\ c \notin lagged}
           full    == {c \in reached : Len(inbox[c]) = Capacity}
<1>0. RunEventsAssumption
  BY RunEventsAssumption
<1>1. /\ lagged' = lagged \cup full
      /\ inbox' = [c \in Clients |-> IF c \in full THEN <<>>
                     ELSE IF c \in reached THEN Append(inbox[c], m) ELSE inbox[c]]
  BY DEF Send
<1>2. ASSUME NEW c \in Clients
      PROVE  /\ inbox'[c] \in Seq(Message) /\ Len(inbox'[c]) <= Capacity
             /\ \/ inbox'[c] = inbox[c] /\ (Listening(c) => c \in lagged')
                \/ inbox'[c] = <<>> /\ c \in lagged'
                \/ inbox'[c] = Append(inbox[c], m) /\ c \notin lagged'
  <2>0. inbox[c] \in Seq(Message) /\ Len(inbox[c]) <= Capacity /\ Len(inbox[c]) \in Nat
    BY DEF TypeOK
  <2>1. CASE c \in full
    BY <2>1, <1>0, <1>1
  <2>2. CASE c \in reached \ full
    <3>1. /\ inbox'[c] = Append(inbox[c], m) /\ Len(inbox[c]) # Capacity
          /\ c \notin lagged'
      BY <2>2, <1>1
    <3> QED BY <3>1, <2>0, <1>0, AppendToChannel
  <2>3. CASE c \notin reached
    BY <2>3, <2>0, <1>1
  <2> QED BY <2>1, <2>2, <2>3
<1>3. inbox' \in [Clients -> Seq(Message)]
  BY <1>1, <1>2
<1> QED BY <1>1, <1>2, <1>3 DEF TypeOK

\* What a receiver holds are messages.
LEMMA HeldMessages ==
  ASSUME TypeOK, NEW c \in Clients, NEW i \in 1..Len(inbox[c])
  PROVE  /\ inbox[c][i] \in Message
         /\ inbox[c][i].run \in Runs /\ inbox[c][i].line \in Int
<1>1. inbox[c] \in Seq(Message)
  BY DEF TypeOK
<1>2. inbox[c][i] \in Message
  BY <1>1
<1> QED BY <1>2 DEF Message

\* Old messages stay in order before a new one that belongs after them.
LEMMA SendOrders ==
  ASSUME StreamInv, NEW m \in Message, Send(m), IsSent(m)',
         \A x \in Message : IsSent(x) =>
           /\ IsSent(x)'
           /\ x.run = m.run => x.line # Finished /\ (m.line = Finished \/ x.line < m.line)
  PROVE  Queued'
<1> SUFFICES ASSUME NEW c \in Clients
             PROVE  Ordered(c)' /\ \A i \in 1..Len(inbox'[c]) : IsSent(inbox[c][i])'
  BY DEF Queued
<1>0. inbox[c] \in Seq(Message) /\ Ordered(c)
  BY DEF StreamInv, TypeOK, Queued
<1>a. ASSUME NEW i \in 1..Len(inbox[c])
      PROVE  inbox[c][i] \in Message /\ IsSent(inbox[c][i])
  BY HeldMessages DEF StreamInv, Queued
<1>1. CASE inbox'[c] = inbox[c]
  <2>1. ASSUME NEW i \in 1..Len(inbox'[c]) PROVE IsSent(inbox[c][i])'
    <3>1. PICK x \in Message : x = inbox[c][i] /\ IsSent(x)
      BY <1>1, <1>a
    <3>2. IsSent(x)' /\ x = inbox'[c][i]
      BY <1>1, <3>1
    <3> QED BY <3>2 DEF IsSent
  <2> QED BY <1>0, <1>1, <2>1 DEF Ordered
<1>2. CASE inbox'[c] = <<>>
  BY <1>2 DEF Ordered
<1>3. CASE inbox'[c] = Append(inbox[c], m)
  <2>1. /\ Len(inbox'[c]) = Len(inbox[c]) + 1 /\ Len(inbox[c]) \in Nat
        /\ inbox'[c][Len(inbox[c]) + 1] = m
        /\ \A i \in 1..Len(inbox[c]) : inbox'[c][i] = inbox[c][i]
    BY <1>0, <1>3, AppendToChannel
  <2>2. ASSUME NEW i \in 1..Len(inbox'[c])
        PROVE  \/ i \in 1..Len(inbox[c])
               \/ inbox'[c][i] = m /\ i = Len(inbox[c]) + 1
    BY <2>1
  <2>3. ASSUME NEW i \in 1..Len(inbox'[c]), NEW j \in 1..Len(inbox'[c]), i < j,
               inbox'[c][i].run = inbox'[c][j].run
        PROVE  /\ inbox'[c][i].line # Finished
               /\ inbox'[c][j].line = Finished \/ inbox'[c][i].line < inbox'[c][j].line
    <3>1. i \in 1..Len(inbox[c]) /\ inbox'[c][i] = inbox[c][i]
      BY <2>1, <2>3
    <3>a. IsSent(inbox[c][i]) /\ inbox[c][i] \in Message
      BY <1>a, <3>1
    <3>2. CASE j \in 1..Len(inbox[c])
      <4>1. inbox'[c][j] = inbox[c][j]
        BY <2>1, <3>2
      <4> QED BY <1>0, <2>3, <3>1, <3>2, <4>1 DEF Ordered
    <3>3. CASE inbox'[c][j] = m
      BY <2>3, <3>1, <3>3, <3>a
    <3> QED BY <2>2, <3>2, <3>3
  <2>4. ASSUME NEW i \in 1..Len(inbox'[c]) PROVE IsSent(inbox[c][i])'
    <3>1. PICK x \in Message : x = inbox'[c][i] /\ IsSent(x)'
      BY <1>a, <2>1, <2>2
    <3> QED BY <3>1 DEF IsSent
  <2> QED BY <2>3, <2>4 DEF Ordered
<1> QED BY <1>1, <1>2, <1>3, SendReaches DEF StreamInv

-----------------------------------------------------------------------------
LEMMA StreamInit == Init => StreamInv
<1> SUFFICES ASSUME Init PROVE StreamInv
  OBVIOUS
<1>1. TypeOK
  BY RunEventsAssumption DEF Init, TypeOK, Phase, Conn
<1>2. Overrun /\ Appending /\ Closed /\ NoHole /\ FinishedMeansComplete /\ Complete
  BY DEF Init, Overrun, Appending, Closed, NoHole, FinishedMeansComplete, Complete
<1>3. Queued /\ Cursor /\ InOrderAndOnce
  BY DEF Init, Queued, Ordered, Cursor, InOrderAndOnce
<1> QED BY <1>1, <1>2, <1>3 DEF StreamInv

\* A supervisor moves and neither writes a line nor broadcasts.
LEMMA QuietSupervisor ==
  ASSUME StreamInv, TypeOK', UNCHANGED <<written, ahead, clientVars, busVars>>,
         \A r \in Runs : (phase[r] = "over" \/ r \in ahead) => phase'[r] = phase[r]
  PROVE  StreamInv'
<1> USE DEF clientVars, busVars
<1>1. Appending'
  BY DEF StreamInv, Appending, TypeOK
<1>2. Queued'
  <2> SUFFICES ASSUME NEW c \in Clients
               PROVE  Ordered(c)' /\ \A i \in 1..Len(inbox'[c]) : IsSent(inbox[c][i])'
    BY DEF Queued
  <2>1. inbox[c] \in Seq(Message) /\ Ordered(c)
        /\ \A i \in 1..Len(inbox[c]) : IsSent(inbox[c][i])
    BY DEF StreamInv, TypeOK, Queued
  <2>3. \A i \in 1..Len(inbox[c]) : inbox[c][i].run \in Runs
    BY HeldMessages DEF StreamInv
  <2> QED BY <2>1, <2>3 DEF Ordered, IsSent
<1>3. Cursor' /\ Overrun'
  BY DEF StreamInv, Cursor, Overrun, Seen
<1>4. Complete'
  BY DEF StreamInv, Complete, Reaches, Lines, Seen, Excused
<1>5. Closed'
  BY DEF StreamInv, Closed, TypeOK
<1>6. InOrderAndOnce' /\ NoHole' /\ FinishedMeansComplete'
  BY DEF StreamInv, InOrderAndOnce, NoHole, FinishedMeansComplete, Seen, Excused
<1> QED BY <1>1, <1>2, <1>3, <1>4, <1>5, <1>6 DEF StreamInv

LEMMA SupervisorIsQuiet ==
  ASSUME StreamInv, NEW r \in Runs,
         \/ Launch(r) \/ OpenTranscript(r) \/ GiveUp(r) \/ WriteSnapshot(r)
         \/ DriverEnds(r) \/ Flush(r) \/ Finalize(r)
  PROVE  StreamInv'
<1>0. TypeOK /\ Appending
  BY DEF StreamInv
<1>1. CASE Launch(r)
  <2>1. TypeOK'
    BY <1>0, <1>1 DEF Launch, MoveTo, TypeOK, Phase, clientVars, busVars
  <2> QED BY <2>1, <1>0, <1>1, QuietSupervisor DEF Launch, MoveTo, Appending, TypeOK
<1>2. CASE OpenTranscript(r)
  <2>1. TypeOK'
    BY <1>0, <1>2 DEF OpenTranscript, MoveTo, TypeOK, Phase, clientVars, busVars
  <2> QED BY <2>1, <1>0, <1>2, QuietSupervisor DEF OpenTranscript, MoveTo, Appending, TypeOK
<1>3. CASE GiveUp(r)
  <2>1. TypeOK'
    BY <1>0, <1>3 DEF GiveUp, MoveTo, TypeOK, Phase, clientVars, busVars
  <2> QED BY <2>1, <1>0, <1>3, QuietSupervisor DEF GiveUp, MoveTo, Appending, TypeOK
<1>4. CASE WriteSnapshot(r)
  <2>0. PICK s \in snapshots[r] : row' = [row EXCEPT ![r] = s]
    BY <1>4 DEF WriteSnapshot
  <2>1. row' \in [Runs -> {"none", "active", "terminal"}]
    BY <1>0, <2>0 DEF TypeOK
  <2>2. snapshots' \in [Runs -> SUBSET {"active", "terminal"}]
    BY <1>0, <1>4 DEF WriteSnapshot, TypeOK
  <2>3. TypeOK'
    BY <1>0, <1>4, <2>1, <2>2 DEF WriteSnapshot, TypeOK, clientVars, busVars
  <2> QED BY <2>3, <1>0, <1>4, QuietSupervisor DEF WriteSnapshot, Appending, TypeOK
<1>5. CASE DriverEnds(r)
  <2>1. TypeOK'
    BY <1>0, <1>5 DEF DriverEnds, MoveTo, TypeOK, Phase, clientVars, busVars
  <2> QED BY <2>1, <1>0, <1>5, QuietSupervisor DEF DriverEnds, MoveTo, Appending, TypeOK
<1>6. CASE Flush(r)
  <2>1. TypeOK'
    BY <1>0, <1>6 DEF Flush, MoveTo, TypeOK, Phase, clientVars, busVars
  <2> QED BY <2>1, <1>0, <1>6, QuietSupervisor DEF Flush, MoveTo, Appending, TypeOK
<1>7. CASE Finalize(r)
  <2>1. TypeOK'
    BY <1>0, <1>7 DEF Finalize, MoveTo, TypeOK, Phase, clientVars, busVars
  <2> QED BY <2>1, <1>0, <1>7, QuietSupervisor DEF Finalize, MoveTo, Appending, TypeOK
<1> QED BY <1>1, <1>2, <1>3, <1>4, <1>5, <1>6, <1>7

-----------------------------------------------------------------------------
\* A line is appended: no receiver knows of it yet, every listener will.
LEMMA EmitKeeps ==
  ASSUME StreamInv, NEW r \in Runs, Emit(r)
  PROVE  StreamInv'
<1> USE DEF clientVars, busVars
<1>0. /\ TypeOK /\ r \notin ahead /\ phase[r] \in {"live", "draining"}
      /\ written' = [written EXCEPT ![r] = @ + 1] /\ written[r] \in Nat
      /\ ahead' = ahead \cup {r} /\ phase' = phase
      /\ UNCHANGED <<clientVars, busVars, row>>
  BY DEF StreamInv, Emit, AppendEvent, Emits, TypeOK
<1>1. TypeOK'
  <2>0. \/ filed' = filed
        \/ filed' = [filed EXCEPT ![r] = written[r] + 1]
    BY DEF Emit, AppendEvent
  <2>a. filed \in [Runs -> Nat] /\ written \in [Runs -> Nat]
        /\ \A x \in Runs : filed[x] <= written[x]
    BY <1>0 DEF TypeOK
  <2>b. filed' \in [Runs -> Nat]
    BY <1>0, <2>0, <2>a
  <2>c. ASSUME NEW x \in Runs PROVE filed'[x] <= written'[x]
    <3>1. filed[x] \in Nat /\ written[x] \in Nat /\ filed[x] <= written[x]
      BY <2>a
    <3>2. CASE x = r
      BY <1>0, <2>0, <2>a, <3>1, <3>2
    <3>3. CASE x # r
      BY <1>0, <2>0, <2>a, <3>1, <3>3
    <3> QED BY <3>2, <3>3
  <2>1. filed' \in [Runs -> Nat] /\ \A x \in Runs : filed'[x] <= written'[x]
    BY <2>b, <2>c
  <2>2. snapshots' \in [Runs -> SUBSET {"active", "terminal"}]
    <3>1. Snapshot(r) \in {"active", "terminal"}
      BY DEF Snapshot
    <3>2. \/ snapshots' = snapshots
          \/ snapshots' = [snapshots EXCEPT ![r] = @ \cup {Snapshot(r)}]
      BY DEF Emit
    <3>3. snapshots \in [Runs -> SUBSET {"active", "terminal"}]
      BY <1>0 DEF TypeOK
    <3>4. snapshots[r] \cup {Snapshot(r)} \in SUBSET {"active", "terminal"}
      BY <3>1, <3>3
    <3> QED BY <3>2, <3>3, <3>4
  <2>3. written' \in [Runs -> Nat] /\ ahead' \subseteq Runs
    BY <1>0 DEF TypeOK
  <2> QED BY <1>0, <2>1, <2>2, <2>3 DEF TypeOK
<1>2. Appending'
  BY <1>0 DEF StreamInv, Appending, TypeOK
<1>3. Queued'
  <2> SUFFICES ASSUME NEW c \in Clients, NEW i \in 1..Len(inbox[c])
               PROVE  IsSent(inbox[c][i])'
    BY <1>0 DEF StreamInv, Queued, Ordered
  <2>1. IsSent(inbox[c][i]) /\ inbox[c][i].run \in Runs /\ inbox[c][i].line \in Int
    BY <1>0, HeldMessages DEF StreamInv, Queued
  <2> QED BY <1>0, <2>1 DEF IsSent, TypeOK
<1>4. Cursor' /\ Overrun'
  BY <1>0 DEF StreamInv, Cursor, Overrun, Seen
<1>5. Complete'
  <2> SUFFICES ASSUME NEW c \in Clients, conn[c] = "tail", c \notin lagged,
                      NEW n \in 0..(written'[of[c]] - 1)
               PROVE  Reaches(c, n)'
    BY <1>0 DEF Complete
  <2>1. of[c] \in Runs /\ written[of[c]] \in Nat
    BY <1>0 DEF TypeOK
  <2>2. CASE n \in 0..(written[of[c]] - 1)
    <3>1. Reaches(c, n)
      BY <2>2 DEF StreamInv, Complete
    <3> QED BY <1>0, <2>1, <3>1 DEF Reaches, Lines, Seen, Excused, TypeOK
  <2>3. CASE n \notin 0..(written[of[c]] - 1)
    <3>1. of[c] = r /\ n = written'[r] - 1
      BY <1>0, <2>1, <2>3 DEF TypeOK
    <3> QED BY <1>0, <3>1 DEF Reaches
  <2> QED BY <2>2, <2>3
<1>6. Closed'
  BY <1>0 DEF StreamInv, Closed
<1>7. InOrderAndOnce' /\ NoHole'
  BY <1>0 DEF StreamInv, InOrderAndOnce, NoHole, Seen, Excused
<1>8. FinishedMeansComplete'
  <2> SUFFICES ASSUME NEW c \in Clients, conn[c] = "ended", c \notin over,
                      NEW n \in 0..(written'[of[c]] - 1)
               PROVE  n \in Seen(c) \cup Excused(c)
    BY <1>0 DEF FinishedMeansComplete, Seen, Excused
  <2>1. of[c] # r /\ of[c] \in Runs
    BY <1>0 DEF StreamInv, Closed, TypeOK
  <2>2. written'[of[c]] = written[of[c]]
    BY <1>0, <2>1 DEF TypeOK
  <2> QED BY <2>2 DEF StreamInv, FinishedMeansComplete
<1> QED BY <1>1, <1>2, <1>3, <1>4, <1>5, <1>6, <1>7, <1>8 DEF StreamInv

-----------------------------------------------------------------------------
\* A supervisor broadcasts: listeners that keep up have the message.
LEMMA SpeakKeeps ==
  ASSUME StreamInv, NEW m \in Message, Send(m),
         UNCHANGED <<row, written, filed, snapshots, clientVars>>,
         phase' \in [Runs -> Phase], ahead' \subseteq ahead, Appending',
         \A x \in Runs : phase[x] = "over" => phase'[x] = "over",
         \A x \in ahead \ ahead' : m = [run |-> x, line |-> written[x] - 1],
         IsSent(m)',
         \A x \in Message : IsSent(x) =>
           /\ IsSent(x)'
           /\ x.run = m.run => x.line # Finished /\ (m.line = Finished \/ x.line < m.line)
  PROVE  StreamInv'
<1> USE DEF clientVars
<1>0. TypeOK
  BY DEF StreamInv
<1>1. TypeOK'
  BY <1>0, SendReaches DEF TypeOK
<1>2. Queued'
  BY SendOrders
<1>3. Overrun'
  <2> SUFFICES ASSUME NEW c \in lagged' PROVE inbox'[c] = <<>>
    BY DEF Overrun
  <2>1. CASE inbox'[c] = inbox[c] /\ c \in lagged
    BY <2>1 DEF StreamInv, Overrun
  <2>2. CASE inbox'[c] = inbox[c] /\ c \notin lagged
    BY <2>2, <1>0 DEF Send
  <2> QED BY <1>0, <2>1, <2>2, SendReaches
<1>4. Complete'
  <2> SUFFICES ASSUME NEW c \in Clients, conn[c] = "tail", c \notin lagged',
                      NEW n \in 0..(written[of[c]] - 1)
               PROVE  Reaches(c, n)'
    BY DEF Complete
  <2>1. c \notin lagged /\ Listening(c) /\ of[c] \in Runs /\ inbox[c] \in Seq(Message)
    BY <1>0, SendReaches DEF Listening, TypeOK
  <2>2. inbox'[c] = Append(inbox[c], m)
    BY <1>0, <2>1, SendReaches
  <2>3. /\ Len(inbox[c]) \in Nat /\ Len(inbox'[c]) = Len(inbox[c]) + 1
        /\ inbox'[c][Len(inbox[c]) + 1] = m
        /\ \A i \in 1..Len(inbox[c]) : inbox'[c][i] = inbox[c][i]
    BY <2>1, <2>2, AppendToChannel
  <2>4. Reaches(c, n)
    BY <2>1 DEF StreamInv, Complete
  <2>5. CASE n \in Seen(c) \cup Excused(c)
    BY <2>5 DEF Reaches, Seen, Excused
  <2>6. CASE n \in Lines(c)
    <3>1. PICK i \in 1..Len(inbox[c]) : inbox[c][i] = [run |-> of[c], line |-> n]
      BY <2>6 DEF Lines
    <3>2. i \in 1..Len(inbox'[c]) /\ inbox'[c][i] = [run |-> of[c], line |-> n]
      BY <2>3, <3>1
    <3> QED BY <3>2 DEF Reaches, Lines
  <2>7. CASE of[c] \in ahead /\ n = written[of[c]] - 1
    <3>1. CASE of[c] \in ahead'
      BY <2>7, <3>1 DEF Reaches
    <3>2. CASE of[c] \notin ahead'
      <4>1. m = [run |-> of[c], line |-> n]
        BY <2>7, <3>2
      <4>2. Len(inbox[c]) + 1 \in 1..Len(inbox'[c])
        BY <2>3
      <4> QED BY <2>3, <4>1, <4>2 DEF Reaches, Lines
    <3> QED BY <3>1, <3>2
  <2> QED BY <2>4, <2>5, <2>6, <2>7 DEF Reaches
<1>5. /\ Cursor' /\ InOrderAndOnce'
      /\ NoHole' /\ FinishedMeansComplete'
  <2>1. Cursor' /\ InOrderAndOnce'
    BY DEF StreamInv, Cursor, InOrderAndOnce, Seen
  <2>2. NoHole' /\ FinishedMeansComplete'
    BY DEF StreamInv, NoHole, FinishedMeansComplete, Seen, Excused
  <2> QED BY <2>1, <2>2
<1>6. Closed'
  BY <1>0 DEF StreamInv, Closed, TypeOK
<1> QED BY <1>1, <1>2, <1>3, <1>4, <1>5, <1>6 DEF StreamInv

LEMMA BroadcastKeeps ==
  ASSUME StreamInv, NEW r \in Runs, Broadcast(r)
  PROVE  StreamInv'
<1>0. /\ TypeOK /\ r \in ahead /\ phase[r] \in {"live", "draining"}
      /\ written[r] \in Nat \ {0} /\ ahead' = ahead \ {r}
      /\ Send([run |-> r, line |-> written[r] - 1])
      /\ UNCHANGED <<phase, row, written, filed, snapshots, clientVars>>
  BY DEF StreamInv, Appending, Broadcast, TypeOK
<1>1. PICK m \in Message : m = [run |-> r, line |-> written[r] - 1]
  BY <1>0 DEF Message
<1>2. Send(m) /\ m.run = r /\ m.line = written[r] - 1 /\ m.line # Finished
  BY <1>0, <1>1 DEF Finished
<1>3. phase' \in [Runs -> Phase] /\ Appending'
  BY <1>0 DEF StreamInv, Appending, TypeOK
<1>4. IsSent(m)'
  BY <1>0, <1>2 DEF IsSent
<1>5. ASSUME NEW x \in Message, IsSent(x)
      PROVE  /\ IsSent(x)'
             /\ x.run = m.run => x.line # Finished /\ (m.line = Finished \/ x.line < m.line)
  <2>1. x.run \in Runs /\ x.line \in Int
    BY DEF Message
  <2>2. IsSent(x)'
    BY <1>0, <1>5, <2>1 DEF IsSent
  <2>3. ASSUME x.run = r PROVE x.line # Finished /\ x.line < written[r] - 1
    BY <1>0, <1>5, <2>1, <2>3 DEF IsSent
  <2> QED BY <1>2, <2>2, <2>3
<1>6. \A x \in ahead \ ahead' : m = [run |-> x, line |-> written[x] - 1]
  BY <1>0, <1>1
<1> QED BY <1>0, <1>2, <1>3, <1>4, <1>5, <1>6, SpeakKeeps

LEMMA AnnounceKeeps ==
  ASSUME StreamInv, NEW r \in Runs, Announce(r)
  PROVE  StreamInv'
<1>0. /\ TypeOK /\ phase[r] = "announcing" /\ phase' = [phase EXCEPT ![r] = "over"]
      /\ Send([run |-> r, line |-> Finished]) /\ ahead' = ahead
      /\ UNCHANGED <<row, written, filed, snapshots, clientVars>>
  BY DEF StreamInv, Announce, MoveTo
<1>a. [run |-> r, line |-> Finished] \in Message
  BY DEF Message, Finished
<1>1. PICK m \in Message : m = [run |-> r, line |-> Finished]
  BY <1>a
<1>2. Send(m) /\ m.run = r /\ m.line = Finished
  BY <1>0, <1>1
<1>3. phase' \in [Runs -> Phase] /\ Appending'
  BY <1>0 DEF StreamInv, Appending, TypeOK, Phase
<1>4. IsSent(m)'
  BY <1>0, <1>2 DEF IsSent, TypeOK
<1>5. ASSUME NEW x \in Message, IsSent(x)
      PROVE  /\ IsSent(x)'
             /\ x.run = m.run => x.line # Finished /\ (m.line = Finished \/ x.line < m.line)
  <2>1. x.run \in Runs /\ x.line \in Int
    BY DEF Message
  <2>2. IsSent(x)'
    BY <1>0, <1>5, <2>1 DEF IsSent, TypeOK
  <2>3. ASSUME x.run = r PROVE x.line # Finished
    BY <1>0, <1>5, <2>3 DEF IsSent
  <2> QED BY <1>2, <2>2, <2>3
<1>6. \A x \in Runs : phase[x] = "over" => phase'[x] = "over"
  BY <1>0 DEF TypeOK
<1> QED BY <1>0, <1>2, <1>3, <1>4, <1>5, <1>6, SpeakKeeps

-----------------------------------------------------------------------------
\* The daemon dies: no receiver survives, ended streams had what was filed.
LEMMA CrashKeeps ==
  ASSUME StreamInv, CrashAndBoot
  PROVE  StreamInv'
<1>0. /\ TypeOK /\ written' = filed /\ ahead' = {} /\ lagged' = {}
      /\ inbox' = [c \in Clients |-> <<>>]
      /\ UNCHANGED <<filed, of, over, last, got, replayed, unfiled>>
  BY DEF StreamInv, CrashAndBoot
<1>1. ASSUME NEW c \in Clients
      PROVE  /\ conn'[c] # "tail" /\ conn'[c] # "subscribed"
             /\ conn'[c] = "ended" => conn[c] = "ended"
             /\ conn'[c] # "idle" => conn[c] # "idle"
  BY DEF CrashAndBoot
<1>2. TypeOK'
  <2>1. phase' \in [Runs -> Phase]
    BY <1>0 DEF CrashAndBoot, TypeOK, Phase
  <2>2. row' \in [Runs -> {"none", "active", "terminal"}]
    BY <1>0 DEF CrashAndBoot, TypeOK
  <2>3. conn' \in [Clients -> Conn]
    BY <1>0 DEF CrashAndBoot, TypeOK, Conn
  <2>4. snapshots' \in [Runs -> SUBSET {"active", "terminal"}]
    BY <1>0 DEF CrashAndBoot
  <2>5. inbox' \in [Clients -> Seq(Message)] /\ \A c \in Clients : Len(inbox'[c]) <= Capacity
    BY <1>0, RunEventsAssumption DEF RunEventsAssumption
  <2>6. \A x \in Runs : filed'[x] <= written'[x]
    BY <1>0 DEF TypeOK
  <2> QED BY <1>0, <1>1, <2>1, <2>2, <2>3, <2>4, <2>5, <2>6 DEF TypeOK
<1>3. Appending' /\ Overrun' /\ Complete'
  BY <1>0, <1>1 DEF Appending, Overrun, Complete
<1>4. Queued'
  <2>1. \A c \in Clients : Len(inbox'[c]) = 0
    BY <1>0
  <2> QED BY <2>1 DEF Queued, Ordered
<1>5. Cursor' /\ InOrderAndOnce' /\ NoHole'
  BY <1>0, <1>1 DEF StreamInv, Cursor, InOrderAndOnce, NoHole, Seen, Excused
<1>6. Closed'
  <2>1. \A x \in Runs : phase[x] = "over" => phase'[x] = "over"
    BY DEF CrashAndBoot
  <2> QED BY <1>0, <1>1, <2>1 DEF StreamInv, Closed, TypeOK
<1>7. FinishedMeansComplete'
  <2> SUFFICES ASSUME NEW c \in Clients, conn'[c] = "ended", c \notin over,
                      NEW n \in 0..(filed[of[c]] - 1)
               PROVE  n \in Seen(c) \cup Excused(c)
    BY <1>0 DEF FinishedMeansComplete, Seen, Excused
  <2>1. /\ conn[c] = "ended" /\ of[c] \in Runs
        /\ filed[of[c]] \in Nat /\ written[of[c]] \in Nat /\ filed[of[c]] <= written[of[c]]
    BY <1>0, <1>1 DEF TypeOK
  <2>2. n \in 0..(written[of[c]] - 1)
    BY <2>1
  <2> QED BY <2>1, <2>2 DEF StreamInv, FinishedMeansComplete
<1> QED BY <1>2, <1>3, <1>4, <1>5, <1>6, <1>7 DEF StreamInv

-----------------------------------------------------------------------------
\* The handler reads the row of its run and subscribes.
LEMMA OpeningKeeps ==
  ASSUME StreamInv, NEW c \in Clients, Subscribe(c) \/ \E r \in Runs : ReadRow(c, r)
  PROVE  StreamInv'
<1> USE DEF runVars, busVars
<1>0. /\ TypeOK /\ UNCHANGED <<runVars, busVars, last, got, replayed, unfiled>>
      /\ \A x \in Clients \ {c} : conn'[x] = conn[x] /\ of'[x] = of[x]
      /\ \A x \in Clients \ {c} : x \in over' <=> x \in over
      /\ conn'[c] \in {"opened", "subscribed"}
  BY DEF StreamInv, TypeOK, Subscribe, ReadRow
<1>1. TypeOK'
  <2>1. CASE Subscribe(c)
    BY <1>0, <2>1 DEF Subscribe, TypeOK, Conn
  <2>2. CASE \E r \in Runs : ReadRow(c, r)
    BY <1>0, <2>2 DEF ReadRow, TypeOK, Conn
  <2> QED BY <2>1, <2>2
<1>2. Appending' /\ Overrun' /\ InOrderAndOnce'
  BY <1>0 DEF StreamInv, Appending, Overrun, InOrderAndOnce
<1>3. Queued'
  BY <1>0 DEF StreamInv, Queued, Ordered, IsSent
<1>4. Cursor'
  BY <1>0 DEF StreamInv, Cursor, Seen
<1>5. Complete'
  <2> SUFFICES ASSUME NEW x \in Clients, conn'[x] = "tail", x \notin lagged,
                      NEW n \in 0..(written[of'[x]] - 1)
               PROVE  Reaches(x, n)'
    BY <1>0 DEF Complete
  <2>1. of'[x] = of[x] /\ conn[x] = "tail"
    BY <1>0
  <2>2. Reaches(x, n)
    BY <2>1 DEF StreamInv, Complete
  <2> QED BY <1>0, <2>1, <2>2 DEF Reaches, Lines, Seen, Excused
<1>6. NoHole' /\ FinishedMeansComplete' /\ Closed'
  <2>1. NoHole'
    BY <1>0 DEF StreamInv, NoHole, Seen, Excused
  <2>2. ASSUME NEW x \in Clients, conn'[x] = "ended", x \notin over'
        PROVE  conn[x] = "ended" /\ x \notin over /\ of'[x] = of[x]
    BY <1>0, <2>2
  <2>3. FinishedMeansComplete'
    BY <1>0, <2>2 DEF StreamInv, FinishedMeansComplete, Seen, Excused
  <2>4. Closed'
    BY <1>0, <2>2 DEF StreamInv, Closed
  <2> QED BY <2>1, <2>3, <2>4
<1> QED BY <1>1, <1>2, <1>3, <1>4, <1>5, <1>6 DEF StreamInv

\* The replay sends what is filed; what is written and not filed is excused.
LEMMA ReplayKeeps ==
  ASSUME StreamInv, NEW c \in Clients, Replay(c)
  PROVE  StreamInv'
<1> USE DEF runVars
<1> DEFINE n == filed[of[c]]
<1>0. /\ TypeOK /\ conn[c] = "subscribed" /\ of[c] \in Runs
      /\ n \in Nat /\ written[of[c]] \in Nat
  BY DEF StreamInv, TypeOK, Replay
<1>1. /\ got' = [got EXCEPT ![c] = [i \in 1..n |-> i - 1]]
      /\ last' = [last EXCEPT ![c] = IF n = 0 THEN 0 ELSE n - 1]
      /\ replayed' = [replayed EXCEPT ![c] = n]
      /\ unfiled' = [unfiled EXCEPT ![c] = n .. (written[of[c]] - 1)]
      /\ conn' = [conn EXCEPT ![c] = IF c \in over THEN "ended" ELSE "tail"]
      /\ UNCHANGED <<runVars, of, over>>
  BY DEF Replay, ReplayTo
<1>2. /\ inbox' = inbox \/ inbox' = [inbox EXCEPT ![c] = <<>>]
      /\ lagged' \subseteq lagged
      /\ \A x \in Clients \ {c} : x \in lagged' <=> x \in lagged
      /\ inbox'[c] = <<>> \/ inbox' = inbox
  BY <1>0 DEF Replay, TypeOK
<1>3. ASSUME NEW x \in Clients, x # c
      PROVE  /\ got'[x] = got[x] /\ last'[x] = last[x] /\ replayed'[x] = replayed[x]
             /\ unfiled'[x] = unfiled[x] /\ conn'[x] = conn[x] /\ inbox'[x] = inbox[x]
             /\ Seen(x)' = Seen(x) /\ Excused(x)' = Excused(x) /\ Lines(x)' = Lines(x)
  <2>1. /\ got'[x] = got[x] /\ last'[x] = last[x] /\ replayed'[x] = replayed[x]
        /\ unfiled'[x] = unfiled[x] /\ conn'[x] = conn[x] /\ inbox'[x] = inbox[x]
    BY <1>0, <1>1, <1>2, <1>3 DEF TypeOK
  <2> QED BY <1>1, <2>1 DEF Seen, Excused, Lines
<1>4. /\ got'[c] = [i \in 1..n |-> i - 1] /\ Len(got'[c]) = n
      /\ last'[c] = (IF n = 0 THEN 0 ELSE n - 1) /\ replayed'[c] = n
      /\ unfiled'[c] = n .. (written[of[c]] - 1)
      /\ conn'[c] = IF c \in over THEN "ended" ELSE "tail"
  BY <1>0, <1>1 DEF TypeOK
<1>5. \A k \in Nat : k < n => k \in Seen(c)'
  <2> SUFFICES ASSUME NEW k \in Nat, k < n PROVE k \in Seen(c)'
    OBVIOUS
  <2>1. k + 1 \in 1..Len(got'[c]) /\ got'[c][k + 1] = k
    BY <1>0, <1>4
  <2> QED BY <2>1 DEF Seen
<1> HIDE DEF n
<1>6. TypeOK'
  <2>1. got' \in [Clients -> Seq(Nat)]
    <3>1. [i \in 1..n |-> i - 1] \in Seq(Nat)
      BY <1>0
    <3> QED BY <1>0, <1>1, <3>1 DEF TypeOK
  <2>2. last' \in [Clients -> Int] /\ replayed' \in [Clients -> Nat]
    BY <1>0, <1>1 DEF TypeOK
  <2>3. unfiled' \in [Clients -> SUBSET Nat]
    <3>1. n .. (written[of[c]] - 1) \in SUBSET Nat
      BY <1>0
    <3> QED BY <1>0, <1>1, <3>1 DEF TypeOK
  <2>4. /\ conn' \in [Clients -> Conn]
        /\ \A x \in Clients : conn'[x] # "idle" => of[x] \in Runs
    BY <1>0, <1>1 DEF TypeOK, Conn
  <2>a. <<>> \in Seq(Message)
    OBVIOUS
  <2>b. inbox \in [Clients -> Seq(Message)] /\ lagged \subseteq Clients
    BY <1>0 DEF TypeOK
  <2>5. inbox' \in [Clients -> Seq(Message)] /\ lagged' \subseteq Clients
    BY <1>2, <2>a, <2>b
  <2>6. \A x \in Clients : Len(inbox'[x]) <= Capacity
    <3>1. Len(<<>>) <= Capacity
      BY RunEventsAssumption DEF RunEventsAssumption
    <3> QED BY <1>0, <1>2, <3>1 DEF TypeOK
  <2> QED BY <1>0, <1>1, <2>1, <2>2, <2>3, <2>4, <2>5, <2>6 DEF TypeOK
<1>7. Appending' /\ Overrun'
  <2>1. Appending'
    BY <1>1 DEF StreamInv, Appending
  <2>2. Overrun'
    BY <1>0, <1>2, <1>3 DEF StreamInv, Overrun, TypeOK
  <2> QED BY <2>1, <2>2
<1>8. Queued'
  <2>1. ASSUME NEW x \in Clients, inbox'[x] = inbox[x]
        PROVE  Ordered(x)' /\ \A i \in 1..Len(inbox'[x]) : IsSent(inbox[x][i])'
    BY <1>1, <2>1 DEF StreamInv, Queued, Ordered, IsSent
  <2>2. ASSUME NEW x \in Clients, inbox'[x] = <<>>
        PROVE  Ordered(x)' /\ \A i \in 1..Len(inbox'[x]) : IsSent(inbox[x][i])'
    BY <2>2 DEF Ordered
  <2> QED BY <1>2, <1>3, <2>1, <2>2 DEF Queued
<1>9. Cursor'
  <2> SUFFICES ASSUME NEW x \in Clients
               PROVE  /\ last'[x] \in Nat
                      /\ \A i \in 1..Len(got'[x]) : got'[x][i] <= last'[x]
                      /\ conn'[x] \in {"tail", "ended"} =>
                           last'[x] \in Seen(x)' \/ (last'[x] = 0 /\ replayed'[x] = 0)
    BY DEF Cursor
  <2>1. CASE x # c
    BY <1>3, <2>1 DEF StreamInv, Cursor
  <2>2. CASE x = c
    BY <1>0, <1>4, <1>5, <2>2
  <2> QED BY <2>1, <2>2
<1>10. Complete'
  <2> SUFFICES ASSUME NEW x \in Clients, conn'[x] = "tail", x \notin lagged',
                      NEW k \in 0..(written[of[x]] - 1)
               PROVE  Reaches(x, k)'
    BY <1>1 DEF Complete
  <2>1. CASE x # c
    BY <1>1, <1>2, <1>3, <2>1 DEF StreamInv, Complete, Reaches
  <2>2. CASE x = c
    <3>1. CASE k < n
      BY <1>5, <2>2, <3>1 DEF Reaches
    <3>2. CASE ~ (k < n)
      BY <1>0, <1>4, <2>2, <3>2 DEF Reaches, Excused
    <3> QED BY <3>1, <3>2
  <2> QED BY <2>1, <2>2
<1>11. Closed' /\ FinishedMeansComplete'
  <2>1. Closed'
    BY <1>1, <1>3, <1>4 DEF StreamInv, Closed
  <2>2. FinishedMeansComplete'
    BY <1>1, <1>3, <1>4 DEF StreamInv, FinishedMeansComplete
  <2> QED BY <2>1, <2>2
<1>12. InOrderAndOnce'
  <2> SUFFICES ASSUME NEW x \in Clients, NEW i \in 1..Len(got'[x]), NEW j \in 1..Len(got'[x]),
                      i < j
               PROVE  got'[x][i] < got'[x][j]
    BY DEF InOrderAndOnce
  <2>1. CASE x # c
    BY <1>3, <2>1 DEF StreamInv, InOrderAndOnce
  <2>2. CASE x = c
    BY <1>0, <1>4, <2>2
  <2> QED BY <2>1, <2>2
<1>13. NoHole'
  <2> SUFFICES ASSUME NEW x \in Clients, conn'[x] \in {"tail", "ended"},
                      NEW k \in 0..(last'[x] - 1)
               PROVE  k \in Seen(x)' \cup Excused(x)'
    BY DEF NoHole
  <2>1. CASE x # c
    BY <1>3, <2>1 DEF StreamInv, NoHole
  <2>2. CASE x = c
    BY <1>0, <1>4, <1>5, <2>2
  <2> QED BY <2>1, <2>2
<1> QED BY <1>6, <1>7, <1>8, <1>9, <1>10, <1>11, <1>12, <1>13 DEF StreamInv

-----------------------------------------------------------------------------
\* The head of the channel, taken: what stays is what followed it, in order,
\* and nothing that stays of the same run is below the head.
LEMMA Taken ==
  ASSUME TypeOK, NEW c \in Clients, inbox[c] # <<>>, Ordered(c)
  PROVE  /\ Head(inbox[c]) = inbox[c][1] /\ 1 \in 1..Len(inbox[c])
         /\ Tail(inbox[c]) \in Seq(Message) /\ Len(Tail(inbox[c])) = Len(inbox[c]) - 1
         /\ Len(inbox[c]) \in Nat
         /\ \A i \in 1..Len(Tail(inbox[c])) :
              i + 1 \in 1..Len(inbox[c]) /\ Tail(inbox[c])[i] = inbox[c][i + 1]
         /\ \A i \in 1..Len(inbox[c]) :
              \/ i = 1
              \/ i - 1 \in 1..Len(Tail(inbox[c])) /\ Tail(inbox[c])[i - 1] = inbox[c][i]
         /\ \A i \in 1..Len(inbox[c]) :
              i # 1 /\ inbox[c][i].run = inbox[c][1].run =>
                /\ inbox[c][1].line # Finished
                /\ inbox[c][i].line = Finished \/ inbox[c][1].line < inbox[c][i].line
<1>1. inbox[c] \in Seq(Message)
  BY DEF TypeOK
<1>2. /\ Len(inbox[c]) \in Nat \ {0} /\ Head(inbox[c]) = inbox[c][1]
      /\ Tail(inbox[c]) \in Seq(Message) /\ Len(Tail(inbox[c])) = Len(inbox[c]) - 1
      /\ \A i \in 1..Len(Tail(inbox[c])) :
           i + 1 \in 1..Len(inbox[c]) /\ Tail(inbox[c])[i] = inbox[c][i + 1]
  BY <1>1, TailOfChannel
<1>3. ASSUME NEW i \in 1..Len(inbox[c]), i # 1
      PROVE  i - 1 \in 1..Len(Tail(inbox[c])) /\ Tail(inbox[c])[i - 1] = inbox[c][i]
  <2>1. i - 1 \in 1..Len(Tail(inbox[c])) /\ (i - 1) + 1 = i
    BY <1>2, <1>3
  <2> QED BY <1>2, <2>1
<1>4. ASSUME NEW i \in 1..Len(inbox[c]), i # 1, inbox[c][i].run = inbox[c][1].run
      PROVE  /\ inbox[c][1].line # Finished
             /\ inbox[c][i].line = Finished \/ inbox[c][1].line < inbox[c][i].line
  <2>1. 1 \in 1..Len(inbox[c]) /\ 1 < i
    BY <1>2, <1>4
  <2> QED BY <1>4, <2>1 DEF Ordered
<1> QED BY <1>2, <1>3, <1>4

\* A line below what the handler has just met is sent or excused: it is not
\* in the channel behind it.
LEMMA NothingBehind ==
  ASSUME StreamInv, NEW c \in Clients, conn[c] = "tail", inbox[c] # <<>>,
         inbox[c][1].run = of[c]
  PROVE  /\ inbox[c][1].line \in Nat => inbox[c][1].line \in 0..(written[of[c]] - 1)
         /\ \A k \in 0..(written[of[c]] - 1) :
              inbox[c][1].line = Finished \/ k < inbox[c][1].line
                => k \in Seen(c) \cup Excused(c)
<1>0. /\ TypeOK /\ Ordered(c) /\ c \notin lagged /\ of[c] \in Runs
      /\ written[of[c]] \in Nat
  BY DEF StreamInv, Queued, Overrun, TypeOK
<1>1. /\ 1 \in 1..Len(inbox[c]) /\ IsSent(inbox[c][1]) /\ inbox[c][1].line \in Int
      /\ \A i \in 1..Len(inbox[c]) :
           i # 1 /\ inbox[c][i].run = of[c] =>
             /\ inbox[c][1].line # Finished
             /\ inbox[c][i].line = Finished \/ inbox[c][1].line < inbox[c][i].line
  BY <1>0, Taken, HeldMessages DEF StreamInv, Queued
<1>2. inbox[c][1].line \in Nat => inbox[c][1].line \in 0..(written[of[c]] - 1)
  BY <1>0, <1>1 DEF IsSent, Finished
<1>3. ASSUME NEW k \in 0..(written[of[c]] - 1),
             inbox[c][1].line = Finished \/ k < inbox[c][1].line
      PROVE  k \in Seen(c) \cup Excused(c)
  <2>1. Reaches(c, k)
    BY <1>0 DEF StreamInv, Complete
  <2>2. k \notin Lines(c)
    <3> SUFFICES ASSUME NEW i \in 1..Len(inbox[c]), inbox[c][i] = [run |-> of[c], line |-> k]
                 PROVE  FALSE
      BY DEF Lines
    <3>1. inbox[c][i].run = of[c] /\ inbox[c][i].line = k /\ k # Finished /\ k \in Nat
      BY DEF Finished
    <3>2. CASE i = 1
      BY <1>1, <1>3, <3>1, <3>2
    <3>3. CASE i # 1
      BY <1>1, <1>3, <3>1, <3>3
    <3> QED BY <3>2, <3>3
  <2>3. ~ (of[c] \in ahead /\ k = written[of[c]] - 1)
    <3> SUFFICES ASSUME of[c] \in ahead, k = written[of[c]] - 1
                 PROVE  FALSE
      OBVIOUS
    <3>1. phase[of[c]] # "over"
      BY DEF StreamInv, Appending
    <3>2. inbox[c][1].line # Finished /\ inbox[c][1].line < written[of[c]] - 1
      BY <1>1, <3>1 DEF IsSent
    <3> QED BY <1>0, <1>1, <1>3, <3>2
  <2> QED BY <2>1, <2>2, <2>3 DEF Reaches
<1> QED BY <1>2, <1>3

-----------------------------------------------------------------------------
\* What stays in the channel after the head is taken is still sent and in
\* order.
LEMMA TakingKeepsQueued ==
  ASSUME StreamInv, NEW c \in Clients, inbox[c] # <<>>, UNCHANGED runVars,
         inbox' = [inbox EXCEPT ![c] = Tail(@)] \/ inbox' = [inbox EXCEPT ![c] = <<>>]
  PROVE  /\ Queued' /\ inbox' \in [Clients -> Seq(Message)]
         /\ \A x \in Clients : Len(inbox'[x]) <= Capacity
<1> USE DEF runVars
<1>0. TypeOK /\ Ordered(c) /\ inbox \in [Clients -> Seq(Message)]
  BY DEF StreamInv, Queued, TypeOK
<1>1. ASSUME NEW x \in Clients, inbox'[x] = inbox[x]
      PROVE  Ordered(x)' /\ \A i \in 1..Len(inbox'[x]) : IsSent(inbox[x][i])'
  BY <1>1 DEF StreamInv, Queued, Ordered, IsSent
<1>2. ASSUME inbox'[c] = <<>>
      PROVE  Ordered(c)' /\ \A i \in 1..Len(inbox'[c]) : IsSent(inbox[c][i])'
  BY <1>2 DEF Ordered
<1>3. ASSUME inbox'[c] = Tail(inbox[c])
      PROVE  Ordered(c)' /\ \A i \in 1..Len(inbox'[c]) : IsSent(inbox[c][i])'
  <2>1. /\ Len(inbox[c]) \in Nat /\ Len(inbox'[c]) = Len(inbox[c]) - 1
        /\ \A i \in 1..Len(inbox'[c]) :
             i + 1 \in 1..Len(inbox[c]) /\ inbox'[c][i] = inbox[c][i + 1]
    BY <1>0, <1>3, Taken
  <2>2. ASSUME NEW i \in 1..Len(inbox'[c]), NEW j \in 1..Len(inbox'[c]), i < j,
               inbox'[c][i].run = inbox'[c][j].run
        PROVE  /\ inbox'[c][i].line # Finished
               /\ inbox'[c][j].line = Finished \/ inbox'[c][i].line < inbox'[c][j].line
    <3>1. i + 1 < j + 1
      BY <2>1, <2>2
    <3> QED BY <1>0, <2>1, <2>2, <3>1 DEF Ordered
  <2>3. ASSUME NEW i \in 1..Len(inbox'[c]) PROVE IsSent(inbox[c][i])'
    <3>1. IsSent(inbox[c][i + 1]) /\ inbox'[c][i] = inbox[c][i + 1]
      BY <2>1 DEF StreamInv, Queued
    <3> QED BY <3>1 DEF IsSent
  <2> QED BY <2>2, <2>3 DEF Ordered
<1>4. Tail(inbox[c]) \in Seq(Message) /\ Len(Tail(inbox[c])) = Len(inbox[c]) - 1
      /\ Len(inbox[c]) \in Nat /\ Len(inbox[c]) <= Capacity /\ <<>> \in Seq(Message)
  BY <1>0, Taken DEF TypeOK
<1>5. inbox' \in [Clients -> Seq(Message)]
  BY <1>0, <1>4
<1>6. ASSUME NEW x \in Clients PROVE Len(inbox'[x]) <= Capacity
  <2>1. Capacity \in Nat /\ Len(inbox[x]) <= Capacity
    BY <1>0, RunEventsAssumption DEF TypeOK, RunEventsAssumption
  <2>2. Len(<<>>) = 0
    OBVIOUS
  <2>3. CASE x = c
    BY <1>0, <1>4, <2>1, <2>2, <2>3
  <2>4. CASE x # c
    BY <1>0, <2>1, <2>4
  <2> QED BY <2>3, <2>4
<1>7. Queued'
  <2>1. \A x \in Clients \ {c} : inbox'[x] = inbox[x]
    BY <1>0
  <2>2. inbox'[c] = Tail(inbox[c]) \/ inbox'[c] = <<>>
    BY <1>0
  <2> QED BY <1>1, <1>2, <1>3, <2>1, <2>2 DEF Queued
<1> QED BY <1>5, <1>6, <1>7

\* The handler takes a message of the channel: it sends a line it has not
\* passed, and a line it withholds was sent or is excused.
LEMMA TailLineKeeps ==
  ASSUME StreamInv, NEW c \in Clients, TailLine(c)
  PROVE  StreamInv'
<1> USE DEF runVars
<1> DEFINE m == inbox[c][1]
<1>0. /\ TypeOK /\ Ordered(c) /\ conn[c] = "tail" /\ inbox[c] # <<>> /\ of[c] \in Runs
      /\ inbox' = [inbox EXCEPT ![c] = Tail(@)] /\ written[of[c]] \in Nat
      /\ UNCHANGED <<runVars, lagged, conn, of, over, replayed, unfiled>>
      /\ last[c] \in Nat /\ got[c] \in Seq(Nat) /\ Len(got[c]) \in Nat
  BY DEF StreamInv, TypeOK, Queued, Cursor, TailLine
<1>1. /\ 1 \in 1..Len(inbox[c]) /\ m = Head(inbox[c]) /\ m.line \in Int
      /\ m.run = of[c] => m.line # Finished /\ m.line \in Nat
  <2>1. 1 \in 1..Len(inbox[c]) /\ m = Head(inbox[c])
    BY <1>0, Taken
  <2>2. m.line \in Int /\ IsSent(m)
    BY <1>0, <2>1, HeldMessages DEF StreamInv, Queued
  <2>3. m.run = of[c] => m.line # Finished
    BY <2>1 DEF TailLine
  <2> QED BY <1>0, <2>1, <2>2, <2>3 DEF IsSent
<1>2. \/ /\ m.run = of[c] /\ m.line > last[c]
         /\ got' = [got EXCEPT ![c] = Append(@, m.line)]
         /\ last' = [last EXCEPT ![c] = m.line]
      \/ /\ m.run = of[c] => m.line <= last[c]
         /\ UNCHANGED <<got, last>>
  BY <1>0, <1>1 DEF TailLine, Received, IsNew
<1> HIDE DEF m
<1>3. ASSUME m.run = of[c]
      PROVE  /\ m.line \in 0..(written[of[c]] - 1)
             /\ \A k \in 0..(written[of[c]] - 1) :
                  k < m.line => k \in Seen(c) \cup Excused(c)
  BY <1>0, <1>1, <1>3, NothingBehind DEF m
<1>4. ASSUME NEW x \in Clients, x # c
      PROVE  /\ got'[x] = got[x] /\ last'[x] = last[x] /\ inbox'[x] = inbox[x]
             /\ Seen(x)' = Seen(x) /\ Excused(x)' = Excused(x) /\ Lines(x)' = Lines(x)
  <2>1. got'[x] = got[x] /\ last'[x] = last[x] /\ inbox'[x] = inbox[x]
    BY <1>0, <1>2, <1>4 DEF TypeOK
  <2> QED BY <1>0, <2>1 DEF Seen, Excused, Lines
<1>5. /\ Excused(c)' = Excused(c)
      /\ \A k \in Seen(c) : k \in Seen(c)'
      /\ m.run = of[c] => m.line \in Seen(c)' \cup Excused(c)'
  <2>1. Excused(c)' = Excused(c)
    BY <1>0 DEF Excused
  <2>2. CASE UNCHANGED <<got, last>> /\ (m.run = of[c] => m.line <= last[c])
    <3>1. Seen(c)' = Seen(c)
      BY <2>2 DEF Seen
    <3>2. ASSUME m.run = of[c] PROVE m.line \in Seen(c) \cup Excused(c)
      <4>1. m.line \in Nat /\ m.line <= last[c]
        BY <1>1, <2>2, <3>2
      <4>2. CASE m.line < last[c]
        <5>1. m.line \in 0..(last[c] - 1)
          BY <1>0, <4>1, <4>2
        <5> QED BY <1>0, <5>1 DEF StreamInv, NoHole
      <4>3. CASE m.line = last[c]
        BY <1>0, <4>3 DEF StreamInv, Cursor, Excused
      <4> QED BY <1>0, <4>1, <4>2, <4>3
    <3> QED BY <2>1, <3>1, <3>2
  <2>3. CASE m.run = of[c] /\ got' = [got EXCEPT ![c] = Append(@, m.line)]
    <3>1. /\ got'[c] = Append(got[c], m.line) /\ m.line \in Nat
      BY <1>0, <1>1, <2>3 DEF TypeOK
    <3>2. /\ Len(got'[c]) = Len(got[c]) + 1 /\ got'[c][Len(got[c]) + 1] = m.line
          /\ \A i \in 1..Len(got[c]) : got'[c][i] = got[c][i]
      BY <1>0, <3>1, AppendToChannel
    <3>3. m.line \in Seen(c)'
      BY <1>0, <3>2 DEF Seen
    <3>4. ASSUME NEW k \in Seen(c) PROVE k \in Seen(c)'
      <4>1. PICK i \in 1..Len(got[c]) : got[c][i] = k
        BY DEF Seen
      <4>2. i \in 1..Len(got'[c]) /\ got'[c][i] = k
        BY <1>0, <3>2, <4>1
      <4> QED BY <4>2 DEF Seen
    <3> QED BY <2>1, <3>3, <3>4
  <2> QED BY <1>2, <2>2, <2>3
<1>6. TypeOK'
  <2>1. got' \in [Clients -> Seq(Nat)] /\ last' \in [Clients -> Int]
    <3>1. CASE UNCHANGED <<got, last>>
      BY <1>0, <3>1 DEF TypeOK
    <3>2. CASE /\ got' = [got EXCEPT ![c] = Append(@, m.line)]
               /\ last' = [last EXCEPT ![c] = m.line] /\ m.run = of[c]
      <4>1. Append(got[c], m.line) \in Seq(Nat)
        BY <1>0, <1>1, <3>2, AppendToChannel
      <4> QED BY <1>0, <1>1, <3>2, <4>1 DEF TypeOK
    <3> QED BY <1>2, <3>1, <3>2
  <2>2. /\ inbox' \in [Clients -> Seq(Message)]
        /\ \A x \in Clients : Len(inbox'[x]) <= Capacity
    BY <1>0, TakingKeepsQueued
  <2> QED BY <1>0, <2>1, <2>2 DEF TypeOK
<1>7. Queued' /\ Appending' /\ Closed'
  <2>1. Queued'
    BY <1>0, TakingKeepsQueued
  <2> QED BY <1>0, <2>1 DEF StreamInv, Appending, Closed
<1>8. Overrun'
  BY <1>0, <1>4 DEF StreamInv, Overrun, TypeOK
<1>9. Complete'
  <2> SUFFICES ASSUME NEW x \in Clients, conn[x] = "tail", x \notin lagged,
                      NEW k \in 0..(written[of[x]] - 1)
               PROVE  Reaches(x, k)'
    BY <1>0 DEF Complete
  <2>1. Reaches(x, k)
    BY DEF StreamInv, Complete
  <2>2. CASE x # c
    BY <1>0, <1>4, <2>1, <2>2 DEF Reaches
  <2>3. CASE x = c /\ k \in Lines(c)
    <3>1. PICK i \in 1..Len(inbox[c]) : inbox[c][i] = [run |-> of[c], line |-> k]
      BY <2>3 DEF Lines
    <3>2. CASE i = 1
      <4>1. m.run = of[c] /\ m.line = k
        BY <3>1, <3>2 DEF m
      <4> QED BY <1>5, <2>3, <4>1 DEF Reaches
    <3>3. CASE i # 1
      <4>1. i - 1 \in 1..Len(inbox'[c]) /\ inbox'[c][i - 1] = inbox[c][i]
        <5>1. inbox'[c] = Tail(inbox[c])
          BY <1>0 DEF TypeOK
        <5> QED BY <1>0, <3>3, <5>1, Taken
      <4>2. inbox'[c][i - 1] = [run |-> of'[c], line |-> k] /\ k \in Nat
        BY <1>0, <2>3, <3>1, <4>1 DEF Lines
      <4>3. k \in Lines(c)'
        BY <4>1, <4>2 DEF Lines
      <4> QED BY <2>3, <4>3 DEF Reaches
    <3> QED BY <3>2, <3>3
  <2>4. CASE x = c /\ k \notin Lines(c)
    BY <1>0, <1>5, <2>1, <2>4 DEF Reaches
  <2> QED BY <2>2, <2>3, <2>4
<1>10. CASE UNCHANGED <<got, last>>
  <2>1. Cursor' /\ InOrderAndOnce'
    BY <1>0, <1>10 DEF StreamInv, Cursor, InOrderAndOnce, Seen
  <2>2. NoHole' /\ FinishedMeansComplete'
    BY <1>0, <1>10 DEF StreamInv, NoHole, FinishedMeansComplete, Seen, Excused
  <2> QED BY <1>6, <1>7, <1>8, <1>9, <2>1, <2>2 DEF StreamInv
<1>11. CASE /\ m.run = of[c] /\ m.line > last[c]
            /\ got' = [got EXCEPT ![c] = Append(@, m.line)]
            /\ last' = [last EXCEPT ![c] = m.line]
  <2>1. /\ got'[c] = Append(got[c], m.line) /\ m.line \in Nat /\ last'[c] = m.line
    BY <1>0, <1>1, <1>11 DEF TypeOK
  <2>2. /\ Len(got'[c]) = Len(got[c]) + 1 /\ got'[c][Len(got[c]) + 1] = m.line
        /\ \A i \in 1..Len(got[c]) : got'[c][i] = got[c][i] /\ got[c][i] \in Nat
    BY <1>0, <2>1, AppendToChannel
  <2>3. ASSUME NEW i \in 1..Len(got'[c])
        PROVE  \/ i \in 1..Len(got[c]) /\ got'[c][i] <= last[c] /\ got'[c][i] \in Nat
               \/ i = Len(got[c]) + 1 /\ got'[c][i] = m.line
    BY <1>0, <2>2 DEF StreamInv, Cursor
  <2>4. Cursor'
    <3> SUFFICES ASSUME NEW x \in Clients
                 PROVE  /\ last'[x] \in Nat
                        /\ \A i \in 1..Len(got'[x]) : got'[x][i] <= last'[x]
                        /\ conn'[x] \in {"tail", "ended"} =>
                             last'[x] \in Seen(x)' \/ (last'[x] = 0 /\ replayed'[x] = 0)
      BY DEF Cursor
    <3>1. CASE x # c
      BY <1>0, <1>4, <3>1 DEF StreamInv, Cursor
    <3>2. CASE x = c
      <4>1. m.line \in Seen(c)'
        BY <1>0, <2>2 DEF Seen
      <4>2. ASSUME NEW i \in 1..Len(got'[c]) PROVE got'[c][i] <= m.line
        <5>1. CASE got'[c][i] = m.line
          BY <2>1, <5>1
        <5>2. CASE got'[c][i] <= last[c] /\ got'[c][i] \in Nat
          BY <1>0, <1>11, <2>1, <5>2
        <5> QED BY <2>3, <5>1, <5>2
      <4> QED BY <2>1, <3>2, <4>1, <4>2
    <3> QED BY <3>1, <3>2
  <2>5. InOrderAndOnce'
    <3> SUFFICES ASSUME NEW x \in Clients, NEW i \in 1..Len(got'[x]),
                        NEW j \in 1..Len(got'[x]), i < j
                 PROVE  got'[x][i] < got'[x][j]
      BY DEF InOrderAndOnce
    <3>1. CASE x # c
      BY <1>4, <3>1 DEF StreamInv, InOrderAndOnce
    <3>2. CASE x = c /\ j \in 1..Len(got[c])
      <4>1. i \in 1..Len(got[c])
        BY <1>0, <3>2
      <4> QED BY <2>2, <3>2, <4>1 DEF StreamInv, InOrderAndOnce
    <3>3. CASE x = c /\ j = Len(got[c]) + 1
      <4>1. i \in 1..Len(got[c]) /\ got'[c][i] <= last[c] /\ got'[c][i] \in Nat
        BY <1>0, <2>2, <2>3, <3>3
      <4> QED BY <1>0, <1>11, <2>1, <2>2, <3>3, <4>1
    <3> QED BY <2>3, <3>1, <3>2, <3>3
  <2>6. NoHole'
    <3> SUFFICES ASSUME NEW x \in Clients, conn[x] \in {"tail", "ended"},
                        NEW k \in 0..(last'[x] - 1)
                 PROVE  k \in Seen(x)' \cup Excused(x)'
      BY <1>0 DEF NoHole
    <3>1. CASE x # c
      BY <1>4, <3>1 DEF StreamInv, NoHole
    <3>2. CASE x = c
      <4>1. k \in 0..(written[of[c]] - 1) /\ k < m.line
        BY <1>0, <1>3, <1>11, <2>1, <3>2
      <4>2. k \in Seen(c) \cup Excused(c)
        BY <1>3, <1>11, <4>1
      <4> QED BY <1>5, <3>2, <4>2
    <3> QED BY <3>1, <3>2
  <2>7. FinishedMeansComplete'
    <3> SUFFICES ASSUME NEW x \in Clients, conn[x] = "ended", x \notin over,
                        NEW k \in 0..(written[of[x]] - 1)
                 PROVE  k \in Seen(x)' \cup Excused(x)'
      BY <1>0 DEF FinishedMeansComplete
    <3> QED BY <1>0, <1>4 DEF StreamInv, FinishedMeansComplete
  <2> QED BY <1>6, <1>7, <1>8, <1>9, <2>4, <2>5, <2>6, <2>7 DEF StreamInv
<1> QED BY <1>2, <1>10, <1>11

-----------------------------------------------------------------------------
\* The end of the run reaches the handler after every line of the run.
LEMMA TailFinishedKeeps ==
  ASSUME StreamInv, NEW c \in Clients, TailFinished(c)
  PROVE  StreamInv'
<1> USE DEF runVars
<1>0. /\ TypeOK /\ Ordered(c) /\ conn[c] = "tail" /\ inbox[c] # <<>> /\ of[c] \in Runs
      /\ inbox' = [inbox EXCEPT ![c] = <<>>] /\ conn' = [conn EXCEPT ![c] = "ended"]
      /\ UNCHANGED <<runVars, lagged, of, over, last, got, replayed, unfiled>>
  BY DEF StreamInv, TypeOK, Queued, TailFinished
<1>1. /\ 1 \in 1..Len(inbox[c]) /\ inbox[c][1] = [run |-> of[c], line |-> Finished]
      /\ IsSent(inbox[c][1])
  <2>1. 1 \in 1..Len(inbox[c]) /\ inbox[c][1] = Head(inbox[c])
    BY <1>0, Taken
  <2> QED BY <2>1 DEF StreamInv, Queued, TailFinished
<1>2. inbox[c][1].run = of[c] /\ inbox[c][1].line = Finished /\ phase[of[c]] = "over"
  BY <1>1 DEF IsSent
<1>3. \A k \in 0..(written[of[c]] - 1) : k \in Seen(c) \cup Excused(c)
  BY <1>0, <1>2, NothingBehind
<1>4. ASSUME NEW x \in Clients
      PROVE  /\ Seen(x)' = Seen(x) /\ Excused(x)' = Excused(x)
             /\ x # c => conn'[x] = conn[x] /\ Lines(x)' = Lines(x)
  <2>1. x # c => conn'[x] = conn[x] /\ inbox'[x] = inbox[x]
    BY <1>0 DEF TypeOK
  <2> QED BY <1>0, <2>1 DEF Seen, Excused, Lines
<1>5. conn'[c] = "ended" /\ inbox'[c] = <<>>
  BY <1>0 DEF TypeOK
<1>6. TypeOK'
  <2>1. conn' \in [Clients -> Conn]
    BY <1>0 DEF TypeOK, Conn
  <2>2. /\ inbox' \in [Clients -> Seq(Message)]
        /\ \A x \in Clients : Len(inbox'[x]) <= Capacity
    BY <1>0, TakingKeepsQueued
  <2>3. \A x \in Clients : conn'[x] # "idle" => of'[x] \in Runs
    BY <1>0, <1>4 DEF TypeOK
  <2> QED BY <1>0, <2>1, <2>2, <2>3 DEF TypeOK
<1>7. Queued'
  BY <1>0, TakingKeepsQueued
<1>8. Appending' /\ InOrderAndOnce'
  BY <1>0 DEF StreamInv, Appending, InOrderAndOnce
<1>9. Overrun'
  BY <1>0 DEF StreamInv, Overrun, TypeOK
<1>10. Cursor' /\ NoHole'
  <2>1. ASSUME NEW x \in Clients, conn'[x] \in {"tail", "ended"}
        PROVE  conn[x] \in {"tail", "ended"}
    BY <1>0, <1>4, <2>1
  <2>2. Cursor'
    BY <1>0, <1>4, <2>1 DEF StreamInv, Cursor
  <2>3. NoHole'
    BY <1>0, <1>4, <2>1 DEF StreamInv, NoHole
  <2> QED BY <2>2, <2>3
<1>11. Complete'
  BY <1>0, <1>4, <1>5 DEF StreamInv, Complete, Reaches
<1>12. Closed' /\ FinishedMeansComplete'
  <2>1. Closed'
    BY <1>0, <1>2, <1>4 DEF StreamInv, Closed
  <2>2. FinishedMeansComplete'
    BY <1>0, <1>3, <1>4 DEF StreamInv, FinishedMeansComplete
  <2> QED BY <2>1, <2>2
<1> QED BY <1>6, <1>7, <1>8, <1>9, <1>10, <1>11, <1>12 DEF StreamInv

\* A handler that lags stops.
LEMMA TailLaggedKeeps ==
  ASSUME StreamInv, NEW c \in Clients, TailLagged(c)
  PROVE  StreamInv'
<1> USE DEF runVars
<1>0. /\ TypeOK /\ conn[c] = "tail" /\ conn' = [conn EXCEPT ![c] = "cut"]
      /\ lagged' = lagged \ {c}
      /\ UNCHANGED <<runVars, inbox, of, over, last, got, replayed, unfiled>>
  BY DEF StreamInv, TailLagged
<1>1. ASSUME NEW x \in Clients
      PROVE  /\ x # c => conn'[x] = conn[x] /\ (x \in lagged' <=> x \in lagged)
             /\ conn'[c] = "cut"
             /\ Seen(x)' = Seen(x) /\ Excused(x)' = Excused(x) /\ Lines(x)' = Lines(x)
  BY <1>0 DEF TypeOK, Seen, Excused, Lines
<1>2. TypeOK'
  BY <1>0 DEF TypeOK, Conn
<1>3. Queued'
  BY <1>0 DEF StreamInv, Queued, Ordered, IsSent
<1>4. Appending' /\ InOrderAndOnce' /\ Overrun'
  BY <1>0 DEF StreamInv, Appending, InOrderAndOnce, Overrun
<1>5. ASSUME NEW x \in Clients, conn'[x] \in {"tail", "ended"}
      PROVE  x # c /\ conn'[x] = conn[x]
  BY <1>1, <1>5
<1>6. Cursor' /\ NoHole'
  <2>1. Cursor'
    BY <1>0, <1>1, <1>5 DEF StreamInv, Cursor
  <2>2. NoHole'
    BY <1>0, <1>1, <1>5 DEF StreamInv, NoHole
  <2> QED BY <2>1, <2>2
<1>7. Complete'
  BY <1>0, <1>1, <1>5 DEF StreamInv, Complete, Reaches
<1>8. Closed' /\ FinishedMeansComplete'
  <2>1. Closed'
    BY <1>0, <1>5 DEF StreamInv, Closed
  <2>2. FinishedMeansComplete'
    BY <1>0, <1>1, <1>5 DEF StreamInv, FinishedMeansComplete
  <2> QED BY <2>1, <2>2
<1> QED BY <1>2, <1>3, <1>4, <1>6, <1>7, <1>8 DEF StreamInv

LEMMA StreamStutter ==
  ASSUME StreamInv, UNCHANGED vars
  PROVE  StreamInv'
<1> USE DEF vars, runVars, clientVars, busVars
<1>1. TypeOK' /\ Appending' /\ Overrun' /\ Closed'
  BY DEF StreamInv, TypeOK, Appending, Overrun, Closed
<1>2. Queued' /\ InOrderAndOnce'
  BY DEF StreamInv, Queued, Ordered, IsSent, InOrderAndOnce
<1>3. Cursor' /\ NoHole' /\ FinishedMeansComplete'
  BY DEF StreamInv, Cursor, NoHole, FinishedMeansComplete, Seen, Excused
<1>4. Complete'
  BY DEF StreamInv, Complete, Reaches, Lines, Seen, Excused
<1> QED BY <1>1, <1>2, <1>3, <1>4 DEF StreamInv

LEMMA StreamNext ==
  ASSUME StreamInv, [Next]_vars
  PROVE  StreamInv'
<1>1. CASE UNCHANGED vars
  BY <1>1, StreamStutter
<1>2. ASSUME NEW r \in Runs, RunStep(r) PROVE StreamInv'
  <2>1. CASE Emit(r)
    BY <2>1, EmitKeeps
  <2>2. CASE Broadcast(r)
    BY <2>2, BroadcastKeeps
  <2>3. CASE Announce(r)
    BY <2>3, AnnounceKeeps
  <2>4. CASE \/ Launch(r) \/ OpenTranscript(r) \/ GiveUp(r) \/ WriteSnapshot(r)
             \/ DriverEnds(r) \/ Flush(r) \/ Finalize(r)
    BY <2>4, SupervisorIsQuiet
  <2> QED BY <1>2, <2>1, <2>2, <2>3, <2>4 DEF RunStep
<1>3. ASSUME NEW c \in Clients, HandlerStep(c) \/ \E r \in Runs : ReadRow(c, r)
      PROVE  StreamInv'
  <2>1. CASE Subscribe(c) \/ \E r \in Runs : ReadRow(c, r)
    BY <2>1, OpeningKeeps
  <2>2. CASE Replay(c)
    BY <2>2, ReplayKeeps
  <2>3. CASE TailLine(c)
    BY <2>3, TailLineKeeps
  <2>4. CASE TailFinished(c)
    BY <2>4, TailFinishedKeeps
  <2>5. CASE TailLagged(c)
    BY <2>5, TailLaggedKeeps
  <2> QED BY <1>3, <2>1, <2>2, <2>3, <2>4, <2>5 DEF HandlerStep
<1>4. CASE CrashAndBoot
  BY <1>4, CrashKeeps
<1> QED BY <1>1, <1>2, <1>3, <1>4 DEF Next

-----------------------------------------------------------------------------
\* The strengthening is inductive: no interleaving of supervisors, handlers
\* and crashes leaves it.
THEOREM StreamInvHolds == Safety => []StreamInv
<1>1. Init => StreamInv
  BY StreamInit
<1>2. StreamInv /\ [Next]_vars => StreamInv'
  BY StreamNext
<1> QED BY <1>1, <1>2, PTL DEF Safety

\* Every variable keeps its type; no receiver holds more than the channel's
\* capacity and no file more lines than were appended.
THEOREM StreamTypes == Safety => []TypeOK
<1>1. StreamInv => TypeOK
  BY DEF StreamInv
<1> QED BY <1>1, StreamInvHolds, PTL

\* A client of run_events is sent the lines of its run in the order of their
\* numbers and none twice, however the replay and the tail overlap.
THEOREM LinesComeInOrder == Safety => []InOrderAndOnce
<1>1. StreamInv => InOrderAndOnce
  BY DEF StreamInv
<1> QED BY <1>1, StreamInvHolds, PTL

\* Subscribing before the file is read leaves no gap: up to the last line it
\* was sent a client has every line, but for those a failed flush kept off
\* the disk and line 0 of an empty replay.
THEOREM NoLineIsSkipped == Safety => []NoHole
<1>1. StreamInv => NoHole
  BY DEF StreamInv
<1> QED BY <1>1, StreamInvHolds, PTL

\* An end marker that StreamMsg::Finished caused follows every line.
THEOREM EndsAreComplete == Safety => []FinishedMeansComplete
<1>1. StreamInv => FinishedMeansComplete
  BY DEF StreamInv
<1> QED BY <1>1, StreamInvHolds, PTL

=============================================================================
