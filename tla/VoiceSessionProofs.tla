------------------------- MODULE VoiceSessionProofs -------------------------
(***************************************************************************)
(* Theorems about VoiceSession, for any number of turns, timers and things *)
(* said: its variables keep their types, nothing the visitor says is       *)
(* handed to two turns, the session implements QuestionLife, and, from     *)
(* where its tasks can be in their programs, the recogniser is released,   *)
(* words stop every countdown and a session at rest shows it.              *)
(***************************************************************************)
EXTENDS VoiceSession, SequenceTheorems, TLAPS

-----------------------------------------------------------------------------
(* The event loop's part of TypeOK, and what each kind of step does to it. *)

LoopOK == /\ cpu \in Tasks \cup {Free}
          /\ todo \in [Tasks -> Seq(Steps)]
          /\ on \in [Tasks -> Tasks \cup {Free}]

\* What is left of a live task's program is a program.
LEMMA RestType ==
  ASSUME LoopOK, NEW t \in Tasks, Live(t)
  PROVE  Rest(t) \in Seq(Steps)
BY DEF LoopOK, Live, Quiet, Rest

\* A task that may run a step is live.
LEMMA RunsLive ==
  ASSUME NEW t, NEW s, Runs(t, s)
  PROVE  Live(t)
BY DEF Runs

\* Going on with a program of steps keeps the event loop's types.
LEMMA ThenType ==
  ASSUME LoopOK, NEW t \in Tasks, NEW p \in Seq(Steps), Then(t, p)
  PROVE  LoopOK'
BY DEF LoopOK, Then, Goes, Keeps

\* So does cancelling a task and awaiting it.
LEMMA JoinType ==
  ASSUME LoopOK, NEW t \in Tasks, NEW x \in Tasks, NEW p \in Seq(Steps),
         CancelAndJoin(t, x, p)
  PROVE  LoopOK'
<1>1. Victim(x) \in Tasks \cup {Free}
  BY DEF LoopOK, Victim
<1>2. \A q : Unwound(q) \in Seq(Steps)
  <2>1. <<"unwind", "settle", "pop">> \in Seq(Steps)
    BY DEF Steps
  <2>2. Quiet \in Seq(Steps)
    BY DEF Quiet
  <2> QED
    BY <2>1, <2>2 DEF Unwound
<1>3. Cancelled(x) \in [Tasks -> Seq(Steps)]
  BY <1>1, <1>2 DEF LoopOK, Cancelled
<1> QED
  BY <1>3 DEF LoopOK, CancelAndJoin

\* A send at the end of the step changes nothing of this.
LEMMA SendType ==
  ASSUME LoopOK, NEW t \in Tasks, NEW p \in Seq(Steps),
         GoesAfterSend(t, p), todo' = [todo EXCEPT ![t] = p]
  PROVE  LoopOK'
BY DEF LoopOK, GoesAfterSend, Keeps

\* A turn gets its task: the references and the texts keep their types.
LEMMA SpawnType ==
  ASSUME asked \in [Turns -> SUBSET Heard],
         NEW td \in [Tasks -> Seq(Steps)], NEW text \in SUBSET Heard,
         Spawn(td, text)
  PROVE  /\ asked' \in [Turns -> SUBSET Heard]
         /\ turnTask' \in Turns \cup {Free}
         /\ todo' \in [Tasks -> Seq(Steps)]
<1>1. <<"begin">> \in Seq(Steps)
  BY DEF Steps
<1> QED
  BY <1>1 DEF Spawn, Tasks

\* The turn count saturates one past the limit.
LEMMA NextTurnType ==
  ASSUME turn \in 0 .. (MaxTurns + 1), NextTurn
  PROVE  turn' \in 0 .. (MaxTurns + 1)
BY BoundsAssumption DEF NextTurn

\* _start_turn keeps the types, whether or not the limit was reached.
LEMMA StartTurnType ==
  ASSUME TypeOK, NEW td \in [Tasks -> Seq(Steps)], NEW text \in SUBSET Heard,
         StartTurn(td, text)
  PROVE  /\ turn' \in 0 .. (MaxTurns + 1)
         /\ asked' \in [Turns -> SUBSET Heard]
         /\ turnTask' \in Turns \cup {Free}
         /\ todo' \in [Tasks -> Seq(Steps)]
         /\ closing' \in BOOLEAN
<1>1. turn' \in 0 .. (MaxTurns + 1)
  BY NextTurnType DEF TypeOK, StartTurn
<1>2. CASE turn < MaxTurns
  BY <1>1, <1>2, SpawnType DEF TypeOK, StartTurn
<1>3. CASE ~(turn < MaxTurns)
  BY <1>1, <1>3 DEF TypeOK, StartTurn
<1> QED
  BY <1>2, <1>3

-----------------------------------------------------------------------------
(* One lemma per part of the next-state relation. *)

LEMMA TypeLoop == TypeOK => LoopOK
BY DEF TypeOK, LoopOK

\* The steps every task shares.
LEMMA SharedType ==
  ASSUME TypeOK, NEW t \in Tasks, Shared(t)
  PROVE  TypeOK'
<1> USE DEF TypeOK
<1>0. LoopOK
  BY TypeLoop
<1>t. Live(t) => Rest(t) \in Seq(Steps)
  BY <1>0, RestType
<1>1. CASE CancelTurn(t)
  <2>1. Rest(t) \in Seq(Steps)
    BY <1>1, <1>t, RunsLive DEF CancelTurn
  <2>2. LoopOK'
    <3>1. CASE turnTask # Free /\ Live(turnTask)
      BY <1>0, <1>1, <2>1, <3>1, JoinType DEF CancelTurn, Tasks
    <3>2. CASE ~(turnTask # Free /\ Live(turnTask))
      BY <1>0, <1>1, <2>1, <3>2, ThenType DEF CancelTurn
    <3> QED
      BY <3>1, <3>2
  <2> QED
    BY <1>1, <2>2 DEF CancelTurn, LoopOK, mic, talk
<1>2. CASE CancelGrace(t)
  <2>1. Rest(t) \in Seq(Steps)
    BY <1>2, <1>t, RunsLive DEF CancelGrace
  <2>2. LoopOK'
    <3>1. CASE graceTask # Free /\ Live(graceTask)
      BY <1>0, <1>2, <2>1, <3>1, JoinType DEF CancelGrace, Tasks
    <3>2. CASE ~(graceTask # Free /\ Live(graceTask))
      BY <1>0, <1>2, <2>1, <3>2, ThenType DEF CancelGrace
    <3> QED
      BY <3>1, <3>2
  <2> QED
    BY <1>2, <2>2 DEF CancelGrace, LoopOK, mic, talk
<1>3. CASE FlushNothing(t)
  <2>1. LoopOK'
    BY <1>0, <1>3, <1>t, RunsLive, ThenType DEF FlushNothing
  <2> QED
    BY <1>3, <2>1 DEF FlushNothing, LoopOK, mic, talk, refs
<1>4. CASE FlushStarts(t)
  <2>1. Rest(t) \in Seq(Steps)
    BY <1>4, <1>t, RunsLive DEF FlushStarts
  <2>2. [todo EXCEPT ![t] = Rest(t)] \in [Tasks -> Seq(Steps)]
    BY <2>1
  <2>3. /\ turn' \in 0 .. (MaxTurns + 1)
        /\ asked' \in [Turns -> SUBSET Heard]
        /\ turnTask' \in Turns \cup {Free}
        /\ todo' \in [Tasks -> Seq(Steps)]
        /\ closing' \in BOOLEAN
    BY <1>4, <2>2, StartTurnType DEF FlushStarts
  <2> QED
    BY <1>4, <2>3 DEF FlushStarts, Goes, Keeps, mic
<1>5. CASE FlushQueues(t)
  <2>1. LoopOK'
    BY <1>0, <1>5, <1>t, RunsLive, ThenType DEF FlushQueues
  <2> QED
    BY <1>5, <2>1 DEF FlushQueues, LoopOK, mic, refs
<1>6. CASE FlushInterrupts(t)
  <2>1. Rest(t) \in Seq(Steps)
    BY <1>6, <1>t, RunsLive DEF FlushInterrupts
  <2>2. <<"start">> \o Rest(t) \in Seq(Steps)
    <3>1. <<"start">> \in Seq(Steps)
      BY DEF Steps
    <3> QED
      BY <2>1, <3>1, ConcatProperties
  <2>3. turnTask \in Tasks
    BY <1>6 DEF FlushInterrupts, Busy, Tasks
  <2>4. LoopOK'
    BY <1>0, <1>6, <2>2, <2>3, JoinType DEF FlushInterrupts
  <2> QED
    BY <1>6, <2>4 DEF FlushInterrupts, LoopOK, mic
<1>7. CASE FlushResumes(t)
  <2>1. Rest(t) \in Seq(Steps)
    BY <1>7, <1>t, RunsLive DEF FlushResumes
  <2>2. [todo EXCEPT ![t] = Rest(t)] \in [Tasks -> Seq(Steps)]
    BY <2>1
  <2>3. /\ turn' \in 0 .. (MaxTurns + 1)
        /\ asked' \in [Turns -> SUBSET Heard]
        /\ turnTask' \in Turns \cup {Free}
        /\ todo' \in [Tasks -> Seq(Steps)]
        /\ closing' \in BOOLEAN
    BY <1>7, <2>2, StartTurnType DEF FlushResumes
  <2> QED
    BY <1>7, <2>3 DEF FlushResumes, Goes, Keeps, mic
<1>8. CASE SetResting(t)
  <2>1. Rest(t) \in Seq(Steps)
    BY <1>8, <1>t, RunsLive DEF SetResting
  <2>2. LoopOK'
    BY <1>0, <1>8, <2>1, SendType DEF SetResting
  <2> QED
    BY <1>8, <2>2 DEF SetResting, Resting, LoopOK, mic, talk, refs
<1> QED
  BY <1>1, <1>2, <1>3, <1>4, <1>5, <1>6, <1>7, <1>8 DEF Shared, Flush

\* _run_turn
LEMMA TurnType ==
  ASSUME TypeOK, NEW k \in Turns, Turn(k)
  PROVE  TypeOK'
<1> USE DEF TypeOK
<1>0. LoopOK /\ k \in Tasks
  BY TypeLoop DEF Tasks
<1>p. /\ <<"stream">> \in Seq(Steps)
      /\ <<"settle", "pop">> \in Seq(Steps)
      /\ <<"pop">> \in Seq(Steps)
      /\ Quiet \in Seq(Steps)
  BY DEF Steps, Quiet
<1>1. CASE TurnBegins(k)
  <2>1. LoopOK'
    BY <1>0, <1>1, <1>p, ThenType DEF TurnBegins
  <2> QED
    BY <1>1, <2>1 DEF TurnBegins, LoopOK, mic, talk, refs
<1>2. CASE TurnSpeaks(k)
  <2>1. LoopOK'
    BY <1>0, <1>2, <1>p, ThenType DEF TurnSpeaks
  <2> QED
    BY <1>2, <2>1 DEF TurnSpeaks, LoopOK, mic, talk, refs
<1>3. CASE TurnEnds(k)
  <2>1. LoopOK'
    BY <1>0, <1>3, <1>p, SendType DEF TurnEnds
  <2> QED
    BY <1>3, <2>1 DEF TurnEnds, LoopOK, mic, talk, refs
<1>4. CASE TurnSettles(k)
  <2>1. LoopOK'
    BY <1>0, <1>4, <1>p, SendType DEF TurnSettles
  <2> QED
    BY <1>4, <2>1 DEF TurnSettles, Resting, LoopOK, mic, talk, refs
<1>5. CASE TurnPopsQueue(k)
  <2>1. [todo EXCEPT ![k] = Quiet] \in [Tasks -> Seq(Steps)]
    BY <1>0, <1>p
  <2>2. /\ turn' \in 0 .. (MaxTurns + 1)
        /\ asked' \in [Turns -> SUBSET Heard]
        /\ turnTask' \in Turns \cup {Free}
        /\ todo' \in [Tasks -> Seq(Steps)]
        /\ closing' \in BOOLEAN
    <3>1. CASE queued = {}
      BY <1>5, <2>1, <3>1 DEF TurnPopsQueue
    <3>2. CASE queued # {}
      BY <1>5, <2>1, <3>2, StartTurnType DEF TurnPopsQueue
    <3> QED
      BY <3>1, <3>2
  <2> QED
    BY <1>0, <1>5, <2>2 DEF TurnPopsQueue, Goes, Keeps, mic
<1> QED
  BY <1>1, <1>2, <1>3, <1>4, <1>5 DEF Turn

\* _collect_transcripts
LEMMA CollectsType ==
  ASSUME TypeOK, Collects
  PROVE  TypeOK'
<1> USE DEF TypeOK
<1>0. LoopOK /\ Collector \in Tasks
  BY TypeLoop DEF Tasks
<1>r. Live(Collector) => Rest(Collector) \in Seq(Steps)
  BY <1>0, RestType
<1>p. /\ <<"keep">> \in Seq(Steps)
      /\ <<"cancel_grace">> \in Seq(Steps)
      /\ <<"barge">> \in Seq(Steps)
      /\ <<"endpoint">> \in Seq(Steps)
      /\ <<"results">> \in Seq(Steps)
      /\ <<"flush">> \in Seq(Steps)
      /\ <<"cancel_turn", "rest">> \in Seq(Steps)
      /\ <<"cancel_grace", "new_grace">> \in Seq(Steps)
      /\ <<>> \in Seq(Steps)
  BY DEF Steps
<1>1. ASSUME NEW r \in Results, Result(r)
      PROVE  TypeOK'
  <2>1. Reaction(r) \in Seq(Steps)
    BY <1>p, ConcatProperties DEF Reaction
  <2>2. Reaction(r) \o <<"results">> \in Seq(Steps)
    BY <1>p, <2>1, ConcatProperties
  <2>3. LoopOK'
    <3>1. PICK p \in Seq(Steps) :
            /\ todo' = [todo EXCEPT ![Collector] = p]
            /\ GoesAfterSend(Collector, p) \/ Goes(Collector, p)
      BY <1>1, <2>2 DEF Result
    <3>2. CASE GoesAfterSend(Collector, p)
      BY <1>0, <3>1, <3>2, SendType
    <3>3. CASE Goes(Collector, p)
      BY <1>0, <3>1, <3>3, ThenType DEF Then
    <3> QED
      BY <3>1, <3>2, <3>3
  <2>4. heard' \in 0 .. MaxHeard /\ (r.final => heard + 1 \in Heard)
    BY <1>1, BoundsAssumption DEF Result, CanArrive, Results, Heard
  <2>5. taken' \in [Tasks -> SUBSET Heard]
    BY <1>1, <2>4 DEF Result
  <2> QED
    BY <1>1, <2>3, <2>4, <2>5 DEF Result, LoopOK, mic, refs
<1>2. CASE BargeIn
  <2>1. (IF state = "speaking" THEN <<"cancel_turn", "rest">> ELSE <<>>)
          \o Rest(Collector) \in Seq(Steps)
    BY <1>2, <1>p, <1>r, RunsLive, ConcatProperties DEF BargeIn
  <2>2. LoopOK'
    BY <1>0, <1>2, <2>1, ThenType DEF BargeIn
  <2> QED
    BY <1>2, <2>2 DEF BargeIn, LoopOK, mic, talk, refs
<1>3. CASE EndpointReached
  <2>1. (IF mode = "instant" THEN <<"flush">> ELSE <<"cancel_grace", "new_grace">>)
          \o Rest(Collector) \in Seq(Steps)
    BY <1>3, <1>p, <1>r, RunsLive, ConcatProperties DEF EndpointReached
  <2>2. LoopOK'
    BY <1>0, <1>3, <2>1, ThenType DEF EndpointReached
  <2> QED
    BY <1>3, <2>2 DEF EndpointReached, LoopOK, mic, talk, refs
<1>4. CASE NewGrace
  <2>1. Rest(Collector) \in Seq(Steps)
    BY <1>4, <1>r, RunsLive DEF NewGrace
  <2>2. /\ todo' \in [Tasks -> Seq(Steps)]
        /\ graceTask' \in Graces \cup {Free}
    <3>1. PICK g \in Graces :
            /\ graceTask' = g
            /\ todo' = [todo EXCEPT ![g] = <<"flush">>, ![Collector] = Rest(Collector)]
      BY <1>4 DEF NewGrace
    <3>2. todo \in [Tasks -> Seq(Steps)]
      OBVIOUS
    <3> QED
      BY <1>p, <2>1, <3>1, <3>2
  <2> QED
    BY <1>0, <1>4, <2>2 DEF NewGrace, Goes, Keeps, mic, talk
<1>5. CASE StreamEnds
  <2>1. LoopOK'
    BY <1>0, <1>5, <1>p, ThenType DEF StreamEnds, Quiet
  <2> QED
    BY <1>5, <2>1 DEF StreamEnds, LoopOK, talk, refs
<1>6. CASE KeepWords
  <2>1. LoopOK'
    BY <1>0, <1>6, <1>r, RunsLive, ThenType DEF KeepWords
  <2>2. pending' \subseteq Heard /\ taken' \in [Tasks -> SUBSET Heard]
    BY <1>0, <1>6 DEF KeepWords
  <2> QED
    BY <1>6, <2>1, <2>2 DEF KeepWords, LoopOK, mic, refs
<1> QED
  BY <1>1, <1>2, <1>3, <1>4, <1>5, <1>6 DEF Collects

\* The part of a handler before its first await.
LEMMA HandlesType ==
  ASSUME TypeOK, Handles
  PROVE  TypeOK'
<1> USE DEF TypeOK
<1>0. LoopOK /\ Reader \in Tasks
  BY TypeLoop DEF Tasks
<1>p. /\ <<"receive">> \in Seq(Steps)
      /\ <<"close_stt", "open">> \in Seq(Steps)
      /\ <<"cancel_grace", "finish">> \in Seq(Steps)
      /\ <<"cancel_grace", "flush">> \in Seq(Steps)
      /\ <<"cancel_turn", "rest">> \in Seq(Steps)
      /\ <<"cancel_turn", "begin_text">> \in Seq(Steps)
      /\ <<"flush">> \in Seq(Steps)
      /\ <<"close_stt", "idle">> \in Seq(Steps)
      /\ <<"cancel_turn", "cancel_grace", "close_stt", "closed">> \in Seq(Steps)
      /\ <<>> \in Seq(Steps)
  BY DEF Steps
<1>a. ASSUME NEW m, NEW q \in Seq(Steps), Receives(m, q)
      PROVE  LoopOK'
  <2>1. q \o <<"receive">> \in Seq(Steps)
    BY <1>p, ConcatProperties
  <2> QED
    BY <1>0, <1>a, <2>1, ThenType DEF Receives
<1>1. CASE MicOn
  BY <1>1, <1>a, <1>p DEF MicOn, LoopOK, mic, talk, refs
<1>2. CASE MicOff
  BY <1>2, <1>a, <1>p DEF MicOff, LoopOK, talk, refs
<1>3. CASE SetMode
  <2>1. LoopOK'
    BY <1>3, <1>a, <1>p DEF SetMode
  <2> QED
    BY <1>3, <2>1 DEF SetMode, LoopOK, mic, talk, refs
<1>4. CASE Cancel
  BY <1>4, <1>a, <1>p DEF Cancel, LoopOK, mic, talk, refs
<1>5. CASE Text
  <2>1. LoopOK'
    BY <1>5, <1>a, <1>p DEF Text
  <2>2. heard' \in 0 .. MaxHeard /\ heard + 1 \in Heard
    BY <1>5, BoundsAssumption DEF Text, Heard
  <2>3. taken' \in [Tasks -> SUBSET Heard]
    BY <1>5, <2>2 DEF Text
  <2> QED
    BY <1>5, <2>1, <2>2, <2>3 DEF Text, LoopOK, mic, refs
<1>6. CASE Overlong
  BY <1>6, <1>a, <1>p DEF Overlong, LoopOK, mic, talk, refs
<1>7. CASE AudioFails
  BY <1>7, <1>a, <1>p DEF AudioFails, LoopOK, talk, refs
<1>8. CASE Leaves
  <2>1. LoopOK'
    BY <1>0, <1>8, <1>p, ThenType DEF Leaves, CloseProgram
  <2> QED
    BY <1>8, <2>1 DEF Leaves, LoopOK, mic, talk, refs
<1>9. CASE Closed
  <2>1. LoopOK'
    BY <1>0, <1>9, <1>p, ThenType DEF Closed, Quiet
  <2> QED
    BY <1>9, <2>1 DEF Closed, LoopOK, mic, talk, refs
<1> QED
  BY <1>1, <1>2, <1>3, <1>4, <1>5, <1>6, <1>7, <1>8, <1>9 DEF Handles

\* What a handler does between later awaits.
LEMMA ReadsType ==
  ASSUME TypeOK, Reads
  PROVE  TypeOK'
<1> USE DEF TypeOK
<1>0. LoopOK /\ Reader \in Tasks /\ Collector \in Tasks
  BY TypeLoop DEF Tasks
<1>r. \A s : Runs(Reader, s) => Rest(Reader) \in Seq(Steps)
  BY <1>0, RestType, RunsLive
<1>p. /\ <<"stop_collector">> \in Seq(Steps)
      /\ <<"opened">> \in Seq(Steps)
      /\ <<"finished">> \in Seq(Steps)
      /\ <<"results">> \in Seq(Steps)
      /\ <<"spawn_text">> \in Seq(Steps)
      /\ <<"flush", "close_stt", "report">> \in Seq(Steps)
      /\ <<"cancel_turn", "cancel_grace", "close_stt", "closed">> \in Seq(Steps)
      /\ <<>> \in Seq(Steps)
  BY DEF Steps
<1>c. ASSUME NEW q \in Seq(Steps), NEW s, Runs(Reader, s)
      PROVE  q \o Rest(Reader) \in Seq(Steps)
  BY <1>c, <1>r, ConcatProperties
<1>1. CASE CloseStt
  <2>1. (IF stt THEN <<"stop_collector">> ELSE <<>>) \o Rest(Reader) \in Seq(Steps)
    BY <1>1, <1>c, <1>p DEF CloseStt
  <2>2. LoopOK'
    BY <1>0, <1>1, <2>1, ThenType DEF CloseStt
  <2> QED
    BY <1>1, <2>2 DEF CloseStt, LoopOK, talk, refs
<1>2. CASE StopCollector
  <2>1. Rest(Reader) \in Seq(Steps)
    BY <1>2, <1>r DEF StopCollector
  <2>2. CASE Live(Collector)
    <3>1. LoopOK'
      BY <1>0, <1>2, <2>1, <2>2, JoinType DEF StopCollector
    <3>2. taken' \in [Tasks -> SUBSET Heard]
      BY <1>2, <2>2 DEF StopCollector
    <3> QED
      BY <1>2, <2>2, <3>1, <3>2 DEF StopCollector, LoopOK, refs, Live
  <2>3. CASE ~Live(Collector)
    <3>1. LoopOK'
      BY <1>0, <1>2, <2>1, <2>3, ThenType DEF StopCollector
    <3> QED
      BY <1>2, <2>3, <3>1 DEF StopCollector, LoopOK, talk, refs
  <2> QED
    BY <2>2, <2>3
<1>3. CASE OpensStt
  <2>1. <<"opened">> \o Rest(Reader) \in Seq(Steps)
    BY <1>3, <1>c, <1>p DEF OpensStt
  <2>2. LoopOK'
    BY <1>0, <1>3, <2>1, ThenType DEF OpensStt
  <2> QED
    BY <1>3, <2>2 DEF OpensStt, LoopOK, refs
<1>4. CASE SttOpened
  <2>1. Rest(Reader) \in Seq(Steps)
    BY <1>4, <1>r DEF SttOpened
  <2>2. todo' \in [Tasks -> Seq(Steps)]
    BY <1>0, <1>4, <1>p, <2>1 DEF SttOpened
  <2> QED
    BY <1>0, <1>4, <2>2 DEF SttOpened, Goes, Keeps, talk, refs
<1>5. CASE SttRefused
  <2>1. LoopOK'
    BY <1>0, <1>5, <1>r, ThenType DEF SttRefused
  <2> QED
    BY <1>5, <2>1 DEF SttRefused, LoopOK, mic, talk, refs
<1>6. CASE Finish
  <2>1. <<"finished">> \o Rest(Reader) \in Seq(Steps)
    BY <1>6, <1>c, <1>p DEF Finish
  <2>2. LoopOK'
    BY <1>0, <1>6, <2>1, ThenType DEF Finish
  <2> QED
    BY <1>6, <2>2 DEF Finish, LoopOK, mic, talk, refs
<1>7. CASE Finished
  <2>1. <<"flush", "close_stt", "report">> \o Rest(Reader) \in Seq(Steps)
    BY <1>7, <1>c, <1>p DEF Finished
  <2>2. LoopOK'
    BY <1>0, <1>7, <2>1, ThenType DEF Finished
  <2> QED
    BY <1>7, <2>2 DEF Finished, LoopOK, mic, talk, refs
<1>8. CASE Report
  <2>1. LoopOK'
    BY <1>0, <1>8, <1>r, ThenType DEF Report
  <2> QED
    BY <1>8, <2>1 DEF Report, LoopOK, mic, talk, refs
<1>9. CASE GoIdle
  <2>1. LoopOK'
    BY <1>0, <1>9, <1>r, ThenType DEF GoIdle
  <2> QED
    BY <1>9, <2>1 DEF GoIdle, LoopOK, mic, talk, refs
<1>10. CASE BeginText
  <2>1. turn' \in 0 .. (MaxTurns + 1)
    BY <1>10, NextTurnType DEF BeginText
  <2>2. <<"spawn_text">> \o Rest(Reader) \in Seq(Steps)
    BY <1>10, <1>c, <1>p DEF BeginText
  <2>3. LoopOK' /\ taken' \in [Tasks -> SUBSET Heard]
    <3>1. CASE turn < MaxTurns
      BY <1>0, <1>10, <2>2, <3>1 DEF BeginText, GoesAfterSend, Keeps, LoopOK
    <3>2. CASE ~(turn < MaxTurns)
      BY <1>0, <1>10, <1>p, <3>2, ThenType DEF BeginText, CloseProgram
    <3> QED
      BY <3>1, <3>2
  <2> QED
    BY <1>10, <2>1, <2>3 DEF BeginText, LoopOK, mic, refs
<1>11. CASE SpawnText
  <2>1. [todo EXCEPT ![Reader] = Rest(Reader)] \in [Tasks -> Seq(Steps)]
    BY <1>11, <1>r DEF SpawnText
  <2>2. /\ asked' \in [Turns -> SUBSET Heard]
        /\ turnTask' \in Turns \cup {Free}
        /\ todo' \in [Tasks -> Seq(Steps)]
    BY <1>0, <1>11, <2>1, SpawnType DEF SpawnText
  <2> QED
    BY <1>0, <1>11, <2>2 DEF SpawnText, Goes, Keeps, mic
<1> QED
  BY <1>1, <1>2, <1>3, <1>4, <1>5, <1>6, <1>7, <1>8, <1>9, <1>10, <1>11 DEF Reads

-----------------------------------------------------------------------------
\* Every variable keeps its type in every behaviour of a voice session.
THEOREM TypeCorrect == Spec => []TypeOK
<1>1. Init => TypeOK
  <2> SUFFICES ASSUME Init PROVE TypeOK
    OBVIOUS
  <2>1. <<"receive">> \in Seq(Steps) /\ Quiet \in Seq(Steps)
    BY DEF Steps, Quiet
  <2> QED
    <3>1. /\ todo \in [Tasks -> Seq(Steps)]
          /\ on \in [Tasks -> Tasks \cup {Free}]
          /\ taken \in [Tasks -> SUBSET Heard]
          /\ asked \in [Turns -> SUBSET Heard]
      BY <2>1 DEF Init
    <3>2. turn \in 0 .. (MaxTurns + 1) /\ heard \in 0 .. MaxHeard
      BY BoundsAssumption DEF Init
    <3> QED
      BY <3>1, <3>2 DEF Init, TypeOK
<1>2. TypeOK /\ [Next]_vars => TypeOK'
  <2> SUFFICES ASSUME TypeOK, [Next]_vars PROVE TypeOK'
    OBVIOUS
  <2>1. CASE Next
    BY <2>1, SharedType, TurnType, CollectsType, HandlesType, ReadsType DEF Next
  <2>2. CASE UNCHANGED vars
    BY <2>2 DEF TypeOK, vars, mic, talk, refs
  <2> QED
    BY <2>1, <2>2
<1> QED
  BY <1>1, <1>2, PTL DEF Spec

-----------------------------------------------------------------------------
(***************************************************************************)
(* Nothing is asked twice.  AskedOnce alone is not inductive: a new thing  *)
(* said must differ from everything already somewhere, which needs that    *)
(* only things said so far are anywhere.                                   *)
(***************************************************************************)
SaidBefore ==
  /\ pending \subseteq 1 .. heard
  /\ queued \subseteq 1 .. heard
  /\ \A t \in Tasks : taken[t] \subseteq 1 .. heard
  /\ \A k \in Turns : asked[k] \subseteq 1 .. heard

Once == TypeOK /\ AskedOnce /\ SaidBefore

\* A step that moves no text moves nothing out of place.
LEMMA TextStays ==
  ASSUME AskedOnce, SaidBefore, UNCHANGED talk
  PROVE  AskedOnce' /\ SaidBefore'
BY DEF AskedOnce, SaidBefore, talk

\* What a spawned turn was given, and that it is the only change.
LEMMA StartTurnAsked ==
  ASSUME NEW td, NEW text, StartTurn(td, text)
  PROVE  \/ UNCHANGED asked
         \/ \E k \in Turns : asked[k] = {} /\ asked' = [asked EXCEPT ![k] = text]
<1>1. CASE turn < MaxTurns
  BY <1>1 DEF StartTurn, Spawn
<1>2. CASE ~(turn < MaxTurns)
  BY <1>2 DEF StartTurn
<1> QED
  BY <1>1, <1>2

\* Text that has been taken from everywhere else may be given to a new turn.
LEMMA HandedOver ==
  ASSUME Once, NEW text \in SUBSET (1 .. heard),
         pending' \subseteq pending, queued' \subseteq queued, heard' = heard,
         \A t \in Tasks : taken'[t] \subseteq taken[t],
         text \cap (pending' \cup queued') = {},
         \A t \in Tasks : text \cap taken'[t] = {},
         \A k \in Turns : text \cap asked[k] = {},
         \/ UNCHANGED asked
         \/ \E k \in Turns : asked[k] = {} /\ asked' = [asked EXCEPT ![k] = text]
  PROVE  AskedOnce' /\ SaidBefore'
<1> USE DEF Once, TypeOK
<1>1. CASE UNCHANGED asked
  BY <1>1 DEF AskedOnce, SaidBefore
<1>2. ASSUME NEW k \in Turns, asked' = [asked EXCEPT ![k] = text]
      PROVE  AskedOnce' /\ SaidBefore'
  <2>1. \A j \in Turns : asked'[j] = IF j = k THEN text ELSE asked[j]
    BY <1>2
  <2>2. /\ \A j \in Turns : asked'[j] \cap (pending' \cup queued') = {}
        /\ \A j \in Turns, t \in Tasks : asked'[j] \cap taken'[t] = {}
    BY <2>1 DEF AskedOnce
  <2>3. \A i, j \in Turns : i # j => asked'[i] \cap asked'[j] = {}
    BY <2>1 DEF AskedOnce
  <2>4. /\ pending' \cap queued' = {}
        /\ \A t \in Tasks : taken'[t] \cap (pending' \cup queued') = {}
        /\ \A s, t \in Tasks : s # t => taken'[s] \cap taken'[t] = {}
    BY DEF AskedOnce
  <2>5. SaidBefore'
    BY <2>1 DEF SaidBefore
  <2> QED
    BY <2>2, <2>3, <2>4, <2>5 DEF AskedOnce
<1> QED
  BY <1>1, <1>2

\* The steps every task shares: text leaves the pending buffer or a task's
\* hands in the same step in which it is queued, held or asked.
LEMMA SharedOnce ==
  ASSUME Once, NEW t \in Tasks, Shared(t)
  PROVE  AskedOnce' /\ SaidBefore'
<1> USE DEF Once
<1>1. CASE CancelTurn(t) \/ CancelGrace(t) \/ FlushNothing(t) \/ SetResting(t)
  BY <1>1, TextStays DEF CancelTurn, CancelGrace, FlushNothing, SetResting
<1>2. CASE FlushStarts(t)
  <2>1. /\ pending' = {} /\ queued' = queued /\ taken' = taken /\ heard' = heard
        /\ \/ UNCHANGED asked
           \/ \E k \in Turns : asked[k] = {} /\ asked' = [asked EXCEPT ![k] = pending]
    BY <1>2, StartTurnAsked DEF FlushStarts
  <2>2. /\ pending \in SUBSET (1 .. heard)
        /\ pending \cap (pending' \cup queued') = {}
        /\ \A s \in Tasks : pending \cap taken'[s] = {}
        /\ \A k \in Turns : pending \cap asked[k] = {}
    BY <2>1 DEF AskedOnce, SaidBefore
  <2> QED
    BY <2>1, <2>2, HandedOver
<1>3. CASE FlushQueues(t)
  <2>1. /\ pending' = {} /\ queued' = pending
        /\ taken' = taken /\ heard' = heard /\ asked' = asked
    BY <1>3 DEF FlushQueues
  <2> QED
    BY <2>1 DEF AskedOnce, SaidBefore
<1>4. CASE FlushInterrupts(t)
  <2>1. /\ pending' = {} /\ queued' = queued
        /\ taken' = [taken EXCEPT ![t] = pending] /\ heard' = heard /\ asked' = asked
    BY <1>4 DEF FlushInterrupts
  <2> QED
    BY <2>1 DEF AskedOnce, SaidBefore, TypeOK
<1>5. CASE FlushResumes(t)
  <2>1. /\ pending' = pending /\ queued' = queued
        /\ taken' = [taken EXCEPT ![t] = {}] /\ heard' = heard
        /\ \/ UNCHANGED asked
           \/ \E k \in Turns : asked[k] = {} /\ asked' = [asked EXCEPT ![k] = taken[t]]
    BY <1>5, StartTurnAsked DEF FlushResumes
  <2>2. \A s \in Tasks : taken'[s] = IF s = t THEN {} ELSE taken[s]
    BY <2>1 DEF TypeOK
  <2>3. /\ taken[t] \in SUBSET (1 .. heard)
        /\ taken[t] \cap (pending' \cup queued') = {}
        /\ \A s \in Tasks : taken[t] \cap taken'[s] = {}
        /\ \A k \in Turns : taken[t] \cap asked[k] = {}
        /\ \A s \in Tasks : taken'[s] \subseteq taken[s]
    BY <2>1, <2>2 DEF AskedOnce, SaidBefore
  <2> QED
    BY <2>1, <2>3, HandedOver
<1> QED
  BY <1>1, <1>2, <1>3, <1>4, <1>5 DEF Shared, Flush

\* A turn asks what it takes off the queue.
LEMMA TurnOnce ==
  ASSUME Once, NEW k \in Turns, Turn(k)
  PROVE  AskedOnce' /\ SaidBefore'
<1> USE DEF Once
<1>1. CASE TurnBegins(k) \/ TurnSpeaks(k) \/ TurnEnds(k) \/ TurnSettles(k)
  BY <1>1, TextStays DEF TurnBegins, TurnSpeaks, TurnEnds, TurnSettles
<1>2. CASE TurnPopsQueue(k)
  <2>1. /\ pending' = pending /\ queued' = {} /\ taken' = taken /\ heard' = heard
        /\ \/ UNCHANGED asked
           \/ \E j \in Turns : asked[j] = {} /\ asked' = [asked EXCEPT ![j] = queued]
    BY <1>2, StartTurnAsked DEF TurnPopsQueue
  <2>2. /\ queued \in SUBSET (1 .. heard)
        /\ queued \cap (pending' \cup queued') = {}
        /\ \A t \in Tasks : queued \cap taken'[t] = {}
        /\ \A j \in Turns : queued \cap asked[j] = {}
    BY <2>1 DEF AskedOnce, SaidBefore
  <2> QED
    BY <2>1, <2>2, HandedOver
<1> QED
  BY <1>1, <1>2 DEF Turn

\* A final adds one thing never said before, first to the collector's hands and
\* then to the pending text.
LEMMA CollectsOnce ==
  ASSUME Once, Collects
  PROVE  AskedOnce' /\ SaidBefore'
<1> USE DEF Once
<1>1. ASSUME NEW r \in Results, Result(r)
      PROVE  AskedOnce' /\ SaidBefore'
  <2>1. CASE r.final
    <3>1. /\ pending' = pending /\ queued' = queued /\ asked' = asked
          /\ heard \in Nat /\ heard' = heard + 1
          /\ taken' = [taken EXCEPT ![Collector] = {heard + 1}]
      BY <1>1, <2>1 DEF Result, TypeOK
    <3> QED
      BY <3>1 DEF AskedOnce, SaidBefore, TypeOK, Tasks
  <2>2. CASE ~r.final
    <3>1. UNCHANGED talk
      BY <1>1, <2>2 DEF Result, talk
    <3> QED
      BY <3>1, TextStays
  <2> QED
    BY <2>1, <2>2
<1>2. CASE KeepWords
  <2>1. /\ pending' = pending \cup taken[Collector] /\ queued' = queued /\ asked' = asked
        /\ heard' = heard /\ taken' = [taken EXCEPT ![Collector] = {}]
        /\ Collector \in Tasks
    BY <1>2 DEF KeepWords, Tasks
  <2> QED
    BY <2>1 DEF AskedOnce, SaidBefore, TypeOK
<1>3. CASE BargeIn \/ EndpointReached \/ NewGrace \/ StreamEnds
  BY <1>3, TextStays DEF BargeIn, EndpointReached, NewGrace, StreamEnds
<1> QED
  BY <1>1, <1>2, <1>3 DEF Collects

\* So does a typed message, to the read loop's hands.
LEMMA HandlesOnce ==
  ASSUME Once, Handles
  PROVE  AskedOnce' /\ SaidBefore'
<1> USE DEF Once
<1>1. CASE Text
  <2>1. /\ pending' = pending /\ queued' = queued /\ asked' = asked
        /\ heard \in Nat /\ heard' = heard + 1
        /\ taken' = [taken EXCEPT ![Reader] = {heard + 1}]
    BY <1>1 DEF Text, TypeOK
  <2> QED
    BY <2>1 DEF AskedOnce, SaidBefore, TypeOK, Tasks
<1>2. CASE MicOn \/ MicOff \/ SetMode \/ Cancel \/ Overlong \/ AudioFails \/ Leaves \/ Closed
  BY <1>2, TextStays DEF MicOn, MicOff, SetMode, Cancel, Overlong, AudioFails, Leaves, Closed
<1> QED
  BY <1>1, <1>2 DEF Handles

\* Opening the microphone forgets text; a typed message's turn is given what
\* the read loop held.
LEMMA ReadsOnce ==
  ASSUME Once, Reads
  PROVE  AskedOnce' /\ SaidBefore'
<1> USE DEF Once
<1>1. CASE OpensStt
  <2>1. pending' = {} /\ UNCHANGED <<queued, taken, asked, heard>>
    BY <1>1 DEF OpensStt
  <2> QED
    BY <2>1 DEF AskedOnce, SaidBefore
<1>2. CASE BeginText
  <2>1. /\ UNCHANGED <<pending, queued, asked, heard>>
        /\ taken' = taken \/ taken' = [taken EXCEPT ![Reader] = {}]
    BY <1>2 DEF BeginText
  <2> QED
    BY <2>1 DEF AskedOnce, SaidBefore, TypeOK
<1>3. CASE SpawnText
  <2>1. /\ UNCHANGED <<pending, queued, heard>>
        /\ taken' = [taken EXCEPT ![Reader] = {}]
        /\ \E j \in Turns : asked[j] = {} /\ asked' = [asked EXCEPT ![j] = taken[Reader]]
    BY <1>3 DEF SpawnText, Spawn
  <2> QED
    BY <2>1 DEF AskedOnce, SaidBefore, TypeOK, Tasks
<1>4. CASE StopCollector
  <2>1. /\ UNCHANGED <<pending, queued, asked, heard>>
        /\ taken' = taken \/ taken' = [taken EXCEPT ![Collector] = {}]
    BY <1>4 DEF StopCollector
  <2> QED
    BY <2>1 DEF AskedOnce, SaidBefore, TypeOK
<1>5. CASE \/ CloseStt \/ SttOpened \/ SttRefused \/ Finish
           \/ Finished \/ Report \/ GoIdle
  BY <1>5, TextStays DEF CloseStt, SttOpened, SttRefused, Finish, Finished, Report, GoIdle
<1> QED
  BY <1>1, <1>2, <1>3, <1>4, <1>5 DEF Reads

\* It holds of every state, with what it rests on.
LEMMA OnceAlways == Spec => []Once
<1>1. Init => AskedOnce /\ SaidBefore
  BY DEF Init, AskedOnce, SaidBefore
<1>2. Once /\ [Next]_vars => AskedOnce' /\ SaidBefore'
  <2>1. CASE Next
    BY <2>1, SharedOnce, TurnOnce, CollectsOnce, HandlesOnce, ReadsOnce DEF Next
  <2>2. CASE UNCHANGED vars
    BY <2>2, TextStays DEF vars, Once
  <2> QED
    BY <2>1, <2>2
<1> QED
  BY <1>1, <1>2, TypeCorrect, PTL DEF Spec, Once

\* Nothing the visitor says is ever handed to two turns, or both handed over
\* and kept: the take-and-clear of _flush_pending and of _run_turn's `finally`
\* happens before any other task can run.
THEOREM NothingAskedTwice == Spec => []AskedOnce
BY OnceAlways, PTL DEF Once

-----------------------------------------------------------------------------
(***************************************************************************)
(* The session implements QuestionLife.                                    *)
(***************************************************************************)
Holding == pending \cup queued \cup UNION {taken[t] : t \in Tasks}

\* Where a thing that was said stands, one case at a time.
LEMMA StandingIs ==
  ASSUME Once, NEW u \in Heard
  PROVE  /\ u > heard => Standing(u) = "unsaid"
         /\ \A k \in Turns : u \in asked[k] => Standing(u) = IF Live(k) THEN "answering" ELSE "over"
         /\ u \in Holding => Standing(u) = "held"
         /\ u <= heard /\ (\A k \in Turns : u \notin asked[k]) /\ u \notin Holding
              => Standing(u) = "dropped"
<1>0. u \in Nat /\ heard \in Nat
  BY DEF Once, TypeOK, Heard
<1>1. \A k \in Turns : u \in asked[k] =>
         u <= heard /\ u \notin Holding /\ \A j \in Turns : u \in asked[j] => j = k
  BY <1>0 DEF Once, AskedOnce, SaidBefore, Holding
<1>2. u \in Holding => u <= heard /\ \A k \in Turns : u \notin asked[k]
  BY <1>0 DEF Once, AskedOnce, SaidBefore, Holding
<1>3. CASE u > heard
  BY <1>0, <1>1, <1>2, <1>3 DEF Standing, Holding
<1>4. ASSUME NEW k \in Turns, u \in asked[k]
      PROVE  Standing(u) = IF Live(k) THEN "answering" ELSE "over"
  BY <1>0, <1>1, <1>4 DEF Standing, Holding
<1>5. CASE u \in Holding
  BY <1>0, <1>2, <1>5 DEF Standing, Holding
<1>6. CASE u <= heard /\ (\A k \in Turns : u \notin asked[k]) /\ u \notin Holding
  BY <1>0, <1>6 DEF Standing, Holding
<1> QED
  BY <1>0, <1>1, <1>2, <1>3, <1>4, <1>5, <1>6


\* A turn that is over stays over, and a spawned one begins.
StaysOver == \A k \in Turns : asked[k] # {} /\ Live(k)' => Live(k)
Begins == \A k \in Turns : asked'[k] = asked[k] \/ (/\ asked[k] = {} /\ asked'[k] \subseteq Holding
                                                    /\ Live(k)')

\* What is enough for every thing said to make one of its moves, or none.
LEMMA MovesOn ==
  ASSUME Once, Once', StaysOver, Begins, heard <= heard',
         Holding' \cap (1 .. heard) \subseteq Holding,
         (1 .. heard') \ (1 .. heard) \subseteq Holding'
  PROVE  Life!Next
<1>0. heard \in Nat /\ heard' \in Nat
  BY DEF Once, TypeOK
<1>1. ASSUME NEW u \in Heard
      PROVE  /\ Standing(u)' \in Life!Status
             /\ Standing(u)' = Standing(u) \/ <<Standing(u), Standing(u)'>> \in Life!Moves
  <2>0. u \in Nat /\ u >= 1
    BY DEF Heard
  <2>1. /\ u > heard' => Standing(u)' = "unsaid"
        /\ \A k \in Turns : u \in asked'[k] =>
             Standing(u)' = IF Live(k)' THEN "answering" ELSE "over"
        /\ u \in Holding' => Standing(u)' = "held"
        /\ u <= heard' /\ (\A k \in Turns : u \notin asked'[k]) /\ u \notin Holding'
             => Standing(u)' = "dropped"
    <3>1. (Once => /\ u > heard => Standing(u) = "unsaid"
                   /\ \A k \in Turns : u \in asked[k] =>
                        Standing(u) = IF Live(k) THEN "answering" ELSE "over"
                   /\ u \in Holding => Standing(u) = "held"
                   /\ u <= heard /\ (\A k \in Turns : u \notin asked[k]) /\ u \notin Holding
                        => Standing(u) = "dropped")'
      BY StandingIs, PTL
    <3> QED
      BY <3>1 DEF Turns
  <2>2. /\ u > heard => Standing(u) = "unsaid"
        /\ \A k \in Turns : u \in asked[k] =>
             Standing(u) = IF Live(k) THEN "answering" ELSE "over"
        /\ u \in Holding => Standing(u) = "held"
        /\ u <= heard /\ (\A k \in Turns : u \notin asked[k]) /\ u \notin Holding
             => Standing(u) = "dropped"
    BY StandingIs
  <2>3. \A k \in Turns : u \in asked'[k] => u \notin Holding'
    BY DEF Once, AskedOnce, Holding
  <2>4. \A k \in Turns : u \in asked[k] => u <= heard /\ asked'[k] = asked[k]
    BY <1>0 DEF Once, SaidBefore, Begins
  <2>5. CASE u > heard'
    BY <1>0, <2>0, <2>1, <2>2, <2>5 DEF Life!Status
  <2>6. CASE u > heard /\ u <= heard'
    <3>1. u \in Holding'
      BY <1>0, <2>0, <2>6
    <3> QED
      BY <2>1, <2>2, <2>6, <3>1 DEF Life!Status, Life!Moves
  <2>7. CASE \E k \in Turns : u \in asked[k]
    <3>1. PICK k \in Turns : u \in asked[k]
      BY <2>7
    <3>2. Live(k)' => Live(k)
      BY <3>1 DEF StaysOver
    <3>3. u \in asked'[k]
      BY <2>4, <3>1
    <3>4. Standing(u) = (IF Live(k) THEN "answering" ELSE "over")
          /\ Standing(u)' = (IF Live(k)' THEN "answering" ELSE "over")
      BY <2>1, <2>2, <3>1, <3>3
    <3> QED
      BY <3>2, <3>4 DEF Life!Status, Life!Moves
  <2>8. CASE u \in Holding
    <3>1. u <= heard'
      BY <1>0, <2>0, <2>8 DEF Once, SaidBefore, Holding
    <3>2. \A k \in Turns : u \in asked'[k] => Live(k)'
      <4> TAKE k \in Turns
      <4>1. u \notin asked[k]
        BY <2>8 DEF Once, AskedOnce, Holding
      <4> QED
        BY <4>1 DEF Begins
    <3> QED
      BY <2>1, <2>2, <2>8, <3>1, <3>2 DEF Life!Status, Life!Moves
  <2>9. CASE u <= heard /\ (\A k \in Turns : u \notin asked[k]) /\ u \notin Holding
    <3>1. u <= heard' /\ u \notin Holding'
      BY <1>0, <2>0, <2>9
    <3>2. \A k \in Turns : u \notin asked'[k]
      BY <2>9 DEF Begins
    <3> QED
      BY <2>1, <2>2, <2>9, <3>1, <3>2 DEF Life!Status, Life!Moves
  <2> QED
    BY <1>0, <2>0, <2>5, <2>6, <2>7, <2>8, <2>9
<1> QED
  BY <1>1 DEF Life!Next, Heard

\* Only what was live, and what it starts, is live after a step.
LEMMA JoinWakes ==
  ASSUME LoopOK, NEW t \in Tasks, NEW x \in Tasks, NEW p, Live(t), Live(x),
         CancelAndJoin(t, x, p)
  PROVE  \A s \in Tasks : Live(s)' => Live(s)
<1>1. Victim(x) = Free \/ (Victim(x) \in Tasks /\ Live(Victim(x)))
  BY DEF Victim, LoopOK
<1>2. Cancelled(x) = todo \/ \E v \in Tasks : /\ Live(v)
                                              /\ Cancelled(x) = [todo EXCEPT ![v] = Unwound(@)]
  BY <1>1 DEF Cancelled
<1>3. \A s \in Tasks : Cancelled(x)[s] # Quiet => Live(s)
  BY <1>2 DEF LoopOK, Live
<1>4. todo' = [Cancelled(x) EXCEPT ![t] = p]
  BY DEF CancelAndJoin
<1>5. \A s \in Tasks : s # t => todo'[s] = Cancelled(x)[s]
  BY <1>2, <1>4 DEF LoopOK
<1>6. \A s \in Tasks : todo'[s] # Quiet => Live(s)
  BY <1>3, <1>5
<1> QED
  BY <1>6 DEF Live, Quiet

\* A step that changes one program wakes nobody.
LEMMA ThenWakes ==
  ASSUME LoopOK, NEW t \in Tasks, NEW p, Live(t), todo' = [todo EXCEPT ![t] = p]
  PROVE  \A s \in Tasks : Live(s)' => Live(s)
BY DEF LoopOK, Live, Quiet

\* A spawned turn answers what was held; nobody else wakes.
LEMMA StartTurnWakes ==
  ASSUME LoopOK, asked \in [Turns -> SUBSET Heard],
         NEW td \in [Tasks -> Seq(Steps)], NEW text, text \subseteq Holding, StartTurn(td, text),
         \A s \in Tasks : td[s] # Quiet => Live(s)
  PROVE  StaysOver /\ Begins
<1>1. CASE UNCHANGED asked /\ todo' = td
  BY <1>1 DEF StaysOver, Begins, Live, Quiet, Tasks
<1>2. CASE Spawn(td, text)
  <2>1. PICK k \in Turns : /\ asked[k] = {} /\ asked' = [asked EXCEPT ![k] = text]
                           /\ todo' = [td EXCEPT ![k] = <<"begin">>]
    BY <1>2 DEF Spawn
  <2>2. todo'[k] # <<>> /\ \A j \in Turns : j # k => todo'[j] = td[j] /\ asked'[j] = asked[j]
    BY <2>1 DEF Tasks
  <2>3. asked'[k] = text
    BY <2>1
  <2> QED
    BY <2>1, <2>2, <2>3 DEF StaysOver, Begins, Live, Quiet, Tasks
<1> QED
  BY <1>1, <1>2 DEF StartTurn

\* A step that moves no text and starts no turn.
LEMMA TextRests ==
  ASSUME Once, Once', UNCHANGED talk, \A s \in Turns : Live(s)' => Live(s)
  PROVE  Life!Next
<1>1. heard \in Nat /\ Holding' = Holding /\ heard' = heard /\ asked' = asked
  BY DEF Once, TypeOK, Holding, talk
<1>2. StaysOver /\ Begins
  BY <1>1 DEF StaysOver, Begins
<1> QED
  BY <1>1, <1>2, MovesOn

\* Words move on in the steps the tasks share.
LEMMA SharedMoves ==
  ASSUME Once, Once', NEW t \in Tasks, Shared(t)
  PROVE  Life!Next
<1>0. LoopOK /\ TypeOK /\ heard \in Nat /\ Turns \subseteq Tasks /\ Live(t)
  BY TypeLoop, RunsLive DEF Once, TypeOK, Tasks, Shared, Flush, CancelTurn, CancelGrace,
     FlushNothing, FlushStarts, FlushQueues, FlushInterrupts, FlushResumes, SetResting
<1>r. [todo EXCEPT ![t] = Rest(t)] \in [Tasks -> Seq(Steps)]
      /\ \A s \in Tasks : [todo EXCEPT ![t] = Rest(t)][s] # Quiet => Live(s)
  <2>1. Rest(t) \in Seq(Steps)
    BY <1>0, RestType
  <2> QED
    BY <1>0, <2>1 DEF LoopOK, Live
<1>1. CASE CancelTurn(t) \/ CancelGrace(t) \/ FlushNothing(t) \/ SetResting(t)
  <2>1. CASE CancelTurn(t) /\ turnTask # Free /\ Live(turnTask)
    <3>1. turnTask \in Tasks /\ CancelAndJoin(t, turnTask, Rest(t))
      BY <1>0, <2>1 DEF CancelTurn, TypeOK
    <3>2. \A s \in Tasks : Live(s)' => Live(s)
      BY <1>0, <2>1, <3>1, JoinWakes
    <3> QED
      BY <1>0, <2>1, <3>2, TextRests DEF CancelTurn
  <2>2. CASE CancelGrace(t) /\ graceTask # Free /\ Live(graceTask)
    <3>1. graceTask \in Tasks /\ CancelAndJoin(t, graceTask, Rest(t))
      BY <1>0, <2>2 DEF CancelGrace, TypeOK, Tasks
    <3>2. \A s \in Tasks : Live(s)' => Live(s)
      BY <1>0, <2>2, <3>1, JoinWakes
    <3> QED
      BY <1>0, <2>2, <3>2, TextRests DEF CancelGrace
  <2>3. CASE todo' = [todo EXCEPT ![t] = Rest(t)]
    <3>1. \A s \in Tasks : Live(s)' => Live(s)
      BY <1>0, <2>3, ThenWakes
    <3>2. UNCHANGED talk
      BY <1>1 DEF CancelTurn, CancelGrace, FlushNothing, SetResting
    <3> QED
      BY <1>0, <3>1, <3>2, TextRests
  <2> QED
    BY <1>1, <2>1, <2>2, <2>3 DEF CancelTurn, CancelGrace, FlushNothing, SetResting, Then
<1>2. CASE FlushStarts(t)
  <2>1. /\ pending' = {} /\ queued' = queued /\ taken' = taken /\ heard' = heard
        /\ StartTurn([todo EXCEPT ![t] = Rest(t)], pending)
    BY <1>2 DEF FlushStarts
  <2>2. StaysOver /\ Begins
    BY <1>0, <1>r, <2>1, StartTurnWakes DEF TypeOK, Holding
  <2> QED
    BY <1>0, <2>1, <2>2, MovesOn DEF Holding
<1>3. CASE FlushQueues(t)
  <2>1. /\ pending' = {} /\ queued' = pending /\ Then(t, Rest(t))
        /\ taken' = taken /\ heard' = heard /\ asked' = asked
    BY <1>3 DEF FlushQueues
  <2>2. \A s \in Tasks : Live(s)' => Live(s)
    BY <1>0, <2>1, ThenWakes DEF Then
  <2>3. StaysOver /\ Begins
    BY <1>0, <2>1, <2>2 DEF StaysOver, Begins
  <2> QED
    BY <1>0, <2>1, <2>3, MovesOn DEF Holding
<1>4. CASE FlushInterrupts(t)
  <2>1. /\ pending' = {} /\ queued' = queued
        /\ taken' = [taken EXCEPT ![t] = pending] /\ heard' = heard /\ asked' = asked
        /\ turnTask \in Tasks /\ Live(turnTask)
        /\ CancelAndJoin(t, turnTask, <<"start">> \o Rest(t))
    BY <1>0, <1>4 DEF FlushInterrupts, Busy, TypeOK
  <2>2. \A s \in Tasks : Live(s)' => Live(s)
    BY <1>0, <2>1, JoinWakes
  <2>3. StaysOver /\ Begins
    BY <1>0, <2>1, <2>2 DEF StaysOver, Begins
  <2>4. \A s \in Tasks : taken'[s] = pending \/ taken'[s] = taken[s]
    BY <1>0, <2>1 DEF TypeOK
  <2>5. Holding' \subseteq Holding
    BY <2>1, <2>4 DEF Holding
  <2> QED
    BY <1>0, <2>1, <2>3, <2>5, MovesOn
<1>5. CASE FlushResumes(t)
  <2>1. /\ pending' = pending /\ queued' = queued
        /\ taken' = [taken EXCEPT ![t] = {}] /\ heard' = heard
        /\ StartTurn([todo EXCEPT ![t] = Rest(t)], taken[t])
    BY <1>5 DEF FlushResumes
  <2>2. StaysOver /\ Begins
    <3>1. taken[t] \subseteq Holding
      BY DEF Holding
    <3> QED
      BY <1>0, <1>r, <2>1, <3>1, StartTurnWakes DEF TypeOK
  <2>3. \A s \in Tasks : taken'[s] \subseteq taken[s]
    BY <1>0, <2>1 DEF TypeOK
  <2>4. Holding' \subseteq Holding
    BY <2>1, <2>3 DEF Holding
  <2> QED
    BY <1>0, <2>1, <2>2, <2>4, MovesOn
<1> QED
  BY <1>1, <1>2, <1>3, <1>4, <1>5 DEF Shared, Flush

\* A turn is over when it pops the queue, and what was queued is answered.
LEMMA TurnMoves ==
  ASSUME Once, Once', NEW k \in Turns, Turn(k)
  PROVE  Life!Next
<1>0. LoopOK /\ TypeOK /\ heard \in Nat /\ k \in Tasks /\ Turns \subseteq Tasks /\ Live(k)
  BY TypeLoop, RunsLive DEF Once, TypeOK, Tasks, Turn, TurnBegins, TurnSpeaks, TurnEnds,
     TurnSettles, TurnPopsQueue
<1>1. CASE TurnBegins(k) \/ TurnSpeaks(k) \/ TurnEnds(k) \/ TurnSettles(k)
  <2>1. PICK p : todo' = [todo EXCEPT ![k] = p]
    BY <1>1 DEF TurnBegins, TurnSpeaks, TurnEnds, TurnSettles, Then
  <2>2. \A s \in Tasks : Live(s)' => Live(s)
    BY <1>0, <2>1, ThenWakes
  <2> QED
    BY <1>0, <1>1, <2>2, TextRests DEF TurnBegins, TurnSpeaks, TurnEnds, TurnSettles
<1>2. CASE TurnPopsQueue(k)
  <2>1. pending' = pending /\ queued' = {} /\ taken' = taken /\ heard' = heard
    BY <1>2 DEF TurnPopsQueue
  <2>2. CASE todo' = [todo EXCEPT ![k] = Quiet] /\ asked' = asked
    <3>1. \A s \in Tasks : Live(s)' => Live(s)
      BY <1>0, <2>2, ThenWakes
    <3> QED
      BY <1>0, <2>1, <2>2, <3>1, MovesOn DEF StaysOver, Begins, Holding
  <2>3. CASE StartTurn([todo EXCEPT ![k] = Quiet], queued)
    <3>1. [todo EXCEPT ![k] = Quiet] \in [Tasks -> Seq(Steps)]
          /\ \A s \in Tasks : [todo EXCEPT ![k] = Quiet][s] # Quiet => Live(s)
      BY <1>0 DEF LoopOK, Live, Quiet
    <3>2. StaysOver /\ Begins
      BY <1>0, <2>3, <3>1, StartTurnWakes DEF TypeOK, Holding
    <3> QED
      BY <1>0, <2>1, <3>2, MovesOn DEF Holding
  <2> QED
    BY <1>2, <2>2, <2>3 DEF TurnPopsQueue
<1> QED
  BY <1>1, <1>2 DEF Turn

\* A final is held from the moment it is read.
LEMMA CollectsMoves ==
  ASSUME Once, Once', Collects
  PROVE  Life!Next
<1>0. LoopOK /\ TypeOK /\ heard \in Nat /\ Collector \in Tasks /\ Turns \subseteq Tasks
      /\ Live(Collector)
  BY TypeLoop, RunsLive DEF Once, TypeOK, Tasks, Collects, Result, KeepWords, BargeIn,
     EndpointReached, NewGrace, StreamEnds
<1>1. ASSUME NEW r \in Results, Result(r)
      PROVE  Life!Next
  <2>1. \A s \in Tasks : Live(s)' => Live(s)
    BY <1>0, <1>1, ThenWakes DEF Result
  <2>2. CASE r.final
    <3>1. /\ pending' = pending /\ queued' = queued /\ asked' = asked /\ heard' = heard + 1
          /\ taken' = [taken EXCEPT ![Collector] = {heard + 1}]
      BY <1>1, <2>2 DEF Result
    <3>2. StaysOver /\ Begins
      BY <1>0, <2>1, <3>1 DEF StaysOver, Begins
    <3>3. \A s \in Tasks : taken'[s] = {heard + 1} \/ taken'[s] = taken[s]
      BY <1>0, <3>1 DEF TypeOK
    <3>4. heard + 1 \in taken'[Collector]
      BY <1>0, <3>1 DEF TypeOK
    <3>5. Holding' \subseteq Holding \cup {heard + 1} /\ heard + 1 \in Holding'
      BY <1>0, <3>1, <3>3, <3>4 DEF Holding
    <3> QED
      BY <1>0, <3>1, <3>2, <3>5, MovesOn
  <2>3. CASE ~r.final
    <3>1. UNCHANGED talk
      BY <1>1, <2>3 DEF Result, talk
    <3> QED
      BY <1>0, <2>1, <3>1, TextRests
  <2> QED
    BY <2>2, <2>3
<1>2. CASE BargeIn \/ EndpointReached \/ StreamEnds
  <2>1. PICK p : todo' = [todo EXCEPT ![Collector] = p]
    BY <1>2 DEF BargeIn, EndpointReached, StreamEnds, Then
  <2>2. \A s \in Tasks : Live(s)' => Live(s)
    BY <1>0, <2>1, ThenWakes
  <2> QED
    BY <1>0, <1>2, <2>2, TextRests DEF BargeIn, EndpointReached, StreamEnds
<1>3. CASE NewGrace
  <2>1. PICK g \in Graces :
          todo' = [todo EXCEPT ![g] = <<"flush">>, ![Collector] = Rest(Collector)]
    BY <1>3 DEF NewGrace
  <2>2. \A s \in Turns : s # g /\ s # Collector
    BY NamesAssumption, BoundsAssumption DEF Turns
  <2>3. \A s \in Turns : Live(s)' => Live(s)
    BY <1>0, <2>1, <2>2 DEF LoopOK, Live, Quiet
  <2> QED
    BY <1>0, <1>3, <2>3, TextRests DEF NewGrace
<1>4. CASE KeepWords
  <2>1. /\ pending' = pending \cup taken[Collector] /\ queued' = queued /\ asked' = asked
        /\ heard' = heard /\ taken' = [taken EXCEPT ![Collector] = {}]
        /\ Then(Collector, Rest(Collector))
    BY <1>4 DEF KeepWords
  <2>2. \A s \in Tasks : Live(s)' => Live(s)
    BY <1>0, <2>1, ThenWakes DEF Then
  <2>3. StaysOver /\ Begins
    BY <1>0, <2>1, <2>2 DEF StaysOver, Begins
  <2>4. \A s \in Tasks : taken'[s] \subseteq taken[s]
    BY <1>0, <2>1 DEF TypeOK
  <2>5. Holding' \subseteq Holding
    BY <1>0, <2>1, <2>4 DEF Holding
  <2> QED
    BY <1>0, <2>1, <2>3, <2>5, MovesOn
<1> QED
  BY <1>1, <1>2, <1>3, <1>4 DEF Collects

\* So is a typed message.
LEMMA HandlesMoves ==
  ASSUME Once, Once', Handles
  PROVE  Life!Next
<1>0. LoopOK /\ TypeOK /\ heard \in Nat /\ Reader \in Tasks /\ Turns \subseteq Tasks /\ Live(Reader)
  BY TypeLoop, RunsLive DEF Once, TypeOK, Tasks, Handles, MicOn, MicOff, SetMode, Cancel, Text,
     Overlong, AudioFails, Leaves, Closed, Receives
<1>1. PICK p : todo' = [todo EXCEPT ![Reader] = p]
  BY DEF Handles, MicOn, MicOff, SetMode, Cancel, Text, Overlong, AudioFails, Leaves, Closed,
     Receives, Then
<1>2. \A s \in Tasks : Live(s)' => Live(s)
  BY <1>0, <1>1, ThenWakes
<1>3. CASE Text
  <2>1. /\ pending' = pending /\ queued' = queued /\ asked' = asked /\ heard' = heard + 1
        /\ taken' = [taken EXCEPT ![Reader] = {heard + 1}]
    BY <1>3 DEF Text
  <2>2. StaysOver /\ Begins
    BY <1>0, <1>2, <2>1 DEF StaysOver, Begins
  <2>3. \A s \in Tasks : taken'[s] = {heard + 1} \/ taken'[s] = taken[s]
    BY <1>0, <2>1 DEF TypeOK
  <2>4. heard + 1 \in taken'[Reader]
    BY <1>0, <2>1 DEF TypeOK
  <2>5. Holding' \subseteq Holding \cup {heard + 1} /\ heard + 1 \in Holding'
    BY <1>0, <2>1, <2>3, <2>4 DEF Holding
  <2> QED
    BY <1>0, <2>1, <2>2, <2>5, MovesOn
<1>4. CASE MicOn \/ MicOff \/ SetMode \/ Cancel \/ Overlong \/ AudioFails \/ Leaves \/ Closed
  BY <1>0, <1>2, <1>4, TextRests DEF MicOn, MicOff, SetMode, Cancel, Overlong, AudioFails,
     Leaves, Closed
<1> QED
  BY <1>3, <1>4 DEF Handles

\* The read loop drops what is pending, or hands over what it holds.
LEMMA ReadsMoves ==
  ASSUME Once, Once', Reads
  PROVE  Life!Next
<1>0. LoopOK /\ TypeOK /\ heard \in Nat /\ Reader \in Tasks /\ Turns \subseteq Tasks /\ Live(Reader)
  BY TypeLoop, RunsLive DEF Once, TypeOK, Tasks, Reads, CloseStt, StopCollector, OpensStt,
     SttOpened, SttRefused, Finish, Finished, Report, GoIdle, BeginText, SpawnText
<1>1. CASE CloseStt \/ SttRefused \/ Finish \/ Finished \/ Report \/ GoIdle
  <2>1. PICK p : todo' = [todo EXCEPT ![Reader] = p]
    BY <1>1 DEF CloseStt, SttRefused, Finish, Finished, Report, GoIdle, Then
  <2>2. \A s \in Tasks : Live(s)' => Live(s)
    BY <1>0, <2>1, ThenWakes
  <2> QED
    BY <1>0, <1>1, <2>2, TextRests DEF CloseStt, SttRefused, Finish, Finished, Report, GoIdle
<1>2. CASE StopCollector
  <2>1. \A s \in Tasks : Live(s)' => Live(s)
    <3>1. CASE Live(Collector)
      <4>1. CancelAndJoin(Reader, Collector, Rest(Reader)) /\ Collector \in Tasks
        BY <1>2, <3>1 DEF StopCollector, Tasks
      <4> QED
        BY <1>0, <3>1, <4>1, JoinWakes
    <3>2. CASE ~Live(Collector)
      BY <1>0, <1>2, <3>2, ThenWakes DEF StopCollector, Then
    <3> QED
      BY <3>1, <3>2
  <2> QED
    <3>1. /\ UNCHANGED <<pending, queued, asked, heard>>
          /\ taken' = taken \/ taken' = [taken EXCEPT ![Collector] = {}]
      BY <1>2 DEF StopCollector
    <3>2. StaysOver /\ Begins
      BY <1>0, <2>1, <3>1 DEF StaysOver, Begins
    <3>3. \A s \in Tasks : taken'[s] \subseteq taken[s]
      BY <1>0, <3>1 DEF TypeOK
    <3>4. Holding' \subseteq Holding
      BY <3>1, <3>3 DEF Holding
    <3> QED
      BY <1>0, <3>1, <3>2, <3>4, MovesOn
<1>3. CASE SttOpened
  <2>1. todo' = [todo EXCEPT ![Collector] = <<"results">>, ![Reader] = Rest(Reader)]
    BY <1>3 DEF SttOpened
  <2>2. \A s \in Turns : s # Reader /\ s # Collector
    BY NamesAssumption, BoundsAssumption DEF Turns
  <2>3. \A s \in Turns : Live(s)' => Live(s)
    BY <1>0, <2>1, <2>2 DEF LoopOK, Live, Quiet
  <2> QED
    BY <1>0, <1>3, <2>3, TextRests DEF SttOpened
<1>4. CASE OpensStt
  <2>1. pending' = {} /\ UNCHANGED <<queued, taken, asked, heard>>
        /\ Then(Reader, <<"opened">> \o Rest(Reader))
    BY <1>4 DEF OpensStt
  <2>2. \A s \in Tasks : Live(s)' => Live(s)
    BY <1>0, <2>1, ThenWakes DEF Then
  <2> QED
    BY <1>0, <2>1, <2>2, MovesOn DEF StaysOver, Begins, Holding
<1>5. CASE BeginText
  <2>1. /\ UNCHANGED <<pending, queued, asked, heard>>
        /\ taken' = taken \/ taken' = [taken EXCEPT ![Reader] = {}]
    BY <1>5 DEF BeginText
  <2>2. PICK p : todo' = [todo EXCEPT ![Reader] = p]
    BY <1>5 DEF BeginText, Then
  <2>3. \A s \in Tasks : Live(s)' => Live(s)
    BY <1>0, <2>2, ThenWakes
  <2>4. StaysOver /\ Begins
    BY <1>0, <2>1, <2>3 DEF StaysOver, Begins
  <2>5. \A s \in Tasks : taken'[s] \subseteq taken[s]
    BY <1>0, <2>1 DEF TypeOK
  <2>6. Holding' \subseteq Holding
    BY <2>1, <2>5 DEF Holding
  <2> QED
    BY <1>0, <2>1, <2>4, <2>6, MovesOn
<1>6. CASE SpawnText
  <2>1. /\ UNCHANGED <<pending, queued, heard>>
        /\ taken' = [taken EXCEPT ![Reader] = {}]
        /\ Spawn([todo EXCEPT ![Reader] = Rest(Reader)], taken[Reader])
    BY <1>6 DEF SpawnText
  <2>2. PICK k \in Turns :
          /\ asked[k] = {} /\ asked' = [asked EXCEPT ![k] = taken[Reader]]
          /\ todo' = [[todo EXCEPT ![Reader] = Rest(Reader)] EXCEPT ![k] = <<"begin">>]
    BY <2>1 DEF Spawn
  <2>3. taken[Reader] \subseteq Holding
    BY <1>0 DEF Holding
  <2>4. asked'[k] = taken[Reader] /\ \A j \in Turns : j # k => asked'[j] = asked[j]
    BY <1>0, <2>2 DEF TypeOK
  <2>5. todo'[k] # <<>> /\ \A j \in Turns : j # k => (todo'[j] # <<>> => Live(j))
    BY <1>0, <2>2 DEF LoopOK, Live, Quiet
  <2>6. StaysOver /\ Begins
    BY <2>2, <2>3, <2>4, <2>5 DEF StaysOver, Begins, Live, Quiet
  <2>7. \A s \in Tasks : taken'[s] \subseteq taken[s]
    BY <1>0, <2>1 DEF TypeOK
  <2>8. Holding' \subseteq Holding
    BY <2>1, <2>7 DEF Holding
  <2> QED
    BY <1>0, <2>1, <2>6, <2>8, MovesOn
<1> QED
  BY <1>1, <1>2, <1>3, <1>4, <1>5, <1>6 DEF Reads

\* The session implements QuestionLife: each thing the visitor says is held once
\* it has been heard, then handed to one turn or dropped, and never comes back.
THEOREM ImplementsQuestionLife == Spec => Lifecycle
<1>1. Init => Life!Init
  <2> SUFFICES ASSUME Init PROVE Life!Init
    OBVIOUS
  <2>1. \A u \in Heard : u > heard
    BY DEF Init, Heard
  <2>2. \A u \in Heard : Standing(u) = "unsaid"
    <3> TAKE u \in Heard
    <3>1. ~(\E k \in Turns : u \in asked[k] /\ Live(k))
      BY DEF Init
    <3>2. ~(\E k \in Turns : u \in asked[k] /\ ~Live(k))
      BY DEF Init
    <3>3. u \notin pending \cup queued \cup UNION {taken[t] : t \in Tasks}
      BY DEF Init
    <3>4. u > heard
      BY <2>1
    <3> QED
      BY <3>1, <3>2, <3>3, <3>4 DEF Standing
  <2> QED
    BY <2>2 DEF Life!Init
<1>2. Once /\ Once' /\ [Next]_vars => Life!Next
  <2> SUFFICES ASSUME Once, Once', [Next]_vars PROVE Life!Next
    OBVIOUS
  <2>1. CASE UNCHANGED vars
    BY <2>1, TextRests DEF vars, talk, Live, Quiet
  <2>2. CASE Next
    BY <2>2, SharedMoves, TurnMoves, CollectsMoves, HandlesMoves, ReadsMoves DEF Next
  <2> QED
    BY <2>1, <2>2
<1> QED
  BY <1>1, <1>2, OnceAlways, PTL DEF Spec, Lifecycle, Life!Spec

-----------------------------------------------------------------------------
(***************************************************************************)
(* The tasks' programs.  A turn, a timer, the collector and the read loop  *)
(* are each somewhere in one of a few programs; who awaits whom, whether   *)
(* the recogniser is open, which timer counts and what the session will    *)
(* show all follow from where they are.                                    *)
(***************************************************************************)
TurnPrograms == {Quiet, <<"begin">>, <<"stream">>, <<"unwind", "settle", "pop">>,
                 <<"settle", "pop">>, <<"pop">>}
GracePrograms == {Quiet, <<"flush">>, <<"start">>}
CollectorPrograms ==
  {Quiet, <<"results">>, <<"cancel_grace", "results">>, <<"cancel_grace", "barge", "results">>,
   <<"cancel_grace", "barge", "endpoint", "results">>,
   <<"keep", "cancel_grace", "barge", "results">>,
   <<"keep", "cancel_grace", "barge", "endpoint", "results">>,
   <<"barge", "results">>, <<"barge", "endpoint", "results">>, <<"endpoint", "results">>,
   <<"cancel_turn", "rest", "results">>, <<"cancel_turn", "rest", "endpoint", "results">>,
   <<"rest", "results">>, <<"rest", "endpoint", "results">>,
   <<"flush", "results">>, <<"start", "results">>,
   <<"cancel_grace", "new_grace", "results">>, <<"new_grace", "results">>}
Closings ==
  {<<"cancel_turn", "cancel_grace", "close_stt", "closed">>,
   <<"cancel_grace", "close_stt", "closed">>, <<"close_stt", "closed">>,
   <<"stop_collector", "closed">>, <<"closed">>}
Handlings ==
  {<<"receive">>, <<"close_stt", "open", "receive">>, <<"stop_collector", "open", "receive">>,
   <<"open", "receive">>, <<"opened", "receive">>,
   <<"cancel_grace", "finish", "receive">>, <<"finish", "receive">>, <<"finished", "receive">>,
   <<"flush", "close_stt", "report", "receive">>, <<"start", "close_stt", "report", "receive">>,
   <<"close_stt", "report", "receive">>, <<"stop_collector", "report", "receive">>,
   <<"report", "receive">>,
   <<"cancel_grace", "flush", "receive">>, <<"flush", "receive">>, <<"start", "receive">>,
   <<"cancel_turn", "rest", "receive">>, <<"rest", "receive">>,
   <<"cancel_turn", "begin_text", "receive">>, <<"begin_text", "receive">>,
   <<"spawn_text", "receive">>,
   <<"close_stt", "idle", "receive">>, <<"stop_collector", "idle", "receive">>,
   <<"idle", "receive">>}
ReaderPrograms == Closings \cup Handlings

Placed == /\ \A k \in Turns : todo[k] \in TurnPrograms
          /\ \A g \in Graces : todo[g] \in GracePrograms
          /\ todo[Collector] \in CollectorPrograms
          /\ todo[Reader] \in {Quiet} \cup ReaderPrograms

Doing(t, S) == Live(t) /\ Head(todo[t]) \in S

\* Who awaits whom: turns nobody, a timer and the collector the turn they have
\* cancelled, the collector also the timer.
Awaits ==
  /\ \A k \in Turns : on[k] = Free
  /\ \A g \in Graces : IF todo[g] = <<"start">> THEN on[g] \in Turns ELSE on[g] = Free
  /\ on[Collector] \in Turns \cup Graces \cup {Free}
  /\ ~Live(Collector) => on[Collector] = Free
  /\ on[Collector] \in Turns => Doing(Collector, {"rest", "start"})
  /\ Doing(Collector, {"rest", "start"}) => cpu = Collector \/ on[Collector] # Free

\* The collector runs only while its session is open or being closed.
SttOK ==
  /\ Live(Collector) => stt \/ on[Reader] = Collector \/ Doing(Reader, {"stop_collector"})
  /\ Doing(Reader, {"open", "opened", "stop_collector", "closed"}) => ~stt
  /\ ~Live(Reader) => ~stt /\ ~Live(Collector)

\* The only timer that can still fire is the remembered one.
TimerOK ==
  /\ \A g \in Graces : CountingDown(g) => graceTask = g
  /\ Doing(Collector, {"barge", "new_grace"}) => graceTask = Free

\* Somebody who will still say that the session rests, or nobody has to.
Promises(t, p) ==
  IF t = Reader
  THEN \/ p \in Closings \cup {Quiet}
       \/ p # Quiet /\ Head(p) \in {"rest", "start", "begin_text", "spawn_text"}
  ELSE p # Quiet /\ Head(p) \in {"rest", "start", "begin", "stream", "unwind", "settle"}
WillRest == closing \/ \E t \in Tasks : Promises(t, todo[t])
StateOK == state \in {"idle", "listening"} \/ WillRest

Shape == Placed /\ Awaits /\ SttOK /\ TimerOK /\ StateOK

\* Short literal sequences put one after the other.
LEMMA LiteralsJoined ==
  /\ \A a : <<>> \o <<a>> = <<a>>
  /\ \A a, b : <<>> \o <<a, b>> = <<a, b>>
  /\ \A a : <<a>> \o <<>> = <<a>>
  /\ \A a, b : <<a>> \o <<b>> = <<a, b>>
  /\ \A a, b, c : <<a>> \o <<b, c>> = <<a, b, c>>
  /\ \A a, b, c, d : <<a>> \o <<b, c, d>> = <<a, b, c, d>>
  /\ \A a, b, c : <<a, b>> \o <<c>> = <<a, b, c>>
  /\ \A a, b, c, d : <<a, b>> \o <<c, d>> = <<a, b, c, d>>
  /\ \A a, b, c, d : <<a, b, c>> \o <<d>> = <<a, b, c, d>>
  /\ \A a, b, c, d, e : <<a, b, c, d>> \o <<e>> = <<a, b, c, d, e>>
<1>1. ASSUME NEW a PROVE <<>> \o <<a>> = <<a>>
  <2> PICK S : S = {a}
    OBVIOUS
  <2>1. <<>> \in Seq(S) /\ <<a>> \in Seq(S) /\ <<a>> \in Seq(S)
    OBVIOUS
  <2>2. <<>> \o <<a>> \in Seq(S)
    BY <2>1, ConcatProperties
  <2>3. Len(<<>> \o <<a>>) = 1 /\ Len(<<a>>) = 1
    OBVIOUS
  <2>4. \A i \in 1 .. 1 : (<<>> \o <<a>>)[i] = <<a>>[i]
    OBVIOUS
  <2>5. \A i \in 1 .. Len(<<>> \o <<a>>) : (<<>> \o <<a>>)[i] = <<a>>[i]
    BY <2>3, <2>4, Zenon
  <2>6. Len(<<>> \o <<a>>) = Len(<<a>>)
    BY <2>3
  <2> QED
    BY <2>1, <2>2, <2>5, <2>6, SeqEqual, Zenon
<1>2. ASSUME NEW a, NEW b PROVE <<>> \o <<a, b>> = <<a, b>>
  <2> PICK S : S = {a, b}
    OBVIOUS
  <2>1. <<>> \in Seq(S) /\ <<a, b>> \in Seq(S) /\ <<a, b>> \in Seq(S)
    OBVIOUS
  <2>2. <<>> \o <<a, b>> \in Seq(S)
    BY <2>1, ConcatProperties
  <2>3. Len(<<>> \o <<a, b>>) = 2 /\ Len(<<a, b>>) = 2
    OBVIOUS
  <2>4. \A i \in 1 .. 2 : (<<>> \o <<a, b>>)[i] = <<a, b>>[i]
    OBVIOUS
  <2>5. \A i \in 1 .. Len(<<>> \o <<a, b>>) : (<<>> \o <<a, b>>)[i] = <<a, b>>[i]
    BY <2>3, <2>4, Zenon
  <2>6. Len(<<>> \o <<a, b>>) = Len(<<a, b>>)
    BY <2>3
  <2> QED
    BY <2>1, <2>2, <2>5, <2>6, SeqEqual, Zenon
<1>3. ASSUME NEW a PROVE <<a>> \o <<>> = <<a>>
  <2> PICK S : S = {a}
    OBVIOUS
  <2>1. <<a>> \in Seq(S) /\ <<>> \in Seq(S) /\ <<a>> \in Seq(S)
    OBVIOUS
  <2>2. <<a>> \o <<>> \in Seq(S)
    BY <2>1, ConcatProperties
  <2>3. Len(<<a>> \o <<>>) = 1 /\ Len(<<a>>) = 1
    OBVIOUS
  <2>4. \A i \in 1 .. 1 : (<<a>> \o <<>>)[i] = <<a>>[i]
    OBVIOUS
  <2>5. \A i \in 1 .. Len(<<a>> \o <<>>) : (<<a>> \o <<>>)[i] = <<a>>[i]
    BY <2>3, <2>4, Zenon
  <2>6. Len(<<a>> \o <<>>) = Len(<<a>>)
    BY <2>3
  <2> QED
    BY <2>1, <2>2, <2>5, <2>6, SeqEqual, Zenon
<1>4. ASSUME NEW a, NEW b PROVE <<a>> \o <<b>> = <<a, b>>
  <2> PICK S : S = {a, b}
    OBVIOUS
  <2>1. <<a>> \in Seq(S) /\ <<b>> \in Seq(S) /\ <<a, b>> \in Seq(S)
    OBVIOUS
  <2>2. <<a>> \o <<b>> \in Seq(S)
    BY <2>1, ConcatProperties
  <2>3. Len(<<a>> \o <<b>>) = 2 /\ Len(<<a, b>>) = 2
    OBVIOUS
  <2>4. \A i \in 1 .. 2 : (<<a>> \o <<b>>)[i] = <<a, b>>[i]
    OBVIOUS
  <2>5. \A i \in 1 .. Len(<<a>> \o <<b>>) : (<<a>> \o <<b>>)[i] = <<a, b>>[i]
    BY <2>3, <2>4, Zenon
  <2>6. Len(<<a>> \o <<b>>) = Len(<<a, b>>)
    BY <2>3
  <2> QED
    BY <2>1, <2>2, <2>5, <2>6, SeqEqual, Zenon
<1>5. ASSUME NEW a, NEW b, NEW c PROVE <<a>> \o <<b, c>> = <<a, b, c>>
  <2> PICK S : S = {a, b, c}
    OBVIOUS
  <2>1. <<a>> \in Seq(S) /\ <<b, c>> \in Seq(S) /\ <<a, b, c>> \in Seq(S)
    OBVIOUS
  <2>2. <<a>> \o <<b, c>> \in Seq(S)
    BY <2>1, ConcatProperties
  <2>3. Len(<<a>> \o <<b, c>>) = 3 /\ Len(<<a, b, c>>) = 3
    OBVIOUS
  <2>4. \A i \in 1 .. 3 : (<<a>> \o <<b, c>>)[i] = <<a, b, c>>[i]
    OBVIOUS
  <2>5. \A i \in 1 .. Len(<<a>> \o <<b, c>>) : (<<a>> \o <<b, c>>)[i] = <<a, b, c>>[i]
    BY <2>3, <2>4, Zenon
  <2>6. Len(<<a>> \o <<b, c>>) = Len(<<a, b, c>>)
    BY <2>3
  <2> QED
    BY <2>1, <2>2, <2>5, <2>6, SeqEqual, Zenon
<1>6. ASSUME NEW a, NEW b, NEW c, NEW d PROVE <<a>> \o <<b, c, d>> = <<a, b, c, d>>
  <2> PICK S : S = {a, b, c, d}
    OBVIOUS
  <2>1. <<a>> \in Seq(S) /\ <<b, c, d>> \in Seq(S) /\ <<a, b, c, d>> \in Seq(S)
    OBVIOUS
  <2>2. <<a>> \o <<b, c, d>> \in Seq(S)
    BY <2>1, ConcatProperties
  <2>3. Len(<<a>> \o <<b, c, d>>) = 4 /\ Len(<<a, b, c, d>>) = 4
    OBVIOUS
  <2>4. \A i \in 1 .. 4 : (<<a>> \o <<b, c, d>>)[i] = <<a, b, c, d>>[i]
    OBVIOUS
  <2>5. \A i \in 1 .. Len(<<a>> \o <<b, c, d>>) : (<<a>> \o <<b, c, d>>)[i] = <<a, b, c, d>>[i]
    BY <2>3, <2>4, Zenon
  <2>6. Len(<<a>> \o <<b, c, d>>) = Len(<<a, b, c, d>>)
    BY <2>3
  <2> QED
    BY <2>1, <2>2, <2>5, <2>6, SeqEqual, Zenon
<1>7. ASSUME NEW a, NEW b, NEW c PROVE <<a, b>> \o <<c>> = <<a, b, c>>
  <2> PICK S : S = {a, b, c}
    OBVIOUS
  <2>1. <<a, b>> \in Seq(S) /\ <<c>> \in Seq(S) /\ <<a, b, c>> \in Seq(S)
    OBVIOUS
  <2>2. <<a, b>> \o <<c>> \in Seq(S)
    BY <2>1, ConcatProperties
  <2>3. Len(<<a, b>> \o <<c>>) = 3 /\ Len(<<a, b, c>>) = 3
    OBVIOUS
  <2>4. \A i \in 1 .. 3 : (<<a, b>> \o <<c>>)[i] = <<a, b, c>>[i]
    OBVIOUS
  <2>5. \A i \in 1 .. Len(<<a, b>> \o <<c>>) : (<<a, b>> \o <<c>>)[i] = <<a, b, c>>[i]
    BY <2>3, <2>4, Zenon
  <2>6. Len(<<a, b>> \o <<c>>) = Len(<<a, b, c>>)
    BY <2>3
  <2> QED
    BY <2>1, <2>2, <2>5, <2>6, SeqEqual, Zenon
<1>8. ASSUME NEW a, NEW b, NEW c, NEW d PROVE <<a, b>> \o <<c, d>> = <<a, b, c, d>>
  <2> PICK S : S = {a, b, c, d}
    OBVIOUS
  <2>1. <<a, b>> \in Seq(S) /\ <<c, d>> \in Seq(S) /\ <<a, b, c, d>> \in Seq(S)
    OBVIOUS
  <2>2. <<a, b>> \o <<c, d>> \in Seq(S)
    BY <2>1, ConcatProperties
  <2>3. Len(<<a, b>> \o <<c, d>>) = 4 /\ Len(<<a, b, c, d>>) = 4
    OBVIOUS
  <2>4. \A i \in 1 .. 4 : (<<a, b>> \o <<c, d>>)[i] = <<a, b, c, d>>[i]
    OBVIOUS
  <2>5. \A i \in 1 .. Len(<<a, b>> \o <<c, d>>) : (<<a, b>> \o <<c, d>>)[i] = <<a, b, c, d>>[i]
    BY <2>3, <2>4, Zenon
  <2>6. Len(<<a, b>> \o <<c, d>>) = Len(<<a, b, c, d>>)
    BY <2>3
  <2> QED
    BY <2>1, <2>2, <2>5, <2>6, SeqEqual, Zenon
<1>9. ASSUME NEW a, NEW b, NEW c, NEW d PROVE <<a, b, c>> \o <<d>> = <<a, b, c, d>>
  <2> PICK S : S = {a, b, c, d}
    OBVIOUS
  <2>1. <<a, b, c>> \in Seq(S) /\ <<d>> \in Seq(S) /\ <<a, b, c, d>> \in Seq(S)
    OBVIOUS
  <2>2. <<a, b, c>> \o <<d>> \in Seq(S)
    BY <2>1, ConcatProperties
  <2>3. Len(<<a, b, c>> \o <<d>>) = 4 /\ Len(<<a, b, c, d>>) = 4
    OBVIOUS
  <2>4. \A i \in 1 .. 4 : (<<a, b, c>> \o <<d>>)[i] = <<a, b, c, d>>[i]
    OBVIOUS
  <2>5. \A i \in 1 .. Len(<<a, b, c>> \o <<d>>) : (<<a, b, c>> \o <<d>>)[i] = <<a, b, c, d>>[i]
    BY <2>3, <2>4, Zenon
  <2>6. Len(<<a, b, c>> \o <<d>>) = Len(<<a, b, c, d>>)
    BY <2>3
  <2> QED
    BY <2>1, <2>2, <2>5, <2>6, SeqEqual, Zenon
<1>10. ASSUME NEW a, NEW b, NEW c, NEW d, NEW e PROVE <<a, b, c, d>> \o <<e>> = <<a, b, c, d, e>>
  <2> PICK S : S = {a, b, c, d, e}
    OBVIOUS
  <2>1. <<a, b, c, d>> \in Seq(S) /\ <<e>> \in Seq(S) /\ <<a, b, c, d, e>> \in Seq(S)
    OBVIOUS
  <2>2. <<a, b, c, d>> \o <<e>> \in Seq(S)
    BY <2>1, ConcatProperties
  <2>3. Len(<<a, b, c, d>> \o <<e>>) = 5 /\ Len(<<a, b, c, d, e>>) = 5
    OBVIOUS
  <2>4. \A i \in 1 .. 5 : (<<a, b, c, d>> \o <<e>>)[i] = <<a, b, c, d, e>>[i]
    OBVIOUS
  <2>5. \A i \in 1 .. Len(<<a, b, c, d>> \o <<e>>) : (<<a, b, c, d>> \o <<e>>)[i] = <<a, b, c, d, e>>[i]
    BY <2>3, <2>4, Zenon
  <2>6. Len(<<a, b, c, d>> \o <<e>>) = Len(<<a, b, c, d, e>>)
    BY <2>3
  <2> QED
    BY <2>1, <2>2, <2>5, <2>6, SeqEqual, Zenon
<1> QED
  BY <1>1, <1>2, <1>3, <1>4, <1>5, <1>6, <1>7, <1>8, <1>9, <1>10

\* q is a program of the collector that goes on with a step of S.
ToC(q, S) == q \in CollectorPrograms /\ q # Quiet /\ Head(q) \in S

\* What is left of the collector's programs.
LEMMA CollectorTails ==
  /\ Tail(<<"cancel_grace", "results">>) = <<"results">>
  /\ Tail(<<"cancel_grace", "barge", "results">>) = <<"barge", "results">>
  /\ Tail(<<"cancel_grace", "barge", "endpoint", "results">>) = <<"barge", "endpoint", "results">>
  /\ Tail(<<"keep", "cancel_grace", "barge", "results">>) = <<"cancel_grace", "barge", "results">>
  /\ Tail(<<"keep", "cancel_grace", "barge", "endpoint", "results">>)
       = <<"cancel_grace", "barge", "endpoint", "results">>
  /\ Tail(<<"barge", "results">>) = <<"results">>
  /\ Tail(<<"barge", "endpoint", "results">>) = <<"endpoint", "results">>
  /\ Tail(<<"endpoint", "results">>) = <<"results">>
  /\ Tail(<<"cancel_turn", "rest", "results">>) = <<"rest", "results">>
  /\ Tail(<<"cancel_turn", "rest", "endpoint", "results">>) = <<"rest", "endpoint", "results">>
  /\ Tail(<<"rest", "results">>) = <<"results">>
  /\ Tail(<<"rest", "endpoint", "results">>) = <<"endpoint", "results">>
  /\ Tail(<<"flush", "results">>) = <<"results">>
  /\ Tail(<<"start", "results">>) = <<"results">>
  /\ Tail(<<"cancel_grace", "new_grace", "results">>) = <<"new_grace", "results">>
  /\ Tail(<<"new_grace", "results">>) = <<"results">>
OBVIOUS

\* Where the collector goes next.
LEMMA CollectorFlow ==
  ASSUME NEW p \in CollectorPrograms, p # Quiet
  PROVE  /\ Head(p) \notin {"begin", "stream", "unwind", "settle"}
         /\ Head(p) = "keep" => ToC(Tail(p), {"cancel_grace"})
         /\ Head(p) = "cancel_grace" => ToC(Tail(p), {"results", "barge", "new_grace"})
         /\ Head(p) = "cancel_turn" => ToC(Tail(p), {"rest"})
         /\ Head(p) \in {"rest", "start", "flush", "new_grace"} => ToC(Tail(p), {"results", "endpoint"})
         /\ Head(p) = "flush" => ToC(<<"start">> \o Tail(p), {"start"})
         /\ Head(p) = "barge" => /\ ToC(<<>> \o Tail(p), {"results", "endpoint"})
                                 /\ ToC(<<"cancel_turn", "rest">> \o Tail(p), {"cancel_turn"})
         /\ Head(p) = "endpoint" => /\ ToC(<<"flush">> \o Tail(p), {"flush"})
                                    /\ ToC(<<"cancel_grace", "new_grace">> \o Tail(p), {"cancel_grace"})
<1>1. CASE p = <<"results">>
  BY <1>1, CollectorTails, LiteralsJoined DEF CollectorPrograms, ToC, Quiet
<1>2. CASE p = <<"cancel_grace", "results">>
  BY <1>2, CollectorTails, LiteralsJoined DEF CollectorPrograms, ToC, Quiet
<1>3. CASE p = <<"cancel_grace", "barge", "results">>
  BY <1>3, CollectorTails, LiteralsJoined DEF CollectorPrograms, ToC, Quiet
<1>4. CASE p = <<"cancel_grace", "barge", "endpoint", "results">>
  BY <1>4, CollectorTails, LiteralsJoined DEF CollectorPrograms, ToC, Quiet
<1>5. CASE p = <<"keep", "cancel_grace", "barge", "results">>
  BY <1>5, CollectorTails, LiteralsJoined DEF CollectorPrograms, ToC, Quiet
<1>6. CASE p = <<"barge", "results">>
  BY <1>6, CollectorTails, LiteralsJoined DEF CollectorPrograms, ToC, Quiet
<1>7. CASE p = <<"barge", "endpoint", "results">>
  BY <1>7, CollectorTails, LiteralsJoined DEF CollectorPrograms, ToC, Quiet
<1>8. CASE p = <<"endpoint", "results">>
  BY <1>8, CollectorTails, LiteralsJoined DEF CollectorPrograms, ToC, Quiet
<1>9. CASE p = <<"cancel_turn", "rest", "results">>
  BY <1>9, CollectorTails, LiteralsJoined DEF CollectorPrograms, ToC, Quiet
<1>10. CASE p = <<"cancel_turn", "rest", "endpoint", "results">>
  BY <1>10, CollectorTails, LiteralsJoined DEF CollectorPrograms, ToC, Quiet
<1>11. CASE p = <<"rest", "results">>
  BY <1>11, CollectorTails, LiteralsJoined DEF CollectorPrograms, ToC, Quiet
<1>12. CASE p = <<"rest", "endpoint", "results">>
  BY <1>12, CollectorTails, LiteralsJoined DEF CollectorPrograms, ToC, Quiet
<1>13. CASE p = <<"flush", "results">>
  BY <1>13, CollectorTails, LiteralsJoined DEF CollectorPrograms, ToC, Quiet
<1>14. CASE p = <<"start", "results">>
  BY <1>14, CollectorTails, LiteralsJoined DEF CollectorPrograms, ToC, Quiet
<1>15. CASE p = <<"cancel_grace", "new_grace", "results">>
  BY <1>15, CollectorTails, LiteralsJoined DEF CollectorPrograms, ToC, Quiet
<1>16. CASE p = <<"new_grace", "results">>
  BY <1>16, CollectorTails, LiteralsJoined DEF CollectorPrograms, ToC, Quiet
<1>17. CASE p = <<"keep", "cancel_grace", "barge", "endpoint", "results">>
  BY <1>17, CollectorTails, LiteralsJoined DEF CollectorPrograms, ToC, Quiet
<1> QED
  BY <1>1, <1>2, <1>3, <1>4, <1>5, <1>6, <1>7, <1>8, <1>9, <1>10, <1>11, <1>12, <1>13, <1>14,
     <1>15, <1>16, <1>17 DEF CollectorPrograms

\* r is a program of the read loop that goes on with a step of S; one that
\* closes the session goes on closing it.
ToR(r, S) == r \in ReaderPrograms /\ Head(r) \in S
Onward(p, r, S, C) == IF p \in Closings THEN r \in Closings /\ Head(r) \in C ELSE ToR(r, S)

\* What is left of the read loop's programs.
LEMMA ReaderTails ==
  /\ Tail(<<"cancel_turn", "cancel_grace", "close_stt", "closed">>) = <<"cancel_grace", "close_stt", "closed">>
  /\ Tail(<<"cancel_grace", "close_stt", "closed">>) = <<"close_stt", "closed">>
  /\ Tail(<<"close_stt", "closed">>) = <<"closed">>
  /\ Tail(<<"stop_collector", "closed">>) = <<"closed">>
  /\ Tail(<<"close_stt", "open", "receive">>) = <<"open", "receive">>
  /\ Tail(<<"stop_collector", "open", "receive">>) = <<"open", "receive">>
  /\ Tail(<<"open", "receive">>) = <<"receive">>
  /\ Tail(<<"opened", "receive">>) = <<"receive">>
  /\ Tail(<<"cancel_grace", "finish", "receive">>) = <<"finish", "receive">>
  /\ Tail(<<"finish", "receive">>) = <<"receive">>
  /\ Tail(<<"finished", "receive">>) = <<"receive">>
  /\ Tail(<<"flush", "close_stt", "report", "receive">>) = <<"close_stt", "report", "receive">>
  /\ Tail(<<"start", "close_stt", "report", "receive">>) = <<"close_stt", "report", "receive">>
  /\ Tail(<<"close_stt", "report", "receive">>) = <<"report", "receive">>
  /\ Tail(<<"stop_collector", "report", "receive">>) = <<"report", "receive">>
  /\ Tail(<<"report", "receive">>) = <<"receive">>
  /\ Tail(<<"cancel_grace", "flush", "receive">>) = <<"flush", "receive">>
  /\ Tail(<<"flush", "receive">>) = <<"receive">>
  /\ Tail(<<"start", "receive">>) = <<"receive">>
  /\ Tail(<<"cancel_turn", "rest", "receive">>) = <<"rest", "receive">>
  /\ Tail(<<"rest", "receive">>) = <<"receive">>
  /\ Tail(<<"cancel_turn", "begin_text", "receive">>) = <<"begin_text", "receive">>
  /\ Tail(<<"begin_text", "receive">>) = <<"receive">>
  /\ Tail(<<"spawn_text", "receive">>) = <<"receive">>
  /\ Tail(<<"close_stt", "idle", "receive">>) = <<"idle", "receive">>
  /\ Tail(<<"stop_collector", "idle", "receive">>) = <<"idle", "receive">>
  /\ Tail(<<"idle", "receive">>) = <<"receive">>
OBVIOUS

\* Where the read loop goes next.
LEMMA ReaderFlow ==
  ASSUME NEW p \in ReaderPrograms
  PROVE  /\ p # Quiet
         /\ p \in Closings =>
              Head(p) \in {"cancel_turn", "cancel_grace", "close_stt", "stop_collector", "closed"}
         /\ Head(p) = "closed" => p \in Closings
         /\ Head(p) = "cancel_turn" => Onward(p, Tail(p), {"rest", "begin_text"}, {"cancel_grace"})
         /\ Head(p) = "cancel_grace" => Onward(p, Tail(p), {"finish", "flush"}, {"close_stt"})
         /\ Head(p) \in {"close_stt", "stop_collector"} =>
              Onward(p, Tail(p), {"open", "report", "idle"}, {"closed"})
         /\ Head(p) = "close_stt" =>
              /\ <<>> \o Tail(p) = Tail(p)
              /\ Onward(p, <<"stop_collector">> \o Tail(p), {"stop_collector"}, {"stop_collector"})
         /\ Head(p) = "flush" => ToR(<<"start">> \o Tail(p), {"start"})
         /\ Head(p) \in {"flush", "start"} => ToR(Tail(p), {"close_stt", "receive"})
         /\ Head(p) = "open" => ToR(<<"opened">> \o Tail(p), {"opened"})
         /\ Head(p) = "finish" => ToR(<<"finished">> \o Tail(p), {"finished"})
         /\ Head(p) = "finished" => ToR(<<"flush", "close_stt", "report">> \o Tail(p), {"flush"})
         /\ Head(p) = "begin_text" => ToR(<<"spawn_text">> \o Tail(p), {"spawn_text"})
         /\ Head(p) \in {"opened", "idle", "report", "spawn_text", "rest"} =>
              ToR(Tail(p), {"receive"})
<1>1. CASE p = <<"cancel_turn", "cancel_grace", "close_stt", "closed">>
  BY <1>1, ReaderTails, LiteralsJoined DEF ReaderPrograms, Closings, Handlings, ToR, Onward, Quiet
<1>2. CASE p = <<"cancel_grace", "close_stt", "closed">>
  BY <1>2, ReaderTails, LiteralsJoined DEF ReaderPrograms, Closings, Handlings, ToR, Onward, Quiet
<1>3. CASE p = <<"close_stt", "closed">>
  BY <1>3, ReaderTails, LiteralsJoined DEF ReaderPrograms, Closings, Handlings, ToR, Onward, Quiet
<1>4. CASE p = <<"stop_collector", "closed">>
  BY <1>4, ReaderTails, LiteralsJoined DEF ReaderPrograms, Closings, Handlings, ToR, Onward, Quiet
<1>5. CASE p = <<"closed">>
  BY <1>5, ReaderTails, LiteralsJoined DEF ReaderPrograms, Closings, Handlings, ToR, Onward, Quiet
<1>6. CASE p = <<"receive">>
  BY <1>6, ReaderTails, LiteralsJoined DEF ReaderPrograms, Closings, Handlings, ToR, Onward, Quiet
<1>7. CASE p = <<"close_stt", "open", "receive">>
  BY <1>7, ReaderTails, LiteralsJoined DEF ReaderPrograms, Closings, Handlings, ToR, Onward, Quiet
<1>8. CASE p = <<"stop_collector", "open", "receive">>
  BY <1>8, ReaderTails, LiteralsJoined DEF ReaderPrograms, Closings, Handlings, ToR, Onward, Quiet
<1>9. CASE p = <<"open", "receive">>
  BY <1>9, ReaderTails, LiteralsJoined DEF ReaderPrograms, Closings, Handlings, ToR, Onward, Quiet
<1>10. CASE p = <<"opened", "receive">>
  BY <1>10, ReaderTails, LiteralsJoined DEF ReaderPrograms, Closings, Handlings, ToR, Onward, Quiet
<1>11. CASE p = <<"cancel_grace", "finish", "receive">>
  BY <1>11, ReaderTails, LiteralsJoined DEF ReaderPrograms, Closings, Handlings, ToR, Onward, Quiet
<1>12. CASE p = <<"finish", "receive">>
  BY <1>12, ReaderTails, LiteralsJoined DEF ReaderPrograms, Closings, Handlings, ToR, Onward, Quiet
<1>13. CASE p = <<"finished", "receive">>
  BY <1>13, ReaderTails, LiteralsJoined DEF ReaderPrograms, Closings, Handlings, ToR, Onward, Quiet
<1>14. CASE p = <<"flush", "close_stt", "report", "receive">>
  BY <1>14, ReaderTails, LiteralsJoined DEF ReaderPrograms, Closings, Handlings, ToR, Onward, Quiet
<1>15. CASE p = <<"start", "close_stt", "report", "receive">>
  BY <1>15, ReaderTails, LiteralsJoined DEF ReaderPrograms, Closings, Handlings, ToR, Onward, Quiet
<1>16. CASE p = <<"close_stt", "report", "receive">>
  BY <1>16, ReaderTails, LiteralsJoined DEF ReaderPrograms, Closings, Handlings, ToR, Onward, Quiet
<1>17. CASE p = <<"stop_collector", "report", "receive">>
  BY <1>17, ReaderTails, LiteralsJoined DEF ReaderPrograms, Closings, Handlings, ToR, Onward, Quiet
<1>18. CASE p = <<"report", "receive">>
  BY <1>18, ReaderTails, LiteralsJoined DEF ReaderPrograms, Closings, Handlings, ToR, Onward, Quiet
<1>19. CASE p = <<"cancel_grace", "flush", "receive">>
  BY <1>19, ReaderTails, LiteralsJoined DEF ReaderPrograms, Closings, Handlings, ToR, Onward, Quiet
<1>20. CASE p = <<"flush", "receive">>
  BY <1>20, ReaderTails, LiteralsJoined DEF ReaderPrograms, Closings, Handlings, ToR, Onward, Quiet
<1>21. CASE p = <<"start", "receive">>
  BY <1>21, ReaderTails, LiteralsJoined DEF ReaderPrograms, Closings, Handlings, ToR, Onward, Quiet
<1>22. CASE p = <<"cancel_turn", "rest", "receive">>
  BY <1>22, ReaderTails, LiteralsJoined DEF ReaderPrograms, Closings, Handlings, ToR, Onward, Quiet
<1>23. CASE p = <<"rest", "receive">>
  BY <1>23, ReaderTails, LiteralsJoined DEF ReaderPrograms, Closings, Handlings, ToR, Onward, Quiet
<1>24. CASE p = <<"cancel_turn", "begin_text", "receive">>
  BY <1>24, ReaderTails, LiteralsJoined DEF ReaderPrograms, Closings, Handlings, ToR, Onward, Quiet
<1>25. CASE p = <<"begin_text", "receive">>
  BY <1>25, ReaderTails, LiteralsJoined DEF ReaderPrograms, Closings, Handlings, ToR, Onward, Quiet
<1>26. CASE p = <<"spawn_text", "receive">>
  BY <1>26, ReaderTails, LiteralsJoined DEF ReaderPrograms, Closings, Handlings, ToR, Onward, Quiet
<1>27. CASE p = <<"close_stt", "idle", "receive">>
  BY <1>27, ReaderTails, LiteralsJoined DEF ReaderPrograms, Closings, Handlings, ToR, Onward, Quiet
<1>28. CASE p = <<"stop_collector", "idle", "receive">>
  BY <1>28, ReaderTails, LiteralsJoined DEF ReaderPrograms, Closings, Handlings, ToR, Onward, Quiet
<1>29. CASE p = <<"idle", "receive">>
  BY <1>29, ReaderTails, LiteralsJoined DEF ReaderPrograms, Closings, Handlings, ToR, Onward, Quiet
<1> QED
  BY <1>1, <1>2, <1>3, <1>4, <1>5, <1>6, <1>7, <1>8, <1>9, <1>10, <1>11, <1>12, <1>13, <1>14,
     <1>15, <1>16, <1>17, <1>18, <1>19, <1>20, <1>21, <1>22, <1>23, <1>24, <1>25, <1>26,
     <1>27, <1>28, <1>29 DEF ReaderPrograms, Closings, Handlings

\* The tasks are different things.
LEMMA Apart ==
  /\ Reader # Collector /\ Free \notin Tasks
  /\ Reader \notin Graces \cup Turns /\ Collector \notin Graces \cup Turns
  /\ Graces \cap Turns = {}
  /\ Tasks = {Reader, Collector} \cup Graces \cup Turns
BY NamesAssumption, BoundsAssumption DEF Tasks, Turns

\* t runs a step and goes on with p; nobody else's program changes, but a turn
\* may be spawned.
Stepped(t, p) ==
  /\ Live(t) /\ cpu \in {Free, t} /\ (on[t] # Free => ~Live(on[t]))
  /\ \A s \in Tasks : \/ todo'[s] = IF s = t THEN p ELSE todo[s]
                      \/ s \in Turns /\ todo'[s] = <<"begin">>
  /\ \A s \in Tasks : on'[s] = IF s = t THEN Free ELSE on[s]
  /\ cpu' \in {t, Free}

\* What such a step does to who is where and who awaits whom.
LEMMA SteppedShape ==
  ASSUME TypeOK, Shape, NEW t \in Tasks, NEW p, Stepped(t, p),
         t \in Turns => p \in TurnPrograms, t \in Graces => p = Quiet,
         t = Collector => /\ p \in CollectorPrograms
                          /\ p # Quiet /\ Head(p) \in {"rest", "start"} => cpu' = Collector,
         t = Reader => p \in {Quiet} \cup ReaderPrograms
  PROVE  Placed' /\ Awaits' /\ \A g \in Graces : CountingDown(g)' => CountingDown(g)
<1>1. Placed'
  <2>1. \A k \in Turns : todo'[k] \in TurnPrograms
    BY Apart DEF Shape, Placed, Stepped, TurnPrograms
  <2>2. \A g \in Graces : todo'[g] = IF g = t THEN Quiet ELSE todo[g]
    BY Apart DEF Stepped
  <2>3. \A g \in Graces : todo'[g] \in GracePrograms
    BY <2>2 DEF Shape, Placed, GracePrograms
  <2>4. todo'[Collector] = IF t = Collector THEN p ELSE todo[Collector]
    BY Apart DEF Stepped
  <2>5. todo'[Reader] = IF t = Reader THEN p ELSE todo[Reader]
    BY Apart DEF Stepped
  <2> QED
    BY <2>1, <2>3, <2>4, <2>5 DEF Shape, Placed
<1>2. Awaits'
  <2>1. \A k \in Turns : on'[k] = Free
    BY Apart DEF Shape, Awaits, Stepped
  <2>2. \A g \in Graces : IF todo'[g] = <<"start">> THEN on'[g] \in Turns ELSE on'[g] = Free
    <3> TAKE g \in Graces
    <3>1. todo'[g] = (IF g = t THEN Quiet ELSE todo[g]) /\ on'[g] = (IF g = t THEN Free ELSE on[g])
      BY Apart DEF Stepped
    <3>2. Quiet # <<"start">>
      BY DEF Quiet
    <3> QED
      BY <3>1, <3>2 DEF Shape, Awaits
  <2>3. /\ todo'[Collector] = IF t = Collector THEN p ELSE todo[Collector]
        /\ on'[Collector] = IF t = Collector THEN Free ELSE on[Collector]
    BY Apart DEF Stepped
  <2>4. CASE t = Collector
    BY <2>1, <2>2, <2>3, <2>4, Apart DEF Awaits, Doing, Live, Turns, Tasks
  <2>5. CASE t # Collector
    <3>1. cpu # Collector
      BY <2>5, Apart DEF Stepped, Tasks
    <3> QED
      BY <2>1, <2>2, <2>3, <2>5, <3>1 DEF Shape, Awaits, Doing, Live, Quiet
  <2> QED
    BY <2>4, <2>5
<1>3. ASSUME NEW g \in Graces, CountingDown(g)'
      PROVE  CountingDown(g)
  <2>1. todo'[g] = (IF g = t THEN Quiet ELSE todo[g]) /\ on'[g] = (IF g = t THEN Free ELSE on[g])
    BY Apart DEF Stepped
  <2> QED
    BY <1>3, <2>1 DEF CountingDown, Live, Quiet
<1> QED
  BY <1>1, <1>2, <1>3

\* A step of a task other than the read loop leaves the recogniser alone.
LEMMA SttKept ==
  ASSUME SttOK, todo'[Reader] = todo[Reader], on'[Reader] = on[Reader], stt' = stt,
         Live(Collector)' => Live(Collector)
  PROVE  SttOK'
BY DEF SttOK, Doing, Live, Quiet

\* So does any step of another task.
LEMMA SteppedStt ==
  ASSUME Shape, NEW t \in Tasks, NEW p, Stepped(t, p), t # Reader, stt' = stt
  PROVE  SttOK'
<1>1. todo'[Reader] = todo[Reader] /\ on'[Reader] = on[Reader]
  BY Apart DEF Stepped
<1>2. todo'[Collector] = IF t = Collector THEN p ELSE todo[Collector]
  BY Apart DEF Stepped
<1>3. Live(Collector)' => Live(Collector)
  BY <1>2 DEF Stepped, Live, Quiet
<1> QED
  BY <1>1, <1>3, SttKept DEF Shape

\* A step that sets no timer.
LEMMA SteppedTimer ==
  ASSUME Shape, NEW t \in Tasks, NEW p, Stepped(t, p), graceTask' = graceTask,
         \A g \in Graces : CountingDown(g)' => CountingDown(g),
         t = Collector => p = Quiet \/ Head(p) \notin {"barge", "new_grace"} \/ graceTask = Free
  PROVE  TimerOK'
<1>1. todo'[Collector] = IF t = Collector THEN p ELSE todo[Collector]
  BY Apart DEF Stepped
<1>2. CASE t = Collector
  BY <1>1, <1>2 DEF Shape, TimerOK, Doing, Live, Quiet
<1>3. CASE t # Collector
  <2>1. cpu' # Collector
    BY <1>3, Apart DEF Stepped, Tasks
  <2> QED
    BY <1>1, <1>3, <2>1 DEF Shape, TimerOK, Doing, Live, Quiet
<1> QED
  BY <1>2, <1>3

\* A step after which somebody still promises what t did.
LEMMA SteppedState ==
  ASSUME Shape, NEW t \in Tasks, NEW p, Stepped(t, p), state' = state, closing => closing',
         \/ Promises(t, todo[t]) => Promises(t, p)
         \/ closing'
         \/ \E k \in Turns : todo'[k] = <<"begin">>
  PROVE  StateOK'
<1>0. \A k \in Turns : k \in Tasks /\ Promises(k, <<"begin">>)
  BY Apart DEF Promises, Quiet, Tasks
<1>1. CASE \E k \in Turns : todo'[k] = <<"begin">>
  BY <1>0, <1>1 DEF StateOK, WillRest, Promises, Closings, Quiet
<1>2. CASE closing'
  BY <1>2 DEF StateOK, WillRest
<1>3. CASE (Promises(t, todo[t]) => Promises(t, p)) /\ WillRest
  <2>1. CASE closing
    BY <1>2, <2>1
  <2>2. ASSUME NEW s \in Tasks, Promises(s, todo[s])
        PROVE  WillRest'
    <3>1. Promises(s, IF s = t THEN p ELSE todo[s])
      BY <1>3, <2>2
    <3>2. Promises(s, todo'[s])
      BY <1>0, <3>1 DEF Stepped
    <3> QED
      BY <3>2 DEF WillRest, Promises, Closings, Quiet
  <2> QED
    BY <1>3, <2>1, <2>2 DEF StateOK, WillRest
<1>4. CASE ~WillRest
  BY <1>4 DEF Shape, StateOK
<1> QED
  BY <1>1, <1>2, <1>3, <1>4

\* t has cancelled x and awaits it, and goes on with p; v is the task that was
\* struck.  Whoever cancels has something to say about the state, or the one
\* struck was not going to say anything.
Struck(t, x, p, v) ==
  /\ Live(t) /\ cpu \in {Free, t} /\ cpu' = Free /\ v # t
  /\ \A s \in Tasks : todo'[s] = IF s = t THEN p
                                 ELSE IF s = v THEN Unwound(todo[s]) ELSE todo[s]
  /\ \A s \in Tasks : on'[s] = IF s = t THEN x ELSE on[s]
  /\ v \in Tasks => Live(v)
  /\ on[x] = Free => v = x
  /\ v \in Graces => todo[v] = <<"flush">>
  /\ v = Collector => t = Reader /\ x = Collector /\ on[Collector] = Free
  /\ v \in Turns /\ x \notin Turns => \E s \in Tasks \ {t, v} : Promises(s, todo[s])

\* Whoever is cancelled, this is who is struck.
LEMMA WhoIsStruck ==
  ASSUME TypeOK, Shape, NEW t \in Tasks, NEW x \in Tasks, NEW p, CancelAndJoin(t, x, p),
         Live(t), Live(x), cpu \in {Free, t}, t \notin Turns,
         \/ x \in Turns
         \/ x \in Graces /\ t \notin Graces
         \/ x = Collector /\ t = Reader
  PROVE  \E v \in Turns \cup Graces \cup {Collector, Free} : Struck(t, x, p, v)
<1>1. ASSUME NEW v \in (Turns \cup Graces \cup {Collector, Free}) \ {t}, Victim(x) = v,
             v \in Tasks => Live(v),
             v \in Graces => todo[v] = <<"flush">>,
             v = Collector => t = Reader /\ x = Collector /\ on[Collector] = Free,
             v \in Turns /\ x \notin Turns => \E s \in Tasks \ {t, v} : Promises(s, todo[s])
      PROVE  Struck(t, x, p, v)
  <2>1. v = Free \/ v \in Tasks
    BY Apart
  <2>2. \A s \in Tasks : todo'[s] = IF s = t THEN p
                                    ELSE IF s = v THEN Unwound(todo[s]) ELSE todo[s]
    <3>1. CASE v = Free
      BY <1>1, <3>1, Apart DEF CancelAndJoin, Cancelled, TypeOK
    <3>2. CASE v \in Tasks
      BY <1>1, <3>2, Apart DEF CancelAndJoin, Cancelled, TypeOK
    <3> QED
      BY <2>1, <3>1, <3>2
  <2>3. \A s \in Tasks : on'[s] = IF s = t THEN x ELSE on[s]
    BY DEF CancelAndJoin, TypeOK
  <2> QED
    BY <1>1, <2>2, <2>3 DEF Struck, CancelAndJoin, Victim
<1>2. \A k \in Turns : k \in Tasks /\ k # Free /\ k # t /\ on[k] = Free
  BY Apart DEF Shape, Awaits
<1>3. \A g \in Graces : /\ g \in Tasks /\ g # Free
                        /\ Live(g) /\ on[g] = Free => todo[g] = <<"flush">>
                        /\ on[g] # Free => on[g] \in Turns /\ Promises(g, todo[g])
  <2> TAKE g \in Graces
  <2>1. todo[g] \in GracePrograms /\ g \in Tasks /\ g # Free /\ g # Reader
    BY Apart DEF Shape, Placed
  <2>2. <<"start">> # Quiet /\ Head(<<"start">>) = "start"
    BY DEF Quiet
  <2> QED
    BY <2>1, <2>2, Apart DEF Shape, Awaits, GracePrograms, Live, Promises
<1>4. CASE x \in Turns
  <2>1. Victim(x) = x
    BY <1>2, <1>4 DEF Victim
  <2> QED
    BY <1>1, <1>2, <1>4, <2>1, Apart
<1>5. CASE x \in Graces /\ t \notin Graces
  <2>1. CASE on[x] = Free
    <3>1. Victim(x) = x /\ todo[x] = <<"flush">>
      BY <1>3, <1>5, <2>1 DEF Victim
    <3> QED
      BY <1>1, <1>5, <3>1, Apart
  <2>2. CASE on[x] # Free
    <3>1. on[x] \in Turns /\ Promises(x, todo[x]) /\ x \notin {t, on[x]}
      BY <1>3, <1>5, <2>2, Apart
    <3>2. Victim(x) = IF Live(on[x]) THEN on[x] ELSE Free
      BY <1>2, <2>2, <3>1 DEF Victim
    <3> QED
      BY <1>1, <1>2, <3>1, <3>2, Apart
  <2> QED
    BY <2>1, <2>2
<1>6. CASE x = Collector /\ t = Reader
  <2>1. CASE on[Collector] = Free
    <3>1. Victim(x) = Collector
      BY <1>6, <2>1 DEF Victim
    <3> QED
      BY <1>1, <1>6, <2>1, <3>1, Apart
  <2>2. CASE on[Collector] \in Turns
    <3>1. Promises(Collector, todo[Collector])
      BY <2>2, Apart DEF Shape, Awaits, Doing, Promises, Live
    <3>2. Victim(x) = IF Live(on[Collector]) THEN on[Collector] ELSE Free
      BY <1>2, <1>6, <2>2 DEF Victim
    <3>3. Collector \in Tasks \ {t, on[Collector]}
      BY <1>6, <2>2, Apart
    <3> QED
      BY <1>1, <1>2, <2>2, <3>1, <3>2, <3>3, Apart
  <2>3. ASSUME NEW g \in Graces, on[Collector] = g
        PROVE  \E v \in Turns \cup Graces \cup {Collector, Free} : Struck(t, x, p, v)
    <3>1. CASE ~Live(g)
      <4>1. Victim(x) = Free
        BY <1>3, <1>6, <2>3, <3>1 DEF Victim
      <4> QED
        BY <1>1, <1>6, <4>1, Apart
    <3>2. CASE Live(g) /\ on[g] = Free
      <4>1. Victim(x) = g /\ todo[g] = <<"flush">>
        BY <1>3, <1>6, <2>3, <3>2 DEF Victim
      <4> QED
        BY <1>1, <1>6, <3>2, <4>1, Apart
    <3>3. CASE Live(g) /\ on[g] # Free
      <4>1. on[g] \in Turns /\ Promises(g, todo[g]) /\ g \in Tasks \ {t, on[g]}
        BY <1>3, <1>6, <2>3, <3>3, Apart
      <4>2. Victim(x) = IF Live(on[g]) THEN on[g] ELSE Free
        BY <1>2, <1>3, <1>6, <2>3, <3>3, <4>1 DEF Victim
      <4> QED
        BY <1>1, <1>2, <4>1, <4>2, Apart
    <3> QED
      BY <3>1, <3>2, <3>3
  <2> QED
    BY <2>1, <2>2, <2>3 DEF Shape, Awaits
<1> QED
  BY <1>4, <1>5, <1>6

\* What a cancellation does to who is where and who awaits whom.
LEMMA JoinShape ==
  ASSUME TypeOK, Shape, NEW t \in Tasks \ Turns, NEW x \in Turns \cup Graces \cup {Collector},
         NEW p, NEW v \in Turns \cup Graces \cup {Collector, Free}, Struck(t, x, p, v),
         t \in Graces => p = <<"start">> /\ x \in Turns,
         t = Collector => /\ p \in CollectorPrograms /\ p # Quiet /\ x # Collector
                          /\ x \in Turns => Head(p) \in {"rest", "start"},
         t = Reader => p \in {Quiet} \cup ReaderPrograms
  PROVE  Placed' /\ Awaits' /\ \A g \in Graces : CountingDown(g)' => CountingDown(g) /\ g # v
<1>1. \A q \in TurnPrograms : Unwound(q) \in TurnPrograms
  BY DEF TurnPrograms, Unwound, Quiet
<1>2. v \in Graces \cup {Collector} => Unwound(todo[v]) = Quiet
  <2>1. CASE v \in Graces
    BY <2>1 DEF Struck, Unwound
  <2>2. CASE v = Collector
    <3>1. todo[v] \in CollectorPrograms /\ todo[v] # Quiet
      BY <2>2, Apart DEF Shape, Placed, Struck, Live
    <3> QED
      BY <3>1, CollectorFlow DEF Unwound
  <2> QED
    BY <2>1, <2>2
<1>3. Placed'
  <2>1. \A k \in Turns : todo'[k] \in TurnPrograms
    BY <1>1, Apart DEF Shape, Placed, Struck
  <2>2. \A g \in Graces : todo'[g] \in GracePrograms
    BY <1>2, Apart DEF Shape, Placed, Struck, GracePrograms
  <2>3. todo'[Collector] \in CollectorPrograms
    BY <1>2, Apart DEF Shape, Placed, Struck, CollectorPrograms
  <2>4. todo'[Reader] \in {Quiet} \cup ReaderPrograms
    BY Apart DEF Shape, Placed, Struck
  <2> QED
    BY <2>1, <2>2, <2>3, <2>4 DEF Placed
<1>4. Awaits'
  <2>1. \A k \in Turns : on'[k] = Free
    BY Apart DEF Shape, Awaits, Struck
  <2>2. \A g \in Graces : IF todo'[g] = <<"start">> THEN on'[g] \in Turns ELSE on'[g] = Free
    <3> TAKE g \in Graces
    <3>1. Quiet # <<"start">> /\ <<"flush">> # <<"start">>
      BY DEF Quiet
    <3>2. CASE g = t
      BY <3>2, Apart DEF Struck
    <3>3. CASE g # t /\ g = v
      BY <1>2, <3>1, <3>3, Apart DEF Struck, Shape, Awaits
    <3>4. CASE g # t /\ g # v
      BY <3>4, Apart DEF Struck, Shape, Awaits
    <3> QED
      BY <3>2, <3>3, <3>4
  <2>3. CASE t = Collector
    <3>1. todo'[Collector] = p /\ on'[Collector] = x
      BY <2>3, Apart DEF Struck
    <3> QED
      BY <2>1, <2>2, <2>3, <3>1, Apart DEF Awaits, Doing, Live
  <2>4. CASE t # Collector
    <3>1. cpu # Collector /\ on'[Collector] = on[Collector]
      BY <2>4, Apart DEF Struck
    <3>2. CASE v = Collector
      <4>1. todo'[Collector] = Quiet /\ on[Collector] = Free
        BY <1>2, <2>4, <3>2, Apart DEF Struck
      <4> QED
        BY <2>1, <2>2, <3>1, <4>1, Apart DEF Awaits, Doing, Live
    <3>3. CASE v # Collector
      <4>1. todo'[Collector] = todo[Collector]
        BY <2>4, <3>3, Apart DEF Struck
      <4> QED
        BY <2>1, <2>2, <3>1, <4>1 DEF Shape, Awaits, Doing, Live, Quiet
    <3> QED
      BY <3>2, <3>3
  <2> QED
    BY <2>3, <2>4
<1>5. ASSUME NEW g \in Graces, CountingDown(g)'
      PROVE  CountingDown(g) /\ g # v
  <2>1. CASE g = t
    <3>1. todo'[g] = <<"start">>
      BY <2>1, Apart DEF Struck
    <3> QED
      BY <1>5, <3>1 DEF CountingDown
  <2>2. CASE g # t /\ g = v
    <3>1. todo'[g] = Quiet
      BY <1>2, <2>2, Apart DEF Struck
    <3> QED
      BY <1>5, <3>1 DEF CountingDown, Live, Quiet
  <2>3. CASE g # t /\ g # v
    BY <1>5, <2>3, Apart DEF CountingDown, Live, Struck, Quiet
  <2> QED
    BY <2>1, <2>2, <2>3
<1> QED
  BY <1>3, <1>4, <1>5

\* Another task that cancels leaves the recogniser alone.
LEMMA JoinStt ==
  ASSUME Shape, NEW t \in Tasks \ {Reader}, NEW x, NEW p,
         NEW v \in Turns \cup Graces \cup {Collector, Free}, Struck(t, x, p, v), stt' = stt
  PROVE  SttOK'
<1>1. todo'[Reader] = todo[Reader] /\ on'[Reader] = on[Reader] /\ v # Collector
  BY Apart DEF Struck
<1>2. Live(Collector)' => Live(Collector)
  <2>1. todo'[Collector] = IF t = Collector THEN p ELSE todo[Collector]
    BY <1>1, Apart DEF Struck
  <2> QED
    BY <2>1 DEF Live, Quiet, Struck
<1> QED
  BY <1>1, <1>2, SttKept DEF Shape

\* Cancelling sets no timer.
LEMMA JoinTimer ==
  ASSUME Shape, NEW t \in Tasks, NEW x, NEW p,
         NEW v \in Turns \cup Graces \cup {Collector, Free}, Struck(t, x, p, v),
         \A g \in Graces : CountingDown(g)' => CountingDown(g) /\ g # v,
         \/ graceTask' = graceTask /\ (t = Collector => Head(p) \notin {"barge", "new_grace"})
         \/ graceTask' = Free /\ \A g \in Graces : graceTask = g /\ CountingDown(g) => g = v
  PROVE  TimerOK'
<1>1. cpu' # Collector
  BY Apart DEF Struck, Tasks
<1>2. CASE graceTask' = graceTask /\ (t = Collector => Head(p) \notin {"barge", "new_grace"})
  <2>1. Doing(Collector, {"barge", "new_grace"})' => Doing(Collector, {"barge", "new_grace"})
    <3>1. CASE t = Collector
      BY <1>2, <3>1, Apart DEF Struck, Doing
    <3>2. CASE t # Collector /\ v = Collector
      <4>1. todo[Collector] \in CollectorPrograms /\ todo[Collector] # Quiet
        BY <3>2, Apart DEF Shape, Placed, Struck, Live
      <4>2. Unwound(todo[Collector]) = Quiet
        BY <4>1, CollectorFlow DEF Unwound
      <4>3. todo'[Collector] = Quiet
        BY <3>2, <4>2, Apart DEF Struck
      <4> QED
        BY <4>3 DEF Doing, Live, Quiet
    <3>3. CASE t # Collector /\ v # Collector
      BY <3>3, Apart DEF Struck, Doing, Live, Quiet
    <3> QED
      BY <3>1, <3>2, <3>3
  <2> QED
    BY <1>1, <1>2, <2>1 DEF Shape, TimerOK
<1>3. CASE graceTask' = Free /\ \A g \in Graces : graceTask = g /\ CountingDown(g) => g = v
  BY <1>1, <1>3 DEF Shape, TimerOK
<1> QED
  BY <1>2, <1>3

\* After a cancellation somebody still says that the session rests.
LEMMA JoinState ==
  ASSUME Shape, NEW t \in Tasks, NEW x, NEW p,
         NEW v \in Turns \cup Graces \cup {Collector, Free}, Struck(t, x, p, v),
         state' = state, closing' = closing,
         Promises(t, todo[t]) \/ x \in Turns => Promises(t, p)
  PROVE  StateOK'
<1>1. CASE Promises(t, p)
  BY <1>1 DEF StateOK, WillRest, Struck, Promises, Closings, Quiet
<1>2. ASSUME NEW s \in Tasks \ {t, v}, Promises(s, todo[s])
      PROVE  StateOK'
  BY <1>2 DEF StateOK, WillRest, Struck, Promises, Closings, Quiet
<1>3. CASE ~Promises(t, p) /\ v \in Tasks /\ Promises(v, todo[v])
  <2>1. CASE v \in Turns
    BY <1>2, <1>3, <2>1 DEF Struck
  <2>2. CASE v \in Graces
    <3>1. ~Promises(v, <<"flush">>)
      BY <2>2, Apart DEF Promises
    <3> QED
      BY <1>3, <2>2, <3>1 DEF Struck
  <2>3. CASE v = Collector
    <3>1. Doing(Collector, {"rest", "start"})
      <4>1. todo[Collector] \in CollectorPrograms /\ todo[Collector] # Quiet
        BY <1>3, <2>3, Apart DEF Shape, Placed, Promises
      <4>2. Head(todo[Collector]) \notin {"begin", "stream", "unwind", "settle"}
        BY <4>1, CollectorFlow
      <4> QED
        BY <1>3, <2>3, <4>1, <4>2, Apart DEF Promises, Doing, Live
    <3>2. cpu # Collector /\ on[Collector] = Free
      BY <2>3, Apart DEF Struck
    <3> QED
      BY <3>1, <3>2 DEF Shape, Awaits
  <2> QED
    BY <1>3, <2>1, <2>2, <2>3, Apart
<1>4. CASE \A s \in Tasks : ~Promises(s, todo[s])
  BY <1>4 DEF Shape, StateOK, WillRest
<1> QED
  BY <1>1, <1>2, <1>3, <1>4 DEF Struck

\* The three ways a step ends.
LEMMA ThenSteps ==
  ASSUME TypeOK, NEW t \in Tasks, NEW s, Runs(t, s), NEW p, Then(t, p)
  PROVE  Stepped(t, p) /\ cpu' = Keeps(t, p)
BY DEF TypeOK, Runs, Then, Goes, Keeps, Stepped

\* A step that ends with a send.
LEMMA SendSteps ==
  ASSUME TypeOK, NEW t \in Tasks, NEW s, Runs(t, s), NEW p,
         todo' = [todo EXCEPT ![t] = p], NEW q, GoesAfterSend(t, q)
  PROVE  Stepped(t, p)
BY DEF TypeOK, Runs, GoesAfterSend, Keeps, Stepped

\* A step that spawns a turn.
LEMMA SpawnSteps ==
  ASSUME TypeOK, NEW t \in Tasks, NEW s, Runs(t, s), NEW p, NEW text,
         Spawn([todo EXCEPT ![t] = p], text), Goes(t, p)
  PROVE  Stepped(t, p) /\ cpu' = Keeps(t, p) /\ \E k \in Turns : todo'[k] = <<"begin">>
<1>1. PICK k \in Turns : todo' = [[todo EXCEPT ![t] = p] EXCEPT ![k] = <<"begin">>]
  BY DEF Spawn
<1>2. k \in Tasks
  BY Apart
<1> QED
  BY <1>1, <1>2 DEF TypeOK, Runs, Goes, Keeps, Stepped

\* A step that starts a turn, or parks the reason to close.
LEMMA StartSteps ==
  ASSUME TypeOK, NEW t \in Tasks, NEW s, Runs(t, s), NEW p, NEW text,
         StartTurn([todo EXCEPT ![t] = p], text), Goes(t, p)
  PROVE  /\ Stepped(t, p) /\ cpu' = Keeps(t, p) /\ (closing => closing')
         /\ closing' \/ \E k \in Turns : todo'[k] = <<"begin">>
<1>1. CASE turn < MaxTurns
  BY <1>1, SpawnSteps DEF StartTurn
<1>2. CASE ~(turn < MaxTurns)
  BY <1>2 DEF StartTurn, TypeOK, Runs, Goes, Keeps, Stepped
<1> QED
  BY <1>1, <1>2

\* Who may run a step that several tasks share, and what comes after it.
LEMMA SharedProgram ==
  ASSUME Shape, NEW t \in Tasks, NEW s \in {"cancel_turn", "cancel_grace", "flush", "start", "rest"},
         Runs(t, s)
  PROVE  /\ t \in {Reader, Collector} \cup Graces
         /\ t \in Graces => /\ s \in {"flush", "start"} /\ Rest(t) = Quiet
                            /\ <<"start">> \o Rest(t) = <<"start">>
         /\ t = Collector => todo[t] \in CollectorPrograms /\ todo[t] # Quiet
         /\ t = Reader => todo[t] \in ReaderPrograms
<1>1. t \notin Turns
  BY DEF Shape, Placed, Runs, Live, TurnPrograms
<1>2. ASSUME t \in Graces
      PROVE  s \in {"flush", "start"} /\ Rest(t) = Quiet /\ <<"start">> \o Rest(t) = <<"start">>
  <2>1. Tail(<<"flush">>) = <<>> /\ Tail(<<"start">>) = <<>>
    OBVIOUS
  <2>2. <<"start">> \o <<>> = <<"start">>
    BY LiteralsJoined
  <2>3. todo[t] \in {<<"flush">>, <<"start">>}
    BY <1>2 DEF Shape, Placed, Runs, Live, GracePrograms
  <2> QED
    BY <2>1, <2>2, <2>3, Head(<<"flush">>) = "flush", Head(<<"start">>) = "start" DEF Runs,
       Rest, Quiet
<1> QED
  BY <1>1, <1>2, Apart DEF Shape, Placed, Runs, Live

\* The recogniser over a step of the read loop other than stopping the collector.
LEMMA ReaderStt ==
  ASSUME Shape, NEW s, Runs(Reader, s), s # "stop_collector",
         NEW p \in ReaderPrograms, todo'[Reader] = p, Live(Collector)' => Live(Collector),
         stt => stt' \/ Head(p) = "stop_collector",
         Head(p) \in {"open", "opened", "stop_collector", "closed"} => ~stt'
  PROVE  SttOK'
<1>1. Live(Collector)' => stt
  BY Apart DEF Shape, SttOK, Runs, Doing
<1>2. p # Quiet
  BY ReaderFlow
<1> QED
  BY <1>1, <1>2 DEF SttOK, Doing, Live, Quiet

\* Cancelling the turn: the canceller goes on to say that the session rests.
LEMMA CancelTurnShape ==
  ASSUME TypeOK, Shape, NEW t \in Tasks, CancelTurn(t)
  PROVE  Shape'
<1>0. Runs(t, "cancel_turn") /\ Live(t) /\ t \in Tasks
  BY DEF CancelTurn, Runs
<1>1. /\ t \in {Reader, Collector} /\ t \notin Turns \cup Graces
      /\ t = Collector => ToC(Rest(t), {"rest"})
      /\ t = Reader => Onward(todo[t], Rest(t), {"rest", "begin_text"}, {"cancel_grace"})
  BY <1>0, SharedProgram, CollectorFlow, ReaderFlow, Apart DEF Rest, Runs
<1>2. /\ t = Reader => Rest(t) \in ReaderPrograms /\ Head(Rest(t)) \in {"rest", "begin_text", "cancel_grace"}
      /\ Promises(t, Rest(t))
  <2>1. ASSUME t = Reader
        PROVE  /\ Rest(t) \in ReaderPrograms /\ Head(Rest(t)) \in {"rest", "begin_text", "cancel_grace"}
               /\ Promises(t, Rest(t))
    BY <1>1, <2>1, ReaderFlow DEF Onward, ToR, ReaderPrograms, Promises
  <2> QED
    BY <1>1, <2>1, Apart DEF ToC, Promises
<1>3. CASE turnTask # Free /\ Live(turnTask)
  <2>1. turnTask \in Turns /\ turnTask \in Tasks /\ CancelAndJoin(t, turnTask, Rest(t))
    BY <1>3, Apart DEF CancelTurn, TypeOK
  <2>2. PICK v \in Turns \cup Graces \cup {Collector, Free} : Struck(t, turnTask, Rest(t), v)
    BY <1>0, <1>1, <1>3, <2>1, WhoIsStruck DEF Runs
  <2>3. Placed' /\ Awaits' /\ \A g \in Graces : CountingDown(g)' => CountingDown(g) /\ g # v
    BY <1>1, <1>2, <2>1, <2>2, JoinShape, Apart DEF ToC
  <2>4. StateOK' /\ TimerOK'
    BY <1>1, <1>2, <2>1, <2>2, <2>3, JoinState, JoinTimer, Apart DEF ToC, CancelTurn
  <2>5. SttOK'
    <3>1. CASE t = Collector
      BY <2>2, <3>1, JoinStt, Apart DEF CancelTurn, mic
    <3>2. CASE t = Reader
      <4>1. todo'[Reader] = Rest(t) /\ v # Collector /\ todo'[Collector] = todo[Collector]
        BY <2>2, <2>1, <3>2, Apart DEF Struck, Shape, Awaits
      <4> QED
        BY <1>0, <1>2, <3>2, <4>1, ReaderStt DEF Live, Quiet, CancelTurn, mic
    <3> QED
      BY <1>1, <3>1, <3>2
  <2> QED
    BY <2>3, <2>4, <2>5 DEF Shape
<1>4. CASE ~(turnTask # Free /\ Live(turnTask))
  <2>1. Stepped(t, Rest(t)) /\ cpu' = Keeps(t, Rest(t))
    BY <1>0, <1>4, ThenSteps DEF CancelTurn
  <2>2. t = Collector => cpu' = Collector
    BY <1>1, <2>1 DEF ToC, Keeps, Waits
  <2>3. Placed' /\ Awaits' /\ \A g \in Graces : CountingDown(g)' => CountingDown(g)
    BY <1>1, <1>2, <2>1, <2>2, SteppedShape, Apart DEF ToC
  <2>4. StateOK' /\ TimerOK'
    BY <1>1, <1>2, <2>1, <2>3, SteppedState, SteppedTimer, Apart DEF ToC, CancelTurn
  <2>5. SttOK'
    <3>1. CASE t = Collector
      BY <2>1, <3>1, SteppedStt, Apart DEF CancelTurn, mic
    <3>2. CASE t = Reader
      <4>1. todo'[Reader] = Rest(t) /\ todo'[Collector] = todo[Collector]
        BY <2>1, <3>2, Apart DEF Stepped
      <4> QED
        BY <1>0, <1>2, <3>2, <4>1, ReaderStt DEF Live, Quiet, CancelTurn, mic
    <3> QED
      BY <1>1, <3>1, <3>2
  <2> QED
    BY <2>3, <2>4, <2>5 DEF Shape
<1> QED
  BY <1>3, <1>4

\* What is enough for a step of the read loop, and for one of the others.
LEMMA ReaderKeeps ==
  ASSUME TypeOK, Shape, NEW s, Runs(Reader, s), s # "stop_collector",
         NEW p \in ReaderPrograms, Stepped(Reader, p), graceTask' = graceTask,
         stt => stt' \/ Head(p) = "stop_collector",
         Head(p) \in {"open", "opened", "stop_collector", "closed"} => ~stt',
         \/ StateOK'
         \/ /\ state' = state /\ (closing => closing')
            /\ Promises(Reader, todo[Reader]) => Promises(Reader, p)
  PROVE  Shape'
<1>0. Reader \in Tasks
  BY Apart
<1>1. Placed' /\ Awaits' /\ \A g \in Graces : CountingDown(g)' => CountingDown(g)
  BY <1>0, SteppedShape, Apart
<1>2. TimerOK'
  BY <1>0, <1>1, SteppedTimer, Apart
<1>3. StateOK'
  BY <1>0, SteppedState
<1>4. SttOK'
  <2>1. todo'[Reader] = p /\ todo'[Collector] = todo[Collector]
    BY Apart DEF Stepped
  <2> QED
    BY <2>1, ReaderStt DEF Live, Quiet
<1> QED
  BY <1>1, <1>2, <1>3, <1>4 DEF Shape

\* The same for the other tasks.
LEMMA OtherKeeps ==
  ASSUME TypeOK, Shape, NEW t \in Tasks \ {Reader}, NEW p, Stepped(t, p),
         t \in Turns => p \in TurnPrograms, t \in Graces => p = Quiet,
         t = Collector => /\ p \in CollectorPrograms
                          /\ p # Quiet /\ Head(p) \in {"rest", "start"} => cpu' = Collector
                          /\ p = Quiet \/ Head(p) \notin {"barge", "new_grace"} \/ graceTask = Free,
         graceTask' = graceTask, stt' = stt,
         \/ StateOK'
         \/ /\ state' = state /\ (closing => closing')
            /\ \/ Promises(t, todo[t]) => Promises(t, p)
               \/ closing'
               \/ \E k \in Turns : todo'[k] = <<"begin">>
  PROVE  Shape'
<1>1. Placed' /\ Awaits' /\ \A g \in Graces : CountingDown(g)' => CountingDown(g)
  BY SteppedShape
<1>2. TimerOK'
  BY <1>1, SteppedTimer
<1>3. StateOK'
  BY SteppedState
<1>4. SttOK'
  BY SteppedStt
<1> QED
  BY <1>1, <1>2, <1>3, <1>4 DEF Shape

\* A flush, or what follows one or a cancellation, that cancels nobody.
LEMMA FlushKeeps ==
  ASSUME TypeOK, Shape, NEW t \in Tasks, NEW s \in {"flush", "start", "rest"}, Runs(t, s),
         Stepped(t, Rest(t)), graceTask' = graceTask, stt' = stt,
         \/ StateOK'
         \/ /\ state' = state /\ (closing => closing')
            /\ s = "flush" \/ closing' \/ \E k \in Turns : todo'[k] = <<"begin">>
  PROVE  Shape'
<1>1. /\ t \in {Reader, Collector} \cup Graces
      /\ t \in Graces => Rest(t) = Quiet
      /\ t = Collector => ToC(Rest(t), {"results", "endpoint"})
      /\ t = Reader => ToR(Rest(t), {"close_stt", "receive"})
  BY SharedProgram, CollectorFlow, ReaderFlow DEF Rest, Runs, ToR
<1>2. s = "flush" => ~Promises(t, todo[t])
  BY <1>1, SharedProgram, ReaderFlow, Apart DEF Promises, Runs
<1>3. StateOK'
  BY <1>2, SteppedState
<1>4. CASE t = Reader
  <2>1. Rest(t) \in ReaderPrograms /\ Head(Rest(t)) \in {"close_stt", "receive"}
    BY <1>1, <1>4 DEF ToR
  <2> QED
    BY <1>3, <1>4, <2>1, ReaderKeeps
<1>5. CASE t # Reader
  <2>1. t \notin Turns
    BY <1>1, Apart
  <2> QED
    BY <1>1, <1>3, <1>5, <2>1, OtherKeeps DEF ToC
<1> QED
  BY <1>4, <1>5

\* Stopping the timer: the one that could still fire is the one struck.
LEMMA CancelGraceShape ==
  ASSUME TypeOK, Shape, NEW t \in Tasks, CancelGrace(t)
  PROVE  Shape'
<1>0. Runs(t, "cancel_grace") /\ Live(t) /\ graceTask' = Free /\ state' = state
      /\ closing' = closing /\ stt' = stt
  BY DEF CancelGrace, Runs, mic
<1>1. /\ t \in {Reader, Collector} /\ t \notin Turns \cup Graces
      /\ t = Collector => ToC(Rest(t), {"results", "barge", "new_grace"})
      /\ t = Reader => Onward(todo[t], Rest(t), {"finish", "flush"}, {"close_stt"})
  BY <1>0, SharedProgram, CollectorFlow, ReaderFlow, Apart DEF Rest, Runs
<1>2. /\ t = Reader => Rest(t) \in ReaderPrograms /\ Head(Rest(t)) \in {"finish", "flush", "close_stt"}
      /\ Promises(t, todo[t]) => Promises(t, Rest(t))
  <2>1. ASSUME t = Reader
        PROVE  /\ Rest(t) \in ReaderPrograms /\ Head(Rest(t)) \in {"finish", "flush", "close_stt"}
               /\ Promises(t, todo[t]) => Promises(t, Rest(t))
    <3>1. todo[t] # Quiet /\ Head(todo[t]) = "cancel_grace"
      BY <1>0 DEF Runs, Live
    <3> QED
      BY <1>1, <2>1, <3>1 DEF Onward, ToR, ReaderPrograms, Promises
  <2>2. ASSUME t = Collector
        PROVE  ~Promises(t, todo[t])
    BY <1>0, <2>2, Apart DEF Runs, Promises
  <2> QED
    BY <1>1, <2>1, <2>2, Apart
<1>3. CASE graceTask # Free /\ Live(graceTask)
  <2>1. graceTask \in Graces /\ graceTask \in Tasks /\ CancelAndJoin(t, graceTask, Rest(t))
    BY <1>3, Apart DEF CancelGrace, TypeOK
  <2>2. PICK v \in Turns \cup Graces \cup {Collector, Free} : Struck(t, graceTask, Rest(t), v)
    BY <1>0, <1>1, <1>3, <2>1, WhoIsStruck DEF Runs
  <2>3. Placed' /\ Awaits' /\ \A g \in Graces : CountingDown(g)' => CountingDown(g) /\ g # v
    BY <1>1, <1>2, <2>1, <2>2, JoinShape, Apart DEF ToC
  <2>4. TimerOK'
    <3>1. \A g \in Graces : graceTask = g /\ CountingDown(g) => g = v
      BY <2>2 DEF CountingDown, Struck
    <3> QED
      BY <1>0, <2>2, <2>3, <3>1, JoinTimer
  <2>5. StateOK'
    BY <1>0, <1>2, <2>1, <2>2, JoinState, Apart
  <2>6. SttOK'
    <3>1. CASE t = Collector
      BY <1>0, <2>2, <3>1, JoinStt, Apart
    <3>2. CASE t = Reader
      <4>1. todo'[Reader] = Rest(t) /\ v # Collector
        BY <2>2, <2>1, <3>2, Apart DEF Struck, Shape, Awaits
      <4>2. todo'[Collector] = todo[Collector]
        BY <2>2, <3>2, <4>1, Apart DEF Struck
      <4> QED
        BY <1>0, <1>2, <3>2, <4>1, <4>2, ReaderStt DEF Live, Quiet
    <3> QED
      BY <1>1, <3>1, <3>2
  <2> QED
    BY <2>3, <2>4, <2>5, <2>6 DEF Shape
<1>4. CASE ~(graceTask # Free /\ Live(graceTask))
  <2>1. Stepped(t, Rest(t)) /\ cpu' = Keeps(t, Rest(t))
    BY <1>0, <1>4, ThenSteps DEF CancelGrace
  <2>2. Placed' /\ Awaits' /\ \A g \in Graces : CountingDown(g)' => CountingDown(g)
    BY <1>1, <1>2, <2>1, SteppedShape, Apart DEF ToC
  <2>3. TimerOK'
    <3>1. \A g \in Graces : ~CountingDown(g)
      BY <1>4, Apart DEF Shape, TimerOK, CountingDown, Tasks
    <3> QED
      BY <1>0, <2>2, <3>1 DEF TimerOK
  <2>4. StateOK'
    BY <1>0, <1>2, <2>1, SteppedState
  <2>5. SttOK'
    <3>1. CASE t = Collector
      BY <1>0, <2>1, <3>1, SteppedStt, Apart
    <3>2. CASE t = Reader
      <4>1. todo'[Reader] = Rest(t) /\ todo'[Collector] = todo[Collector]
        BY <2>1, <3>2, Apart DEF Stepped
      <4> QED
        BY <1>0, <1>2, <3>2, <4>1, ReaderStt DEF Live, Quiet
    <3> QED
      BY <1>1, <3>1, <3>2
  <2> QED
    BY <2>2, <2>3, <2>4, <2>5 DEF Shape
<1> QED
  BY <1>3, <1>4

\* A flush: whoever interrupts an answer holds the words and starts a turn.
LEMMA FlushShape ==
  ASSUME TypeOK, Shape, NEW t \in Tasks, Flush(t)
  PROVE  Shape'
<1>1. CASE FlushNothing(t)
  <2>1. Runs(t, "flush") /\ Stepped(t, Rest(t))
    BY <1>1, ThenSteps DEF FlushNothing
  <2> QED
    BY <1>1, <2>1, FlushKeeps DEF FlushNothing, mic, refs
<1>2. CASE FlushStarts(t)
  <2>1. /\ Runs(t, "flush") /\ Stepped(t, Rest(t)) /\ (closing => closing')
        /\ graceTask' = graceTask /\ stt' = stt /\ state' = state
    BY <1>2, StartSteps DEF FlushStarts, mic
  <2> QED
    BY <2>1, FlushKeeps
<1>3. CASE FlushQueues(t)
  <2>1. Runs(t, "flush") /\ Stepped(t, Rest(t))
    BY <1>3, ThenSteps DEF FlushQueues
  <2> QED
    BY <1>3, <2>1, FlushKeeps DEF FlushQueues, mic, refs
<1>4. CASE FlushResumes(t)
  <2>1. /\ Runs(t, "start") /\ Stepped(t, Rest(t)) /\ (closing => closing')
        /\ closing' \/ \E k \in Turns : todo'[k] = <<"begin">>
        /\ graceTask' = graceTask /\ stt' = stt /\ state' = state
    BY <1>4, StartSteps DEF FlushResumes, mic
  <2> QED
    BY <2>1, FlushKeeps
<1>5. CASE FlushInterrupts(t)
  <2>0. PICK p : p = <<"start">> \o Rest(t)
    OBVIOUS
  <2>1. /\ Runs(t, "flush") /\ Live(t) /\ state' = state /\ closing' = closing /\ stt' = stt
        /\ graceTask' = graceTask /\ Live(turnTask) /\ turnTask \in Turns /\ turnTask \in Tasks
        /\ CancelAndJoin(t, turnTask, p)
    BY <1>5, <2>0, Apart DEF FlushInterrupts, Runs, mic, Busy, TypeOK
  <2>2. /\ t \in {Reader, Collector} \cup Graces /\ t \notin Turns
        /\ t \in Graces => p = <<"start">>
        /\ t = Collector => ToC(p, {"start"})
        /\ t = Reader => ToR(p, {"start"}) /\ p # Quiet
    <3>1. /\ t \in {Reader, Collector} \cup Graces
          /\ t \in Graces => p = <<"start">>
          /\ t = Collector => todo[t] \in CollectorPrograms /\ todo[t] # Quiet
          /\ t = Reader => todo[t] \in ReaderPrograms
      BY <2>0, <2>1, SharedProgram
    <3>2. t = Collector => ToC(p, {"start"})
      BY <2>0, <2>1, <3>1, CollectorFlow DEF Rest, Runs
    <3>3. t = Reader => ToR(p, {"start"}) /\ p # Quiet
      BY <2>0, <2>1, <3>1, ReaderFlow DEF Rest, Runs, ToR
    <3> QED
      BY <3>1, <3>2, <3>3, Apart
  <2>3. Promises(t, p)
    BY <2>2, Apart, <<"start">> # Quiet, Head(<<"start">>) = "start" DEF ToC, ToR, Promises, Quiet
  <2>4. PICK v \in Turns \cup Graces \cup {Collector, Free} : Struck(t, turnTask, p, v)
    BY <2>1, <2>2, WhoIsStruck DEF Runs
  <2>5. Placed' /\ Awaits' /\ \A g \in Graces : CountingDown(g)' => CountingDown(g) /\ g # v
    BY <2>1, <2>2, <2>4, JoinShape, Apart DEF ToC, ToR
  <2>6. StateOK'
    BY <2>1, <2>3, <2>4, JoinState
  <2>7. TimerOK'
    BY <2>1, <2>2, <2>4, <2>5, JoinTimer DEF ToC
  <2>8. SttOK'
    <3>1. CASE t # Reader
      BY <2>1, <2>4, <3>1, JoinStt
    <3>2. CASE t = Reader
      <4>1. todo'[Reader] = p /\ v # Collector
        BY <2>4, <2>1, <3>2, Apart DEF Struck, Shape, Awaits
      <4>2. todo'[Collector] = todo[Collector]
        BY <2>4, <3>2, <4>1, Apart DEF Struck
      <4> QED
        BY <2>1, <2>2, <3>2, <4>1, <4>2, ReaderStt DEF Live, Quiet, ToR
    <3> QED
      BY <3>1, <3>2
  <2> QED
    BY <2>5, <2>6, <2>7, <2>8 DEF Shape
<1> QED
  BY <1>1, <1>2, <1>3, <1>4, <1>5 DEF Flush

\* The steps the tasks share.
LEMMA SharedShape ==
  ASSUME TypeOK, Shape, NEW t \in Tasks, Shared(t)
  PROVE  Shape'
<1>1. CASE SetResting(t)
  <2>1. Runs(t, "rest") /\ Stepped(t, Rest(t)) /\ stt' = stt /\ graceTask' = graceTask
    BY <1>1, SendSteps DEF SetResting, mic, refs
  <2>2. StateOK'
    BY <1>1 DEF SetResting, Resting, StateOK
  <2> QED
    BY <2>1, <2>2, FlushKeeps
<1> QED
  BY <1>1, CancelTurnShape, CancelGraceShape, FlushShape DEF Shared

\* The one who moves says that the session will rest.
LEMMA SaysSo ==
  ASSUME NEW t \in Tasks, NEW p, Stepped(t, p), Promises(t, p)
  PROVE  StateOK'
<1>1. todo'[t] = p \/ (t \in Turns /\ todo'[t] = <<"begin">>)
  BY DEF Stepped
<1>2. t \in Turns => Promises(t, <<"begin">>)
  BY Apart DEF Promises, Quiet
<1>3. Promises(t, todo'[t])
  BY <1>1, <1>2
<1> QED
  BY <1>3 DEF StateOK, WillRest, Promises, Closings, Quiet

\* A turn goes from one promise to the next until it has settled.
LEMMA TurnShape ==
  ASSUME TypeOK, Shape, NEW k \in Turns, Turn(k)
  PROVE  Shape'
<1>0. k \in Tasks \ {Reader} /\ k \notin Graces /\ k # Collector
  BY Apart
<1>1. /\ Promises(k, <<"stream">>) /\ Promises(k, <<"settle", "pop">>)
      /\ {<<"stream">>, <<"settle", "pop">>, <<"pop">>, Quiet} \subseteq TurnPrograms
  BY <1>0 DEF Promises, Quiet, TurnPrograms
<1>2. CASE TurnBegins(k) \/ TurnSpeaks(k)
  <2>1. Stepped(k, <<"stream">>)
    BY <1>0, <1>2, ThenSteps DEF TurnBegins, TurnSpeaks
  <2>2. StateOK'
    BY <1>0, <1>1, <2>1, SaysSo
  <2> QED
    BY <1>0, <1>1, <1>2, <2>1, <2>2, OtherKeeps DEF TurnBegins, TurnSpeaks, mic, refs
<1>3. CASE TurnEnds(k)
  <2>1. Stepped(k, <<"settle", "pop">>)
    BY <1>0, <1>3, SendSteps DEF TurnEnds
  <2>2. StateOK'
    BY <1>0, <1>1, <2>1, SaysSo
  <2> QED
    BY <1>0, <1>1, <1>3, <2>1, <2>2, OtherKeeps DEF TurnEnds, mic, refs
<1>4. CASE TurnSettles(k)
  <2>1. Stepped(k, <<"pop">>)
    BY <1>0, <1>4, SendSteps DEF TurnSettles
  <2>2. StateOK'
    BY <1>4 DEF TurnSettles, Resting, StateOK
  <2> QED
    BY <1>0, <1>1, <1>4, <2>1, <2>2, OtherKeeps DEF TurnSettles, mic, refs
<1>5. CASE TurnPopsQueue(k)
  <2>1. Runs(k, "pop") /\ state' = state /\ stt' = stt /\ graceTask' = graceTask
    BY <1>5 DEF TurnPopsQueue, mic
  <2>2. ~Promises(k, todo[k])
    BY <1>0, <2>1 DEF Promises, Runs
  <2>3. Stepped(k, Quiet) /\ (closing => closing')
    <3>1. CASE queued = {}
      BY <1>0, <1>5, <3>1, ThenSteps DEF TurnPopsQueue, Then
    <3>2. CASE queued # {}
      BY <1>0, <1>5, <3>2, StartSteps DEF TurnPopsQueue
    <3> QED
      BY <3>1, <3>2
  <2> QED
    BY <1>0, <1>1, <2>1, <2>2, <2>3, OtherKeeps
<1> QED
  BY <1>2, <1>3, <1>4, <1>5 DEF Turn

\* What the collector does about a result.
LEMMA ReactionIs ==
  ASSUME NEW r \in Results, CanArrive(r)
  PROVE  ToC(Reaction(r) \o <<"results">>, {"keep", "cancel_grace", "endpoint", "results"})
<1>0. <<>> \o <<>> = <<>>
  OBVIOUS
<1>1. PICK k, c, b, e : /\ k = IF r.final THEN <<"keep">> ELSE <<>>
                        /\ c = IF r.words \/ r.onset THEN <<"cancel_grace">> ELSE <<>>
                        /\ b = IF r.words THEN <<"barge">> ELSE <<>>
                        /\ e = IF r.endpoint THEN <<"endpoint">> ELSE <<>>
  OBVIOUS
<1>p. PICK p : p = Reaction(r) \o <<"results">>
  OBVIOUS
<1>2. Reaction(r) = ((k \o c) \o b) \o e
  BY <1>1 DEF Reaction
<1>3. CASE r.final /\ r.endpoint
  <2>1. k = <<"keep">> /\ c = <<"cancel_grace">> /\ b = <<"barge">> /\ e = <<"endpoint">>
    BY <1>1, <1>3 DEF CanArrive
  <2>2. <<"keep">> \o <<"cancel_grace">> = <<"keep", "cancel_grace">>
    BY <1>0, LiteralsJoined
  <2>3. <<"keep", "cancel_grace">> \o <<"barge">> = <<"keep", "cancel_grace", "barge">>
    BY <1>0, LiteralsJoined
  <2>4. <<"keep", "cancel_grace", "barge">> \o <<"endpoint">> = <<"keep", "cancel_grace", "barge", "endpoint">>
    BY <1>0, LiteralsJoined
  <2>5. <<"keep", "cancel_grace", "barge", "endpoint">> \o <<"results">> = <<"keep", "cancel_grace", "barge", "endpoint", "results">>
    BY <1>0, LiteralsJoined
  <2>6. (((k \o c) \o b) \o e) \o <<"results">> = <<"keep", "cancel_grace", "barge", "endpoint", "results">>
    BY <2>1, <2>2, <2>3, <2>4, <2>5, Zenon
  <2>7. p = <<"keep", "cancel_grace", "barge", "endpoint", "results">>
    BY <1>2, <1>p, <2>6, Zenon
  <2>8. ToC(p, {"keep", "cancel_grace", "endpoint", "results"})
    BY <2>7 DEF ToC, CollectorPrograms, Quiet
  <2> QED
    BY <1>p, <2>8, Zenon
<1>4. CASE r.final /\ ~r.endpoint
  <2>1. k = <<"keep">> /\ c = <<"cancel_grace">> /\ b = <<"barge">> /\ e = <<>>
    BY <1>1, <1>4 DEF CanArrive
  <2>2. <<"keep">> \o <<"cancel_grace">> = <<"keep", "cancel_grace">>
    BY <1>0, LiteralsJoined
  <2>3. <<"keep", "cancel_grace">> \o <<"barge">> = <<"keep", "cancel_grace", "barge">>
    BY <1>0, LiteralsJoined
  <2>4. <<"keep", "cancel_grace", "barge">> \o <<>> = <<"keep", "cancel_grace", "barge">>
    BY <1>0, LiteralsJoined
  <2>5. <<"keep", "cancel_grace", "barge">> \o <<"results">> = <<"keep", "cancel_grace", "barge", "results">>
    BY <1>0, LiteralsJoined
  <2>6. (((k \o c) \o b) \o e) \o <<"results">> = <<"keep", "cancel_grace", "barge", "results">>
    BY <2>1, <2>2, <2>3, <2>4, <2>5, Zenon
  <2>7. p = <<"keep", "cancel_grace", "barge", "results">>
    BY <1>2, <1>p, <2>6, Zenon
  <2>8. ToC(p, {"keep", "cancel_grace", "endpoint", "results"})
    BY <2>7 DEF ToC, CollectorPrograms, Quiet
  <2> QED
    BY <1>p, <2>8, Zenon
<1>5. CASE ~r.final /\ r.words /\ r.endpoint
  <2>1. k = <<>> /\ c = <<"cancel_grace">> /\ b = <<"barge">> /\ e = <<"endpoint">>
    BY <1>1, <1>5 DEF CanArrive
  <2>2. <<>> \o <<"cancel_grace">> = <<"cancel_grace">>
    BY <1>0, LiteralsJoined
  <2>3. <<"cancel_grace">> \o <<"barge">> = <<"cancel_grace", "barge">>
    BY <1>0, LiteralsJoined
  <2>4. <<"cancel_grace", "barge">> \o <<"endpoint">> = <<"cancel_grace", "barge", "endpoint">>
    BY <1>0, LiteralsJoined
  <2>5. <<"cancel_grace", "barge", "endpoint">> \o <<"results">> = <<"cancel_grace", "barge", "endpoint", "results">>
    BY <1>0, LiteralsJoined
  <2>6. (((k \o c) \o b) \o e) \o <<"results">> = <<"cancel_grace", "barge", "endpoint", "results">>
    BY <2>1, <2>2, <2>3, <2>4, <2>5, Zenon
  <2>7. p = <<"cancel_grace", "barge", "endpoint", "results">>
    BY <1>2, <1>p, <2>6, Zenon
  <2>8. ToC(p, {"keep", "cancel_grace", "endpoint", "results"})
    BY <2>7 DEF ToC, CollectorPrograms, Quiet
  <2> QED
    BY <1>p, <2>8, Zenon
<1>6. CASE ~r.final /\ r.words /\ ~r.endpoint
  <2>1. k = <<>> /\ c = <<"cancel_grace">> /\ b = <<"barge">> /\ e = <<>>
    BY <1>1, <1>6 DEF CanArrive
  <2>2. <<>> \o <<"cancel_grace">> = <<"cancel_grace">>
    BY <1>0, LiteralsJoined
  <2>3. <<"cancel_grace">> \o <<"barge">> = <<"cancel_grace", "barge">>
    BY <1>0, LiteralsJoined
  <2>4. <<"cancel_grace", "barge">> \o <<>> = <<"cancel_grace", "barge">>
    BY <1>0, LiteralsJoined
  <2>5. <<"cancel_grace", "barge">> \o <<"results">> = <<"cancel_grace", "barge", "results">>
    BY <1>0, LiteralsJoined
  <2>6. (((k \o c) \o b) \o e) \o <<"results">> = <<"cancel_grace", "barge", "results">>
    BY <2>1, <2>2, <2>3, <2>4, <2>5, Zenon
  <2>7. p = <<"cancel_grace", "barge", "results">>
    BY <1>2, <1>p, <2>6, Zenon
  <2>8. ToC(p, {"keep", "cancel_grace", "endpoint", "results"})
    BY <2>7 DEF ToC, CollectorPrograms, Quiet
  <2> QED
    BY <1>p, <2>8, Zenon
<1>7. CASE ~r.words /\ r.onset
  <2>1. k = <<>> /\ c = <<"cancel_grace">> /\ b = <<>> /\ e = <<>>
    BY <1>1, <1>7 DEF CanArrive
  <2>2. <<>> \o <<"cancel_grace">> = <<"cancel_grace">>
    BY <1>0, LiteralsJoined
  <2>3. <<"cancel_grace">> \o <<>> = <<"cancel_grace">>
    BY <1>0, LiteralsJoined
  <2>4. <<"cancel_grace">> \o <<>> = <<"cancel_grace">>
    BY <1>0, LiteralsJoined
  <2>5. <<"cancel_grace">> \o <<"results">> = <<"cancel_grace", "results">>
    BY <1>0, LiteralsJoined
  <2>6. (((k \o c) \o b) \o e) \o <<"results">> = <<"cancel_grace", "results">>
    BY <2>1, <2>2, <2>3, <2>4, <2>5, Zenon
  <2>7. p = <<"cancel_grace", "results">>
    BY <1>2, <1>p, <2>6, Zenon
  <2>8. ToC(p, {"keep", "cancel_grace", "endpoint", "results"})
    BY <2>7 DEF ToC, CollectorPrograms, Quiet
  <2> QED
    BY <1>p, <2>8, Zenon
<1>8. CASE ~r.words /\ ~r.onset
  <2>1. k = <<>> /\ c = <<>> /\ b = <<>> /\ e = <<"endpoint">>
    BY <1>1, <1>8 DEF CanArrive
  <2>2. <<>> \o <<>> = <<>>
    BY <1>0, LiteralsJoined
  <2>3. <<>> \o <<>> = <<>>
    BY <1>0, LiteralsJoined
  <2>4. <<>> \o <<"endpoint">> = <<"endpoint">>
    BY <1>0, LiteralsJoined
  <2>5. <<"endpoint">> \o <<"results">> = <<"endpoint", "results">>
    BY <1>0, LiteralsJoined
  <2>6. (((k \o c) \o b) \o e) \o <<"results">> = <<"endpoint", "results">>
    BY <2>1, <2>2, <2>3, <2>4, <2>5, Zenon
  <2>7. p = <<"endpoint", "results">>
    BY <1>2, <1>p, <2>6, Zenon
  <2>8. ToC(p, {"keep", "cancel_grace", "endpoint", "results"})
    BY <2>7 DEF ToC, CollectorPrograms, Quiet
  <2> QED
    BY <1>p, <2>8, Zenon
<1> QED
  BY <1>3, <1>4, <1>5, <1>6, <1>7, <1>8 DEF CanArrive

\* The collector's steps; a timer is set when none can fire.
LEMMA CollectsShape ==
  ASSUME TypeOK, Shape, Collects
  PROVE  Shape'
<1>0. Collector \in Tasks \ {Reader} /\ Collector \notin Graces \cup Turns
  BY Apart
<1>f. ASSUME NEW s, Runs(Collector, s)
      PROVE  /\ todo[Collector] \in CollectorPrograms /\ todo[Collector] # Quiet
             /\ Head(todo[Collector]) = s
             /\ s \notin {"rest", "start"} => ~Promises(Collector, todo[Collector])
  <2>1. todo[Collector] \in CollectorPrograms /\ todo[Collector] # Quiet /\ Head(todo[Collector]) = s
    BY <1>f DEF Shape, Placed, Runs, Live
  <2>2. s \notin {"begin", "stream", "unwind", "settle"}
    BY <2>1, CollectorFlow
  <2> QED
    BY <1>0, <2>1, <2>2 DEF Promises
<1>k. ASSUME NEW p, NEW s \in {"results", "keep", "barge", "endpoint"}, Runs(Collector, s),
             Then(Collector, p)
               \/ (todo' = [todo EXCEPT ![Collector] = p] /\ GoesAfterSend(Collector, p)),
             p = Quiet \/ ToC(p, {"keep", "cancel_grace", "endpoint", "results", "cancel_turn", "flush"}),
             stt' = stt, graceTask' = graceTask, state' = state, closing' = closing
      PROVE  Shape'
  <2>1. Stepped(Collector, p)
    BY <1>0, <1>k, ThenSteps, SendSteps
  <2>2. Quiet \in CollectorPrograms
    BY DEF CollectorPrograms
  <2> QED
    BY <1>0, <1>f, <1>k, <2>1, <2>2, OtherKeeps DEF ToC
<1>1. ASSUME NEW r \in Results, Result(r)
      PROVE  Shape'
  <2>1. PICK p : p = Reaction(r) \o <<"results">>
    OBVIOUS
  <2>2. ToC(p, {"keep", "cancel_grace", "endpoint", "results"})
    BY <1>1, <2>1, ReactionIs DEF Result
  <2>3. /\ Runs(Collector, "results") /\ stt' = stt /\ graceTask' = graceTask /\ state' = state
        /\ closing' = closing
        /\ Then(Collector, p)
             \/ (todo' = [todo EXCEPT ![Collector] = p] /\ GoesAfterSend(Collector, p))
    BY <1>1, <2>1 DEF Result, Then, mic, refs
  <2> QED
    BY <1>k, <2>2, <2>3 DEF ToC
<1>2. CASE BargeIn
  <2>1. PICK p : p = (IF state = "speaking" THEN <<"cancel_turn", "rest">> ELSE <<>>) \o Rest(Collector)
    OBVIOUS
  <2>2. Runs(Collector, "barge") /\ Then(Collector, p)
    BY <1>2, <2>1 DEF BargeIn
  <2>3. ToC(p, {"results", "endpoint", "cancel_turn"})
    BY <1>f, <2>1, <2>2, CollectorFlow DEF Rest, ToC
  <2> QED
    BY <1>2, <1>k, <2>2, <2>3 DEF BargeIn, mic, refs, ToC
<1>3. CASE EndpointReached
  <2>1. PICK p : p = (IF mode = "instant" THEN <<"flush">> ELSE <<"cancel_grace", "new_grace">>)
                     \o Rest(Collector)
    OBVIOUS
  <2>2. Runs(Collector, "endpoint") /\ Then(Collector, p)
    BY <1>3, <2>1 DEF EndpointReached
  <2>3. ToC(p, {"flush", "cancel_grace"})
    BY <1>f, <2>1, <2>2, CollectorFlow DEF Rest, ToC
  <2> QED
    BY <1>3, <1>k, <2>2, <2>3 DEF EndpointReached, mic, refs, ToC
<1>4. CASE StreamEnds
  BY <1>4, <1>k DEF StreamEnds, mic, refs
<1>5. CASE NewGrace
  <2>1. PICK g \in Graces :
          /\ ~Live(g) /\ graceTask' = g
          /\ todo' = [todo EXCEPT ![g] = <<"flush">>, ![Collector] = Rest(Collector)]
    BY <1>5 DEF NewGrace
  <2>2. /\ Runs(Collector, "new_grace") /\ Live(Collector) /\ stt' = stt /\ state' = state
        /\ closing' = closing /\ on' = [on EXCEPT ![Collector] = Free]
    BY <1>5 DEF NewGrace, Runs, Goes, mic
  <2>3. ToC(Rest(Collector), {"results", "endpoint"})
    BY <1>f, <2>2, CollectorFlow DEF Rest
  <2>4. /\ \A s \in Tasks : todo'[s] = IF s = Collector THEN Rest(Collector)
                                       ELSE IF s = g THEN <<"flush">> ELSE todo[s]
        /\ \A s \in Tasks : on'[s] = IF s = Collector THEN Free ELSE on[s]
    BY <2>1, <2>2, Apart DEF TypeOK
  <2>5. g \in Tasks /\ todo[g] = Quiet /\ on[g] = Free
    BY <2>1, Apart, <<"start">> # <<>> DEF Live, Shape, Awaits, Quiet
  <2>6. Placed'
    BY <2>3, <2>4, Apart DEF Shape, Placed, ToC, GracePrograms
  <2>7. Awaits'
    <3>1. \A h \in Graces : IF todo'[h] = <<"start">> THEN on'[h] \in Turns ELSE on'[h] = Free
      BY <2>4, <2>5, Apart, <<"flush">> # <<"start">> DEF Shape, Awaits
    <3>2. todo'[Collector] = Rest(Collector) /\ on'[Collector] = Free
      BY <2>4, Apart
    <3>3. \A k \in Turns : on'[k] = Free
      BY <2>4, Apart DEF Shape, Awaits
    <3> QED
      BY <2>3, <3>1, <3>2, <3>3, Apart DEF Awaits, ToC, Doing, Live
  <2>8. SttOK'
    <3>1. todo'[Reader] = todo[Reader] /\ on'[Reader] = on[Reader]
      BY <2>1, <2>4, Apart
    <3> QED
      BY <2>2, <3>1, SttKept DEF Shape
  <2>9. TimerOK'
    <3>1. graceTask = Free
      BY <2>2, <1>f DEF Shape, TimerOK, Doing
    <3>2. \A h \in Graces : CountingDown(h)' => h = g
      <4> SUFFICES ASSUME NEW h \in Graces, CountingDown(h)', h # g PROVE FALSE
        OBVIOUS
      <4>1. CountingDown(h)
        BY <2>4, Apart DEF CountingDown, Live, Quiet
      <4> QED
        BY <3>1, <4>1, Apart DEF Shape, TimerOK, Tasks
    <3>3. todo'[Collector] = Rest(Collector)
      BY <2>4, Apart
    <3> QED
      BY <2>1, <2>3, <3>2, <3>3 DEF TimerOK, Doing, ToC
  <2>10. StateOK'
    <3>1. ~Promises(Collector, todo[Collector]) /\ ~Promises(g, todo[g])
      BY <1>f, <2>2, <2>5, Apart DEF Promises
    <3>2. \A s \in Tasks : Promises(s, todo[s]) => Promises(s, todo'[s])
      BY <2>4, <3>1
    <3> QED
      BY <2>2, <3>2 DEF Shape, StateOK, WillRest, Promises, Closings, Quiet
  <2> QED
    BY <2>6, <2>7, <2>8, <2>9, <2>10 DEF Shape
<1>6. CASE KeepWords
  <2>1. Runs(Collector, "keep") /\ Then(Collector, Rest(Collector))
    BY <1>6 DEF KeepWords
  <2>2. ToC(Rest(Collector), {"cancel_grace"})
    BY <1>f, <2>1, CollectorFlow DEF Rest
  <2> QED
    BY <1>6, <1>k, <2>1, <2>2 DEF KeepWords, mic, refs, ToC
<1> QED
  BY <1>1, <1>2, <1>3, <1>4, <1>5, <1>6 DEF Collects

\* Where the read loop is when it runs a step.
LEMMA ReaderAt ==
  ASSUME Shape, NEW s, Runs(Reader, s)
  PROVE  /\ todo[Reader] \in ReaderPrograms /\ Head(todo[Reader]) = s /\ Live(Reader)
         /\ Reader \in Tasks /\ todo[Reader] # Quiet
         /\ on[Reader] # Free => ~Live(on[Reader])
BY Apart DEF Shape, Placed, Runs, Live

\* A message is received by a read loop that promises nothing.
LEMMA HandlesShape ==
  ASSUME TypeOK, Shape, Handles
  PROVE  Shape'
<1>r. ASSUME Runs(Reader, "receive")
      PROVE  ~Promises(Reader, todo[Reader])
  BY <1>r, ReaderAt, ReaderFlow DEF Promises
<1>k. ASSUME NEW p \in ReaderPrograms, Runs(Reader, "receive"), Then(Reader, p),
             Head(p) \in {"receive", "close_stt", "cancel_grace", "flush", "cancel_turn"},
             stt' = stt, graceTask' = graceTask, state' = state, closing' = closing
      PROVE  Shape'
  <2>1. Stepped(Reader, p)
    BY <1>k, ThenSteps, Apart
  <2> QED
    BY <1>k, <1>r, <2>1, ReaderKeeps
<1>p. /\ <<"close_stt", "open">> \o <<"receive">> = <<"close_stt", "open", "receive">>
      /\ <<"cancel_grace", "finish">> \o <<"receive">> = <<"cancel_grace", "finish", "receive">>
      /\ <<"cancel_grace", "flush">> \o <<"receive">> = <<"cancel_grace", "flush", "receive">>
      /\ <<>> \o <<"receive">> = <<"receive">>
      /\ <<"cancel_turn", "rest">> \o <<"receive">> = <<"cancel_turn", "rest", "receive">>
      /\ <<"cancel_turn", "begin_text">> \o <<"receive">> = <<"cancel_turn", "begin_text", "receive">>
      /\ <<"flush">> \o <<"receive">> = <<"flush", "receive">>
      /\ <<"close_stt", "idle">> \o <<"receive">> = <<"close_stt", "idle", "receive">>
  BY LiteralsJoined
<1>l. \A q \in {<<"close_stt", "open", "receive">>, <<"cancel_grace", "finish", "receive">>,
                <<"cancel_grace", "flush", "receive">>, <<"receive">>,
                <<"cancel_turn", "rest", "receive">>, <<"cancel_turn", "begin_text", "receive">>,
                <<"flush", "receive">>, <<"close_stt", "idle", "receive">>} :
        q \in Handlings /\ Head(q) \in {"receive", "close_stt", "cancel_grace", "flush", "cancel_turn"}
  BY DEF Handlings
<1>c. CloseProgram \in Closings /\ Head(CloseProgram) = "cancel_turn"
  BY DEF Closings, CloseProgram
<1>m. ASSUME NEW m, NEW p \in {<<"close_stt", "open">>, <<"cancel_grace", "finish">>,
                               <<"cancel_grace", "flush">>, <<>>, <<"cancel_turn", "rest">>,
                               <<"cancel_turn", "begin_text">>, <<"flush">>, <<"close_stt", "idle">>},
             Receives(m, p), stt' = stt, graceTask' = graceTask, state' = state, closing' = closing
      PROVE  Shape'
  <2>1. PICK q : q = p \o <<"receive">>
    OBVIOUS
  <2>2. q \in Handlings /\ Head(q) \in {"receive", "close_stt", "cancel_grace", "flush", "cancel_turn"}
    BY <1>m, <1>p, <1>l, <2>1
  <2>3. Runs(Reader, "receive") /\ Then(Reader, q)
    BY <1>m, <2>1 DEF Receives
  <2> QED
    BY <1>k, <1>m, <2>2, <2>3 DEF ReaderPrograms
<1>1. CASE MicOn
  BY <1>1, <1>m DEF MicOn, mic, refs
<1>2. CASE MicOff
  BY <1>2, <1>m DEF MicOff, refs
<1>3. CASE SetMode
  BY <1>3, <1>m DEF SetMode, mic, refs
<1>4. CASE Cancel
  BY <1>4, <1>m DEF Cancel, mic, refs
<1>5. CASE Text
  BY <1>5, <1>m DEF Text, mic, refs
<1>6. CASE Overlong
  BY <1>6, <1>m DEF Overlong, mic, refs
<1>7. CASE AudioFails
  BY <1>7, <1>m DEF AudioFails, refs
<1>8. CASE Leaves
  BY <1>8, <1>k, <1>c DEF Leaves, ReaderPrograms, mic, refs
<1>9. CASE Closed
  <2>1. /\ Runs(Reader, "closed") /\ Stepped(Reader, Quiet) /\ stt' = stt
        /\ graceTask' = graceTask /\ state' = state /\ closing' = closing
    BY <1>9, ThenSteps, Apart DEF Closed, mic, refs
  <2>2. Placed' /\ Awaits' /\ \A g \in Graces : CountingDown(g)' => CountingDown(g)
    BY <2>1, SteppedShape, Apart
  <2>3. TimerOK'
    BY <2>1, <2>2, SteppedTimer, Apart
  <2>4. StateOK'
    BY <2>1, SaysSo, Apart DEF Promises
  <2>5. SttOK'
    <3>1. ~stt /\ ~Live(Collector)
      BY <2>1, ReaderAt, Apart DEF Shape, SttOK, Doing
    <3>2. todo'[Collector] = todo[Collector] /\ todo'[Reader] = Quiet
      BY <2>1, Apart DEF Stepped
    <3> QED
      BY <2>1, <3>1, <3>2 DEF SttOK, Doing, Live, Quiet
  <2> QED
    BY <2>2, <2>3, <2>4, <2>5 DEF Shape
<1> QED
  BY <1>1, <1>2, <1>3, <1>4, <1>5, <1>6, <1>7, <1>8, <1>9 DEF Handles

\* Closing the recogniser's session: the collector is stopped and awaited.
LEMMA StopCollectorShape ==
  ASSUME TypeOK, Shape, StopCollector
  PROVE  Shape'
<1>0. /\ Runs(Reader, "stop_collector") /\ stt' = stt /\ graceTask' = graceTask
      /\ state' = state /\ closing' = closing
  BY DEF StopCollector, refs
<1>1. ~stt
  BY <1>0, ReaderAt DEF Shape, SttOK, Doing
<1>2. Onward(todo[Reader], Rest(Reader), {"open", "report", "idle"}, {"closed"})
  BY <1>0, ReaderAt, ReaderFlow DEF Rest
<1>3. Rest(Reader) \in ReaderPrograms /\ (Promises(Reader, todo[Reader]) => Promises(Reader, Rest(Reader)))
  BY <1>0, <1>2, ReaderAt DEF Onward, ToR, ReaderPrograms, Promises
<1>4. ASSUME todo'[Reader] = Rest(Reader), Live(Collector)' => on'[Reader] = Collector
      PROVE  SttOK'
  BY <1>0, <1>1, <1>3, <1>4, ReaderFlow DEF SttOK, Live
<1>5. CASE Live(Collector)
  <2>1. CancelAndJoin(Reader, Collector, Rest(Reader))
    BY <1>5 DEF StopCollector
  <2>2. PICK v \in Turns \cup Graces \cup {Collector, Free} : Struck(Reader, Collector, Rest(Reader), v)
    BY <1>0, <1>5, <2>1, ReaderAt, WhoIsStruck, Apart DEF Runs
  <2>3. Placed' /\ Awaits' /\ \A g \in Graces : CountingDown(g)' => CountingDown(g) /\ g # v
    BY <1>3, <2>2, JoinShape, Apart
  <2>4. StateOK' /\ TimerOK'
    BY <1>0, <1>3, <2>2, <2>3, JoinState, JoinTimer, Apart
  <2>5. todo'[Reader] = Rest(Reader) /\ on'[Reader] = Collector
    BY <2>2, Apart DEF Struck
  <2> QED
    BY <1>4, <2>3, <2>4, <2>5 DEF Shape
<1>6. CASE ~Live(Collector)
  <2>1. Stepped(Reader, Rest(Reader))
    BY <1>0, <1>6, ThenSteps, Apart DEF StopCollector
  <2>2. Placed' /\ Awaits' /\ \A g \in Graces : CountingDown(g)' => CountingDown(g)
    BY <1>3, <2>1, SteppedShape, Apart
  <2>3. StateOK' /\ TimerOK'
    BY <1>0, <1>3, <2>1, <2>2, SteppedState, SteppedTimer, Apart
  <2>4. todo'[Reader] = Rest(Reader) /\ todo'[Collector] = todo[Collector]
    BY <2>1, Apart DEF Stepped
  <2> QED
    BY <1>4, <1>6, <2>2, <2>3, <2>4 DEF Shape, Live, Quiet
<1> QED
  BY <1>5, <1>6

\* Opening one: only when the last collector has gone.
LEMMA SttOpenedShape ==
  ASSUME TypeOK, Shape, SttOpened
  PROVE  Shape'
<1>0. /\ Runs(Reader, "opened") /\ stt' = TRUE /\ graceTask' = graceTask /\ state' = "listening"
      /\ todo' = [todo EXCEPT ![Collector] = <<"results">>, ![Reader] = Rest(Reader)]
      /\ on' = [on EXCEPT ![Reader] = Free] /\ cpu \in {Free, Reader}
  BY DEF SttOpened, Runs, Goes, refs
<1>1. ~Live(Collector) /\ on[Collector] = Free
  BY <1>0, ReaderAt, Apart DEF Shape, SttOK, Awaits, Doing
<1>2. ToR(Rest(Reader), {"receive"}) /\ Rest(Reader) # Quiet
  <2>1. ToR(Rest(Reader), {"receive"})
    BY <1>0, ReaderAt, ReaderFlow DEF Rest
  <2> QED
    BY <2>1, ReaderFlow DEF ToR
<1>3. /\ \A s \in Tasks : todo'[s] = IF s = Reader THEN Rest(Reader)
                                     ELSE IF s = Collector THEN <<"results">> ELSE todo[s]
      /\ \A s \in Tasks : on'[s] = IF s = Reader THEN Free ELSE on[s]
  BY <1>0, Apart DEF TypeOK
<1>4. Placed'
  BY <1>2, <1>3, Apart DEF Shape, Placed, ToR, CollectorPrograms
<1>5. /\ todo'[Collector] = <<"results">> /\ todo'[Reader] = Rest(Reader) /\ on'[Collector] = Free
      /\ <<"results">> # <<>> /\ Head(<<"results">>) = "results"
  BY <1>1, <1>3, Apart
<1>6. Awaits'
  <2>1. \A h \in Graces : IF todo'[h] = <<"start">> THEN on'[h] \in Turns ELSE on'[h] = Free
    BY <1>3, Apart DEF Shape, Awaits
  <2>2. \A k \in Turns : on'[k] = Free
    BY <1>3, Apart DEF Shape, Awaits
  <2> QED
    BY <1>5, <2>1, <2>2, Apart DEF Awaits, Doing, Live
<1>7. SttOK'
  BY <1>0, <1>2, <1>5 DEF SttOK, Doing, Live, Quiet, ToR
<1>8. TimerOK'
  <2>1. \A g \in Graces : CountingDown(g)' => CountingDown(g)
    BY <1>3, Apart DEF CountingDown, Live, Quiet
  <2> QED
    BY <1>0, <1>5, <2>1 DEF Shape, TimerOK, Doing
<1> QED
  BY <1>0, <1>4, <1>6, <1>7, <1>8 DEF Shape, StateOK

\* The read loop's own steps.
LEMMA ReadsShape ==
  ASSUME TypeOK, Shape, Reads
  PROVE  Shape'
<1>0. Reader \in Tasks
  BY Apart
<1>1. CASE CloseStt
  <2>1. PICK p : p = (IF stt THEN <<"stop_collector">> ELSE <<>>) \o Rest(Reader)
    OBVIOUS
  <2>2. /\ Runs(Reader, "close_stt") /\ Then(Reader, p) /\ stt' = FALSE
        /\ graceTask' = graceTask /\ state' = state /\ closing' = closing
    BY <1>1, <2>1 DEF CloseStt, refs
  <2>3. /\ Onward(todo[Reader], p, {"open", "report", "idle", "stop_collector"}, {"closed", "stop_collector"})
        /\ stt => Head(p) = "stop_collector"
    <3>1. todo[Reader] \in ReaderPrograms /\ Head(todo[Reader]) = "close_stt"
      BY <2>2, ReaderAt
    <3>2. CASE stt
      <4>1. Onward(todo[Reader], p, {"stop_collector"}, {"stop_collector"})
        BY <2>1, <3>1, <3>2, ReaderFlow DEF Rest
      <4> QED
        BY <4>1 DEF Onward, ToR
    <3>3. CASE ~stt
      <4>1. p = Tail(todo[Reader])
        BY <2>1, <3>1, <3>3, ReaderFlow DEF Rest
      <4>2. Onward(todo[Reader], p, {"open", "report", "idle"}, {"closed"})
        BY <3>1, <4>1, ReaderFlow
      <4> QED
        BY <3>3, <4>2 DEF Onward, ToR
    <3> QED
      BY <3>2, <3>3
  <2>5. p \in ReaderPrograms /\ (Promises(Reader, todo[Reader]) => Promises(Reader, p))
    BY <2>2, <2>3, ReaderAt DEF Onward, ToR, ReaderPrograms, Promises
  <2>6. Stepped(Reader, p)
    BY <1>0, <2>2, ThenSteps
  <2> QED
    BY <2>2, <2>3, <2>5, <2>6, ReaderKeeps
<1>2. CASE OpensStt
  <2>1. PICK p : p = <<"opened">> \o Rest(Reader)
    OBVIOUS
  <2>2. /\ Runs(Reader, "open") /\ Then(Reader, p) /\ stt' = stt
        /\ graceTask' = graceTask /\ state' = state /\ closing' = closing
    BY <1>2, <2>1 DEF OpensStt, refs
  <2>3. ToR(p, {"opened"}) /\ ~stt /\ ~Promises(Reader, todo[Reader])
    <3>1. /\ todo[Reader] \in ReaderPrograms /\ Head(todo[Reader]) = "open" /\ Live(Reader)
          /\ todo[Reader] # Quiet
      BY <2>2, ReaderAt
    <3>2. ToR(p, {"opened"})
      BY <2>1, <3>1, ReaderFlow DEF Rest
    <3>3. ~stt
      BY <3>1 DEF Shape, SttOK, Doing
    <3>4. ~Promises(Reader, todo[Reader])
      BY <3>1, ReaderFlow DEF Promises
    <3> QED
      BY <3>2, <3>3, <3>4
  <2>4. Stepped(Reader, p)
    BY <1>0, <2>2, ThenSteps
  <2> QED
    BY <2>2, <2>3, <2>4, ReaderKeeps DEF ToR
<1>3. CASE SttRefused \/ Report \/ GoIdle
  <2>1. PICK s \in {"opened", "report", "idle"} : Runs(Reader, s) /\ Then(Reader, Rest(Reader))
    BY <1>3 DEF SttRefused, Report, GoIdle
  <2>2. stt' = stt /\ graceTask' = graceTask /\ closing' = closing /\ (state' = state \/ state' = "idle")
    BY <1>3 DEF SttRefused, Report, GoIdle, mic, refs
  <2>3. ToR(Rest(Reader), {"receive"}) /\ ~Promises(Reader, todo[Reader])
    BY <2>1, ReaderAt, ReaderFlow DEF Rest, Promises
  <2>4. Stepped(Reader, Rest(Reader))
    BY <1>0, <2>1, ThenSteps
  <2> QED
    BY <2>1, <2>2, <2>3, <2>4, ReaderKeeps DEF ToR, StateOK
<1>4. CASE Finish \/ Finished
  <2>1. PICK p : p = IF Finish THEN <<"finished">> \o Rest(Reader)
                     ELSE <<"flush", "close_stt", "report">> \o Rest(Reader)
    OBVIOUS
  <2>2. PICK s \in {"finish", "finished"} : Runs(Reader, s) /\ (Finish <=> s = "finish")
    BY <1>4 DEF Finish, Finished, Runs
  <2>3. /\ Then(Reader, p) /\ stt' = stt /\ graceTask' = graceTask /\ state' = state
        /\ closing' = closing
    BY <1>4, <2>1 DEF Finish, Finished, mic, refs
  <2>4. ToR(p, {"finished", "flush"}) /\ ~Promises(Reader, todo[Reader])
    BY <2>1, <2>2, ReaderAt, ReaderFlow DEF Rest, Promises, ToR
  <2>5. Stepped(Reader, p)
    BY <1>0, <2>2, <2>3, ThenSteps
  <2> QED
    BY <2>2, <2>3, <2>4, <2>5, ReaderKeeps DEF ToR
<1>5. CASE BeginText
  <2>1. PICK p : p = IF turn < MaxTurns THEN <<"spawn_text">> \o Rest(Reader) ELSE CloseProgram
    OBVIOUS
  <2>2. /\ Runs(Reader, "begin_text") /\ stt' = stt /\ graceTask' = graceTask /\ state' = state
        /\ closing' = closing
    BY <1>5 DEF BeginText, mic, refs
  <2>3. Stepped(Reader, p)
    BY <1>0, <1>5, <2>1, <2>2, ThenSteps, SendSteps DEF BeginText
  <2>4. p \in ReaderPrograms /\ Head(p) \in {"spawn_text", "cancel_turn"} /\ Promises(Reader, p)
    <3>1. CASE turn < MaxTurns
      BY <2>1, <2>2, <3>1, ReaderAt, ReaderFlow DEF Rest, ToR, Promises
    <3>2. CASE ~(turn < MaxTurns)
      BY <2>1, <3>2, Head(CloseProgram) = "cancel_turn"
         DEF CloseProgram, Closings, ReaderPrograms, Promises
    <3> QED
      BY <3>1, <3>2
  <2> QED
    BY <2>2, <2>3, <2>4, ReaderKeeps
<1>6. CASE SpawnText
  <2>1. /\ Runs(Reader, "spawn_text") /\ stt' = stt /\ graceTask' = graceTask /\ state' = state
        /\ closing' = closing
    BY <1>6 DEF SpawnText, mic
  <2>2. Stepped(Reader, Rest(Reader)) /\ \E k \in Turns : todo'[k] = <<"begin">>
    BY <1>0, <1>6, <2>1, SpawnSteps DEF SpawnText
  <2>3. ToR(Rest(Reader), {"receive"})
    BY <2>1, ReaderAt, ReaderFlow DEF Rest
  <2>4. StateOK'
    BY <1>0, <2>1, <2>2, SteppedState
  <2> QED
    BY <2>1, <2>2, <2>3, <2>4, ReaderKeeps DEF ToR
<1> QED
  BY <1>1, <1>2, <1>3, <1>4, <1>5, <1>6, StopCollectorShape, SttOpenedShape DEF Reads

\* All of it holds of every state.
LEMMA ShapeAlways == Spec => []Shape
<1>1. Init => Shape
  <2> SUFFICES ASSUME Init PROVE Shape
    OBVIOUS
  <2>1. /\ todo[Reader] = <<"receive">> /\ on[Collector] = Free
        /\ \A t \in Tasks : t # Reader => todo[t] = Quiet
        /\ \A t \in Tasks : on[t] = Free
    BY Apart DEF Init
  <2>2. Placed
    BY <2>1, Apart DEF Placed, TurnPrograms, GracePrograms, CollectorPrograms,
       ReaderPrograms, Handlings
  <2>3. Awaits
    BY <2>1, Apart, <<"start">> # <<>> DEF Awaits, Doing, Live, Quiet
  <2>4. SttOK
    <3>1. Live(Reader) /\ ~Live(Collector)
      BY <2>1, Apart, <<"receive">> # <<>> DEF Live, Quiet
    <3>2. Head(todo[Reader]) = "receive"
      BY <2>1, Head(<<"receive">>) = "receive"
    <3> QED
      BY <3>1, <3>2 DEF SttOK, Doing
  <2>5. TimerOK
    BY <2>1, Apart DEF TimerOK, CountingDown, Doing, Live, Init
  <2> QED
    BY <2>2, <2>3, <2>4, <2>5 DEF Shape, StateOK, Init
<1>2. TypeOK /\ Shape /\ [Next]_vars => Shape'
  <2> SUFFICES ASSUME TypeOK, Shape, [Next]_vars PROVE Shape'
    OBVIOUS
  <2>1. CASE Next
    BY <2>1, SharedShape, TurnShape, CollectsShape, HandlesShape, ReadsShape DEF Next
  <2>2. CASE UNCHANGED vars
    <3>1. /\ UNCHANGED <<cpu, todo, on, state, stt, graceTask, closing>>
      BY <2>2 DEF vars, mic, refs
    <3>2. Placed' /\ Awaits'
      BY <3>1 DEF Shape, Placed, Awaits, Doing, Live, Quiet, Turns
    <3>3. SttOK' /\ TimerOK'
      BY <3>1 DEF Shape, SttOK, TimerOK, CountingDown, Doing, Live, Quiet
    <3>4. StateOK'
      BY <3>1 DEF Shape, StateOK, WillRest, Promises, Closings, Quiet
    <3> QED
      BY <3>2, <3>3, <3>4 DEF Shape
  <2> QED
    BY <2>1, <2>2
<1> QED
  BY <1>1, <1>2, TypeCorrect, PTL DEF Spec

\* When the read loop has ended the recogniser's socket is closed and nobody
\* reads it (aclose, _close_stt).
THEOREM RecogniserIsReleased == Spec => []SttReleased
<1>1. Shape => SttReleased
  BY DEF Shape, SttOK, SttReleased
<1> QED
  BY <1>1, ShapeAlways, PTL

\* When the collector comes to what words do to an answer, no countdown that began
\* before them is left running, whoever ran while the words were being sent or a
\* timer was being waited for (_collect_transcripts, _cancel_grace).
THEOREM CountdownsAreStopped == Spec => []WordsStopTheCountdown
<1>1. Shape => WordsStopTheCountdown
  BY Apart DEF Shape, TimerOK, Doing, WordsStopTheCountdown, Tasks
<1> QED
  BY <1>1, ShapeAlways, PTL

\* A session at rest shows a resting state: every way of leaving "thinking" or
\* "speaking" has somebody left to report it (_set_state, _run_turn, _cancel_turn).
THEOREM RestIsShown == Spec => []NeverStuckTalking
<1>1. ASSUME Shape, AtRest, ~closing
      PROVE  state \in {"idle", "listening"}
  <2>1. todo[Reader] \in ReaderPrograms /\ todo[Reader] # Quiet /\ Head(todo[Reader]) = "receive"
    BY <1>1 DEF Shape, Placed, AtRest, Live
  <2>2. ~Promises(Reader, todo[Reader])
    BY <2>1, ReaderFlow DEF Promises
  <2>3. ~Promises(Collector, todo[Collector])
    BY <1>1, Apart DEF AtRest, Live, Promises
  <2>4. \A t \in Graces \cup Turns : ~Promises(t, todo[t])
    BY <1>1, Apart DEF AtRest, Live, Promises
  <2> QED
    BY <1>1, <2>2, <2>3, <2>4, Apart DEF Shape, StateOK, WillRest
<1>2. Shape => NeverStuckTalking
  BY <1>1 DEF NeverStuckTalking
<1> QED
  BY <1>2, ShapeAlways, PTL
=============================================================================
