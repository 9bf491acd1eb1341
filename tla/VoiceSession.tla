---------------------------- MODULE VoiceSession ----------------------------
(***************************************************************************)
(* One open voice socket: src/app/voice/session.py driven by the read loop *)
(* of src/app/channels/voice_live.py.                                      *)
(*                                                                         *)
(* Every method runs on one event loop, so a task keeps the processor from *)
(* one await to the next and nothing else runs in between.  The module     *)
(* models exactly that: `cpu` is the task that is running between two      *)
(* awaits (Free when all are suspended), `todo[t]` the steps task t has    *)
(* still to run, `on[t]` the task it is awaiting.  A step whose name is in *)
(* Waits begins by being suspended on something outside the session.       *)
(*                                                                         *)
(* Text is the set of the utterances it is made of.  Audio, wording,       *)
(* timings and metrics are left out.                                       *)
(***************************************************************************)
EXTENDS Naturals, Sequences

CONSTANTS Reader,       \* the socket's read loop, which also runs `handle`
          Collector,    \* the task reading transcripts from the recogniser
          Graces,       \* identities for continuation-pause timers
          Free,         \* no task
          MaxTurns,     \* limits.max_turns
          MaxHeard,     \* bound: utterances the visitor speaks or types
          SlowSends,    \* TRUE: a send to the client may suspend its sender
          Inputs        \* the client messages this instance receives

Kinds == {"mic_on", "mic_off", "instant", "continuation", "cancel", "text",
          "overlong", "audio_fails"}
Turns == 1 .. MaxTurns
Heard == 1 .. MaxHeard
Tasks == {Reader, Collector} \cup Graces \cup Turns

ASSUME BoundsAssumption == /\ MaxTurns \in Nat
                           /\ MaxHeard \in Nat
                           /\ SlowSends \in BOOLEAN
                           /\ Inputs \subseteq Kinds
ASSUME NamesAssumption  == /\ Reader # Collector
                           /\ {Reader, Collector} \cap Graces = {}
                           /\ ({Reader, Collector} \cup Graces) \cap Nat = {}
                           /\ Free \notin {Reader, Collector} \cup Graces \cup Nat

Steps == {"receive", "cancel_turn", "cancel_grace", "flush", "start", "rest",
          "close_stt", "stop_collector", "open", "opened", "finish", "finished",
          "report", "idle", "begin_text", "spawn_text", "closed",
          "results", "keep", "barge", "endpoint", "new_grace",
          "begin", "stream", "unwind", "settle", "pop"}
Waits == {"receive", "stop_collector", "opened", "finished", "results", "stream"}
Quiet == <<>>

VARIABLES
  cpu,        \* the task between two awaits
  todo,       \* steps each task has still to run; Quiet: finished or not started
  on,         \* the task each task is awaiting, or Free
  state,      \* self.state, what the client is told
  turn,       \* self.turn; kept at MaxTurns + 1 once past the limit
  micOpen,    \* self._mic_open
  stt,        \* self._stt_session is not None
  streamDone, \* self._stream_done
  pending,    \* self._pending_final
  queued,     \* self._queued_text; {} is None
  taken,      \* text a task holds across an await: taken and not yet started, or
              \* read and not yet added to what is pending
  asked,      \* the text each spawned turn answers; {} before it is spawned
  turnTask,   \* self._turn_task, or Free
  graceTask,  \* self._grace_task, or Free
  mode,       \* self.utterance_mode
  closing,    \* self._closing_reason is set
  heard       \* utterances spoken or typed so far

talk == <<pending, queued, taken, asked, heard>>
mic  == <<micOpen, stt, streamDone>>
refs == <<turnTask, graceTask>>
vars == <<cpu, todo, on, state, turn, mic, talk, refs, mode, closing>>

-----------------------------------------------------------------------------
(* The event loop. *)

Live(t) == todo[t] # Quiet

\* t may run step s now: nobody else is running and what t awaits is over.
Runs(t, s) == /\ cpu \in {Free, t}
              /\ Live(t)
              /\ Head(todo[t]) = s
              /\ on[t] # Free => ~Live(on[t])

Keeps(t, p) == IF p = Quiet \/ Head(p) \in Waits THEN Free ELSE t

\* The step of t ends; its program goes on with p.
Goes(t, p) == /\ cpu' = Keeps(t, p)
              /\ on'  = [on EXCEPT ![t] = Free]

\* As Goes, where the step ended with a send that may have suspended t.
GoesAfterSend(t, p) == /\ cpu' \in {Keeps(t, p)} \cup (IF SlowSends THEN {Free} ELSE {})
                       /\ on'  = [on EXCEPT ![t] = Free]

Rest(t) == Tail(todo[t])
Then(t, p) == /\ Goes(t, p)
              /\ todo' = [todo EXCEPT ![t] = p]

\* task.cancel(): what it interrupts.  A task awaiting another one inside
\* `suppress(CancelledError)` passes the request down and survives it.
Victim(x) ==
  IF on[x] = Free THEN x
  ELSE IF ~Live(on[x]) THEN Free
  ELSE IF on[on[x]] = Free THEN on[x]
  ELSE IF ~Live(on[on[x]]) THEN Free
  ELSE on[on[x]]

\* A turn that is streaming still runs its `finally`; one that has not begun
\* never runs at all, and one suspended inside its `finally` leaves it.
Unwound(p) == IF Head(p) \in {"stream", "unwind"}
              THEN <<"unwind", "settle", "pop">> ELSE Quiet

Cancelled(x) == IF Victim(x) = Free THEN todo
                ELSE [todo EXCEPT ![Victim(x)] = Unwound(@)]

\* t cancels x and awaits it, then goes on with p.
CancelAndJoin(t, x, p) == /\ cpu'  = Free
                          /\ on'   = [on EXCEPT ![t] = x]
                          /\ todo' = [Cancelled(x) EXCEPT ![t] = p]

-----------------------------------------------------------------------------
(* Turns. *)

\* Slip: a state the protocol does not have.
Resting_Misnamed == IF micOpen THEN "listening" ELSE "muted"

Resting == IF micOpen THEN "listening" ELSE "idle"

\* _spawn_turn: a new task, remembered as the current one.
Spawn(td, text) ==
  \E k \in Turns :
    /\ asked[k] = {}
    /\ \A j \in Turns : j < k => asked[j] # {}
    /\ asked'    = [asked EXCEPT ![k] = text]
    /\ turnTask' = k
    /\ todo'     = [td EXCEPT ![k] = <<"begin">>]

\* _begin_turn: the count goes up before it is compared with the limit.
NextTurn == turn' = IF turn > MaxTurns THEN turn ELSE turn + 1

\* Slip: SessionClosed is swallowed and its reason not kept.
StartTurn_Forgets(td, text) ==
  /\ NextTurn
  /\ IF turn < MaxTurns
     THEN Spawn(td, text)
     ELSE todo' = td /\ UNCHANGED <<asked, turnTask>>
  /\ UNCHANGED closing

\* _start_turn: past the limit the reason is parked for the read loop.
StartTurn(td, text) ==
  /\ NextTurn
  /\ IF turn < MaxTurns
     THEN /\ Spawn(td, text)
          /\ UNCHANGED closing
     ELSE /\ closing' = TRUE
          /\ todo' = td
          /\ UNCHANGED <<asked, turnTask>>

\* _cancel_turn
CancelTurn(t) ==
  /\ Runs(t, "cancel_turn")
  /\ turnTask' = Free
  /\ IF turnTask # Free /\ Live(turnTask)
     THEN CancelAndJoin(t, turnTask, Rest(t))
     ELSE Then(t, Rest(t))
  /\ UNCHANGED <<state, turn, mic, talk, graceTask, mode, closing>>

\* _cancel_grace
CancelGrace(t) ==
  /\ Runs(t, "cancel_grace")
  /\ graceTask' = Free
  /\ IF graceTask # Free /\ Live(graceTask)
     THEN CancelAndJoin(t, graceTask, Rest(t))
     ELSE Then(t, Rest(t))
  /\ UNCHANGED <<state, turn, mic, talk, turnTask, mode, closing>>

\* _flush_pending, up to its first await: the text is taken before anything
\* else can run.
Busy == turnTask # Free /\ Live(turnTask)

FlushNothing(t) ==
  /\ Runs(t, "flush")
  /\ pending = {}
  /\ Then(t, Rest(t))
  /\ UNCHANGED <<state, turn, mic, talk, refs, mode, closing>>

FlushStarts(t) ==
  /\ Runs(t, "flush")
  /\ pending # {} /\ ~Busy
  /\ StartTurn([todo EXCEPT ![t] = Rest(t)], pending)
  /\ pending' = {}
  /\ Goes(t, Rest(t))
  /\ UNCHANGED <<state, mic, queued, taken, heard, graceTask, mode>>

FlushQueues(t) ==
  /\ Runs(t, "flush")
  /\ pending # {} /\ Busy /\ state # "speaking"
  /\ queued'  = pending
  /\ pending' = {}
  /\ Then(t, Rest(t))
  /\ UNCHANGED <<state, turn, mic, taken, asked, heard, refs, mode, closing>>

\* Slip: the text is cleared only after the await.
FlushInterrupts_ClearsLate(t) ==
  /\ Runs(t, "flush")
  /\ pending # {} /\ Busy /\ state = "speaking"
  /\ taken'    = [taken EXCEPT ![t] = pending]
  /\ turnTask' = Free
  /\ CancelAndJoin(t, turnTask, <<"start">> \o Rest(t))
  /\ UNCHANGED <<state, turn, mic, pending, queued, asked, heard, graceTask, mode, closing>>

FlushInterrupts(t) ==
  /\ Runs(t, "flush")
  /\ pending # {} /\ Busy /\ state = "speaking"
  /\ taken'    = [taken EXCEPT ![t] = pending]
  /\ pending'  = {}
  /\ turnTask' = Free
  /\ CancelAndJoin(t, turnTask, <<"start">> \o Rest(t))
  /\ UNCHANGED <<state, turn, mic, queued, asked, heard, graceTask, mode, closing>>

\* _flush_pending, after the interrupted turn has gone.
FlushResumes(t) ==
  /\ Runs(t, "start")
  /\ StartTurn([todo EXCEPT ![t] = Rest(t)], taken[t])
  /\ taken' = [taken EXCEPT ![t] = {}]
  /\ Goes(t, Rest(t))
  /\ UNCHANGED <<state, mic, pending, queued, heard, graceTask, mode>>

\* `_set_state(self._resting_state())` after a cancellation.
SetResting(t) ==
  /\ Runs(t, "rest")
  /\ state' = Resting
  /\ todo'  = [todo EXCEPT ![t] = Rest(t)]
  /\ GoesAfterSend(t, Rest(t))
  /\ UNCHANGED <<turn, mic, talk, refs, mode, closing>>

Flush(t) == \/ FlushNothing(t) \/ FlushStarts(t) \/ FlushQueues(t)
            \/ FlushInterrupts(t) \/ FlushResumes(t)

Shared(t) == CancelTurn(t) \/ CancelGrace(t) \/ Flush(t) \/ SetResting(t)

-----------------------------------------------------------------------------
(* _run_turn *)

\* The first step of a turn: "thinking", then the brain is asked.
TurnBegins(k) ==
  /\ Runs(k, "begin")
  /\ state' = "thinking"
  /\ Then(k, <<"stream">>)
  /\ UNCHANGED <<turn, mic, talk, refs, mode, closing>>

\* _speak: a chunk is synthesised.
TurnSpeaks(k) ==
  /\ Runs(k, "stream")
  /\ state' = "speaking"
  /\ Then(k, <<"stream">>)
  /\ UNCHANGED <<turn, mic, talk, refs, mode, closing>>

\* The stream ends, by itself, in an error or cancelled: the metrics go out.
TurnEnds(k) ==
  /\ Runs(k, "stream") \/ Runs(k, "unwind")
  /\ todo' = [todo EXCEPT ![k] = <<"settle", "pop">>]
  /\ GoesAfterSend(k, <<"settle", "pop">>)
  /\ UNCHANGED <<state, turn, mic, talk, refs, mode, closing>>

\* Slip: the state after the turn is not reported.
TurnSettles_Silent(k) ==
  /\ Runs(k, "settle")
  /\ Then(k, <<"pop">>)
  /\ UNCHANGED <<state, turn, mic, talk, refs, mode, closing>>

TurnSettles(k) ==
  /\ Runs(k, "settle")
  /\ state' = Resting
  /\ todo'  = [todo EXCEPT ![k] = <<"pop">>]
  /\ GoesAfterSend(k, <<"pop">>)
  /\ UNCHANGED <<turn, mic, talk, refs, mode, closing>>

\* Slip: the queue is started but not emptied.
TurnPopsQueue_Keeps(k) ==
  /\ Runs(k, "pop")
  /\ Goes(k, Quiet)
  /\ IF queued = {}
     THEN /\ todo' = [todo EXCEPT ![k] = Quiet]
          /\ UNCHANGED <<turn, asked, turnTask, closing>>
     ELSE StartTurn([todo EXCEPT ![k] = Quiet], queued)
  /\ UNCHANGED <<state, mic, pending, queued, taken, heard, graceTask, mode>>

\* Anything said while this turn was thinking runs now.
TurnPopsQueue(k) ==
  /\ Runs(k, "pop")
  /\ queued' = {}
  /\ Goes(k, Quiet)
  /\ IF queued = {}
     THEN /\ todo' = [todo EXCEPT ![k] = Quiet]
          /\ UNCHANGED <<turn, asked, turnTask, closing>>
     ELSE StartTurn([todo EXCEPT ![k] = Quiet], queued)
  /\ UNCHANGED <<state, mic, pending, taken, heard, graceTask, mode>>

Turn(k) == \/ TurnBegins(k) \/ TurnSpeaks(k) \/ TurnEnds(k)
           \/ TurnSettles(k) \/ TurnPopsQueue(k)

-----------------------------------------------------------------------------
(* _collect_transcripts *)

\* One result: words or not, final or not, the onset of sound, an endpoint.
Results == [words : BOOLEAN, final : BOOLEAN, onset : BOOLEAN, endpoint : BOOLEAN]
CanArrive(r) == /\ r.words \/ r.onset \/ r.endpoint
                /\ r.final => r.words
                /\ r.onset => ~r.words /\ ~r.endpoint
                /\ r.final => heard < MaxHeard

\* Slip: only the onset of sound stops the timer, words do not.
Reaction_OnsetOnly(r) == (IF r.final THEN <<"keep">> ELSE <<>>)
                         \o (IF r.onset THEN <<"cancel_grace">> ELSE <<>>)
                         \o (IF r.words THEN <<"barge">> ELSE <<>>)
                         \o (IF r.endpoint THEN <<"endpoint">> ELSE <<>>)

\* What a result does once its words have been sent.  _cancel_grace without a timer
\* does nothing, so the code's looking for one first makes no difference.
Reaction(r) == (IF r.final THEN <<"keep">> ELSE <<>>)
               \o (IF r.words \/ r.onset THEN <<"cancel_grace">> ELSE <<>>)
               \o (IF r.words THEN <<"barge">> ELSE <<>>)
               \o (IF r.endpoint THEN <<"endpoint">> ELSE <<>>)

\* A result is read, and its words are sent to the client before anything else is
\* done with them.
Result(r) ==
  LET p == Reaction(r) \o <<"results">>
  IN /\ Runs(Collector, "results")
     /\ CanArrive(r)
     /\ heard' = IF r.final THEN heard + 1 ELSE heard
     /\ taken' = IF r.final THEN [taken EXCEPT ![Collector] = {heard + 1}] ELSE taken
     /\ todo'  = [todo EXCEPT ![Collector] = p]
     /\ IF r.words THEN GoesAfterSend(Collector, p) ELSE Goes(Collector, p)
     /\ UNCHANGED <<state, turn, mic, pending, queued, asked, refs, mode, closing>>

\* Final words join the utterance.
KeepWords ==
  /\ Runs(Collector, "keep")
  /\ pending' = pending \cup taken[Collector]
  /\ taken' = [taken EXCEPT ![Collector] = {}]
  /\ Then(Collector, Rest(Collector))
  /\ UNCHANGED <<state, turn, mic, queued, asked, heard, refs, mode, closing>>

\* Words over the answer stop it at once.
BargeIn ==
  /\ Runs(Collector, "barge")
  /\ Then(Collector, (IF state = "speaking" THEN <<"cancel_turn", "rest">> ELSE <<>>)
                     \o Rest(Collector))
  /\ UNCHANGED <<state, turn, mic, talk, refs, mode, closing>>

\* _endpoint_reached
EndpointReached ==
  /\ Runs(Collector, "endpoint")
  /\ Then(Collector, (IF mode = "instant" THEN <<"flush">>
                      ELSE <<"cancel_grace", "new_grace">>) \o Rest(Collector))
  /\ UNCHANGED <<state, turn, mic, talk, refs, mode, closing>>

NewGrace ==
  /\ Runs(Collector, "new_grace")
  /\ \E g \in Graces :
       /\ ~Live(g) /\ \A t \in Tasks : on[t] # g \/ t = Collector
       /\ graceTask' = g
       /\ todo' = [todo EXCEPT ![g] = <<"flush">>, ![Collector] = Rest(Collector)]
  /\ Goes(Collector, Rest(Collector))
  /\ UNCHANGED <<state, turn, mic, talk, turnTask, mode, closing>>

\* The stream ends or fails.
StreamEnds ==
  /\ Runs(Collector, "results")
  /\ streamDone' = TRUE
  /\ Then(Collector, Quiet)
  /\ UNCHANGED <<state, turn, micOpen, stt, talk, refs, mode, closing>>

Collects == \/ \E r \in Results : Result(r)
            \/ KeepWords \/ BargeIn \/ EndpointReached \/ NewGrace \/ StreamEnds

-----------------------------------------------------------------------------
(* The read loop and the handlers it runs. *)

CloseProgram == <<"cancel_turn", "cancel_grace", "close_stt", "closed">>

\* What `handle` does before its first await, and the rest of its program.
Receives(m, p) == /\ Runs(Reader, "receive")
                  /\ ~closing
                  /\ m \in Inputs
                  /\ Then(Reader, p \o <<"receive">>)

MicOn ==
  /\ ~micOpen
  /\ Receives("mic_on", <<"close_stt", "open">>)
  /\ UNCHANGED <<state, turn, mic, talk, refs, mode, closing>>

MicOff ==
  /\ micOpen /\ stt
  /\ Receives("mic_off", <<"cancel_grace", "finish">>)
  /\ micOpen' = FALSE
  /\ UNCHANGED <<state, turn, stt, streamDone, talk, refs, mode, closing>>

SetMode ==
  /\ \/ Receives("instant", <<"cancel_grace", "flush">>) /\ mode' = "instant"
     \/ Receives("continuation", <<>>) /\ mode' = "continuation"
  /\ UNCHANGED <<state, turn, mic, talk, refs, closing>>

Cancel ==
  /\ Receives("cancel", <<"cancel_turn", "rest">>)
  /\ UNCHANGED <<state, turn, mic, talk, refs, mode, closing>>

Text ==
  /\ heard < MaxHeard
  /\ Receives("text", <<"cancel_turn", "begin_text">>)
  /\ heard' = heard + 1
  /\ taken' = [taken EXCEPT ![Reader] = {heard + 1}]
  /\ UNCHANGED <<state, turn, mic, pending, queued, asked, refs, mode, closing>>

\* feed_audio past max_utterance_bytes sends what there is.
Overlong ==
  /\ micOpen /\ stt
  /\ Receives("overlong", <<"flush">>)
  /\ UNCHANGED <<state, turn, mic, talk, refs, mode, closing>>

\* feed_audio when the recogniser refuses the frame.
AudioFails ==
  /\ micOpen /\ stt
  /\ Receives("audio_fails", <<"close_stt", "idle">>)
  /\ micOpen' = FALSE
  /\ UNCHANGED <<state, turn, stt, streamDone, talk, refs, mode, closing>>

\* The client leaves, the session is too long or idle, or the turn limit was
\* hit: `_pump` returns and the route's `finally` runs aclose.
Leaves ==
  /\ Runs(Reader, "receive")
  /\ Then(Reader, CloseProgram)
  /\ UNCHANGED <<state, turn, mic, talk, refs, mode, closing>>

Closed ==
  /\ Runs(Reader, "closed")
  /\ Then(Reader, Quiet)
  /\ UNCHANGED <<state, turn, mic, talk, refs, mode, closing>>

\* Slip: the collector is stopped but the recogniser's socket is left open.
CloseStt_KeepsSocket ==
  /\ Runs(Reader, "close_stt")
  /\ Then(Reader, (IF stt THEN <<"stop_collector">> ELSE <<>>) \o Rest(Reader))
  /\ UNCHANGED <<state, turn, mic, talk, refs, mode, closing>>

\* _close_stt: the session first, the collector once it is closed.
CloseStt ==
  /\ Runs(Reader, "close_stt")
  /\ Then(Reader, (IF stt THEN <<"stop_collector">> ELSE <<>>) \o Rest(Reader))
  /\ stt' = FALSE
  /\ UNCHANGED <<state, turn, micOpen, streamDone, talk, refs, mode, closing>>

\* Slip: the socket is closed and the collector left to notice.
StopCollector_Leaves ==
  /\ Runs(Reader, "stop_collector")
  /\ Then(Reader, Rest(Reader))
  /\ UNCHANGED <<state, turn, mic, talk, refs, mode, closing>>

\* A collector that dies in a send takes the words it was sending with it.
StopCollector ==
  /\ Runs(Reader, "stop_collector")
  /\ IF Live(Collector)
     THEN /\ CancelAndJoin(Reader, Collector, Rest(Reader))
          /\ streamDone' = (streamDone \/ ~Live(Collector)')
          /\ taken' = IF Live(Collector)' THEN taken ELSE [taken EXCEPT ![Collector] = {}]
     ELSE Then(Reader, Rest(Reader)) /\ UNCHANGED <<streamDone, taken>>
  /\ UNCHANGED <<state, turn, micOpen, stt, pending, queued, asked, heard, refs, mode, closing>>

\* _mic_on, before and after `stt.open`.
OpensStt ==
  /\ Runs(Reader, "open")
  /\ pending'    = {}
  /\ streamDone' = FALSE
  /\ Then(Reader, <<"opened">> \o Rest(Reader))
  /\ UNCHANGED <<state, turn, micOpen, stt, queued, taken, asked, heard, refs, mode, closing>>

SttOpened ==
  /\ Runs(Reader, "opened")
  /\ micOpen' = TRUE
  /\ stt'     = TRUE
  /\ state'   = "listening"
  /\ todo'    = [todo EXCEPT ![Collector] = <<"results">>, ![Reader] = Rest(Reader)]
  /\ Goes(Reader, Rest(Reader))
  /\ UNCHANGED <<turn, streamDone, talk, refs, mode, closing>>

SttRefused ==
  /\ Runs(Reader, "opened")
  /\ state' = "idle"
  /\ Then(Reader, Rest(Reader))
  /\ UNCHANGED <<turn, mic, talk, refs, mode, closing>>

\* _mic_off after the timer is gone: finish, then wait for the last results
\* or for stt_final_timeout, whichever is first.
Finish ==
  /\ Runs(Reader, "finish")
  /\ Then(Reader, <<"finished">> \o Rest(Reader))
  /\ UNCHANGED <<state, turn, mic, talk, refs, mode, closing>>

Finished ==
  /\ Runs(Reader, "finished")
  /\ Then(Reader, <<"flush", "close_stt", "report">> \o Rest(Reader))
  /\ UNCHANGED <<state, turn, mic, talk, refs, mode, closing>>

Report ==
  /\ Runs(Reader, "report")
  /\ state' = IF Busy THEN state ELSE "idle"
  /\ Then(Reader, Rest(Reader))
  /\ UNCHANGED <<turn, mic, talk, refs, mode, closing>>

GoIdle ==
  /\ Runs(Reader, "idle")
  /\ state' = "idle"
  /\ Then(Reader, Rest(Reader))
  /\ UNCHANGED <<turn, mic, talk, refs, mode, closing>>

\* A typed message counts a turn, is echoed, and only then gets its task.
BeginText ==
  /\ Runs(Reader, "begin_text")
  /\ NextTurn
  /\ IF turn < MaxTurns
     THEN /\ todo' = [todo EXCEPT ![Reader] = <<"spawn_text">> \o Rest(Reader)]
          /\ GoesAfterSend(Reader, <<"spawn_text">>)
          /\ UNCHANGED taken
     ELSE /\ Then(Reader, CloseProgram)
          /\ taken' = [taken EXCEPT ![Reader] = {}]
  /\ UNCHANGED <<state, mic, pending, queued, asked, heard, refs, mode, closing>>

SpawnText ==
  /\ Runs(Reader, "spawn_text")
  /\ Spawn([todo EXCEPT ![Reader] = Rest(Reader)], taken[Reader])
  /\ taken' = [taken EXCEPT ![Reader] = {}]
  /\ Goes(Reader, Rest(Reader))
  /\ UNCHANGED <<state, turn, mic, pending, queued, heard, graceTask, mode, closing>>

Handles == \/ MicOn \/ MicOff \/ SetMode \/ Cancel \/ Text \/ Overlong \/ AudioFails
           \/ Leaves \/ Closed

Reads == \/ CloseStt \/ StopCollector \/ OpensStt \/ SttOpened \/ SttRefused
         \/ Finish \/ Finished \/ Report \/ GoIdle \/ BeginText \/ SpawnText

-----------------------------------------------------------------------------
Init ==
  /\ cpu = Free
  /\ todo = [t \in Tasks |-> IF t = Reader THEN <<"receive">> ELSE Quiet]
  /\ on = [t \in Tasks |-> Free]
  /\ state = "idle"
  /\ turn = 0
  /\ micOpen = FALSE /\ stt = FALSE /\ streamDone = FALSE
  /\ pending = {} /\ queued = {}
  /\ taken = [t \in Tasks |-> {}]
  /\ asked = [k \in Turns |-> {}]
  /\ turnTask = Free /\ graceTask = Free
  /\ mode \in {"instant", "continuation"}
  /\ closing = FALSE
  /\ heard = 0

Next == \/ \E t \in Tasks : Shared(t)
        \/ \E k \in Turns : Turn(k)
        \/ Collects \/ Handles \/ Reads

Spec == Init /\ [][Next]_vars

(***************************************************************************)
(* Fairness.  The loop's ready queue is first in, first out, so a task that *)
(* can run again and again between the others' steps does run: strong      *)
(* fairness for each task's own steps.  A timer fires, the brain's         *)
(* deadlines end every turn, and once the recogniser's connection is       *)
(* closed its result stream ends.  Nothing obliges the visitor to send or  *)
(* say anything, nor an open recogniser to end its stream.                 *)
(***************************************************************************)
ReaderRuns    == Shared(Reader) \/ Reads \/ Closed \/ (closing /\ Leaves)
CollectorRuns == Shared(Collector) \/ KeepWords \/ BargeIn \/ EndpointReached \/ NewGrace
TurnRuns(k)   == TurnBegins(k) \/ TurnEnds(k) \/ TurnSettles(k) \/ TurnPopsQueue(k)

Fairness == /\ SF_vars(ReaderRuns)
            /\ SF_vars(CollectorRuns)
            /\ SF_vars(~stt /\ StreamEnds)
            /\ \A g \in Graces : SF_vars(Shared(g))
            /\ \A k \in Turns : SF_vars(TurnRuns(k))

FairSpec == Spec /\ Fairness

-----------------------------------------------------------------------------
(* Properties. *)

\* Every variable has its type: the references to tasks name a task or none,
\* the text anywhere is made of things that were said, and the turn count is
\* at most one past the limit (_begin_turn counts before it compares).
TypeOK ==
  /\ cpu \in Tasks \cup {Free}
  /\ todo \in [Tasks -> Seq(Steps)]
  /\ on \in [Tasks -> Tasks \cup {Free}]
  /\ state \in {"idle", "listening", "thinking", "speaking"}
  /\ turn \in 0 .. (MaxTurns + 1)
  /\ micOpen \in BOOLEAN /\ stt \in BOOLEAN /\ streamDone \in BOOLEAN
  /\ pending \subseteq Heard /\ queued \subseteq Heard
  /\ taken \in [Tasks -> SUBSET Heard]
  /\ asked \in [Turns -> SUBSET Heard]
  /\ turnTask \in Turns \cup {Free}
  /\ graceTask \in Graces \cup {Free}
  /\ mode \in {"instant", "continuation"}
  /\ closing \in BOOLEAN
  /\ heard \in 0 .. MaxHeard

\* Nothing the visitor said is in two places: what is pending, queued or held
\* across an await has not been handed to a turn, and no two turns answer the
\* same words (_flush_pending, _run_turn's `finally`, the `text` message).
AskedOnce ==
  /\ pending \cap queued = {}
  /\ \A t \in Tasks : taken[t] \cap (pending \cup queued) = {}
  /\ \A s, t \in Tasks : s # t => taken[s] \cap taken[t] = {}
  /\ \A k \in Turns : asked[k] \cap (pending \cup queued) = {}
  /\ \A k \in Turns, t \in Tasks : asked[k] \cap taken[t] = {}
  /\ \A j, k \in Turns : j # k => asked[j] \cap asked[k] = {}

\* When aclose has returned the metered recogniser socket is closed and the
\* task reading it has ended (_close_stt), however the session ended and
\* whatever that task was awaiting when it was cancelled.
SttReleased == ~Live(Reader) => ~stt /\ ~Live(Collector)

\* A timer that has not fired: it is suspended on its sleep.
CountingDown(g) == Live(g) /\ Head(todo[g]) = "flush" /\ on[g] = Free

\* When the collector comes to what words do to an answer, no countdown that began
\* before them is left to end the utterance behind its back, whatever ran while it
\* was sending the words or waiting for a timer to go (_collect_transcripts).
WordsStopTheCountdown ==
  Live(Collector) /\ Head(todo[Collector]) = "barge" => \A g \in Graces : ~CountingDown(g)

\* session.py:421-429: the countdown is cancelled "on the first word", so that no
\* timer splits the sentence.  Not while the send of those words is suspended: the
\* timer may fire before they are added to the utterance it ends.
FirstWordCounts ==
  [][Live(Collector) /\ Head(todo[Collector]) = "keep" /\ pending # {}
       => \A g \in Graces : ~Flush(g)]_vars

\* The session is at rest: nothing is running or about to run.
AtRest == /\ cpu = Free
          /\ Live(Reader) /\ Head(todo[Reader]) = "receive"
          /\ Live(Collector) => Head(todo[Collector]) = "results"
          /\ \A t \in Graces \cup Turns : ~Live(t)

\* A session at rest never shows "thinking" or "speaking": whatever was
\* cancelled, queued or interrupted, the last state sent is a resting one.
NeverStuckTalking == AtRest /\ ~closing => state \in {"idle", "listening"}

\* Each thing said is held, handed to one turn or dropped, and never returns.
Standing(u) ==
  CASE u > heard -> "unsaid"
    [] \E k \in Turns : u \in asked[k] /\ Live(k) -> "answering"
    [] u \in pending \cup queued \cup UNION {taken[t] : t \in Tasks} -> "held"
    [] \E k \in Turns : u \in asked[k] /\ ~Live(k) -> "over"
    [] OTHER -> "dropped"
Life == INSTANCE QuestionLife WITH Questions <- Heard,
                                   status <- [u \in Heard |-> Standing(u)]

\* The session implements QuestionLife.
Lifecycle == Life!Spec

\* Past the turn limit the session closes, also when the limit was met in a
\* task that has no way to raise it to the read loop (_start_turn, check_caps).
LimitCloses == turn > MaxTurns ~> ~Live(Reader)

\* Every message the read loop starts to handle, the closing included, is
\* finished: no chain of awaits between reader, collector, timer and turn
\* leaves the socket deaf.
HandlersReturn == Live(Reader) ~> (~Live(Reader) \/ Head(todo[Reader]) = "receive")

\* session.py:254 of aclose: it "must leave no orphaned task behind".
NoOrphan == ~Live(Reader) => \A t \in Tasks : ~Live(t)

\* session.py:562-564 of _spawn_turn: a turn in flight is one that `cancel` or
\* a disconnect can interrupt, so the current turn is the only one streaming.
Interruptible == \A k \in Turns : Live(k) /\ Head(todo[k]) = "stream" => turnTask = k
=============================================================================
