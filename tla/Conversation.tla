---------------------------- MODULE Conversation ----------------------------
(***************************************************************************)
(* One conversation: the graph of src/app/brain (graph.py, nodes/), the    *)
(* runner that drives it (runner.py), the scripted answers that bypass it  *)
(* (src/app/flows/render.py), and the two channels a visitor reaches it    *)
(* by: chat (src/app/channels/chat.py) and telephone (vapi_llm.py).        *)
(*                                                                         *)
(* A turn is one request.  Its messages live in the memory of the run and, *)
(* after every node, in the thread the checkpointer keeps.  A visitor may  *)
(* leave while a turn runs; the server notices some time later, cancels    *)
(* it, and the visitor may meanwhile have begun another.                   *)
(*                                                                         *)
(* Of a message only its role, its turn, the number of tools it calls,     *)
(* whether it says something and the kind of a tool's answer are kept.     *)
(***************************************************************************)
EXTENDS Naturals, Sequences, FiniteSets, SequencesExt

CONSTANTS MaxTurns,   \* bound: requests of the conversation
          MaxHops,    \* runner.MAX_TOOL_HOPS
          MaxCalls,   \* bound: tools one message calls
          Limit,      \* llm_history_messages
          Channels,   \* how the visitor may come, of {"widget", "trusted", "voice"}
          Artifacts,  \* bound: what tools may carry for chat, of {"buttons", "flow"}
          MaxFaults   \* bound: requests to providers and stores that fail

ASSUME BoundsAssumption ==
  /\ MaxTurns \in Nat /\ MaxHops \in Nat /\ MaxCalls \in Nat /\ MaxFaults \in Nat
  /\ Limit \in Nat \ {0} /\ Artifacts \subseteq {"buttons", "flow"}
  /\ Channels \subseteq {"widget", "trusted", "voice"} /\ Channels # {}

Turns == 1 .. MaxTurns
Roles == {"user", "assistant"}

VARIABLES
  channel,           \* chat from a widget or a trusted caller, or telephone
  prior,             \* by telephone, what Vapi says was said before each turn
  thread, emergency, \* the checkpoint
  pc,                \* where each turn is
  mem,               \* each run's messages, and its emergency flag
  seed,              \* the turn found the thread cold
  draft,             \* the model's reply before it is checkpointed
  spoke,             \* the turn has said something
  out,               \* final, error and end still in the turn's queue
  got,               \* final and error that reached the client
  client,            \* none, waiting, gone or closed
  writes, recorded,  \* transcript writes under way, and done
  faults,
  overlapped,        \* history: two turns ran at once
  dangled            \* history: a turn met calls without results

visit == <<channel, prior>>
checkpoint == <<thread, emergency>>
run == <<pc, mem, seed, draft>>
wire == <<out, got, client>>
transcript == <<writes, recorded>>
history == <<overlapped, dangled>>
vars == <<visit, checkpoint, run, spoke, wire, transcript, faults, history>>

Human(t) == [role |-> "human", turn |-> t, calls |-> 0, spoke |-> FALSE, gives |-> "none"]
Ai(t, n, s) == [role |-> "ai", turn |-> t, calls |-> n, spoke |-> s, gives |-> "none"]
Tool(t, g) == [role |-> "tool", turn |-> t, calls |-> 0, spoke |-> FALSE, gives |-> g]

Chat == channel # "voice"

\* What a tool's answer carries.  Buttons, cards and flows are for chat only.
Gives == {"plain"} \cup IF Chat THEN Artifacts ELSE {}

Blank == [msgs |-> <<>>, emergency |-> FALSE]
NoReply == Ai(0, 0, FALSE)

InGraph(t) == pc[t] \in {"check", "reason", "reasoned", "tools", "final"}
Live(t) == pc[t] \notin {"idle", "over"}

\* Every call is followed by its results, every result follows its call.
Paired(s) ==
  \A i \in 1 .. Len(s) :
    /\ s[i].calls > 0 =>
         /\ i + s[i].calls <= Len(s)
         /\ \A j \in i + 1 .. i + s[i].calls : s[j].role = "tool"
    /\ s[i].role = "tool" =>
         \E j \in 1 .. i - 1 : s[j].calls >= i - j /\ \A k \in j + 1 .. i : s[k].role = "tool"

Init ==
  /\ channel \in Channels /\ prior = [t \in Turns |-> <<>>]
  /\ thread = <<>> /\ emergency = FALSE
  /\ pc = [t \in Turns |-> "idle"]
  /\ mem = [t \in Turns |-> Blank]
  /\ seed = [t \in Turns |-> FALSE]
  /\ draft = [t \in Turns |-> NoReply]
  /\ spoke = [t \in Turns |-> FALSE]
  /\ out = [t \in Turns |-> <<>>]
  /\ got = [t \in Turns |-> <<>>]
  /\ client = [t \in Turns |-> "none"]
  /\ writes = [t \in Turns |-> {}]
  /\ recorded = {}
  /\ faults = 0
  /\ overlapped = FALSE /\ dangled = FALSE

Fault == faults < MaxFaults /\ faults' = faults + 1
Jump(t, label) == pc' = [pc EXCEPT ![t] = label]

-----------------------------------------------------------------------------
(* How a turn ends. *)

\* The runner stops: its memory goes, and what it yields last is in the queue,
\* which the pump ends with the sentinel whatever happened.
Stops(t, last) ==
  /\ Jump(t, "over")
  /\ mem' = [mem EXCEPT ![t] = Blank]
  /\ draft' = [draft EXCEPT ![t] = NoReply]
  /\ out' = [out EXCEPT ![t] = @ \o last \o <<"end">>]
  /\ UNCHANGED seed

\* Slip: the sentinel is only put after a turn that ran to its end.
Unresolved_Hangs(t) ==
  /\ pc[t] = "resolve"
  /\ Fault
  /\ Jump(t, "over")
  /\ UNCHANGED <<visit, checkpoint, mem, seed, draft, spoke, wire, transcript, history>>

\* The tenant or its draft cannot be read: stream_turn raises, outside its try.
Unresolved(t) ==
  /\ pc[t] = "resolve"
  /\ Fault
  /\ Stops(t, <<>>)
  /\ UNCHANGED <<visit, checkpoint, spoke, got, client, transcript, history>>

\* A node or the checkpointer raises: "a channel must always get a terminal
\* event".
Breaks(t) ==
  /\ pc[t] \in {"resolve", "check", "reason", "reasoned", "tools"}
  /\ Fault
  /\ Stops(t, <<"error">>)
  /\ UNCHANGED <<visit, checkpoint, spoke, got, client, transcript, history>>

Final(t) ==
  /\ pc[t] = "final"
  /\ Stops(t, <<"final">>)
  /\ UNCHANGED <<visit, checkpoint, spoke, got, client, transcript, faults, history>>

-----------------------------------------------------------------------------
(* The request. *)

\* What Vapi sends along: what was said up to the turn before, what the caller said
\* in it and what it heard.
Said(t) == IF t = 1 THEN <<>>
           ELSE prior[t - 1] \o <<Human(t - 1)>> \o
                (IF spoke[t - 1] THEN <<Ai(t - 1, 0, TRUE)>> ELSE <<>>)

\* The widget sends one message at a time and Vapi drops the turn it talks
\* over, so the turns before this one are answered or abandoned.
Begin(t) ==
  /\ client[t] = "none"
  /\ \A u \in 1 .. t - 1 : client[u] \in {"gone", "closed"}
  /\ client' = [client EXCEPT ![t] = "waiting"]
  /\ prior' = [prior EXCEPT ![t] = IF channel = "voice" THEN Said(t) ELSE <<>>]
  /\ Jump(t, IF channel = "voice" THEN "cold" ELSE "resolve")
  /\ overlapped' = (overlapped \/ \E u \in Turns : Live(u))
  /\ writes' = [writes EXCEPT ![t] = IF channel = "widget" THEN {"user"} ELSE {}]
  /\ UNCHANGED <<channel, checkpoint, mem, seed, draft, spoke, out, got, recorded,
                 faults, dangled>>

\* Slip: the transcript Vapi sends is always put in.
Cold_Always(t) ==
  /\ pc[t] = "cold"
  /\ seed' = [seed EXCEPT ![t] = TRUE]
  /\ UNCHANGED faults
  /\ Jump(t, "resolve")
  /\ UNCHANGED <<visit, checkpoint, mem, draft, spoke, wire, transcript, history>>

\* thread_is_cold: an unreadable thread counts as warm.
Cold(t) ==
  /\ pc[t] = "cold"
  /\ \/ seed' = [seed EXCEPT ![t] = (thread = <<>>)] /\ UNCHANGED faults
     \/ UNCHANGED seed /\ Fault
  /\ Jump(t, "resolve")
  /\ UNCHANGED <<visit, checkpoint, mem, draft, spoke, wire, transcript, history>>

-----------------------------------------------------------------------------
(* A scripted answer: stream_flow. *)

\* Slip: the exchange replaces what the thread had.
Scripted_Replaces(t) ==
  /\ Chat /\ pc[t] = "resolve"
  /\ spoke' = [spoke EXCEPT ![t] = TRUE]
  /\ thread' = <<Human(t), Ai(t, 0, TRUE)>>
  /\ dangled' = (dangled \/ ~Paired(thread))
  /\ UNCHANGED faults
  /\ Jump(t, "final")
  /\ UNCHANGED <<visit, emergency, mem, seed, draft, wire, transcript, overlapped>>

\* The node's text is shown and the exchange added to the thread, if it can be.
Scripted(t) ==
  /\ Chat /\ pc[t] = "resolve"
  /\ spoke' = [spoke EXCEPT ![t] = TRUE]
  /\ \/ /\ thread' = thread \o <<Human(t), Ai(t, 0, TRUE)>>
        /\ dangled' = (dangled \/ ~Paired(thread))
        /\ UNCHANGED faults
     \/ UNCHANGED <<thread, dangled>> /\ Fault
  /\ Jump(t, "final")
  /\ UNCHANGED <<visit, emergency, mem, seed, draft, wire, transcript, overlapped>>

-----------------------------------------------------------------------------
(* The graph.  After each node the run's messages become the thread. *)

Saves(t, msgs, flag) ==
  /\ mem' = [mem EXCEPT ![t] = [msgs |-> msgs, emergency |-> flag]]
  /\ thread' = msgs
  /\ emergency' = flag

Start(t) ==
  /\ pc[t] = "resolve"
  /\ Saves(t, thread \o (IF seed[t] THEN prior[t] ELSE <<>>) \o <<Human(t)>>, emergency)
  /\ dangled' = (dangled \/ ~Paired(thread))
  /\ Jump(t, "check")
  /\ seed' = [seed EXCEPT ![t] = FALSE]
  /\ UNCHANGED <<visit, draft, spoke, wire, transcript, faults, overlapped>>

\* resolve_tenant and emergency_check: a flag raised earlier stays.
Check(t) ==
  /\ pc[t] = "check"
  /\ \E urgent \in BOOLEAN : Saves(t, mem[t].msgs, mem[t].emergency \/ urgent)
  /\ Jump(t, "reason")
  /\ UNCHANGED <<visit, seed, draft, spoke, wire, transcript, faults, history>>

LastLimit(msgs) == SubSeq(msgs, Len(msgs) - Limit + 1, Len(msgs))

\* Slip: the last messages, wherever that cuts.
Recent_Naive(msgs) == IF Len(msgs) <= Limit THEN msgs ELSE LastLimit(msgs)

\* The last messages, from the first of them that is the visitor's.
Recent(msgs) ==
  LET tail == LastLimit(msgs)
      humans == {i \in 1 .. Limit : tail[i].role = "human"}
  IN IF Len(msgs) <= Limit THEN msgs
     ELSE IF humans = {} THEN <<>>
     ELSE SubSeq(tail, CHOOSE i \in humans : \A j \in humans : i <= j, Limit)

\* The model answers with words, calls, both or nothing; when it fails, once
\* more without tools, then with a fixed line.  Providers refuse a prompt in
\* which calls and results do not match, both times.
Reply(t) ==
  /\ pc[t] = "reason"
  /\ \E n \in 0 .. MaxCalls, s \in BOOLEAN :
       /\ ~Paired(Recent(mem[t].msgs)) => n = 0 /\ s
       /\ draft' = [draft EXCEPT ![t] = Ai(t, n, s)]
       /\ spoke' = [spoke EXCEPT ![t] = @ \/ s]
  /\ Jump(t, "reasoned")
  /\ UNCHANGED <<visit, checkpoint, mem, seed, wire, transcript, faults, history>>

Hops(msgs, t) == Cardinality({i \in 1 .. Len(msgs) : msgs[i].turn = t /\ msgs[i].calls > 0})

\* The reply is checkpointed.  A slow tool the model has not announced is
\* acknowledged for it.
Reasoned(t) ==
  /\ pc[t] = "reasoned"
  /\ Saves(t, Append(mem[t].msgs, draft[t]), mem[t].emergency)
  /\ \E slow \in BOOLEAN : spoke' = [spoke EXCEPT ![t] = @ \/ (slow /\ draft[t].calls > 0)]
  /\ Jump(t, IF draft[t].calls > 0 THEN "tools" ELSE "final")
  /\ draft' = [draft EXCEPT ![t] = NoReply]
  /\ UNCHANGED <<visit, seed, wire, transcript, faults, history>>

LastAi(msgs) == CHOOSE i \in 1 .. Len(msgs) :
  msgs[i].role = "ai" /\ \A j \in i + 1 .. Len(msgs) : msgs[j].role # "ai"
Given(msgs) == {msgs[j].gives : j \in LastAi(msgs) + 1 .. Len(msgs)}

\* Slip: buttons among other answers end the turn too.
AfterTools_AnyButtons(msgs) ==
  IF "flow" \in Given(msgs) \/ ("buttons" \in Given(msgs) /\ msgs[LastAi(msgs)].spoke)
  THEN "final" ELSE "reason"

\* _after_tools: a flow, or nothing but buttons for words already said.
AfterTools(msgs) ==
  IF "flow" \in Given(msgs) \/ (Given(msgs) = {"buttons"} /\ msgs[LastAi(msgs)].spoke)
  THEN "final" ELSE "reason"

\* What n calls give; of their order only what comes first and last is varied.
Answers(n) == {g \in [1 .. n -> Gives] : \A i \in 1 .. n :
                 (g[i] = "plain" => g[1] = "plain") /\ (g[i] = "flow" => g[n] = "flow")}

\* The tools answer and the answers are checkpointed.  Past the limit on the
\* graph's steps (MAX_TOOL_HOPS * 2, the two before reason among them) it stops
\* with an error; whether a turn that would end there still does is the
\* library's choice.
Tools(t) ==
  /\ pc[t] = "tools"
  /\ \E g \in Answers(Last(mem[t].msgs).calls) :
       LET msgs == mem[t].msgs \o [i \in DOMAIN g |-> Tool(t, g[i])]
           next == AfterTools(msgs)
           last == Hops(msgs, t) >= MaxHops - 1
       IN /\ thread' = msgs
          /\ emergency' = mem[t].emergency
          /\ spoke' = [spoke EXCEPT ![t] = @ \/ "flow" \in Given(msgs)]
          /\ \/ last /\ Stops(t, <<"error">>)
             \/ /\ ~(last /\ next = "reason")
                /\ mem' = [mem EXCEPT ![t].msgs = msgs]
                /\ Jump(t, next)
                /\ UNCHANGED <<seed, draft, out>>
  /\ UNCHANGED <<visit, got, client, transcript, faults, history>>

-----------------------------------------------------------------------------
(* Delivery. *)

\* chat.py, _events: one item off the queue.
Forward(t) ==
  /\ Chat /\ client[t] = "waiting"
  /\ out[t] # <<>> /\ Head(out[t]) # "end"
  /\ got' = [got EXCEPT ![t] = Append(@, Head(out[t]))]
  /\ out' = [out EXCEPT ![t] = Tail(@)]
  /\ writes' = [writes EXCEPT ![t] = IF channel = "widget" /\ Head(out[t]) = "final" /\ spoke[t]
                                     THEN @ \cup {"assistant"} ELSE @]
  /\ UNCHANGED <<visit, checkpoint, run, spoke, client, recorded, faults, history>>

\* Slip: the response ends without waiting for the writes.
Close_Leaves(t) ==
  /\ Chat /\ client[t] = "waiting"
  /\ out[t] = <<"end">>
  /\ writes' = [writes EXCEPT ![t] = {}]
  /\ out' = [out EXCEPT ![t] = <<>>]
  /\ client' = [client EXCEPT ![t] = "closed"]
  /\ UNCHANGED <<visit, checkpoint, run, spoke, got, recorded, faults, history>>

\* The sentinel: the writes are awaited, then [DONE] is sent.
Close(t) ==
  /\ Chat /\ client[t] = "waiting"
  /\ out[t] = <<"end">> /\ writes[t] = {}
  /\ out' = [out EXCEPT ![t] = <<>>]
  /\ client' = [client EXCEPT ![t] = "closed"]
  /\ UNCHANGED <<visit, checkpoint, run, spoke, got, transcript, faults, history>>

Writes(t, role) ==
  /\ role \in writes[t]
  /\ writes' = [writes EXCEPT ![t] = @ \ {role}]
  /\ \/ recorded' = recorded \cup {<<t, role>>} /\ UNCHANGED faults
     \/ UNCHANGED recorded /\ Fault
  /\ UNCHANGED <<visit, checkpoint, run, spoke, wire, history>>

\* vapi_llm.py, _sse_chunks: a turn that said nothing ends with a fixed line.
HangUp(t) ==
  /\ channel = "voice" /\ client[t] = "waiting"
  /\ out[t] # <<>>
  /\ got' = [got EXCEPT ![t] = Front(out[t])]
  /\ out' = [out EXCEPT ![t] = <<>>]
  /\ spoke' = [spoke EXCEPT ![t] = TRUE]
  /\ client' = [client EXCEPT ![t] = "closed"]
  /\ UNCHANGED <<visit, checkpoint, run, transcript, faults, history>>

-----------------------------------------------------------------------------
(* The visitor and the process. *)

\* What is left to write of the turn may be written or not: nothing looks.
Leave(t) ==
  /\ client[t] = "waiting"
  /\ client' = [client EXCEPT ![t] = "gone"]
  /\ writes' = [writes EXCEPT ![t] = {}]
  /\ UNCHANGED <<visit, checkpoint, run, spoke, out, got, recorded, faults, history>>

\* The server notices: the pump, and with it the turn, is cancelled at the
\* await it is in.
Notice(t) ==
  /\ client[t] = "gone" /\ (Live(t) \/ out[t] # <<>>)
  /\ Jump(t, "over")
  /\ mem' = [mem EXCEPT ![t] = Blank]
  /\ draft' = [draft EXCEPT ![t] = NoReply]
  /\ out' = [out EXCEPT ![t] = <<>>]
  /\ UNCHANGED <<visit, checkpoint, seed, spoke, got, client, transcript, faults, history>>

\* The process ends.  The checkpoints of Postgres survive it, those kept in
\* memory do not.
Restart ==
  /\ Fault
  /\ \/ UNCHANGED checkpoint
     \/ thread' = <<>> /\ emergency' = FALSE
  /\ pc' = [t \in Turns |-> IF pc[t] = "idle" THEN "idle" ELSE "over"]
  /\ mem' = [t \in Turns |-> Blank]
  /\ seed' = [t \in Turns |-> FALSE]
  /\ draft' = [t \in Turns |-> NoReply]
  /\ out' = [t \in Turns |-> <<>>]
  /\ client' = [t \in Turns |-> IF client[t] = "waiting" THEN "gone" ELSE client[t]]
  /\ writes' = [t \in Turns |-> {}]
  /\ UNCHANGED <<visit, spoke, got, recorded, history>>

Works(t) ==
  \/ Unresolved(t) \/ Breaks(t) \/ Final(t)
  \/ Cold(t) \/ Scripted(t)
  \/ Start(t) \/ Check(t) \/ Reply(t) \/ Reasoned(t) \/ Tools(t)

Delivers(t) ==
  \/ Forward(t) \/ Close(t) \/ HangUp(t) \/ \E role \in Roles : Writes(t, role)

Next ==
  \/ \E t \in Turns : Begin(t) \/ Works(t) \/ Delivers(t) \/ Leave(t) \/ Notice(t)
  \/ Restart

Spec == Init /\ [][Next]_vars

\* The requests to the model and to tools have timeouts, so a turn goes on and
\* so does what forwards it.
FairSpec == Spec /\ \A t \in Turns : WF_vars(Works(t)) /\ WF_vars(Delivers(t))

-----------------------------------------------------------------------------
(* Properties. *)

Messages == [role : {"human", "ai", "tool"}, turn : 0 .. MaxTurns, calls : 0 .. MaxCalls,
             spoke : BOOLEAN, gives : {"none", "plain", "buttons", "flow"}]

\* Every variable has its type, and a turn that is over holds nothing.
TypeOK ==
  /\ channel \in Channels /\ prior \in [Turns -> Seq(Messages)]
  /\ thread \in Seq(Messages) /\ emergency \in BOOLEAN
  /\ pc \in [Turns -> {"idle", "cold", "resolve", "check", "reason",
                       "reasoned", "tools", "final", "over"}]
  /\ mem \in [Turns -> [msgs : Seq(Messages), emergency : BOOLEAN]]
  /\ \A t \in Turns : mem[t] # Blank => InGraph(t)
  /\ seed \in [Turns -> BOOLEAN] /\ spoke \in [Turns -> BOOLEAN]
  /\ draft \in [Turns -> Messages]
  /\ out \in [Turns -> Seq({"final", "error", "end"})]
  /\ got \in [Turns -> Seq({"final", "error"})]
  /\ client \in [Turns -> {"none", "waiting", "gone", "closed"}]
  /\ writes \in [Turns -> SUBSET Roles] /\ recorded \subseteq Turns \X Roles
  /\ faults \in 0 .. MaxFaults /\ overlapped \in BOOLEAN /\ dangled \in BOOLEAN

\* reason.py: the prompt is a tail of the conversation in which calls and
\* results match and the question is there, as long as no turn was cut off
\* between its calls and their results, and the turn's own messages fit.
PromptIsSound ==
  \A t \in Turns : pc[t] = "reason" =>
    LET msgs == mem[t].msgs
        own == {i \in 1 .. Len(msgs) : msgs[i].turn = t}
        prompt == Recent(msgs)
    IN /\ ~dangled => Paired(prompt)
       /\ Cardinality(own) <= Limit => Contains(prompt, Human(t))

\* A restart without a durable checkpointer.
Lost == thread' = <<>> /\ ~emergency' /\ faults' > faults

\* The thread only grows, through turns that end, break, are scripted or are
\* cut off, and through restarts with a durable checkpointer.
NothingForgotten ==
  [][overlapped \/ IsPrefix(thread, thread') \/ Lost]_vars

\* vapi_llm.py:86-88: the transcript is put in a cold thread only, so no turn
\* is in the thread twice.
NoEcho ==
  ~overlapped => \A i, j \in 1 .. Len(thread) :
                   thread[i].role = "human" /\ thread[i] = thread[j] => i = j

\* chat.py: a visitor who has [DONE] finds the question, and the answer if it
\* had words, in the transcript, unless a write failed.
Recorded ==
  channel = "widget" /\ faults = 0 =>
    \A t \in Turns : client[t] = "closed" =>
      /\ <<t, "user">> \in recorded
      /\ got[t] = <<"final">> /\ spoke[t] => <<t, "assistant">> \in recorded

\* graph.py: a turn ends with an answer to every plain result, unless a flow
\* took over.
ResultsAreTold ==
  \A t \in Turns : pc[t] = "final" =>
    LET msgs == mem[t].msgs
    IN \A i \in 1 .. Len(msgs) : msgs[i].turn = t /\ msgs[i].gives = "plain" =>
         \E j \in 1 .. Len(msgs) : \/ j > i /\ msgs[j].role = "ai"
                                   \/ msgs[j].turn = t /\ msgs[j].gives = "flow"

\* A client that stays is told that the turn is done.
Answered == \A t \in Turns : client[t] = "waiting" ~> client[t] # "waiting"
=============================================================================
