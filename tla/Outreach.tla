-------------------------------- MODULE Outreach -------------------------------
(***************************************************************************)
(* send_confirmation and escalate: the two tools that reach somebody       *)
(* outside the conversation.  Each reads or writes the store, sends a text *)
(* and logs it, any of which may fail, and tells the model what it may say *)
(* to the caller.  On the telephone an escalation that promised a transfer *)
(* becomes a frame Vapi acts on, after everything the turn has to say.     *)
(***************************************************************************)
EXTENDS Integers

CONSTANTS MaxUses,     \* bound on the uses of the tools
          MaxRefusals  \* bound on the requests that fail

VARIABLES line,      \* where the caller is, and how the tenant is set up
          booked,    \* whether the job the model names is in the store
          tool,      \* the tool that runs, and where it is
          made,      \* what this use of it has done
          told,      \* what its last use told the model
          escalated, \* escalations in the store
          reply,     \* the turn: "going", "over", "broken"
          promised,  \* whether this turn was told that the caller is transferred
          frame,     \* the transfer frame: "none", "pending", "sent"
          tries, refusals

outreachVars == <<line, booked, tool, made, told, escalated, reply, promised, frame, tries, refusals>>

Undone == [texted |-> FALSE, logged |-> "nothing", stored |-> FALSE]
NoTool == [kind |-> "none", at |-> "none"]

\* A call, a call answered in one piece (stream: false), the browser's voice
\* session, a chat.  The first three are channel "voice" to the tools.
Lines == [by : {"phone", "unstreamed", "browser", "chat"}, warm : BOOLEAN,
          carrier : {"stub", "twilio"}, template : {"good", "bad"}]

OutreachInit == /\ line \in Lines
                /\ booked \in BOOLEAN
                /\ tool = NoTool /\ made = Undone /\ told = "nothing"
                /\ escalated = 0
                /\ reply = "going" /\ promised = FALSE /\ frame = "none"
                /\ tries = 0 /\ refusals = 0

\* get_escalator: who may promise a transfer.
CanTransfer == line.by # "chat" /\ line.warm

To(where) == tool' = [tool EXCEPT !.at = where]

RequestFails == refusals < MaxRefusals /\ refusals' = refusals + 1

-------------------------------------------------------------------------------
Use(kind) ==
  /\ reply = "going" /\ tool = NoTool /\ tries < MaxUses
  /\ tries' = tries + 1
  /\ tool' = [kind |-> kind, at |-> "store"] /\ made' = Undone /\ told' = "nothing"
  /\ UNCHANGED <<line, booked, escalated, reply, promised, frame, refusals>>

\* The tool returns what the model may say; an escalation that can transfer goes
\* to the telephone's stream as well, which keeps it back.
Returns(what) ==
  /\ tool' = NoTool /\ told' = what
  /\ promised' = (promised \/ what = "transfer")
  /\ frame' = IF what = "transfer" /\ line.by = "phone" THEN "pending" ELSE frame
  /\ UNCHANGED <<line, booked, escalated, reply, tries>>

\* An exception of the tool is answered to the model, or ends the turn.
Raises ==
  /\ tool' = NoTool /\ told' = "raised"
  /\ reply' \in {"going", "broken"}
  /\ UNCHANGED <<line, booked, escalated, promised, frame, tries>>

\* A MessagingError: the booking stands, and so does the escalation.
NotTexted == IF tool.kind = "confirmation" THEN Returns("unsent")
             ELSE Returns(IF CanTransfer THEN "transfer" ELSE "callback")

WhenTexted == IF tool.kind = "confirmation" THEN Returns("sent") ELSE NotTexted

-------------------------------------------------------------------------------

\* A store that does not answer is not a job that does not exist.
Unread == Returns("unread")

\* send_confirmation looks the job up, and wants a number it can text.
LookUpJob ==
  /\ tool = [kind |-> "confirmation", at |-> "store"]
  /\ \/ booked /\ To("text") /\ UNCHANGED <<line, booked, told, escalated, reply, promised,
                                              frame, tries, refusals>>
     \/ ~ booked /\ Returns("no job") /\ UNCHANGED refusals
     \/ booked /\ Returns("no number") /\ UNCHANGED refusals
     \/ RequestFails /\ Unread
  /\ UNCHANGED made

\* Escalator.escalate stores the escalation.
RecordEscalation ==
  /\ tool = [kind |-> "escalate", at |-> "store"]
  /\ \/ /\ To("text") /\ escalated' = escalated + 1
        /\ made' = [made EXCEPT !.stored = TRUE]
        /\ UNCHANGED <<line, booked, told, reply, promised, frame, tries, refusals>>
     \/ RequestFails /\ Raises /\ UNCHANGED made

\* The alert's template is filled in without a fallback.
BadTemplate == /\ tool = [kind |-> "escalate", at |-> "text"] /\ line.template = "bad"
               /\ Raises /\ UNCHANGED <<made, refusals>>

Worded == tool.at = "text" /\ (tool.kind = "confirmation" \/ line.template = "good")

Stays == UNCHANGED <<line, booked, told, escalated, reply, promised, frame, tries>>

\* StubNotifier: what would have been sent is logged.
TextStub ==
  /\ Worded /\ line.carrier = "stub"
  /\ \/ made' = [made EXCEPT !.texted = TRUE, !.logged = "sent"]
        /\ WhenTexted /\ UNCHANGED refusals
     \/ RequestFails /\ Raises /\ UNCHANGED made

\* TwilioNotifier: no credentials, and nothing is tried; otherwise the text is
\* posted, and may have been carried although the request failed.
NoCredentials ==
  /\ Worded /\ line.carrier = "twilio"
  /\ RequestFails /\ NotTexted /\ UNCHANGED made

Post ==
  /\ Worded /\ line.carrier = "twilio"
  /\ \/ To("log") /\ made' = [made EXCEPT !.texted = TRUE] /\ UNCHANGED refusals
     \/ /\ RequestFails /\ To("note")
        /\ \E carried \in BOOLEAN : made' = [made EXCEPT !.texted = carried]
  /\ Stays

\* The attempt is logged before the tool hears of it, sent or failed.
Log ==
  /\ tool.at \in {"log", "note"}
  /\ \/ /\ made' = [made EXCEPT !.logged = IF tool.at = "log" THEN "sent" ELSE "failed"]
        /\ IF tool.at = "log" THEN WhenTexted ELSE NotTexted
        /\ UNCHANGED refusals
     \/ RequestFails /\ Raises /\ UNCHANGED made

-------------------------------------------------------------------------------
\* The model has said what it had to say, or a later step of the turn breaks.
ReplyEnds ==
  /\ reply = "going" /\ tool = NoTool
  /\ reply' \in {"over", "broken"}
  /\ UNCHANGED <<line, booked, tool, made, told, escalated, promised, frame, tries, refusals>>

Transferred_UnlessBroken == frame' = IF reply = "over" THEN "sent" ELSE "none"

\* _sse_chunks: however the turn ended, the transfer is signalled after its words.
Transferred == frame' = "sent"

Transfer ==
  /\ reply # "going" /\ frame = "pending" /\ Transferred
  /\ UNCHANGED <<line, booked, tool, made, told, escalated, reply, promised, tries, refusals>>

\* The caller speaks again.
NextReply ==
  /\ reply # "going" /\ frame = "none" /\ tries < MaxUses
  /\ reply' = "going" /\ promised' = FALSE /\ told' = "nothing" /\ made' = Undone
  /\ UNCHANGED <<line, booked, tool, escalated, frame, tries, refusals>>

OutreachNext ==
  \/ \E kind \in {"confirmation", "escalate"} : Use(kind)
  \/ LookUpJob \/ RecordEscalation \/ BadTemplate
  \/ TextStub \/ NoCredentials \/ Post \/ Log
  \/ ReplyEnds \/ Transfer \/ NextReply

OutreachSpec == OutreachInit /\ [][OutreachNext]_outreachVars

-------------------------------------------------------------------------------
\* What the model is told is so, whichever requests fail: a job is called absent
\* only when it is, a text is called sent only when it went out and is in the log,
\* one that was tried and failed is in the log too unless the log itself failed,
\* nobody is said to be alerted or reached whose escalation is not stored; and a
\* telephone call that was told of a transfer is handed over when the turn is done,
\* broken or not, and no other line ever is.
ToolsTellTheTruth ==
  /\ told = "no job" => ~ booked
  /\ told = "sent" => made.texted /\ made.logged = "sent"
  /\ made.texted /\ tool = NoTool /\ told # "raised" => made.logged # "nothing"
  /\ told \in {"transfer", "callback"} => made.stored
  /\ line.by = "phone" /\ promised => frame \in {"pending", "sent"}
  /\ frame # "none" => line.by = "phone" /\ line.warm /\ escalated > 0

\* "It must never say 'transferring you now' unless a transfer will really occur."
\* It does not hold of the browser's voice session, nor of an unstreamed call.
TransferOnlyWherePossible == promised => line.by = "phone"

\* "Losing the SMS is bad; losing the whole escalation is worse."  It does not hold:
\* a template that cannot be filled in, or a log that fails, loses it.
EscalationStands == told = "raised" => ~ made.stored
===============================================================================
