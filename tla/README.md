# hotel-mzv: a TLA+ development

hotel-mzv is a multi-tenant receptionist: visitors talk to it in a browser (text or
voice) or by telephone, a language-model graph answers and calls tools, and an admin
panel edits each tenant's configuration in Postgres. This directory models the parts of
it in which tasks, requests or failures interleave, checks them with TLC on small
instances, and proves what matters most with TLAPS for every value of the constants.

## The system

| Component | State | Operations | Talks to |
|---|---|---|---|
| Voice live session (`app/voice/session.py`, `app/channels/voice_live.py`) | one object per socket: shown state, turn count, microphone, recogniser session, pending and queued text, the turn task and the pause timer | messages `mic_on`, `mic_off`, `mode`, `cancel`, `text`, audio frames; results of the recogniser; timers; turns; close | recogniser, synthesiser, brain |
| Recogniser, synthesiser (`app/voice/stt`, `app/voice/tts`) | one provider socket | `open`, `send`, `results`, `finish`, `aclose` | Deepgram, Cartesia |
| Tenant configuration, writing (`app/tenancy/admin.py`, `sync.py`) | rows of `tenants`, `services`, `mcp_servers`, `tenant_versions`, `voice_consents` | draft, discard, deploy, switch, delete, create, archive/restore, purge | Postgres over HTTP, one request at a time, no transactions |
| Tenant configuration, serving (`loader.py`, `supabase_repository.py`) | snapshot of all tenants, a cache of single tenants with a lifetime | refresh (after a write and every few minutes), lookup | every channel and tool |
| Brain (`app/brain`) | a checkpointed thread per conversation | one turn: reason, tools, reason ..., and the events it streams | model provider, tools, checkpointer |
| Booking (`app/tools/booking*`) | jobs, a remote calendar, cached opening hours, one shared MCP session per tenant | check availability, book, reschedule, cancel | job store, Cal.com by REST or MCP |
| Calendar grant and secrets (`app/mcp/oauth.py`, `app/tenancy/secrets.py`) | vault rows, two caches | refresh an access token, read and write a secret | Cal.com's token endpoint, vault |
| MCP tools (`app/mcp/client.py`, `connections.py`, `registry.py`) | a tenant's server rows, a cache of tool lists | resolve the tools of a turn, twice | the tenant's MCP servers, vault |
| Messaging and transfer (`app/tools/messaging*`) | escalations, logged messages | `send_confirmation`, `escalate` | job store, Twilio, Vapi |
| Channels (`app/channels`) | chat sessions, test links, rate windows, call rows | chat over SSE, telephone turns, call reports, voice socket, admin routes | brain, stores |
| Stream filters (`app/brain/sanitize.py`) | what is held back of a reply | feed a chunk, flush | brain, channels |
| Flows, cards (`app/flows`) | none (part of the configuration) | resolve a postback, render | brain |
| Knowledge (`app/rag`) | documents with a status, chunks | upload, crawl, chunk, embed, delete, index again, search, hourly sweep | embeddings provider, store |
| Store (`app/db`) | jobs, calls, documents, chats, escalations | create, update, list | Postgres or memory |
| Process, scripts, front ends | settings, logs, pages | start-up, command lines, rendering | all of the above |

### What is hard here

* **One event loop, many tasks.** A voice session is a read loop, a transcript collector,
  pause timers and turns. They cancel and await one another, and every `await` lets the
  others run. A unit test follows one order; the hazards are in the others.
* **Writes without transactions.** A deploy is a dozen HTTP requests. Any may fail, or be
  applied and its answer lost, and two operators may interleave theirs.
* **Two caches before every turn.** What is served is a snapshot behind a cache; both are
  refreshed by whoever wrote last and by a background loop, out of order.
* **A credential that is spent by using it.** Cal.com replaces the refresh token at every
  use; replicas share one, each behind a cache, and an operator may replace the whole grant.
* **A checkpointed conversation.** A turn writes its thread after every node; visitors leave
  in the middle, ask again while the old turn still runs, and the process may restart.
* **A remote calendar.** A booking is one request to the calendar and one to the job store;
  either may be refused, sent again, lost, or carried out after the caller has given up.
* **Background tasks.** An upload is answered before its text is indexed; the task goes on
  beside other tasks, a delete, the hourly sweep and a restart.
* **Caches keyed by what they were computed from.** Tools, opening hours and MCP sessions are
  looked up before an await and stored after it, while an operator edits the configuration.
* **Deliveries that come twice or late.** Vapi repeats a report whose answer it missed; a
  reply arrives in chunks that cut a tag anywhere.

`PROJECT.json` lists every hazard with its line and the properties that cover it, or why
none does.

### What makes each component correct

Voice: nothing said is asked twice or comes back after it was dropped; a barge-in or a new
word wins over a timer; the client is never left on "speaking"; the session closes at its
limits and leaves no recogniser open; nobody waits for ever. Configuration: a draft never
leaks, a refused write changes nothing, the history only lists what was live, one live
version remains, a successful operation has done all it says, and memory converges on the
tables. Booking: no slot sold twice, nobody told "booked" without a kept appointment, no
calendar event without a job the caller has not been warned of, every call answered. Offered
times: the nearest to the wish. Grant: one spent token never ends a working grant. MCP: no
session left open, a dead token costs one call, a turn never gets another configuration's
tools. Brain: one terminal event per turn, and a thread whose tool calls all have results; no
markup is voiced and no words are swallowed. Messaging: what a tool tells the model is so.
Access: a window admits no more than its limit, a preview never shows up in a live session.
Reports: one row per call, and an acknowledged report is in it. Knowledge: a ready document is
whole, a task alone keeps the quota, no document stays "indexing".

## Modules

| Module | Models |
|---|---|
| `VoiceSession` | `voice/session.py` with the read loop of `channels/voice_live.py` |
| `QuestionLife` | the abstract life of what a visitor says; `VoiceSession` implements it |
| `MCVoiceSession` | instances for TLC |
| `VoiceSessionProofs` | theorems about `VoiceSession` |
| `TenantConfig` | `tenancy/admin.py`, `sync.py`, `loader.py`, `supabase_repository.py`, the refresh loop of `main.py` |
| `MCTenantConfig` | instances for TLC |
| `CalendarGrant` | `mcp/oauth.py`, `tenancy/secrets.py`, the handshake of `tools/booking/mcp_calcom.py`, `scripts/authorize_calcom.py` |
| `MCCalendarGrant` | instances for TLC |
| `Conversation` | `brain/graph.py`, `runner.py`, `nodes/*`, `flows/render.py`, the delivery of a turn in `channels/chat.py` and `vapi_llm.py` |
| `MCConversation` | instances for TLC |
| `Agenda` | what a booking tool promises its callers; `Booking` implements it |
| `Booking` | `book_job`, and create, cancel and reschedule of `tools/booking/stub.py`, `calcom.py`, `mcp_calcom.py` over both job stores |
| `MCBooking` | instances for TLC |
| `Availability` | `check_availability` over the stub and over Cal.com |
| `ScheduleCache` | `tools/booking/schedule.py` |
| `McpSessions` | the sessions, handshakes and retries of `tools/booking/mcp_calcom.py` |
| `McpTools` | `mcp/client.py`, `connections.py`, `registry.py`, `tools/registry.py` |
| `RateLimits` | `channels/ratelimit.py` and the routes that count in it |
| `Previews` | `channels/chat.py`, `widget_auth.py`, `test_links.py`, the test page of `main.py`, the voice socket's door, drafts as `runner.py` and `loader.py` serve them |
| `CallReports` | `channels/webhooks.py`, `record_call` of both stores |
| `Outreach` | `tools/messaging_tools.py`, `tools/messaging/*`, the transfer frame of `vapi_llm.py` |
| `MarkupFilter` | `InlineToolCallFilter` of `brain/sanitize.py` |
| `MCServices` | one instance of each of the nine modules above, alone |
| `Knowledge` | `rag/ingest.py`, the knowledge routes of `channels/admin.py`, documents and chunks of both stores, the sweep of `0011_knowledge.sql` |
| `ConversationProofs` | theorems about `Conversation` |
| `BookingProofs`, `KnowledgeProofs`, `TenantConfigProofs`, `CalendarGrantProofs`, `VoiceSessionProofs` | theorems about the modules they are named for |
| `AnswerProofs` | theorems about `MarkupFilter` and `Availability`: what a caller is told |
| `ServiceProofs` | theorems about the other seven modules of `MCServices` |

### VoiceSession

Tasks are the read loop (`Reader`), the collector (`Collector`), timers (`Graces`) and turns
(`1..MaxTurns`). `cpu` is the task running between two awaits: other tasks move only when it
is `Free`, which is what a single-threaded event loop guarantees. `todo[t]` is the rest of
task `t`, one step per stretch of code without a suspension; `on[t]` the task it awaits.
`task.cancel()` is `Cancelled`: it reaches down the chain of awaited tasks, because each
`await task` in this code stands inside `suppress(CancelledError)`, so the innermost task is
the one interrupted (`Victim`). A cancelled turn still runs its `finally` when it was
streaming, and never runs when it had not begun (`Unwound`).

`Handles` are the messages, up to their first await; `Reads` what the read loop does after
it; `Shared` what several tasks call (`_cancel_turn`, `_cancel_grace`, `_flush_pending`);
`Turn` is `_run_turn`; `Collects` is `_collect_transcripts`. Of a result, `Result` reads the
words and sends them, and only what follows that send (`Reaction`) adds them to the utterance
(`KeepWords`), stops the countdown, interrupts an answer and sees the endpoint; words that are
still being sent are in the collector's hands (`taken`) and go with it when it is cancelled.

Abstractions: text is the set of utterances it is made of, so joining, queueing and dropping
are visible and wording is not. The turn count stops at `MaxTurns + 1`, the first value that
closes the session. Audio bytes, `_turns_this_mic`, the latency metrics and the clock of
`check_caps` are left out; the session may end for length or idleness at any message boundary
(`Leaves`). A send to the client suspends only when `SlowSends` is TRUE (the transport's
buffer may fill); the runs cover both.

### TenantConfig

Each operation of the panel is a process that sends its requests in the order of `Program`;
one step is one request with its answer. `RequestFails` is a request without effect whose
operation raises, `Applied` a write that took effect whether or not its answer arrived, and
reads answered by an error status take the branch the code gives them (often "nothing
there"). `Clear`, `Fetch`, `Install` are the refresh, run by operations and by the loop.
`hand[p]` holds the operation's local variables.

Abstractions: a configuration is a model value, and its child tables hold one row named after
it, so a mixture of two configurations can be told apart. `services` and `mcp_servers` stand
for the child tables; the first eight tables of a purge (jobs, chats, ...) are one step.
Version ids and draft stamps are the operation that made them. Cloned voices are one voice,
and a consent is a Boolean. The tenant has no committed JSON file, other tenants exist, and
the first load has happened. The retry inside a refresh is part of a longer `Fetch`. A
process crash between two requests is an operation that fails there.

`asked`, `written`, `wrote` and `alone` are history variables: no guard reads them.

### CalendarGrant

Replicas serve calls; the script that authorizes is one more process. `todo[p]` is the list
of steps a call or the script has left and `hand[p]` its local variables; a step is one
request, its answer, or what follows an answer up to the next request, so a read is
`Read` (the vault answers) and `Keep` (the answer is cached), a refresh is `Post` (the server
rotates) and `Issued` or `Rejected` (the code learns of it), a write is `Persist` and `Pop`.
`Use` is a booking tool that needs a session, `Badge` the panel's question whether there is a
grant, which fills the secrets' cache without using anything. A read failing over to an old
cached value, and a cached value or access token whose time is over, are choices: nothing in
the code bounds how long a call may wait between two requests.

Abstractions: a refresh token is its grant and its place in that grant's chain of tokens; an
access token is its grant; the client id and the client secret are written together and are
one value. Of the provider only what the code relies on is modelled: it accepts exactly the
newest token of a grant, with that grant's client. It may revoke a grant, or go on refreshing
it while the calendar refuses its access tokens, which the comments in `secrets.py` and
`authorize_calcom.py` report. The discovery document is a request that may fail. The open MCP
session that a replica keeps is part of the booking tools.

`owed`, `lost` and `settled` are history variables.

### Conversation

A turn is one request, a process with a label `pc[t]`. In the graph it holds `mem[t]`, the
state LangGraph loads once at the start, and every node (`Start`, `Check`, `Reply` and
`Reasoned`, `Tools`) replaces the thread's checkpoint by it; so two turns on one thread
overwrite one another, and what a cancelled turn had in memory is gone while what its last
node saved remains. `Scripted` is a button of a flow, which bypasses the graph and writes to
the thread itself. `Breaks` is the runner's error event, `Unresolved` an exception before the
runner's `try`, which ends a chat turn with `[DONE]` and no event at all (the comment at
`chat.py:253` expects an error event there). `Forward`, `Close` and `Writes` are chat's queue
and its transcript writes, `HangUp` the telephone's end of a turn. `Leave` is the visitor,
`Notice` the moment the server sees it and cancels, `Restart` a process that ends.

A widget sends one message at a time and the telephone drops the turn it talks over, so a
turn begins when those before it are answered or abandoned; an abandoned one may still run.
`overlapped` and `dangled` are history variables that say when that happened and when a turn
met calls without results; some properties promise nothing after that, because the code does
not: the last to write the checkpoint wins, and providers refuse prompts with calls that have
no results until the window has moved past them. `prior[t]` is the transcript Vapi sends along
with turn `t`: it is fixed when the request is made and may be put in the thread later, at
`Start`, if the thread was found cold.

Abstractions: a message is its role, its turn, the number of its calls, whether it has words,
and the kind of a tool's answer (cards are buttons). Tokens and their filters are left out, a
turn has said something or has not. A failing model never ends a turn, so its failure is the
same as a reply without calls. Checkpoints are written when the node ends; LangGraph, the
checkpointer and the model are external and modelled as `graph.py` and `reason.py` use them.
Whether a turn that would end at the very limit of the graph's steps still ends well is left
open. What is left to write of a visitor who is gone is not followed.

### Booking and Agenda

A call of `book_job` is a process with a label `pc[c]`; the request it has on the wire is
`mail[c]` and what has come back `answer[c]`. `Check` is the stub's `create_booking`, `Connect`
and `Resend` are what the two Cal.com providers send (an event type of one length refuses a
length and is asked again without it), `Mirror` is the job made of the calendar's answer,
`Save` `store.aadd`. `Deliver` and `Insert` are the other side: Cal.com and Supabase carry a
request out, refuse it, or answer with an error; Cal.com may also answer without an error and
without a uid (`hollow`), whether or not it has booked. `Confirms` is what each client makes of
that: over MCP it is a failure, over REST a booking, whose job then names no event and takes
the times that were asked for. `linked` are the jobs that name one. `TimeOut` is a call that
waits no longer, whose request may still be carried out; `Lose` a request that never is.
`Require`, `Clash`, `AtCalendar` and `AtStore` are `cancel` and `reschedule`, which no tool
calls yet; they go to the calendar for a linked job only (`First`). `Restart` ends the process
and empties the in-memory store. The job id travels in the booking's metadata, so calls, jobs
and events share one name.

`Agenda` is the promise, without a wire: times held per call, and what each was told. The
mapping (`Holds`) takes the stub's jobs or the calendar's events as what is held. A call that
believes an answer naming no event (`Believe`) is listed as `unproven`: the agenda says so
openly and promises it nothing more. The refinement holds of the stub over a store in memory
and of both Cal.com clients over both stores; the stub over Supabase breaks the agenda
(`NoDoubleBooking` below), so the run and the theorem leave that setup out and no property
covers its race. Only one change runs at a time, and Cal.com's own rules on times are "free or
not".

### Availability, ScheduleCache, McpSessions, McpTools

`Availability` computes, as one operator per function, the stub's slots (rounded to the
granularity, within the opening hours, lead time and horizon, without overlaps) or Cal.com's,
cut to the candidates and narrowed to those nearest the wish. The candidates need not cover a
day, as they do not when the granularity is below 15 minutes (`models.py:114`). `ScheduleCache`
takes a look-up apart at the question to the calendar: the key and the expiry are fixed before
it, the entry written after it. `McpSessions` has one process per booking call: resolve a token
and the cached session, handshake, use, close; the shared cache is read and written between
awaits as `_get_session` and `_drop_session` do. `Opened` and `Drop` change the cache and leave
the old session in the call's hands (`closes`); the close that the code awaits next is a step
of its own, which is done (`CloseDone`) or is cancelled or raises (`CloseBreaks`, the `aclose`
of a stack entered in another task). A broken close may leave the session open (`broken`), ends
the call, and skips what comes after it: a replacing call never uses its new session, a
dropping one never forgets the token. `McpTools` takes a turn through bind and execute, each of
which reads the servers' rows, builds connections and loads or finds a list. Secrets and server
rows are numbered; a tool is its server.

### RateLimits, Previews, CallReports, Outreach, MarkupFilter

`RateLimits` keeps the windows of four scopes and a log of what was let in, by which the
properties count. `Previews` follows guests from link or widget key through session, turn and
answer, with versions for configurations; each operator's action is one step here, because
`TenantConfig` takes them apart. `CallReports` is one process per report, with look-up and
write as two requests over Supabase. `Outreach` is one use of a tool after the other, each
request with its failures, and the frame that transfers the call. `MarkupFilter` runs the
scanner over every reply in every cut into chunks; a tag is two symbols, a runaway tag is one
longer than `Runaway`, and the reference is the whole reply with its markup cut out.

### Knowledge

The routes add, index again and delete; a task walks through `aset_document_status`,
`_enforce_quota`, `embed_texts`, `aupsert_chunks` and the last status, one request per step,
each of which may fail with or without effect (`Lose`). `Extract` may also end the task with
an error that is no `ExtractionError` (a malformed CSV's), which the code catches nowhere and
which leaves the row pending. `Old` and `Sweep` are the database's
hourly job, `RestartProcess` ends all tasks and empties the in-memory store. `chunks` are
`<<document, task, ordinal>>`: chunk ids are random, so two tasks' chunks never meet.

`surplus` is a history variable: the documents with chunks that no row will count, because
they were inserted beside an earlier indexing's, without a row, or by a request that seemed to
fail, or because the status after them was lost. `FitsAlone` bounds the counts of all rows and
the stored chunks of all other documents; what the comment on the quota says of the storage
itself is `StoredWithinQuota`, which does not hold.

## Runs

| Run | Question | Bounds |
|---|---|---|
| `voice_session` | all safety properties of a session, and that it implements `QuestionLife` | 2 turns (so a limit is met), 3 utterances (two can meet in one question while a third is queued), 2 timers (one remembered, one stacking), sends may suspend |
| `voice_live` | liveness under `FairSpec`, and the turn limit | 1 turn, 2 utterances, the messages that open and close the microphone |
| `tenant_config` | all safety properties, any two operations overlapping, one failed request | 2 operations, 2 configurations, one of them with a cloned voice |
| `tenant_serving` | memory converges on the tables | 1 operation of any kind, 2 failed requests, turns, expiry and background refreshes |
| `calendar_grant` | no rotation is dropped; a call alone recovers from stale caches | two replicas with a call each, 2 calls, a grant at the start and a second authorization, one failed request or one grant that dies; the replicas are symmetric |
| `grant_overwritten` | violated: a reported authorization is overwritten by the grant it replaced | one replica, 2 calls, 2 grants, no failure |
| `conversation` | the thread across turns: nothing lost or doubled, prompts are sound | 2 turns, up to 2 tool hops of one call each, a prompt window of 3 messages (so that it cuts, and cuts inside a hop), trusted chat and telephone, 1 failure or restart |
| `conversation_turn` | one turn from request to `[DONE]`: its end, transcript, artifacts; liveness | 1 turn, 2 hops of up to 2 calls with any mix of plain, button and flow answers, all channels, 2 failures |
| `booking` | told, booked and kept agree; the agenda is kept; every call is answered | 2 calls, starts 1 and 2, lengths 1 and 2, an event type of length 2 (so that times can overlap by a part, and the calendar books longer than asked), the stub in memory and every setting of both Cal.com providers over both stores, 1 restart, 1 cancel or reschedule |
| `services` | the nine modules of `MCServices`, each alone | 2 actors each; the rest is below |
| `knowledge` | ready is whole, a lone task keeps the quota in rows and chunks, everything settles that a handler or the sweep can reach | 2 documents, 2 tasks, both stores, texts of 1 or 2 chunks against a quota of 2 (so one fits, two may not), 1 failed request, 1 restart |
| `knowledge_reindex` | violated: a page indexed twice is found in both texts | those of `knowledge`, quota 3 |

Two calls and the script's own verification are three refreshes, so a token can be spent
behind a replica that remembers it. `LoneCallIsServed` promises nothing to calls that
overlap (the loser of a race may re-read the vault before the winner has written and fail),
to a call that begins while a cache holds a grant other than the vault's, or after a failure.

Of `services`: two calls on one session with 3 tokens and 3 sessions, so that each may replace
the other's and find its own replaced or being closed; one turn and the panel asking for
opening hours, one edit and a clock of twice the lifetime; two turns, two servers and a list
limited to one; two visitors and windows of 1 to 3 s over 4 s, so that every window ends and
the tenant's is met by both; two guests and two versions; every day of 8 units closed or with
one of two opening times, of which one is off the grid of 2 units that the stub counts from
midnight and Cal.com from the opening, one appointment, and 3 candidates, so that a long day
has more slots than candidates and a short one has not; two reports of one call or of none,
each resent; three uses of the tools with two failures; replies of up to 6 symbols in chunks of
one or two, twice the length at which a tag is given up. One state variable, `service`, says
which of the nine a behaviour is about: they share no state, and the others rest.

The bounds are the least at which each hazard's actors are all there: two writers, or two
tasks competing for a third. Deadlock is not checked because a closed session and a finished
set of operations stop for good.

The two violations are disagreements between the code and its own comments; each is a
finding in `PROJECT.json`, with the line of the comment.

### Other disagreements

Seventeen more definitions state what a comment or a page promises and do not hold. No run is
spent on them; each is found by naming it as INVARIANT or PROPERTY in a cfg of its module.

| Definition | Says | Refuted by |
|---|---|---|
| `NoOrphan` (VoiceSession) | `aclose` leaves no task behind (`session.py:254`) | 3 turns, 3 utterances |
| `Interruptible` (VoiceSession) | the turn in flight is the one referred to (`session.py:562`) | 3 turns, 3 utterances |
| `FirstWordCounts` (VoiceSession) | the countdown is cancelled on the first word (`session.py:421-429`): while the send of those words is suspended it is not, and the timer asks the utterance without them | the bounds of `voice_session` |
| `AlwaysLive` (TenantConfig) | a history has a live version (`admin.py:591`) | 1 operation, 1 failed request |
| `StatusFlipOnly` (TenantConfig) | a status change leaves the configuration alone (`admin.py:672`) | a deploy and a status change |
| `NoDoubleBooking` (Booking) | two jobs do not overlap | `Setups <- StubOnSupabase` |
| `BookedMeansBooked` (Booking) | nobody is told "booked" without a uid as proof (`mcp_calcom.py:269-271`); the REST client asks for none (`calcom.py:394-395`, `311-320`) | the bounds of `booking` |
| `AllClosed` (McpSessions) | sessions are closed cleanly, at the latest at shutdown (`mcp_calcom.py:706`): one whose close was cancelled or broke off is in no cache any more | the bounds of `services` |
| `ReachesTheLastSlot` (Availability) | the candidates cover a day of fine-grained slots (`booking_tools.py:30-33`); the theorem `ACoveredDayIsReached` says when they do | the bounds of `services` |
| `PanelMakesItShow` (ScheduleCache) | the panel's refresh reaches the bot | the bounds of `services` |
| `BindIsExecute` (McpTools) | a turn executes the list it bound | the bounds of `services` |
| `PreviewFollowsDraft` (Previews) | a preview is let in as its draft says | the bounds of `services` |
| `TransferOnlyWherePossible` (Outreach) | a transfer is promised on the telephone only | the bounds of `services` |
| `EscalationStands` (Outreach) | an escalation is recorded whatever its text | the bounds of `services` |
| `WithinQuota` (Knowledge) | the rows never count more than the quota | the bounds of `knowledge` |
| `StoredWithinQuota` (Knowledge) | the quota bounds what is stored (`ingest.py:219-222`): not after a page was indexed again, or an insert took effect whose answer was lost | the bounds of `knowledge` |
| `AlwaysSettles` (Knowledge) | every failure is recorded on the row (`rag/ingest.py:11-12`): not an extraction error of another kind, over the memory store | the bounds of `knowledge` |

Facts met while modelling that no property is about: a page fetched alone is stored with source
"text", so the panel cannot index it again; the sweep goes by `created_at`, so it may settle an
old document in the middle of a re-index (the task settles it again); when the close in
`_drop_session` breaks off, `invalidate_oauth_token` (`mcp_calcom.py:680`) is not called, and
it takes the next call's handshake to notice the token; rate windows are never purged;
`/test/session` and the voice socket do not ask whether the tenant is archived, and an open
socket never asks again whether its channel is on.

## Fairness

Voice: the loop's ready queue is first in, first out, so a task that is ready again and again
does run: strong fairness for each task's own steps. A turn ends because the brain has
deadlines; a recogniser's stream ends once its socket is closed. No fairness on anything the
visitor does, nor on an open stream ending. Tenant: every request has a timeout, so a begun
operation goes on (weak fairness for its steps), the refresh loop runs as long as the process,
and the cache's lifetime passes. Conversation: requests to the model and to tools have
timeouts, so a begun turn goes on, and so does its delivery; the visitor may stay for ever.
Booking: every wait of a call has a timeout, so each begun call goes on (weak fairness for its
own steps); nothing is assumed of the network or the other side. Knowledge: the event loop
runs every task (weak fairness), and the database its hourly job. The grant and `MCServices`
have safety properties only and assume no fairness.

## Proofs

`VoiceSessionProofs` proves, for all limits, timer sets, message sets and both values of
`SlowSends`:

* `TypeCorrect`: `Spec => []TypeOK`. `TypeOK` is inductive by itself. One lemma per group of
  actions; the steps all go through `Then`, `CancelAndJoin` and `StartTurn`, whose typing is
  stated once each.
* `NothingAskedTwice`: `Spec => []AskedOnce`. `AskedOnce` needs one strengthening, that texts
  are of things already said, so what is heard next is in no place yet (`OnceAlways`). The
  argument is that each action only moves text between places, or makes it new, and never
  copies it (`HandedOver`).
* `ImplementsQuestionLife`: `Spec => QuestionLife`'s specification under the mapping
  `Standing`. Beside the two above it needs that a turn that is over stays over and that a
  turn is started only with what is held (`MovesOn`).
* `RecogniserIsReleased`, `CountdownsAreStopped`, `RestIsShown`: `SttReleased`,
  `WordsStopTheCountdown`, `NeverStuckTalking`. Each is about a moment when nothing runs and
  depends on what every suspended task has still to do, so the invariant is about programs.
  `Shape` says: each task's `todo` is one of a few rests of the programs it can be in
  (`Placed`); who can be waiting for whom (`Awaits`); an open recogniser belongs to a
  collector that will release it or to one that is being waited for (`SttOK`); a timer that
  runs is the current one, and none runs once the collector has words behind it that it is about
  to act on (`TimerOK`); and whenever the state shown is not a resting one,
  somebody still has to report a resting state (`StateOK`, with `Promises` and `WillRest`).
  Every action is a step of one task (`Stepped`) or a cancellation that strikes the innermost
  task of a chain (`Struck`, `WhoIsStruck`); `CollectorFlow` and `ReaderFlow` say where each
  program goes.

`TenantConfigProofs` proves, for any number of operations, configurations and failures at any
request:

* `TypeCorrect`, `VersionsWereOnceLive` (`VersionsWereLive`), `ConflictsLeaveNothing`
  (`RejectedWroteNothing`), `OnlyTheAskedIsSeen` (`OnlyAskedIsSeen`). The invariant says where
  an operation is (`Control`: what it has still to send is a rest of its program, and the
  order of the requests, `Ordered`, holds of every rest), what it has in hand (`HandOK`: a
  document that is about to become a version has been written in full), and that
  everything readable was asked for (`Seen`).
* `AlonePromises` (`AloneKeepsItsPromise`), an action property: `Progress` says for an
  operation nobody has overlapped what each request it has sent has left in the tables, so
  the last one finds the promise kept.

`CalendarGrantProofs` proves, for any callers, replicas, rotations and faults:

* `TypeCorrect`.
* `RotationsAreKept` (`NoRotationLost`), from `TokenInv`: every token somebody may still
  present was issued (`Possible`), a rotated one on its way to the vault is the newest of its
  grant and the only one on its way (`Carried`), and a new grant's is the script's own until it
  is stored (`Installing`).
* `LoneCallsAreServed` (`LoneCallIsServed`), from `OwedInv`: at each stage of a call that
  overlaps no other, what it remembers fits what the vault has, or the next stage reads it
  again (`Stage`, `Memory`, `Fits`).

`ConversationProofs` proves, for any number of turns, hops, calls and faults and any window.
All of it rests on `Core`, the type invariant with `Stage`: how far a turn has come says what
is in its queue, what has reached its client and what its last message is, and that the
messages from its question on are its own.

* `TypeCorrect`.
* `PromptsAreSound` (`PromptIsSound`), from `AllMatched`: a run that met no cut-off turn has
  all calls with their results, but for the calls it is about to run. `RecentIsPaired` is the
  argument for the window: it is cut before a question, and no call's results reach over one;
  `QuestionIsRecent` says that a turn's own messages begin with its question, so a cut before
  the question of another leaves it in. The cut is a least number, which exists because strict
  inclusion of finite sets is well founded (`LeastOf`).
* `WhatToolsFoundIsTold` (`ResultsAreTold`). A turn gets to "final" from a button, with nothing
  in hand (`Core`), from a reply, which comes after every result (`ReasonedTold`), or from its
  tools, which then gave a flow, or nothing but buttons after words (`ToolsTold`).
* `TranscriptIsWhole` (`Recorded`), from `Written`: a line of the transcript that is owed is
  written or being written, and a turn is closed only when nothing is being written.
* `NoTurnIsEchoed` (`NoEcho`) and `ThreadOnlyGrows` (`NothingForgotten`), from `Ordered` (turns
  begin in order, Vapi's transcript is of the turns before and names each once) and `Alone`:
  where turns do not overlap one at most is alive, what it works on is the thread, and a turn
  that found the thread cold finds it empty when it starts. A step then adds to the thread
  messages of a turn that is not in it yet, or more of a turn's own that are no question.

`BookingProofs` proves, for any number of calls, restarts and changes, any times and any mix
of providers and stores, also the stub over Supabase:

* `BookingsAreKept`, `RecordsMatch`, `OrphansAreNotSilent`: `BookedIsKept`,
  `RecordMatchesCalendar` and `NoSilentOrphan`. The first two speak of the calendar where the
  job names an event, and say that one that names none comes of the REST client. None is
  inductive: a late answer or a late request could break each. `BookingInv` says for every
  place a call can be in what may be on its wire, what may have come back, and what the
  calendar and the store then hold (`BookingOK`, `StoringOK`, `DoneOK`, `MailOK`), and for a
  change under way how far it is (`ChangeOK`). The key facts are that a call told "taken" has
  nothing on the wire, and that a row still to be written says what the event it names has. A
  step of one call leaves the other calls' part alone (`OneCall`), a change leaves the calls
  alone (`OneChange`), so each action's lemma looks at one call or one job.

* `ImplementsTheAgenda`, the refinement: `Spec => KeepsTheAgenda`, assuming that no setup is
  the stub over Supabase (there two callers can be given one slot, see "Other disagreements").
  Beside `BookingInv` it needs `Shapes`: whatever is asked for, held or on its way begins at a
  start time and lasts as long as a service or the event type, since the agenda hands out
  nothing else. Each action is then a step of the agenda's (`CallKeepsAgenda`,
  `WireKeepsAgenda`, `ChangeKeepsAgenda`, `RestartKeepsAgenda`) or leaves its variables as they
  are.

`AnswerProofs`, for any text in any chunks, and for any calendar:

* `MarkupIsNeverVoiced`: `SpokenInAnyChunks`. The reference, `Meant`, looks at the whole reply
  at once: what it leaves out are the stretches from an opening tag to its closing tag, or to
  the end. (Once held markup has been given up, nothing is claimed.) `Sifted` is the invariant:
  the reply so far is what the scanner has disposed of (`Past` symbols) followed by what is
  pending; what has been voiced is what is meant of those; and the scanner stands where no tag
  is open (`Clear`), or at the start of one. `MoreChangesNothing` is the reason it works in
  chunks: where no tag is open and none is cut, more text changes nothing about the text
  before. Each branch of the scanner is then a lemma (`HoldsKeeps` for the part of a tag it
  holds back, `EndsKeeps`, `BeginsKeeps`, `PlainKeeps`, `NothingKeeps`, `FlushKeeps`). `Meant`
  is a recursive function; what it is at each symbol (`KeptIs`) follows by induction over a set
  of numbers, which `Climb` does with the least element of its complement.
* `OffersAreNearest`: `OffersTheNearest`. A slot of the day the caller named is among the
  candidates, or as many of that day as there are candidates come before it; the property says
  so. "The nearest `n`" is written with ranks, so the property
  is about how many are nearer: `RankGrows` says that a nearer slot has a smaller rank, and the
  one left out has a rank of at least `n`, hence `n` are offered, all no further. It holds over
  the stub, which counts its grid from midnight, and over Cal.com, from the opening
  (`GridStart`); that is why the property asks for a start on the calendar's own grid.
* `ACoveredDayIsReached`: `ReachesTheLastSlot`, if the candidates times the granularity make a
  day: the grid has at most one start in each step of the granularity, so fewer than the
  candidates come before a time of the same day.

`ServiceProofs`, for the process's dealings with remote services:

* `SessionsAreKept`: `NoSessionIsLost`, from `Numbered`, `CacheServes` and `Tended`: the cached
  session is in nobody's hands, a session leaves the cache into the hands of one call, which is
  at a close exactly while it holds one, and an open session that is in neither has had its
  close broken off.
* `DeadTokenCostsOneCall`: `OneStrike`, from `Alone` and `Healed`: after a call alone has failed
  no session with a refused token is cached, and the next call alone, once it has a session, has
  a token that is accepted and a session nobody is closing. The token itself may still be cached
  if the close before its forgetting broke off; the next handshake is then refused, forgets it
  and is tried again.
* `ToolsAreItsOwn`: `OnlyItsConnections`; the cache's key is what the list was loaded from.
* `HoursAreFresh`: `FreshAndItsOwn`; an entry's expiry counts from before the question, which
  is what bounds the age of the answer.

And for the channels:

* `CallsHaveOneRow`: `OneRowPerCall`, over both stores and a purge: row ids are never used
  twice (`IdsAreNew`), and what a report found is its call's row until a purge takes it
  (`FoundIsIts`); with the table's unique call id the loser of a race is refused, and resent.
* `DraftsStayPreviews`: `DraftStaysPreview`; the shared cache only ever holds versions that
  were live.
* `ToolsAreTruthful`: `ToolsTellTheTruth`, from an invariant with what each request of a use
  has established so far.
* `AtMostTwoWindows` (`TwoWindowsAtMost`): `Remembers` adds what a window knows of the past. No
  more than the limit passed in it, and of what passed before it no span that reaches into it
  has more than the limit, because a window only begins a full length after the one before;
  a span is then two parts of which each keeps to the limit (`WithinParts`).
* `RetryAfterIsTrue` (`RetryAfterHolds`): a promise is the end of the session's window as long
  as it stands (`Promised`), and refused requests leave the window's start. It assumes that
  the session's limit is not 0, where every request is refused and no promise can be kept;
  the setting's default is 30.

`KnowledgeProofs`:

* `ReadyDocumentsAreWhole`: `ReadyIsWhole`; chunks are only added while their document exists
  and leave with it, and a task that is about to say "ready" has stored all its chunks or its
  document is gone.
* `LoneTasksFit`: `FitsAlone`, an action property, from `LoneFits`: while no other task runs,
  the other rows' counts can only shrink, the row of the task's own document shows no count
  (its status is not "ready"), and what the task is going to count fits beside the others; and
  from `NoMoreThanCounted`, that a document which is not in `surplus` has no chunks but those
  its row counts or its task is about to count. The sums are those of the community module's
  fold, whose order of summing is a `CHOOSE`: `CountedWithout` says that any row can be taken
  out first and `CountedGrows` that sums are monotonic, both by a smallest counterexample among
  the finite sets (`SmallestOf`).

Every invariant was checked with TLC before it was proved. The proofs assume only the named
assumptions on the constants (`BookingConstants`, `TtlAssumption`, `PiecesAssumption`,
`QuotaAssumption`, `LimitsAssumption`, `ChunksAssumption`, `AvailabilityBounds`,
the `BoundsAssumption` of `Conversation` and of `CalendarGrant`, and
those of `VoiceSession`), which TLC evaluates in the runs. Three theorems have a hypothesis of
their own: `ImplementsTheAgenda` that no setup is the stub over Supabase, `RetryAfterIsTrue`
that a session is allowed a request, and `ACoveredDayIsReached` that the candidates cover a
day, which 96 do only for granularities of 15 minutes and more.

Model-checked only: liveness, because `ENABLED` and fairness are out of the prover's reach
(`LimitCloses`, `HandlersReturn`, `ServesWhatIsStored`, `Answered` of both modules, `Settles`).
Every invariant and every safety action property of the runs that hold is a theorem.

## Not modelled

* Analytics, row-level security and search ranking: queries the database evaluates; nothing
  interleaves in this code.
* `RepeatSuppressor`, emergency keywords, prompt wording, time parsing, flow resolution and
  card rendering: thresholds and texts whose correctness is a judgement on data.
* Cal.com's payloads, time zones and the translation between wire formats: data.
* Token signatures, the operator's login, provisioning of telephone assistants, the scripts
  other than `authorize_calcom` and the front ends: one-shot calls, libraries, rendering.
* The purge's first eight tables, which are one step of `TenantConfig`; the fallback to a
  committed JSON configuration; the discovery document of the grant and the interactive
  authorization flow.
* Audio bytes, codecs, the latency metrics and the idle clock of a voice session.
