-------------------------------- MODULE Booking -------------------------------
(***************************************************************************)
(* book_job and the three calendars behind it: the stub, which keeps the   *)
(* agenda in the job store, and Cal.com over REST or over MCP, which keeps *)
(* its own and is mirrored by a job.  Requests to Cal.com and to Supabase  *)
(* cross a network: the caller may stop waiting while its request is still *)
(* under way, and the answer may be lost.  The in-memory store never       *)
(* suspends, so everything between two network calls is one step.          *)
(***************************************************************************)
EXTENDS Integers, FiniteSets

CONSTANTS Calls,      \* calls of the tool; each may create the job of its name
          Starts,     \* start times, in slots
          Lengths,    \* durations of the services, in slots
          TypeLength, \* the calendar event type's own length
          Open,       \* slots in which the business is open
          Setups,     \* the configurations checked
          MaxRestarts,
          MaxChanges  \* bounds on restarts and on cancel/reschedule calls

ASSUME BookingConstants == /\ Starts \subseteq Int /\ Open \subseteq Int
                           /\ Lengths \subseteq Nat \ {0}
                           /\ TypeLength \in Nat \ {0}
                           /\ MaxRestarts \in Nat /\ MaxChanges \in Nat

VARIABLES setup,    \* which calendar and store, and how the event type is set
          calendar, \* Cal.com: the event of each job, by the job id in its metadata
          jobs,     \* the job store: the row of each job
          pc,       \* where each call is
          req,      \* what each call asks for
          linked,   \* jobs whose calendar_event_id names an event of Cal.com's
          mail,     \* the request each call has on the wire
          answer,   \* the answer that has reached each call
          told,     \* what the tool returned
          change,   \* the cancel or reschedule under way
          unsettled,\* jobs whose cancel or reschedule failed half-way
          restarts, changes

vars == <<setup, calendar, jobs, pc, req, linked, mail, answer, told, change,
          unsettled, restarts, changes>>

callVars   == <<pc, req, linked, mail, answer, told>>
changeVars == <<change, unsettled, changes>>

Nothing == [state |-> "none", start |-> 0, end |-> 0]
NoReq   == [start |-> 0, length |-> 0]
NoChange == [kind |-> "none", at |-> "none"]

\* Job.status and the state of a Cal.com event.
Entry == [state : {"none", "scheduled", "cancelled"}, start : Int, end : Int]
At(s, l) == [state |-> "scheduled", start |-> s, end |-> s + l]

Remote   == setup.store = "supabase"   \* the store is a network call away
External == setup.provider # "stub"

\* Job.overlaps
Overlaps(e, s, f) == e.state = "scheduled" /\ s < e.end /\ f > e.start

ScheduledBetween_StartsWithin(s, f, but) ==
  {j \in Calls \ but : jobs[j].state = "scheduled" /\ jobs[j].start >= s /\ jobs[j].start < f}

\* JobStore.ascheduled_between, leaving out the jobs in `but`.
ScheduledBetween(s, f, but) == {j \in Calls \ but : Overlaps(jobs[j], s, f)}

Init ==
  /\ setup \in Setups
  /\ calendar = [c \in Calls |-> Nothing]
  /\ jobs = [c \in Calls |-> Nothing]
  /\ pc = [c \in Calls |-> "idle"]
  /\ req = [c \in Calls |-> NoReq]
  /\ linked = {}
  /\ mail = [c \in Calls |-> "none"]
  /\ answer = [c \in Calls |-> "none"]
  /\ told = [c \in Calls |-> "none"]
  /\ change = NoChange
  /\ unsettled = {}
  /\ restarts = 0 /\ changes = 0

-------------------------------------------------------------------------------
(* The tool's own steps.                                                   *)

Tell(c, what) == /\ pc' = [pc EXCEPT ![c] = "done"]
                 /\ told' = [told EXCEPT ![c] = what]

\* book_job checks what it was given before any calendar is asked; a request
\* it finds incomplete is answered at once.
Incomplete(c) == /\ pc[c] = "idle"
                 /\ Tell(c, "incomplete")
                 /\ UNCHANGED <<setup, linked, calendar, jobs, req, mail, answer, restarts, changeVars>>

Begin(c) ==
  /\ pc[c] = "idle"
  /\ \E s \in Starts, l \in Lengths : req' = [req EXCEPT ![c] = [start |-> s, length |-> l]]
  /\ pc' = [pc EXCEPT ![c] = IF External THEN "connect" ELSE "check"]
  /\ UNCHANGED <<setup, linked, calendar, jobs, mail, answer, told, restarts, changeVars>>

\* store.aadd: at once in memory, a request on the wire to Supabase.
Save(c, job) ==
  IF Remote
  THEN /\ mail' = [mail EXCEPT ![c] = "row"]
       /\ req' = [req EXCEPT ![c] = [start |-> job.start, length |-> job.end - job.start]]
       /\ pc' = [pc EXCEPT ![c] = "storing"]
       /\ UNCHANGED <<jobs, told>>
  ELSE /\ jobs' = [jobs EXCEPT ![c] = job]
       /\ Tell(c, "booked")
       /\ UNCHANGED <<mail, req>>

\* StubBookingProvider.create_booking: the slot is looked up, the opening hours
\* are compared, and only then is the job added.
Check(c) ==
  LET s == req[c].start
      e == At(s, req[c].length)
  IN /\ pc[c] = "check"
     /\ IF ScheduledBetween(s, e.end, {}) # {} \/ s \notin Open
        THEN /\ Tell(c, "taken")
             /\ UNCHANGED <<jobs, req, mail>>
        ELSE Save(c, e)
     /\ UNCHANGED <<setup, linked, calendar, answer, restarts, changeVars>>

\* The client or the session of the tenant, and the event type to book.
Connect(c) ==
  /\ pc[c] = "connect"
  /\ mail' = [mail EXCEPT ![c] = IF setup.shared THEN "length" ELSE "plain"]
  /\ pc' = [pc EXCEPT ![c] = "booking"]
  /\ UNCHANGED <<setup, linked, calendar, jobs, req, answer, told, restarts, changeVars>>

\* No credentials, no event type, or the transport fails before anything is sent;
\* for the stub, its look-up at Supabase fails.
Unreachable(c) ==
  /\ pc[c] = "connect" \/ (pc[c] = "check" /\ Remote)
  /\ Tell(c, "failed")
  /\ UNCHANGED <<setup, linked, calendar, jobs, req, mail, answer, restarts, changeVars>>

TimeOut_AsTaken(c) ==
  /\ pc[c] \in {"booking", "storing"}
  /\ Tell(c, "taken")
  /\ answer' = [answer EXCEPT ![c] = "none"]
  /\ UNCHANGED <<setup, linked, calendar, jobs, req, mail, restarts, changeVars>>

\* The call waits no longer.  Its request may be carried out all the same.
TimeOut(c) ==
  /\ pc[c] \in {"booking", "storing"}
  /\ Tell(c, "failed")
  /\ answer' = [answer EXCEPT ![c] = "none"]
  /\ UNCHANGED <<setup, linked, calendar, jobs, req, mail, restarts, changeVars>>

-------------------------------------------------------------------------------
(* The other side of the wire.                                             *)

Reply(c, what) == answer' = [answer EXCEPT ![c] = IF told[c] = "none" THEN what ELSE "none"]

\* Cal.com refuses any length on an event type of one length, refuses a time it
\* has given away, and may refuse for reasons of its own; and it was seen to answer
\* without an error and without a uid, which nobody can tell from an answer to a
\* booking it made and whose body was lost.
Answers == {"error", "rejected", "hollow"}

CalendarFree(c, e) == \A d \in Calls \ {c} : ~ Overlaps(calendar[d], e.start, e.end)

Deliver(c) ==
  LET e == At(req[c].start, IF mail[c] = "length" THEN req[c].length ELSE TypeLength)
  IN /\ mail[c] \in {"length", "plain"}
     /\ mail' = [mail EXCEPT ![c] = "none"]
     /\ \/ /\ mail[c] = "length" /\ ~ setup.multi
           /\ Reply(c, "no length")
           /\ UNCHANGED calendar
        \/ /\ mail[c] = "plain" \/ setup.multi
           /\ IF CalendarFree(c, e)
              THEN /\ calendar' = [calendar EXCEPT ![c] = e]
                   /\ Reply(c, "booked") \/ Reply(c, "hollow")
              ELSE UNCHANGED calendar /\ Reply(c, "taken")
        \/ /\ \E a \in Answers : Reply(c, a)
           /\ UNCHANGED calendar
     /\ UNCHANGED <<setup, linked, jobs, pc, req, told, restarts, changeVars>>

\* Supabase inserts the row, or answers with an error.
Insert(c) ==
  /\ mail[c] = "row"
  /\ mail' = [mail EXCEPT ![c] = "none"]
  /\ \/ jobs' = [jobs EXCEPT ![c] = At(req[c].start, req[c].length)] /\ Reply(c, "stored")
     \/ UNCHANGED jobs /\ Reply(c, "error")
  /\ UNCHANGED <<setup, linked, calendar, pc, req, told, restarts, changeVars>>

\* A request that is never carried out.
Lose(c) == /\ mail[c] # "none"
           /\ mail' = [mail EXCEPT ![c] = "none"]
           /\ UNCHANGED <<setup, linked, calendar, jobs, pc, req, answer, told, restarts, changeVars>>

-------------------------------------------------------------------------------
(* The answers.                                                            *)

Resend_KeepsLength(c) ==
  /\ pc[c] = "booking" /\ answer[c] = "no length"
  /\ mail' = [mail EXCEPT ![c] = "length"]
  /\ answer' = [answer EXCEPT ![c] = "none"]
  /\ UNCHANGED <<setup, linked, calendar, jobs, pc, req, told, restarts, changeVars>>

\* _post_booking and _call_tool: refused for its length, the booking is sent
\* once more without it.
Resend(c) ==
  /\ pc[c] = "booking" /\ answer[c] = "no length"
  /\ mail' = [mail EXCEPT ![c] = "plain"]
  /\ answer' = [answer EXCEPT ![c] = "none"]
  /\ UNCHANGED <<setup, linked, calendar, jobs, pc, req, told, restarts, changeVars>>

Confirms_Any(a) == a \in {"booked", "hollow"}

\* What create_booking takes for a booking: over MCP an answer with a uid or an id,
\* over REST any answer that is no error.
Confirms(a) == a = "booked" \/ (a = "hollow" /\ setup.provider = "calcom")

\* _raise_for_status and _map_tool_error, and the checks of create_booking on
\* an answer that is no error.
Outcome(a) == IF a = "taken" THEN "taken" ELSE "failed"

Refused(c) ==
  /\ \/ /\ pc[c] = "booking" /\ ~ Confirms(answer[c])
        /\ answer[c] \in {"taken", "error", "rejected", "hollow"}
     \/ pc[c] = "storing" /\ answer[c] = "error"
  /\ Tell(c, Outcome(answer[c]))
  /\ answer' = [answer EXCEPT ![c] = "none"]
  /\ UNCHANGED <<setup, linked, calendar, jobs, req, mail, restarts, changeVars>>

AsAsked(c) == At(req[c].start, req[c].length)

JobFor_AsAsked(c) == AsAsked(c)

\* The job takes the start and end the calendar answered with, and keeps those
\* asked for when the answer names none.
JobFor(c) == IF answer[c] = "booked" THEN calendar[c] ELSE AsAsked(c)

Mirror(c) ==
  /\ pc[c] = "booking" /\ Confirms(answer[c])
  /\ Save(c, JobFor(c))
  /\ linked' = IF answer[c] = "booked" THEN linked \cup {c} ELSE linked
  /\ answer' = [answer EXCEPT ![c] = "none"]
  /\ UNCHANGED <<setup, calendar, restarts, changeVars>>

Stored(c) ==
  /\ pc[c] = "storing" /\ answer[c] = "stored"
  /\ Tell(c, "booked")
  /\ answer' = [answer EXCEPT ![c] = "none"]
  /\ UNCHANGED <<setup, linked, calendar, jobs, req, mail, restarts, changeVars>>

-------------------------------------------------------------------------------
(* cancel and reschedule.  Nothing in the application calls them yet; one   *)
(* at a time is run here, on a job whose id the tool has returned.          *)

\* Where an operation begins: at Cal.com for a job that names an event there, and
\* else with the stub's look-up or the job store.
First(j, here) == IF External /\ j \in linked THEN "calendar"
                  ELSE IF External THEN "store" ELSE here

\* _require_job, and where the operation goes from there.
Require(j) ==
  /\ change = NoChange /\ changes < MaxChanges
  /\ told[j] = "booked" /\ jobs[j].state # "none"
  /\ \/ \E s \in Starts :
          change' = [kind |-> "move", job |-> j, copy |-> jobs[j],
                     to |-> At(s, jobs[j].end - jobs[j].start),
                     at |-> First(j, "clash")]
     \/ change' = [kind |-> "cancel", job |-> j, copy |-> jobs[j],
                   to |-> [jobs[j] EXCEPT !.state = "cancelled"],
                   at |-> First(j, "store")]
  /\ changes' = changes + 1
  /\ UNCHANGED <<setup, calendar, jobs, unsettled, restarts, callVars>>

\* A rescheduled copy keeps the status it was read with.
Changed == [change.to EXCEPT !.state = IF change.kind = "move" THEN change.copy.state ELSE @]

Abandon(half) == /\ change' = NoChange
                 /\ unsettled' = IF half THEN unsettled \cup {change.job} ELSE unsettled
                 /\ UNCHANGED changes

\* The stub's reschedule: no other job may overlap; opening hours are not looked at.
Clash ==
  /\ change.at = "clash"
  /\ IF ScheduledBetween(change.to.start, change.to.end, {change.job}) # {}
     THEN Abandon(FALSE) /\ UNCHANGED jobs
     ELSE IF Remote
     THEN change' = [change EXCEPT !.at = "store"] /\ UNCHANGED <<jobs, unsettled, changes>>
     ELSE jobs' = [jobs EXCEPT ![change.job] = Changed] /\ Abandon(FALSE)
  /\ UNCHANGED <<setup, calendar, restarts, callVars>>

\* Cal.com moves or cancels its event, or refuses.
AtCalendar ==
  LET j == change.job
  IN /\ change.at = "calendar"
     /\ \/ /\ change.kind = "cancel" \/ CalendarFree(j, change.to)
           /\ calendar[j].state = "scheduled"
           /\ calendar' = [calendar EXCEPT ![j] = change.to]
           /\ change' = [change EXCEPT !.at = "store"]
           /\ UNCHANGED <<unsettled, changes>>
        \/ Abandon(FALSE) /\ UNCHANGED calendar
     /\ UNCHANGED <<setup, jobs, restarts, callVars>>

\* The operation has been to the calendar and not yet to the store.
CalendarMoved == change.at = "store" /\ External /\ change.job \in linked

\* store.aupdate, or the answer on the way there is lost.  A row the restart of
\* an in-memory store took away is a KeyError.
AtStore ==
  /\ change.at = "store"
  /\ \/ /\ jobs[change.job].state # "none"
        /\ jobs' = [jobs EXCEPT ![change.job] = Changed]
        /\ Abandon(FALSE)
     \/ Abandon(CalendarMoved) /\ UNCHANGED jobs
  /\ UNCHANGED <<setup, calendar, restarts, callVars>>

\* The process stops and starts again: its calls are cut, what is on the wire
\* is not, and a store in memory is empty.
Restart ==
  /\ restarts < MaxRestarts
  /\ restarts' = restarts + 1
  /\ LET cut == {c \in Calls : pc[c] \notin {"idle", "done"}}
     IN /\ pc' = [c \in Calls |-> IF c \in cut THEN "done" ELSE pc[c]]
        /\ told' = [c \in Calls |-> IF c \in cut THEN "cut" ELSE told[c]]
  /\ answer' = [c \in Calls |-> "none"]
  /\ jobs' = IF Remote THEN jobs ELSE [c \in Calls |-> Nothing]
  /\ Abandon(CalendarMoved)
  /\ UNCHANGED <<setup, linked, calendar, req, mail>>

CallStep(c) == \/ Incomplete(c) \/ Begin(c) \/ Check(c) \/ Connect(c) \/ Unreachable(c)
               \/ TimeOut(c) \/ Resend(c) \/ Refused(c) \/ Mirror(c) \/ Stored(c)

Next == \/ \E c \in Calls : CallStep(c) \/ Deliver(c) \/ Insert(c) \/ Lose(c)
        \/ \E j \in Calls : Require(j)
        \/ Clash \/ AtCalendar \/ AtStore \/ Restart

\* A call that began runs on the event loop, and every wait of it has a timeout;
\* nothing is assumed of the network.
Spec == Init /\ [][Next]_vars
        /\ \A c \in Calls : WF_vars(pc[c] # "idle" /\ CallStep(c))

-------------------------------------------------------------------------------
(* Properties.                                                             *)

TypeOK ==
  /\ setup \in Setups
  /\ calendar \in [Calls -> Entry] /\ jobs \in [Calls -> Entry]
  /\ pc \in [Calls -> {"idle", "check", "connect", "booking", "storing", "done"}]
  /\ req \in [Calls -> [start : Int, length : Int]] /\ linked \subseteq Calls
  /\ mail \in [Calls -> {"none", "length", "plain", "row"}]
  /\ answer \in [Calls -> {"none", "booked", "taken", "no length", "error", "rejected",
                           "hollow", "stored"}]
  /\ told \in [Calls -> {"none", "booked", "taken", "incomplete", "failed", "cut"}]
  /\ change.at \in {"none", "clash", "calendar", "store"}
  /\ unsettled \subseteq Calls
  /\ restarts \in 0 .. MaxRestarts /\ changes \in 0 .. MaxChanges

\* A caller told that the appointment is booked is in the job store, and on the
\* calendar when the job names an event of it: whatever was refused, resent or cut
\* off on the way.  A job that names none comes of the REST client only, which
\* takes any answer that is no error for a booking; over MCP nobody is told
\* "booked" without that proof.  A store in memory forgets at a restart.
BookedIsKept ==
  \A c \in Calls : told[c] = "booked" =>
    /\ jobs[c].state # "none" \/ (~ Remote /\ restarts > 0)
    /\ External => IF c \in linked THEN calendar[c].state # "none"
                                  ELSE setup.provider = "calcom"

\* What the MCP client's comment demands of every provider, "never claim a booking
\* exists on a caller's behalf without that proof": not so over REST.
BookedMeansBooked ==
  \A c \in Calls : told[c] = "booked" /\ External => calendar[c].state # "none"

\* A job that names a calendar event says the same time and the same state as the
\* event, although the calendar may have booked another length than was asked
\* for.  Only a cancel or reschedule that is under way or failed half-way leaves
\* them apart.
RecordMatchesCalendar ==
  External => \A c \in linked :
    jobs[c].state # "none" /\ c \notin unsettled /\ change.at # "store" => jobs[c] = calendar[c]

\* An event on the calendar that no job mirrors belongs to a call that is still
\* running, was cut, or was told that it failed: never to one that was sent
\* back to choose another time.
NoSilentOrphan ==
  \A c \in Calls : calendar[c].state = "scheduled" /\ jobs[c].state = "none" =>
    told[c] \in {"none", "failed", "cut"} \/ (~ Remote /\ restarts > 0)

\* Every call of the tool comes back, also when the calendar never answers.
Answered == \A c \in Calls : (pc[c] # "idle") ~> (told[c] # "none")

\* The units of time the agenda counts as held: the stub's own jobs, or the
\* events of the calendar.
Holds == [c \in Calls |->
            LET e == IF External THEN calendar[c] ELSE jobs[c]
            IN IF e.state = "scheduled" THEN e.start .. (e.end - 1) ELSE {}]

\* The calls told "booked" on an answer that named no event.
Unproven == {c \in Calls : told[c] = "booked" /\ External /\ c \notin linked}

A == INSTANCE Agenda WITH holds <- Holds, unproven <- Unproven,
                          Units <- UNION {s .. (s + l) : s \in Starts, l \in Lengths \cup {TypeLength}}

\* One appointment at a time, and nobody is told more than what is held for
\* them but on the word of a REST answer without a uid: the stub over a store in
\* memory, and Cal.com over any store, do what the agenda promises.  The stub over
\* Supabase does not: its look-up and its insert are two requests, and two calls
\* may both find the time free (NoDoubleBooking).
KeepsTheAgenda == A!Spec

\* No two scheduled jobs of a business overlap.  The stub over Supabase breaks it.
NoDoubleBooking ==
  \A c, d \in Calls : c # d /\ jobs[c].state = "scheduled" =>
                        ~ Overlaps(jobs[d], jobs[c].start, jobs[c].end)
===============================================================================
