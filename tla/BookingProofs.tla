----------------------------- MODULE BookingProofs -----------------------------
(***************************************************************************)
(* What a caller is told of an appointment and what is kept of it, for any *)
(* number of calls, restarts and changes, any opening hours and any mix of *)
(* calendars and stores: requests may be lost, refused, resent or carried  *)
(* out after the call gave up.                                             *)
(***************************************************************************)
EXTENDS Booking, TLAPS

Changes == [kind : {"move", "cancel"}, job : Calls, copy : Entry, to : Entry,
            at : {"clash", "calendar", "store"}]

Types == TypeOK /\ change \in {NoChange} \cup Changes

Blank(c) == calendar[c].state = "none" /\ jobs[c].state = "none"

\* A call that waits for the calendar: there is no job, and no event either unless
\* an answer is there that says so or says nothing.
BookingOK(c) ==
  /\ External /\ jobs[c].state = "none"
  /\ mail[c] \in {"none", "length", "plain"} /\ answer[c] # "stored"
  /\ mail[c] # "none" => answer[c] = "none"
  /\ answer[c] = "booked" => calendar[c].state = "scheduled"
  /\ answer[c] \notin {"none", "booked", "hollow"} => calendar[c].state = "none"

\* A call that waits for the store: the calendar has its event, if it named one.
StoringOK(c) ==
  /\ Remote
  /\ mail[c] \in {"none", "row"} /\ answer[c] \in {"none", "stored", "error"}
  /\ mail[c] # "none" => answer[c] = "none"
  /\ answer[c] = "stored" => jobs[c].state # "none"
  /\ External => IF c \in linked THEN calendar[c].state = "scheduled"
                                ELSE setup.provider = "calcom"

\* What a call was told, and what is kept of it.
DoneOK(c) ==
  /\ answer[c] = "none"
  /\ told[c] = "booked" => /\ mail[c] = "none"
                           /\ External => IF c \in linked THEN calendar[c].state # "none"
                                                         ELSE setup.provider = "calcom"
                           /\ jobs[c].state # "none" \/ (~ Remote /\ restarts > 0)
  /\ told[c] \in {"taken", "incomplete"} => mail[c] = "none" /\ Blank(c)

\* A request on the wire finds nothing of its own there; a row that is still to be
\* written says what the event it names says.
MailOK(c) ==
  /\ mail[c] \in {"length", "plain"} => External /\ Blank(c)
  /\ mail[c] = "row" => /\ Remote /\ jobs[c].state = "none"
                        /\ External /\ c \in linked =>
                             calendar[c] = At(req[c].start, req[c].length)

CallOK(c) ==
  /\ pc[c] = "done" <=> told[c] # "none"
  /\ pc[c] \in {"idle", "check", "connect"} => mail[c] = "none" /\ answer[c] = "none" /\ Blank(c)
  /\ pc[c] = "connect" => External
  /\ pc[c] = "check" => ~ External
  /\ pc[c] \notin {"storing", "done"} => c \notin linked
  /\ pc[c] = "booking" => BookingOK(c)
  /\ pc[c] = "storing" => StoringOK(c)
  /\ pc[c] = "done" => DoneOK(c)
  /\ MailOK(c)

\* A job and the event it names agree, but for a change between the two; a cancelled
\* job's event is cancelled.
Agrees(c) ==
  External /\ c \in linked =>
    /\ jobs[c].state # "none" /\ c \notin unsettled /\ ~ (change.at = "store" /\ change.job = c) =>
         jobs[c] = calendar[c]
    /\ jobs[c].state = "cancelled" => calendar[c].state = "cancelled"

\* A change works on a job that was booked, as it is in the store; past the calendar,
\* the event is what the job is to become.
ChangeOK ==
  change # NoChange =>
    /\ told[change.job] = "booked"
    /\ change.copy = jobs[change.job] /\ change.copy.state # "none"
    /\ change.to.state = IF change.kind = "move" THEN "scheduled" ELSE "cancelled"
    /\ change.at = "clash" => ~ External /\ change.kind = "move"
    /\ change.at = "calendar" => change.job \in linked
    /\ CalendarMoved =>
         /\ calendar[change.job] = change.to
         /\ change.kind = "move" => change.copy.state = "scheduled"

BookingInv == Types /\ ChangeOK /\ \A c \in Calls : CallOK(c) /\ Agrees(c)

-------------------------------------------------------------------------------
(* A step of one call.                                                     *)

\* Everything of the other calls stays.
Others(c) ==
  /\ UNCHANGED <<setup, restarts, changeVars>>
  /\ \A d \in Calls \ {c} :
       /\ d \in linked' <=> d \in linked
       /\ pc'[d] = pc[d] /\ told'[d] = told[d] /\ mail'[d] = mail[d] /\ answer'[d] = answer[d]
       /\ req'[d] = req[d] /\ calendar'[d] = calendar[d] /\ jobs'[d] = jobs[d]

LEMMA AtIsScheduled ==
  ASSUME NEW s \in Int, NEW l \in Int PROVE At(s, l) \in Entry /\ At(s, l).state = "scheduled"
  BY DEF At, Entry

LEMMA OneMore == ASSUME NEW m \in Nat, NEW n \in 0 .. m, n < m PROVE n + 1 \in 0 .. m /\ n + 1 > 0
  OBVIOUS

LEMMA TypeLengthIsInt == TypeLength \in Int
  BY BookingConstants

LEMMA OneCall ==
  ASSUME BookingInv, NEW c \in Calls, Others(c), TypeOK', CallOK(c)', Agrees(c)',
         told[c] = "booked" => UNCHANGED <<told, linked, calendar, jobs>>
  PROVE  BookingInv'
<1>1. Types'
  BY DEF BookingInv, Types, Others, changeVars
<1>2. UNCHANGED <<Remote, External>>
  BY DEF Others, Remote, External
<1>3. ASSUME NEW d \in Calls \ {c} PROVE CallOK(d)' /\ Agrees(d)'
  <2>1. CallOK(d) /\ Agrees(d)
    BY DEF BookingInv
  <2>2. CallOK(d)'
    BY <1>2, <2>1 DEF Others, CallOK, BookingOK, StoringOK, DoneOK, MailOK, Blank, At
  <2>3. Agrees(d)'
    BY <1>2, <2>1 DEF Others, Agrees, changeVars
  <2> QED
    BY <2>2, <2>3
<1>4. ChangeOK'
  <2> SUFFICES ASSUME change # NoChange PROVE ChangeOK'
    BY DEF ChangeOK, Others, changeVars
  <2>1. change.job \in Calls /\ ChangeOK /\ told[change.job] = "booked"
    BY DEF BookingInv, Types, Changes, ChangeOK
  <2>2. /\ told'[change.job] = told[change.job] /\ jobs'[change.job] = jobs[change.job]
        /\ calendar'[change.job] = calendar[change.job]
        /\ change.job \in linked' <=> change.job \in linked
    BY <2>1 DEF Others
  <2> QED
    BY <1>2, <2>1, <2>2 DEF ChangeOK, CalendarMoved, Others, changeVars
<1> QED
  BY <1>1, <1>3, <1>4 DEF BookingInv

LEMMA IncompleteKeeps == ASSUME BookingInv, NEW c \in Calls, Incomplete(c) PROVE BookingInv'
<1>1. /\ pc[c] = "idle" /\ UNCHANGED <<setup, linked, calendar, jobs, req, mail, answer, restarts, changeVars>>
      /\ pc' = [pc EXCEPT ![c] = "done"] /\ told' = [told EXCEPT ![c] = "incomplete"]
  BY DEF Incomplete, Tell
<1>2. TypeOK /\ CallOK(c) /\ Agrees(c)
  BY DEF BookingInv, Types
<1>3. TypeOK' /\ pc'[c] = "done" /\ told'[c] = "incomplete"
  BY <1>1, <1>2 DEF TypeOK, changeVars
<1>4. Others(c)
  BY <1>1, <1>2 DEF Others, TypeOK
<1>5. CallOK(c)' /\ Agrees(c)'
  BY <1>1, <1>2, <1>3 DEF CallOK, DoneOK, MailOK, Blank, Agrees, Remote, External, At, changeVars
<1> QED
  BY <1>1, <1>2, <1>3, <1>4, <1>5, OneCall DEF CallOK

LEMMA BeginKeeps == ASSUME BookingInv, NEW c \in Calls, Begin(c) PROVE BookingInv'
<1>1. PICK s \in Starts, l \in Lengths :
        /\ pc[c] = "idle" /\ UNCHANGED <<setup, linked, calendar, jobs, mail, answer, told, restarts, changeVars>>
        /\ req' = [req EXCEPT ![c] = [start |-> s, length |-> l]]
        /\ pc' = [pc EXCEPT ![c] = IF External THEN "connect" ELSE "check"]
  BY DEF Begin
<1>2. TypeOK /\ CallOK(c) /\ Agrees(c)
  BY DEF BookingInv, Types
<1>3. TypeOK' /\ pc'[c] = IF External THEN "connect" ELSE "check"
  <2>1. [start |-> s, length |-> l] \in [start : Int, length : Int]
    BY BookingConstants
  <2>2. req' \in [Calls -> [start : Int, length : Int]]
    BY <1>1, <1>2, <2>1 DEF TypeOK
  <2> QED
    BY <1>1, <1>2, <2>2 DEF TypeOK, changeVars
<1>4. Others(c)
  BY <1>1, <1>2 DEF Others, TypeOK
<1>5. CallOK(c)' /\ Agrees(c)'
  BY <1>1, <1>2, <1>3 DEF CallOK, MailOK, Blank, Agrees, Remote, External, At, changeVars
<1> QED
  BY <1>1, <1>2, <1>3, <1>4, <1>5, OneCall DEF CallOK

\* store.aadd of a scheduled job, by the stub's call or by one the calendar has booked.
LEMMA SaveKeeps ==
  ASSUME BookingInv, NEW c \in Calls, NEW job \in Entry, job.state = "scheduled", Save(c, job),
         pc[c] \in {"check", "booking"}, mail[c] = "none", jobs[c].state = "none", told[c] = "none",
         linked' \in {linked, linked \cup {c}},
         External => IF c \in linked' THEN calendar[c] = job ELSE setup.provider = "calcom",
         answer' = [answer EXCEPT ![c] = "none"],
         UNCHANGED <<setup, calendar, restarts, changeVars>>
  PROVE  BookingInv'
<1>1. TypeOK /\ CallOK(c) /\ Agrees(c)
  BY DEF BookingInv, Types
<1>0. /\ linked' \subseteq Calls /\ \A d \in Calls \ {c} : d \in linked' <=> d \in linked
      /\ External' => IF c \in linked' THEN calendar'[c] = job ELSE setup'.provider = "calcom"
  BY <1>1 DEF TypeOK, External
<1>2. CASE Remote
  <2>1. /\ mail' = [mail EXCEPT ![c] = "row"] /\ pc' = [pc EXCEPT ![c] = "storing"]
        /\ req' = [req EXCEPT ![c] = [start |-> job.start, length |-> job.end - job.start]]
        /\ UNCHANGED <<jobs, told>>
    BY <1>2 DEF Save
  <2>2. job.start \in Int /\ job.end \in Int /\ job.end - job.start \in Int
    BY DEF Entry
  <2>3. /\ TypeOK' /\ pc'[c] = "storing" /\ mail'[c] = "row" /\ answer'[c] = "none"
        /\ req'[c] = [start |-> job.start, length |-> job.end - job.start]
    BY <1>0, <1>1, <2>1, <2>2 DEF TypeOK, changeVars
  <2>4. Others(c)
    BY <1>0, <1>1, <2>1 DEF Others, TypeOK
  <2>5. job.start + (job.end - job.start) = job.end
    BY <2>2
  <2>6. At(req'[c].start, req'[c].length) = job
    BY <2>3, <2>5 DEF At, Entry
  <2>7. CallOK(c)' /\ Agrees(c)'
    BY <1>0, <1>1, <1>2, <2>1, <2>3, <2>6 DEF CallOK, StoringOK, MailOK, Agrees, Remote, External, At, changeVars
  <2> QED
    BY <2>1, <2>3, <2>4, <2>7, OneCall
<1>3. CASE ~ Remote
  <2>1. /\ jobs' = [jobs EXCEPT ![c] = job] /\ pc' = [pc EXCEPT ![c] = "done"]
        /\ told' = [told EXCEPT ![c] = "booked"] /\ UNCHANGED <<mail, req>>
    BY <1>3 DEF Save, Tell
  <2>2. /\ TypeOK' /\ pc'[c] = "done" /\ told'[c] = "booked" /\ answer'[c] = "none"
        /\ jobs'[c] = job
    BY <1>0, <1>1, <2>1 DEF TypeOK, changeVars
  <2>3. Others(c)
    BY <1>0, <1>1, <2>1 DEF Others, TypeOK
  <2>4. CallOK(c)' /\ Agrees(c)'
    BY <1>0, <1>1, <2>1, <2>2 DEF CallOK, DoneOK, MailOK, Agrees, Remote, External, At, changeVars
  <2> QED
    BY <2>2, <2>3, <2>4, OneCall
<1> QED
  BY <1>2, <1>3

LEMMA CheckKeeps == ASSUME BookingInv, NEW c \in Calls, Check(c) PROVE BookingInv'
<1> DEFINE e == At(req[c].start, req[c].length)
<1>1. TypeOK /\ CallOK(c) /\ Agrees(c)
  BY DEF BookingInv, Types
<1>2. /\ pc[c] = "check" /\ UNCHANGED <<setup, linked, calendar, answer, restarts, changeVars>>
      /\ told[c] = "none" /\ mail[c] = "none" /\ answer[c] = "none" /\ Blank(c) /\ ~ External
  BY <1>1 DEF Check, CallOK
<1>3. (Tell(c, "taken") /\ UNCHANGED <<jobs, req, mail>>) \/ Save(c, e)
  BY DEF Check
<1>4. CASE Tell(c, "taken") /\ UNCHANGED <<jobs, req, mail>>
  <2>1. TypeOK' /\ pc'[c] = "done" /\ told'[c] = "taken"
    BY <1>1, <1>2, <1>4 DEF TypeOK, Tell, changeVars
  <2>2. Others(c)
    BY <1>1, <1>2, <1>4 DEF Others, TypeOK, Tell
  <2>3. CallOK(c)' /\ Agrees(c)'
    BY <1>1, <1>2, <1>4, <2>1 DEF CallOK, DoneOK, MailOK, Blank, Agrees, Remote, External, At, changeVars
  <2> QED
    BY <1>2, <2>1, <2>2, <2>3, OneCall
<1>5. CASE Save(c, e)
  <2>1. e \in Entry /\ e.state = "scheduled"
    <3>1. req[c].start \in Int /\ req[c].length \in Int
      BY <1>1 DEF TypeOK
    <3> QED
      BY <3>1 DEF Entry, At
  <2>2. answer' = [answer EXCEPT ![c] = "none"]
    BY <1>1, <1>2 DEF TypeOK
  <2> HIDE DEF e
  <2> QED
    BY <1>2, <1>5, <2>1, <2>2, SaveKeeps DEF Blank
<1> QED
  BY <1>3, <1>4, <1>5

LEMMA MirrorKeeps == ASSUME BookingInv, NEW c \in Calls, Mirror(c) PROVE BookingInv'
<1>1. TypeOK /\ CallOK(c) /\ Agrees(c)
  BY DEF BookingInv, Types
<1>2. /\ pc[c] = "booking" /\ Confirms(answer[c]) /\ Save(c, JobFor(c))
      /\ linked' = IF answer[c] = "booked" THEN linked \cup {c} ELSE linked
      /\ answer' = [answer EXCEPT ![c] = "none"] /\ UNCHANGED <<setup, calendar, restarts, changeVars>>
  BY DEF Mirror
<1>3. /\ told[c] = "none" /\ mail[c] = "none" /\ jobs[c].state = "none" /\ c \notin linked
      /\ answer[c] = "booked" => calendar[c].state = "scheduled"
      /\ answer[c] # "booked" => setup.provider = "calcom"
  BY <1>1, <1>2 DEF CallOK, BookingOK, TypeOK, Confirms
<1>4. JobFor(c) \in Entry /\ JobFor(c).state = "scheduled"
  <2>1. req[c].start \in Int /\ req[c].length \in Int /\ calendar[c] \in Entry
    BY <1>1 DEF TypeOK
  <2> QED
    BY <1>3, <2>1 DEF JobFor, AsAsked, At, Entry
<1>5. External => IF c \in linked' THEN calendar[c] = JobFor(c) ELSE setup.provider = "calcom"
  BY <1>2, <1>3 DEF JobFor
<1> QED
  BY <1>2, <1>3, <1>4, <1>5, SaveKeeps

LEMMA ConnectKeeps == ASSUME BookingInv, NEW c \in Calls, Connect(c) PROVE BookingInv'
<1>1. TypeOK /\ CallOK(c) /\ Agrees(c)
  BY DEF BookingInv, Types
<1>2. /\ pc[c] = "connect" /\ pc' = [pc EXCEPT ![c] = "booking"]
      /\ UNCHANGED <<setup, linked, calendar, jobs, req, answer, told, restarts, changeVars>>
      /\ mail' = [mail EXCEPT ![c] = IF setup.shared THEN "length" ELSE "plain"]
  BY DEF Connect
<1>3. TypeOK' /\ pc'[c] = "booking" /\ mail'[c] \in {"length", "plain"}
  BY <1>1, <1>2 DEF TypeOK, changeVars
<1>4. Others(c)
  BY <1>1, <1>2 DEF Others, TypeOK
<1>5. CallOK(c)' /\ Agrees(c)'
  BY <1>1, <1>2, <1>3 DEF CallOK, BookingOK, MailOK, Blank, Agrees, Remote, External, changeVars
<1> QED
  BY <1>1, <1>2, <1>3, <1>4, <1>5, OneCall

\* A call that stops with bad news; nothing of it is on its way that could still be
\* its answer.
LEMMA GiveUpKeeps ==
  ASSUME BookingInv, NEW c \in Calls, NEW what \in {"taken", "failed"}, Tell(c, what),
         pc[c] # "done", answer' = [answer EXCEPT ![c] = "none"],
         what = "taken" => mail[c] = "none" /\ Blank(c),
         UNCHANGED <<setup, linked, calendar, jobs, req, mail, restarts, changeVars>>
  PROVE  BookingInv'
<1>1. TypeOK /\ CallOK(c) /\ Agrees(c)
  BY DEF BookingInv, Types
<1>2. TypeOK' /\ pc'[c] = "done" /\ told'[c] = what /\ answer'[c] = "none"
  BY <1>1 DEF TypeOK, Tell, changeVars
<1>3. Others(c)
  BY <1>1 DEF Others, TypeOK, Tell
<1>4. CallOK(c)' /\ Agrees(c)'
  BY <1>1, <1>2 DEF CallOK, DoneOK, MailOK, Blank, Agrees, Remote, External, At, changeVars
<1> QED
  BY <1>1, <1>2, <1>3, <1>4, OneCall DEF CallOK

LEMMA UnreachableKeeps == ASSUME BookingInv, NEW c \in Calls, Unreachable(c) PROVE BookingInv'
<1>1. TypeOK /\ CallOK(c)
  BY DEF BookingInv, Types
<1>2. pc[c] # "done" /\ answer' = [answer EXCEPT ![c] = "none"]
  BY <1>1 DEF Unreachable, CallOK, TypeOK
<1> QED
  BY <1>2, GiveUpKeeps DEF Unreachable

LEMMA TimeOutKeeps == ASSUME BookingInv, NEW c \in Calls, TimeOut(c) PROVE BookingInv'
  BY GiveUpKeeps DEF TimeOut

LEMMA RefusedKeeps == ASSUME BookingInv, NEW c \in Calls, Refused(c) PROVE BookingInv'
<1>1. TypeOK /\ CallOK(c)
  BY DEF BookingInv, Types
<1>2. /\ Tell(c, Outcome(answer[c])) /\ answer' = [answer EXCEPT ![c] = "none"]
      /\ UNCHANGED <<setup, linked, calendar, jobs, req, mail, restarts, changeVars>>
      /\ pc[c] # "done" /\ Outcome(answer[c]) \in {"taken", "failed"}
  BY DEF Refused, Outcome
<1>3. Outcome(answer[c]) = "taken" => mail[c] = "none" /\ Blank(c)
  BY <1>1 DEF Refused, Outcome, CallOK, BookingOK, Blank
<1> HIDE DEF Outcome
<1> QED
  BY <1>2, <1>3, GiveUpKeeps

-------------------------------------------------------------------------------
(* The other side of the wire.                                             *)

\* Whatever answers, a call that no longer waits hears nothing.
LEMMA DeliverKeeps == ASSUME BookingInv, NEW c \in Calls, Deliver(c) PROVE BookingInv'
<1> DEFINE l == IF mail[c] = "length" THEN req[c].length ELSE TypeLength
           e == At(req[c].start, l)
           heard == {"none", "booked", "taken", "no length", "error", "rejected", "hollow"}
<1>1. TypeOK /\ CallOK(c) /\ Agrees(c)
  BY DEF BookingInv, Types
<1>2. /\ mail[c] \in {"length", "plain"} /\ mail' = [mail EXCEPT ![c] = "none"]
      /\ UNCHANGED <<setup, linked, jobs, pc, req, told, restarts, changeVars>>
  BY DEF Deliver
<1>3. PICK a \in heard \ {"none"} :
        /\ Reply(c, a)
        /\ calendar' = [calendar EXCEPT ![c] = e] \/ UNCHANGED calendar
        /\ a = "booked" => calendar' = [calendar EXCEPT ![c] = e]
        /\ a \notin {"booked", "hollow"} => UNCHANGED calendar
  <2>1. CASE Reply(c, "no length") /\ UNCHANGED calendar
    <3>1. "no length" \in heard \ {"none", "booked"}
      OBVIOUS
    <3> QED
      BY <2>1, <3>1
  <2>2. CASE calendar' = [calendar EXCEPT ![c] = e] /\ (Reply(c, "booked") \/ Reply(c, "hollow"))
    BY <2>2
  <2>3. CASE UNCHANGED calendar /\ Reply(c, "taken")
    <3>1. "taken" \in heard \ {"none", "booked"}
      OBVIOUS
    <3> QED
      BY <2>3, <3>1
  <2>4. CASE UNCHANGED calendar /\ \E a \in {"error", "rejected", "hollow"} : Reply(c, a)
    BY <2>4
  <2> QED
    BY <2>1, <2>2, <2>3, <2>4, Zenon DEF Deliver, Answers
<1>4. e \in Entry /\ e.state = "scheduled"
  <2>1. TypeLength \in Int
    BY TypeLengthIsInt
  <2>2. req[c] \in [start : Int, length : Int]
    BY <1>1 DEF TypeOK
  <2>3. l \in Int /\ req[c].start \in Int
    BY <2>1, <2>2
  <2> HIDE DEF l
  <2> QED
    BY <2>3, AtIsScheduled
<1> HIDE DEF e
<1>5. /\ TypeOK' /\ mail'[c] = "none" /\ answer'[c] = IF told[c] = "none" THEN a ELSE "none"
      /\ a = "booked" => calendar'[c].state = "scheduled"
      /\ a \notin {"booked", "hollow"} => calendar' = calendar
  <2>1. calendar' \in [Calls -> Entry]
    BY <1>1, <1>3, <1>4 DEF TypeOK
  <2>2. /\ answer' \in [Calls -> {"none", "booked", "taken", "no length", "error", "rejected",
                                  "hollow", "stored"}]
        /\ answer'[c] = IF told[c] = "none" THEN a ELSE "none"
    BY <1>1, <1>3 DEF TypeOK, Reply
  <2>3. mail' \in [Calls -> {"none", "length", "plain", "row"}] /\ mail'[c] = "none"
    BY <1>1, <1>2 DEF TypeOK
  <2>4. a = "booked" => calendar'[c].state = "scheduled"
    BY <1>1, <1>3, <1>4 DEF TypeOK
  <2> QED
    BY <1>1, <1>2, <1>3, <2>1, <2>2, <2>3, <2>4 DEF TypeOK, changeVars
<1>6. Others(c)
  BY <1>1, <1>2, <1>3 DEF Others, TypeOK, Reply
<1>7. Blank(c) /\ External /\ told[c] # "booked" /\ pc[c] \in {"booking", "done"}
  <2>1. Blank(c) /\ External
    BY <1>1, <1>2 DEF CallOK, MailOK
  <2>2. told[c] # "booked"
    BY <1>1, <1>2 DEF CallOK, DoneOK
  <2>3. pc[c] \in {"booking", "done"}
    BY <1>1, <1>2 DEF CallOK, StoringOK, TypeOK
  <2> QED
    BY <2>1, <2>2, <2>3
<1>8. CallOK(c)' /\ Agrees(c)'
  <2>1. CASE pc[c] = "booking"
    BY <1>1, <1>2, <1>5, <1>7, <2>1 DEF CallOK, BookingOK, MailOK, Blank, Agrees, Remote, External, changeVars
  <2>2. CASE pc[c] = "done"
    <3>1. told[c] # "none" /\ told[c] \notin {"taken", "incomplete", "booked"}
      BY <1>1, <1>2, <1>7, <2>2 DEF CallOK, DoneOK
    <3> QED
      BY <1>1, <1>2, <1>5, <1>7, <2>2, <3>1 DEF CallOK, DoneOK, MailOK, Blank, Agrees, Remote, External, changeVars
  <2> QED
    BY <1>7, <2>1, <2>2
<1> QED
  BY <1>5, <1>6, <1>7, <1>8, OneCall

LEMMA InsertKeeps == ASSUME BookingInv, NEW c \in Calls, Insert(c) PROVE BookingInv'
<1> DEFINE row == At(req[c].start, req[c].length)
<1>1. TypeOK /\ CallOK(c) /\ Agrees(c)
  BY DEF BookingInv, Types
<1>2. /\ mail[c] = "row" /\ mail' = [mail EXCEPT ![c] = "none"]
      /\ UNCHANGED <<setup, linked, calendar, pc, req, told, restarts, changeVars>>
  BY DEF Insert
<1>3. PICK a \in {"stored", "error"} :
        /\ Reply(c, a)
        /\ IF a = "stored" THEN jobs' = [jobs EXCEPT ![c] = row] ELSE UNCHANGED jobs
  BY DEF Insert
<1>4. row \in Entry /\ row.state = "scheduled"
  <2>1. req[c].start \in Int /\ req[c].length \in Int
    BY <1>1 DEF TypeOK
  <2> QED
    BY <2>1 DEF Entry, At
<1>5. /\ Remote /\ jobs[c].state = "none" /\ (External /\ c \in linked => calendar[c] = row)
      /\ told[c] # "booked" /\ pc[c] \in {"storing", "done"}
  <2>1. Remote /\ jobs[c].state = "none" /\ (External /\ c \in linked => calendar[c] = row)
    BY <1>1, <1>2 DEF CallOK, MailOK
  <2>2. told[c] # "booked"
    BY <1>1, <1>2 DEF CallOK, DoneOK
  <2>3. pc[c] \in {"storing", "done"}
    BY <1>1, <1>2 DEF CallOK, BookingOK, TypeOK
  <2> QED
    BY <2>1, <2>2, <2>3
<1> HIDE DEF row
<1>6. /\ TypeOK' /\ mail'[c] = "none" /\ answer'[c] = IF told[c] = "none" THEN a ELSE "none"
      /\ a = "stored" => jobs'[c] = row
      /\ a # "stored" => jobs' = jobs
  <2>1. jobs' \in [Calls -> Entry] /\ (a = "stored" => jobs'[c] = row)
    BY <1>1, <1>3, <1>4 DEF TypeOK
  <2>2. /\ answer' \in [Calls -> {"none", "booked", "taken", "no length", "error", "rejected",
                                  "hollow", "stored"}]
        /\ answer'[c] = IF told[c] = "none" THEN a ELSE "none"
    BY <1>1, <1>3 DEF TypeOK, Reply
  <2>3. mail' \in [Calls -> {"none", "length", "plain", "row"}] /\ mail'[c] = "none"
    BY <1>1, <1>2 DEF TypeOK
  <2> QED
    BY <1>1, <1>2, <1>3, <2>1, <2>2, <2>3 DEF TypeOK, changeVars
<1>7. Others(c)
  BY <1>1, <1>2, <1>3 DEF Others, TypeOK, Reply
<1>8. Agrees(c)'
  BY <1>1, <1>2, <1>3, <1>4, <1>5, <1>6 DEF Agrees, External, changeVars
<1>9. CallOK(c)'
  <2>1. CASE pc[c] = "storing"
    BY <1>1, <1>2, <1>4, <1>5, <1>6, <2>1 DEF CallOK, StoringOK, MailOK, Remote, External
  <2>2. CASE pc[c] = "done"
    <3>1. told[c] # "none" /\ told[c] \notin {"taken", "incomplete", "booked"}
      BY <1>1, <1>2, <1>5, <2>2 DEF CallOK, DoneOK
    <3> QED
      BY <1>1, <1>2, <1>6, <2>2, <3>1 DEF CallOK, DoneOK, MailOK
  <2> QED
    BY <1>5, <2>1, <2>2
<1> QED
  BY <1>5, <1>6, <1>7, <1>8, <1>9, OneCall

LEMMA LoseKeeps == ASSUME BookingInv, NEW c \in Calls, Lose(c) PROVE BookingInv'
<1>1. TypeOK /\ CallOK(c) /\ Agrees(c)
  BY DEF BookingInv, Types
<1>2. /\ mail' = [mail EXCEPT ![c] = "none"]
      /\ UNCHANGED <<setup, linked, calendar, jobs, pc, req, answer, told, restarts, changeVars>>
  BY DEF Lose
<1>3. TypeOK' /\ mail'[c] = "none"
  BY <1>1, <1>2 DEF TypeOK, changeVars
<1>4. Others(c)
  BY <1>1, <1>2 DEF Others, TypeOK
<1>5. CallOK(c)' /\ Agrees(c)'
  BY <1>1, <1>2, <1>3 DEF CallOK, BookingOK, StoringOK, DoneOK, MailOK, Blank, Agrees, Remote,
                          External, At, changeVars
<1> QED
  BY <1>2, <1>3, <1>4, <1>5, OneCall

LEMMA ResendKeeps == ASSUME BookingInv, NEW c \in Calls, Resend(c) PROVE BookingInv'
<1>1. TypeOK /\ CallOK(c) /\ Agrees(c)
  BY DEF BookingInv, Types
<1>2. /\ pc[c] = "booking" /\ answer[c] = "no length"
      /\ mail' = [mail EXCEPT ![c] = "plain"] /\ answer' = [answer EXCEPT ![c] = "none"]
      /\ UNCHANGED <<setup, linked, calendar, jobs, pc, req, told, restarts, changeVars>>
  BY DEF Resend
<1>3. TypeOK' /\ mail'[c] = "plain" /\ answer'[c] = "none"
  BY <1>1, <1>2 DEF TypeOK, changeVars
<1>4. Others(c)
  BY <1>1, <1>2 DEF Others, TypeOK
<1>5. CallOK(c)' /\ Agrees(c)'
  BY <1>1, <1>2, <1>3 DEF CallOK, BookingOK, MailOK, Blank, Agrees, Remote, External, changeVars
<1> QED
  BY <1>2, <1>3, <1>4, <1>5, OneCall

LEMMA StoredKeeps == ASSUME BookingInv, NEW c \in Calls, Stored(c) PROVE BookingInv'
<1>1. TypeOK /\ CallOK(c) /\ Agrees(c)
  BY DEF BookingInv, Types
<1>2. /\ pc[c] = "storing" /\ answer[c] = "stored"
      /\ pc' = [pc EXCEPT ![c] = "done"] /\ told' = [told EXCEPT ![c] = "booked"]
      /\ answer' = [answer EXCEPT ![c] = "none"]
      /\ UNCHANGED <<setup, linked, calendar, jobs, req, mail, restarts, changeVars>>
  BY DEF Stored, Tell
<1>3. TypeOK' /\ pc'[c] = "done" /\ told'[c] = "booked" /\ answer'[c] = "none"
  BY <1>1, <1>2 DEF TypeOK, changeVars
<1>4. Others(c)
  BY <1>1, <1>2 DEF Others, TypeOK
<1>5. CallOK(c)' /\ Agrees(c)'
  BY <1>1, <1>2, <1>3 DEF CallOK, StoringOK, DoneOK, MailOK, Agrees, Remote, External, At, changeVars
<1>6. told[c] # "booked"
  BY <1>1, <1>2 DEF CallOK
<1> QED
  BY <1>2, <1>3, <1>4, <1>5, <1>6, OneCall

-------------------------------------------------------------------------------
(* Cancel and reschedule.                                                  *)

\* The calls live with a change to the entries of one job that was booked, as long
\* as it stays an entry; the other jobs agree with their events as before.
LEMMA OneChange ==
  ASSUME BookingInv, NEW j \in Calls, told[j] = "booked",
         UNCHANGED <<setup, restarts, callVars>>, TypeOK',
         \A d \in Calls \ {j} : calendar'[d] = calendar[d] /\ jobs'[d] = jobs[d],
         calendar'[j].state = "none" => calendar[j].state = "none",
         jobs'[j].state = "none" => jobs[j].state = "none",
         unsettled \subseteq unsettled',
         change.at = "store" => change.job = j,
         change \in {NoChange} \cup Changes, change' \in {NoChange} \cup Changes,
         ChangeOK', Agrees(j)'
  PROVE  BookingInv'
<1>1. UNCHANGED <<Remote, External>>
  BY DEF Remote, External
<1>2. ASSUME NEW d \in Calls PROVE CallOK(d)'
  <2>1. CallOK(d) /\ CallOK(j) /\ TypeOK
    BY DEF BookingInv, Types
  <2>2. CASE d # j
    BY <1>1, <2>1, <2>2 DEF CallOK, BookingOK, StoringOK, DoneOK, MailOK, Blank, At, callVars
  <2>3. CASE d = j
    <3>1. pc[j] = "done" /\ DoneOK(j) /\ mail[j] = "none"
      BY <2>1 DEF CallOK, DoneOK
    <3> QED
      BY <1>1, <2>1, <2>3, <3>1 DEF CallOK, DoneOK, MailOK, callVars
  <2> QED
    BY <2>2, <2>3
<1>3. ASSUME NEW d \in Calls \ {j} PROVE Agrees(d)'
  <2>1. Agrees(d)
    BY DEF BookingInv
  <2> QED
    BY <1>1, <2>1 DEF Agrees, callVars
<1> QED
  BY <1>2, <1>3 DEF BookingInv, Types

LEMMA RequireKeeps == ASSUME BookingInv, NEW j \in Calls, Require(j) PROVE BookingInv'
<1>1. /\ change = NoChange /\ changes < MaxChanges /\ changes' = changes + 1
      /\ told[j] = "booked" /\ jobs[j].state # "none"
      /\ UNCHANGED <<setup, calendar, jobs, unsettled, restarts, callVars>>
  BY DEF Require
<1>2. TypeOK /\ Agrees(j) /\ jobs[j] \in Entry
  BY DEF BookingInv, Types, TypeOK
<1> DEFINE Wanted(k, to, at) ==
             /\ change' = [kind |-> k, job |-> j, copy |-> jobs[j], to |-> to, at |-> at]
             /\ to.state = IF k = "move" THEN "scheduled" ELSE "cancelled"
             /\ at = "clash" => ~ External /\ k = "move"
             /\ at = "calendar" => j \in linked
             /\ at = "store" => ~ External \/ j \notin linked
<1>3. PICK k \in {"move", "cancel"}, to \in Entry, at \in {"clash", "calendar", "store"} :
        Wanted(k, to, at)
  <2>1. ASSUME NEW s \in Starts,
               change' = [kind |-> "move", job |-> j, copy |-> jobs[j],
                          to |-> At(s, jobs[j].end - jobs[j].start),
                          at |-> First(j, "clash")]
        PROVE  \E k \in {"move", "cancel"}, to \in Entry, at \in {"clash", "calendar", "store"} :
                 Wanted(k, to, at)
    <3> DEFINE to == At(s, jobs[j].end - jobs[j].start)
               at == First(j, "clash")
    <3>1. s \in Int /\ jobs[j].end - jobs[j].start \in Int
      BY <1>2, BookingConstants DEF Entry
    <3>2. to \in Entry /\ to.state = "scheduled"
      BY <3>1, AtIsScheduled
    <3>3. /\ at \in {"clash", "calendar", "store"} /\ (at = "clash" => ~ External)
          /\ at = "calendar" => j \in linked
          /\ at = "store" => j \notin linked
      BY DEF First
    <3> HIDE DEF to, at
    <3>4. Wanted("move", to, at)
      BY <2>1, <3>2, <3>3 DEF to, at
    <3> QED
      BY <3>2, <3>3, <3>4
  <2>2. ASSUME change' = [kind |-> "cancel", job |-> j, copy |-> jobs[j],
                          to |-> [jobs[j] EXCEPT !.state = "cancelled"],
                          at |-> First(j, "store")]
        PROVE  \E k \in {"move", "cancel"}, to \in Entry, at \in {"clash", "calendar", "store"} :
                 Wanted(k, to, at)
    <3> DEFINE to == [jobs[j] EXCEPT !.state = "cancelled"]
               at == First(j, "store")
    <3>1. to \in Entry /\ to.state = "cancelled"
      BY <1>2 DEF Entry
    <3>2. /\ at \in {"calendar", "store"} /\ (at = "calendar" => j \in linked)
          /\ at = "store" => ~ External \/ j \notin linked
      BY DEF First
    <3> HIDE DEF to, at
    <3>3. Wanted("cancel", to, at)
      BY <2>2, <3>1, <3>2 DEF to, at
    <3> QED
      BY <3>1, <3>2, <3>3
  <2> QED
    BY <2>1, <2>2 DEF Require
<1>4. /\ change' \in Changes /\ change'.job = j /\ change'.copy = jobs[j] /\ change'.at = at
      /\ change'.kind = k /\ change'.to = to
  BY <1>2, <1>3 DEF Changes
<1>5. TypeOK'
  <2>1. changes' \in 0 .. MaxChanges
    BY <1>1, <1>2, BookingConstants, OneMore DEF TypeOK
  <2> QED
    BY <1>1, <1>2, <1>4, <2>1 DEF TypeOK, callVars
<1>6. ChangeOK'
  BY <1>1, <1>3, <1>4 DEF ChangeOK, CalendarMoved, External, callVars
<1>7. Agrees(j)'
  BY <1>1, <1>2, <1>3, <1>4 DEF Agrees, External, NoChange, callVars
<1> HIDE DEF Wanted
<1> QED
  BY <1>1, <1>4, <1>5, <1>6, <1>7, OneChange DEF NoChange

\* The change is over: its job is as it was, or it is one of the unsettled.
LEMMA AbandonKeeps ==
  ASSUME BookingInv, change # NoChange, NEW half \in BOOLEAN, Abandon(half),
         CalendarMoved => half,
         UNCHANGED <<setup, calendar, jobs, restarts, callVars>>
  PROVE  BookingInv'
<1>0. PICK j \in Calls : j = change.job
  BY DEF BookingInv, Types, Changes, NoChange
<1>1. TypeOK /\ change \in Changes /\ j \in Calls /\ told[j] = "booked" /\ Agrees(j)
  BY <1>0 DEF BookingInv, Types, Changes, ChangeOK
<1>2. /\ change' = NoChange /\ unsettled' = IF half THEN unsettled \cup {j} ELSE unsettled
      /\ changes' = changes
  BY <1>0 DEF Abandon
<1>3. TypeOK'
  BY <1>0, <1>1, <1>2 DEF TypeOK, NoChange, callVars
<1>4. ChangeOK'
  BY <1>2 DEF ChangeOK
<1>5. Agrees(j)'
  BY <1>0, <1>1, <1>2 DEF Agrees, CalendarMoved, External, NoChange, callVars
<1> QED
  BY <1>0, <1>1, <1>2, <1>3, <1>4, <1>5, OneChange

\* The row is written: where there is a calendar, its event is what the job becomes.
LEMMA WriteKeeps ==
  ASSUME BookingInv, change # NoChange, change.at \in {"clash", "store"}, Abandon(FALSE),
         jobs' = [jobs EXCEPT ![change.job] = Changed],
         UNCHANGED <<setup, calendar, restarts, callVars>>
  PROVE  BookingInv'
<1>0. PICK j \in Calls : j = change.job
  BY DEF BookingInv, Types, Changes, NoChange
<1>1. TypeOK /\ change \in Changes /\ j \in Calls /\ told[j] = "booked" /\ ChangeOK
  BY <1>0 DEF BookingInv, Types, Changes, ChangeOK
<1>2. change' = NoChange /\ UNCHANGED <<unsettled, changes>>
  BY DEF Abandon
<1>3. change.to \in Entry /\ change.copy.state \in {"scheduled", "cancelled"}
  BY <1>0, <1>1 DEF Changes, ChangeOK, Entry
<1>4. Changed \in Entry /\ Changed.state # "none"
  BY <1>0, <1>1, <1>3 DEF Changed, Entry, ChangeOK
<1>5. External /\ j \in linked => Changed = calendar[j]
  <2>1. SUFFICES ASSUME External, j \in linked PROVE Changed = change.to
    BY <1>0, <1>1 DEF ChangeOK, CalendarMoved
  <2>2. (IF change.kind = "move" THEN change.copy.state ELSE change.to.state) = change.to.state
    BY <1>0, <1>1, <2>1 DEF ChangeOK, CalendarMoved
  <2> QED
    BY <1>3, <2>2 DEF Changed, Entry
<1>6. TypeOK'
  BY <1>0, <1>1, <1>2, <1>4 DEF TypeOK, NoChange, callVars
<1>7. jobs'[j] = Changed /\ \A d \in Calls \ {j} : jobs'[d] = jobs[d]
  BY <1>0, <1>1 DEF TypeOK
<1>8. ChangeOK'
  BY <1>2 DEF ChangeOK
<1>9. Agrees(j)'
  BY <1>0, <1>5, <1>7 DEF Agrees, External, callVars
<1> QED
  BY <1>0, <1>1, <1>2, <1>4, <1>6, <1>7, <1>8, <1>9, OneChange

LEMMA ClashKeeps == ASSUME BookingInv, Clash PROVE BookingInv'
<1>0. PICK j \in Calls : j = change.job
  BY DEF BookingInv, Types, Changes, NoChange, Clash
<1>1. /\ change.at = "clash" /\ change # NoChange
      /\ UNCHANGED <<setup, calendar, restarts, callVars>>
  BY DEF Clash, NoChange
<1>2. TypeOK /\ change \in Changes /\ j \in Calls /\ told[j] = "booked" /\ ChangeOK /\ ~ External
  BY <1>0, <1>1 DEF BookingInv, Types, Changes, ChangeOK
<1>3. CASE Abandon(FALSE) /\ UNCHANGED jobs
  BY <1>0, <1>1, <1>2, <1>3, AbandonKeeps DEF CalendarMoved
<1>4. CASE change' = [change EXCEPT !.at = "store"] /\ UNCHANGED <<jobs, unsettled, changes>>
  <2>1. /\ change' \in Changes /\ change'.at = "store" /\ change'.job = j
        /\ change'.copy = change.copy /\ change'.kind = change.kind /\ change'.to = change.to
    <3>1. change \in Changes /\ change' = [change EXCEPT !.at = "store"]
      BY <1>2, <1>4
    <3> QED
      BY <1>0, <3>1 DEF Changes
  <2>2. TypeOK'
    BY <1>0, <1>1, <1>2, <1>4, <2>1 DEF TypeOK, callVars
  <2>3. ChangeOK'
    BY <1>0, <1>1, <1>2, <1>4, <2>1 DEF ChangeOK, CalendarMoved, External, callVars
  <2>4. Agrees(j)'
    BY <1>0, <1>1, <1>2 DEF Agrees, External
  <2> QED
    BY <1>0, <1>1, <1>2, <1>4, <2>1, <2>2, <2>3, <2>4, OneChange
<1>5. CASE jobs' = [jobs EXCEPT ![change.job] = Changed] /\ Abandon(FALSE)
  BY <1>1, <1>5, WriteKeeps
<1> QED
  BY <1>3, <1>4, <1>5 DEF Clash

LEMMA AtCalendarKeeps == ASSUME BookingInv, AtCalendar PROVE BookingInv'
<1>0. PICK j \in Calls : j = change.job
  BY DEF BookingInv, Types, Changes, NoChange, AtCalendar
<1>1. /\ change.at = "calendar" /\ change # NoChange
      /\ UNCHANGED <<setup, jobs, restarts, callVars>>
  BY DEF AtCalendar, NoChange
<1>2. TypeOK /\ change \in Changes /\ j \in Calls /\ told[j] = "booked" /\ ChangeOK /\ Agrees(j)
  BY <1>0, <1>1 DEF BookingInv, Types, Changes, ChangeOK
<1>3. CASE Abandon(FALSE) /\ UNCHANGED calendar
  BY <1>0, <1>1, <1>3, AbandonKeeps DEF CalendarMoved
<1>4. CASE /\ calendar[j].state = "scheduled"
           /\ calendar' = [calendar EXCEPT ![j] = change.to]
           /\ change' = [change EXCEPT !.at = "store"]
           /\ UNCHANGED <<unsettled, changes>>
  <2>1. /\ change' \in Changes /\ change'.at = "store" /\ change'.job = j
        /\ change'.copy = change.copy /\ change'.kind = change.kind /\ change'.to = change.to
    <3>1. change \in Changes /\ change' = [change EXCEPT !.at = "store"]
      BY <1>2, <1>4
    <3> QED
      BY <1>0, <3>1 DEF Changes
  <2>2. change.to \in Entry /\ change.to.state # "none"
    BY <1>0, <1>1, <1>2 DEF Changes, ChangeOK
  <2>3. calendar'[j] = change.to /\ \A d \in Calls \ {j} : calendar'[d] = calendar[d]
    BY <1>2, <1>4 DEF TypeOK
  <2>4. TypeOK'
    BY <1>0, <1>1, <1>2, <1>4, <2>1, <2>2 DEF TypeOK, callVars
  <2>5. j \in linked /\ (External => change.copy.state = "scheduled" /\ jobs[j].state # "cancelled")
    <3>0. j \in linked
      BY <1>0, <1>1, <1>2 DEF ChangeOK
    <3>1. SUFFICES ASSUME External PROVE jobs[j].state = "scheduled"
      BY <1>0, <1>1, <1>2, <3>0 DEF ChangeOK
    <3>2. jobs[j].state # "none" /\ jobs[j].state \in {"none", "scheduled", "cancelled"}
      BY <1>0, <1>1, <1>2 DEF ChangeOK, TypeOK, Entry
    <3> QED
      BY <1>2, <1>4, <3>0, <3>1, <3>2 DEF Agrees
  <2>6. ChangeOK'
    BY <1>0, <1>1, <1>2, <2>1, <2>3, <2>5 DEF ChangeOK, CalendarMoved, External, callVars
  <2>7. Agrees(j)'
    BY <1>0, <1>1, <2>1, <2>5 DEF Agrees, External
  <2> QED
    BY <1>0, <1>1, <1>2, <1>4, <2>1, <2>2, <2>3, <2>4, <2>6, <2>7, OneChange
<1> QED
  BY <1>0, <1>3, <1>4 DEF AtCalendar

LEMMA AtStoreKeeps == ASSUME BookingInv, AtStore PROVE BookingInv'
<1>1. /\ change.at = "store" /\ change # NoChange
      /\ UNCHANGED <<setup, calendar, restarts, callVars>>
  BY DEF AtStore, NoChange
<1>2. CalendarMoved \in BOOLEAN
  BY DEF CalendarMoved
<1>3. CASE Abandon(CalendarMoved) /\ UNCHANGED jobs
  BY <1>1, <1>2, <1>3, AbandonKeeps
<1>4. CASE jobs' = [jobs EXCEPT ![change.job] = Changed] /\ Abandon(FALSE)
  BY <1>1, <1>4, WriteKeeps
<1> QED
  BY <1>3, <1>4 DEF AtStore

LEMMA RestartKeeps == ASSUME BookingInv, Restart PROVE BookingInv'
<1> DEFINE cut == {c \in Calls : pc[c] \notin {"idle", "done"}}
<1>1. /\ restarts < MaxRestarts /\ restarts' = restarts + 1 /\ change' = NoChange
      /\ pc' = [c \in Calls |-> IF c \in cut THEN "done" ELSE pc[c]]
      /\ told' = [c \in Calls |-> IF c \in cut THEN "cut" ELSE told[c]]
      /\ answer' = [c \in Calls |-> "none"]
      /\ jobs' = IF Remote THEN jobs ELSE [c \in Calls |-> Nothing]
      /\ unsettled' = IF CalendarMoved THEN unsettled \cup {change.job} ELSE unsettled
      /\ UNCHANGED <<setup, linked, calendar, req, mail, changes>>
  BY DEF Restart, Abandon
<1>2. TypeOK /\ change \in {NoChange} \cup Changes
  BY DEF BookingInv, Types
<1>3. CalendarMoved => change.job \in Calls
  BY <1>2 DEF CalendarMoved, NoChange, Changes
<1>4. TypeOK'
  <2>1. jobs' \in [Calls -> Entry]
    <3>1. Nothing \in Entry
      BY DEF Nothing, Entry
    <3> QED
      BY <1>1, <1>2, <3>1 DEF TypeOK
  <2>2. restarts' \in 0 .. MaxRestarts
    BY <1>1, <1>2, BookingConstants, OneMore DEF TypeOK
  <2>3. pc' \in [Calls -> {"idle", "check", "connect", "booking", "storing", "done"}]
    BY <1>1, <1>2 DEF TypeOK
  <2>4. told' \in [Calls -> {"none", "booked", "taken", "incomplete", "failed", "cut"}]
    BY <1>1, <1>2 DEF TypeOK
  <2>5. unsettled' \subseteq Calls /\ change'.at = "none"
    BY <1>1, <1>2, <1>3 DEF TypeOK, NoChange
  <2> QED
    BY <1>1, <1>2, <2>1, <2>2, <2>3, <2>4, <2>5 DEF TypeOK
<1>5. Types' /\ ChangeOK'
  BY <1>1, <1>4 DEF Types, ChangeOK
<1>6. UNCHANGED <<Remote, External>> /\ restarts' > 0
  BY <1>1, <1>2, BookingConstants, OneMore DEF Remote, External, TypeOK
<1>7. ASSUME NEW c \in Calls PROVE CallOK(c)' /\ Agrees(c)'
  <2>1. CallOK(c) /\ Agrees(c)
    BY DEF BookingInv
  <2>2. /\ answer'[c] = "none" /\ (Remote => jobs' = jobs)
        /\ ~ Remote => jobs'[c].state = "none"
    BY <1>1 DEF Nothing
  <2>3. Agrees(c)'
    BY <1>1, <1>6, <2>1, <2>2 DEF Agrees, CalendarMoved, NoChange
  <2>4. MailOK(c)'
    BY <1>1, <1>6, <2>1, <2>2 DEF CallOK, MailOK, Blank, At
  <2>5. CASE c \in cut
    <3>1. pc'[c] = "done" /\ told'[c] = "cut"
      BY <1>1, <2>5
    <3> QED
      BY <2>2, <2>3, <2>4, <3>1 DEF CallOK, DoneOK
  <2>6. CASE c \notin cut
    <3>1. pc'[c] = pc[c] /\ told'[c] = told[c] /\ pc[c] \in {"idle", "done"}
      BY <1>1, <2>6
    <3>2. Blank(c) => Blank(c)'
      BY <1>1, <2>2 DEF Blank
    <3>3. pc[c] = "done" => DoneOK(c)'
      BY <1>1, <1>6, <2>1, <2>2, <3>1, <3>2 DEF CallOK, DoneOK
    <3> QED
      BY <1>1, <2>1, <2>2, <2>3, <2>4, <3>1, <3>2, <3>3 DEF CallOK
  <2> QED
    BY <2>5, <2>6
<1> QED
  BY <1>5, <1>7 DEF BookingInv

-------------------------------------------------------------------------------
(* The invariant and what it promises.                                     *)

LEMMA BookingInvInductive == Spec => []BookingInv
<1>1. Init => BookingInv
  BY BookingConstants DEF Init, BookingInv, Types, TypeOK, ChangeOK, CallOK, MailOK, Blank, Agrees,
     Nothing, NoReq, NoChange, Entry
<1>2. BookingInv /\ [Next]_vars => BookingInv'
  <2> SUFFICES ASSUME BookingInv, [Next]_vars PROVE BookingInv'
    OBVIOUS
  <2>1. ASSUME NEW c \in Calls, CallStep(c) PROVE BookingInv'
    BY <2>1, IncompleteKeeps, BeginKeeps, CheckKeeps, ConnectKeeps, UnreachableKeeps, TimeOutKeeps,
       ResendKeeps, RefusedKeeps, MirrorKeeps, StoredKeeps DEF CallStep
  <2>2. ASSUME NEW c \in Calls, Deliver(c) \/ Insert(c) \/ Lose(c) PROVE BookingInv'
    BY <2>2, DeliverKeeps, InsertKeeps, LoseKeeps
  <2>3. ASSUME NEW j \in Calls, Require(j) PROVE BookingInv'
    BY <2>3, RequireKeeps
  <2>4. CASE UNCHANGED vars
    <3>1. Types' /\ ChangeOK'
      BY <2>4 DEF vars, BookingInv, Types, TypeOK, ChangeOK, CalendarMoved, External
    <3>2. ASSUME NEW c \in Calls PROVE CallOK(c)' /\ Agrees(c)'
      <4>1. CallOK(c) /\ Agrees(c)
        BY DEF BookingInv
      <4> QED
        BY <2>4, <4>1 DEF vars, CallOK, BookingOK, StoringOK, DoneOK, MailOK, Blank, Agrees, Remote,
                          External, At
    <3> QED
      BY <3>1, <3>2 DEF BookingInv
  <2> QED
    BY <2>1, <2>2, <2>3, <2>4, ClashKeeps, AtCalendarKeeps, AtStoreKeeps, RestartKeeps DEF Next
<1> QED
  BY <1>1, <1>2, PTL DEF Spec

\* A caller told that the appointment is booked is in the job store, and on the
\* calendar when the job names an event of it, whatever was refused, resent or cut
\* off on the way; a job that names none comes of the REST client alone: book_job
\* and the create_booking of every calendar.
THEOREM BookingsAreKept == Spec => []BookedIsKept
<1>1. BookingInv => BookedIsKept
  BY DEF BookingInv, BookedIsKept, CallOK, DoneOK
<1> QED
  BY <1>1, BookingInvInductive, PTL

\* A job and the calendar event it names say the same, but for a cancel or reschedule
\* between the two or broken off there.
THEOREM RecordsMatch == Spec => []RecordMatchesCalendar
<1>1. BookingInv => RecordMatchesCalendar
  BY DEF BookingInv, Types, TypeOK, RecordMatchesCalendar, Agrees
<1> QED
  BY <1>1, BookingInvInductive, PTL

\* An event no job mirrors belongs to a call that has not been told to choose
\* another time.
THEOREM OrphansAreNotSilent == Spec => []NoSilentOrphan
<1>1. BookingInv => NoSilentOrphan
  <2> SUFFICES ASSUME BookingInv, NEW c \in Calls, calendar[c].state = "scheduled",
                      jobs[c].state = "none"
               PROVE  told[c] \in {"none", "failed", "cut"} \/ (~ Remote /\ restarts > 0)
    BY DEF NoSilentOrphan
  <2>1. CallOK(c) /\ TypeOK
    BY DEF BookingInv, Types
  <2>2. CASE told[c] \in {"taken", "incomplete"}
    BY <2>1, <2>2 DEF CallOK, DoneOK, Blank
  <2>3. CASE told[c] = "booked"
    BY <2>1, <2>3 DEF CallOK, DoneOK
  <2> QED
    BY <2>1, <2>2, <2>3 DEF TypeOK
<1> QED
  BY <1>1, BookingInvInductive, PTL

-----------------------------------------------------------------------------
(***************************************************************************)
(* Booking implements Agenda: the stub over a store in memory, and Cal.com *)
(* over either store, keep one appointment at a time and tell nobody more  *)
(* than what is held for them, or what a REST answer without a uid let     *)
(* them believe.                                                           *)
(***************************************************************************)

\* An appointment begins at a start time and lasts as long as a service or the
\* event type.
Asked == [start : Starts, length : Lengths \cup {TypeLength}]

Shaped(e) == e.state # "none" => e.start \in Starts /\ e.end - e.start \in Lengths \cup {TypeLength}

\* What is asked for, held or on its way has this shape; a change the stub has still
\* to write is a cancel, unless its store is remote; only a calendar is asked.
Shapes ==
  /\ \A c \in Calls : /\ pc[c] \notin {"idle", "done"} \/ mail[c] # "none" => req[c] \in Asked
                      /\ Shaped(calendar[c]) /\ Shaped(jobs[c])
  /\ change # NoChange => Shaped(change.to)
  /\ change.at = "calendar" => External
  /\ change.at = "store" /\ ~ External /\ ~ Remote => change.kind = "cancel"

LEMMA TimesAreInts == Starts \subseteq Int /\ Lengths \cup {TypeLength} \subseteq Int
<1>1. Lengths \subseteq Int
  BY BookingConstants
<1> QED
  BY <1>1, TypeLengthIsInt, BookingConstants

\* A request's times are an appointment's.
LEMMA AskedIsShaped ==
  ASSUME NEW r \in Asked
  PROVE  /\ r.start \in Int /\ r.length \in Int
         /\ At(r.start, r.length) \in Entry /\ Shaped(At(r.start, r.length))
<1>1. r.start \in Starts /\ r.length \in Lengths \cup {TypeLength}
  BY DEF Asked
<1>2. r.start \in Int /\ r.length \in Int
  BY <1>1, TimesAreInts
<1>3. (r.start + r.length) - r.start = r.length
  BY <1>2
<1> QED
  BY <1>1, <1>2, <1>3 DEF At, Shaped, Entry

\* An appointment's times are a request's.
LEMMA ShapedIsAsked ==
  ASSUME NEW e \in Entry, e.state # "none", Shaped(e)
  PROVE  [start |-> e.start, length |-> e.end - e.start] \in Asked
  BY DEF Shaped, Asked

LEMMA SaveShapes ==
  ASSUME BookingInv, Shapes, NEW c \in Calls, NEW job \in Entry, job.state = "scheduled", Shaped(job),
         Save(c, job), UNCHANGED <<setup, calendar, change>>
  PROVE  Shapes'
<1>1. TypeOK
  BY DEF BookingInv, Types
<1>2. CASE Remote
  <2> DEFINE r == [start |-> job.start, length |-> job.end - job.start]
  <2>1. r \in Asked
    BY ShapedIsAsked
  <2>2. /\ mail' = [mail EXCEPT ![c] = "row"] /\ pc' = [pc EXCEPT ![c] = "storing"]
        /\ req' = [req EXCEPT ![c] = r] /\ UNCHANGED jobs
    BY <1>2 DEF Save
  <2> HIDE DEF r
  <2> QED
    BY <1>1, <2>1, <2>2 DEF Shapes, Shaped, TypeOK, Remote, External
<1>3. CASE ~ Remote
  <2>1. /\ jobs' = [jobs EXCEPT ![c] = job] /\ pc' = [pc EXCEPT ![c] = "done"]
        /\ UNCHANGED <<mail, req>>
    BY <1>3 DEF Save, Tell
  <2> QED
    BY <1>1, <2>1 DEF Shapes, Shaped, TypeOK, Remote, External
<1> QED
  BY <1>2, <1>3

LEMMA CallShapes == ASSUME BookingInv, Shapes, NEW c \in Calls, CallStep(c) PROVE Shapes'
<1>1. TypeOK /\ CallOK(c)
  BY DEF BookingInv, Types
<1>2. CASE Incomplete(c) \/ Unreachable(c) \/ TimeOut(c) \/ Refused(c) \/ Stored(c)
  <2>1. UNCHANGED <<setup, calendar, jobs, req, mail, change>> /\ pc' = [pc EXCEPT ![c] = "done"]
    BY <1>2 DEF Incomplete, Unreachable, TimeOut, Refused, Stored, Tell, changeVars
  <2> QED
    BY <1>1, <2>1 DEF Shapes, Shaped, TypeOK, Remote, External
<1>3. CASE Begin(c)
  <2>1. PICK s \in Starts, l \in Lengths : req' = [req EXCEPT ![c] = [start |-> s, length |-> l]]
    BY <1>3 DEF Begin
  <2> DEFINE r == [start |-> s, length |-> l]
  <2>2. r \in Asked
    BY DEF Asked
  <2>3. /\ req' = [req EXCEPT ![c] = r] /\ UNCHANGED <<setup, calendar, jobs, mail, change>>
        /\ \A d \in Calls \ {c} : pc'[d] = pc[d]
    BY <1>1, <1>3, <2>1 DEF Begin, changeVars, TypeOK
  <2> HIDE DEF r
  <2> QED
    BY <1>1, <2>2, <2>3 DEF Shapes, Shaped, TypeOK, Remote, External
<1>4. CASE Connect(c) \/ Resend(c)
  <2>1. /\ UNCHANGED <<setup, calendar, jobs, req, change>> /\ pc[c] \notin {"idle", "done"}
        /\ \A d \in Calls \ {c} : pc'[d] = pc[d] /\ mail'[d] = mail[d]
    BY <1>1, <1>4 DEF Connect, Resend, changeVars, TypeOK
  <2> QED
    BY <2>1 DEF Shapes, Shaped, Remote, External
<1>5. CASE Check(c)
  <2>1. CASE Tell(c, "taken") /\ UNCHANGED <<jobs, req, mail>>
    <3>1. UNCHANGED <<setup, calendar, jobs, req, mail, change>> /\ pc' = [pc EXCEPT ![c] = "done"]
      BY <1>5, <2>1 DEF Check, Tell, changeVars
    <3> QED
      BY <1>1, <3>1 DEF Shapes, Shaped, TypeOK, Remote, External
  <2>2. CASE Save(c, At(req[c].start, req[c].length))
    <3>1. req[c] \in Asked
      BY <1>5 DEF Check, Shapes
    <3>2. At(req[c].start, req[c].length).state = "scheduled"
      BY DEF At
    <3> QED
      BY <1>5, <2>2, <3>1, <3>2, AskedIsShaped, SaveShapes DEF Check, changeVars
  <2> QED
    BY <1>5, <2>1, <2>2 DEF Check
<1>6. CASE Mirror(c)
  <2>1. pc[c] = "booking" /\ calendar[c] \in Entry /\ Shaped(calendar[c])
    BY <1>1, <1>6 DEF Mirror, TypeOK, Shapes
  <2>2. req[c] \in Asked
    BY <2>1 DEF Shapes
  <2>3. AsAsked(c) \in Entry /\ Shaped(AsAsked(c)) /\ AsAsked(c).state = "scheduled"
    BY <2>2, AskedIsShaped DEF AsAsked, At
  <2>4. JobFor(c) \in Entry /\ JobFor(c).state = "scheduled" /\ Shaped(JobFor(c))
    BY <1>1, <2>1, <2>3 DEF JobFor, CallOK, BookingOK
  <2> QED
    BY <1>6, <2>4, SaveShapes DEF Mirror, changeVars
<1> QED
  BY <1>2, <1>3, <1>4, <1>5, <1>6 DEF CallStep

LEMMA WireShapes ==
  ASSUME BookingInv, Shapes, NEW c \in Calls, Deliver(c) \/ Insert(c) \/ Lose(c) PROVE Shapes'
<1>1. TypeOK
  BY DEF BookingInv, Types
<1>2. CASE Deliver(c)
  <2> DEFINE r == [start |-> req[c].start,
                   length |-> IF mail[c] = "length" THEN req[c].length ELSE TypeLength]
             e == At(r.start, r.length)
  <2>1. req[c] \in Asked
    BY <1>2 DEF Deliver, Shapes
  <2>2. r \in Asked
    BY <2>1 DEF Asked
  <2>3. Shaped(e)
    <3> HIDE DEF r
    <3> QED
      BY <2>2, AskedIsShaped
  <2>4. /\ mail' = [mail EXCEPT ![c] = "none"] /\ UNCHANGED <<setup, jobs, pc, req, change>>
        /\ calendar' = calendar \/ calendar' = [calendar EXCEPT ![c] = e]
    BY <1>2 DEF Deliver, changeVars
  <2> HIDE DEF e
  <2> QED
    BY <1>1, <2>3, <2>4 DEF Shapes, Shaped, TypeOK, Remote, External
<1>3. CASE Insert(c)
  <2> DEFINE e == At(req[c].start, req[c].length)
  <2>1. Shaped(e)
    BY <1>3, AskedIsShaped DEF Insert, Shapes
  <2>2. /\ mail' = [mail EXCEPT ![c] = "none"] /\ UNCHANGED <<setup, calendar, pc, req, change>>
        /\ jobs' = jobs \/ jobs' = [jobs EXCEPT ![c] = e]
    BY <1>3 DEF Insert, changeVars
  <2> HIDE DEF e
  <2> QED
    BY <1>1, <2>1, <2>2 DEF Shapes, Shaped, TypeOK, Remote, External
<1>4. CASE Lose(c)
  <2>1. mail' = [mail EXCEPT ![c] = "none"] /\ UNCHANGED <<setup, calendar, jobs, pc, req, change>>
    BY <1>4 DEF Lose, changeVars
  <2> QED
    BY <1>1, <2>1 DEF Shapes, Shaped, TypeOK, Remote, External
<1> QED
  BY <1>2, <1>3, <1>4

LEMMA ChangeShapes ==
  ASSUME BookingInv, Shapes, Clash \/ AtCalendar \/ AtStore \/ Restart \/ \E j \in Calls : Require(j)
  PROVE  Shapes'
<1>1. TypeOK /\ change \in {NoChange} \cup Changes /\ ChangeOK
  BY DEF BookingInv, Types
<1>2. change # NoChange => Shaped(change.to) /\ change.job \in Calls
  BY <1>1 DEF Shapes, Changes
\* The row that is written has the times the change aims at.
<1>3. change # NoChange => Shaped(Changed)
  <2> SUFFICES ASSUME change # NoChange PROVE Shaped(Changed)
    OBVIOUS
  <2>1. change.to \in Entry /\ change.to.state # "none"
    BY <1>1 DEF Changes, ChangeOK
  <2>2. Changed.start = change.to.start /\ Changed.end = change.to.end
    BY <2>1 DEF Changed, Entry
  <2> QED
    BY <1>2, <2>1, <2>2 DEF Shaped
<1>4. ASSUME NEW j \in Calls, Require(j) PROVE Shapes'
  <2>1. /\ change = NoChange /\ UNCHANGED <<setup, calendar, jobs, pc, req, mail>>
        /\ Shaped(jobs[j]) /\ jobs[j] \in Entry /\ jobs[j].state # "none"
    BY <1>1, <1>4 DEF Require, Shapes, TypeOK, callVars
  <2> DEFINE len == jobs[j].end - jobs[j].start
  <2>2. len \in Lengths \cup {TypeLength}
    BY <2>1 DEF Shaped
  <2>3. CASE \E s \in Starts :
               change' = [kind |-> "move", job |-> j, copy |-> jobs[j], to |-> At(s, len),
                          at |-> First(j, "clash")]
    <3>1. PICK s \in Starts :
            change' = [kind |-> "move", job |-> j, copy |-> jobs[j], to |-> At(s, len),
                       at |-> First(j, "clash")]
      BY <2>3
    <3> DEFINE r == [start |-> s, length |-> len]
               to == At(r.start, r.length)
    <3>2. r \in Asked
      BY <2>2 DEF Asked
    <3>3. Shaped(to)
      <4> HIDE DEF r
      <4> QED
        BY <3>2, AskedIsShaped
    <3> HIDE DEF to
    <3>4. /\ change'.to = to /\ (change'.at = "store" => External)
          /\ change'.at = "calendar" => External
      BY <3>1 DEF to, First
    <3> QED
      BY <2>1, <3>3, <3>4 DEF Shapes, Shaped, Remote, External
  <2>4. CASE change' = [kind |-> "cancel", job |-> j, copy |-> jobs[j],
                        to |-> [jobs[j] EXCEPT !.state = "cancelled"],
                        at |-> First(j, "store")]
    <3> DEFINE to == [jobs[j] EXCEPT !.state = "cancelled"]
    <3>1. Shaped(to)
      BY <2>1 DEF Shaped, Entry
    <3> HIDE DEF to
    <3>2. change'.to = to /\ change'.kind = "cancel" /\ (change'.at = "calendar" => External)
      BY <2>4 DEF to, First
    <3> QED
      BY <2>1, <3>1, <3>2 DEF Shapes, Shaped, Remote, External
  <2> QED
    BY <1>4, <2>3, <2>4 DEF Require
\* The change ends with the row written or as it was.
<1>5. ASSUME NEW half, Abandon(half), UNCHANGED <<setup, calendar, pc, req, mail>>,
             jobs' = jobs \/ (change # NoChange /\ jobs' = [jobs EXCEPT ![change.job] = Changed])
      PROVE  Shapes'
  <2>1. \A c \in Calls : Shaped(jobs'[c])
    BY <1>1, <1>2, <1>3, <1>5 DEF Shapes, TypeOK
  <2> QED
    BY <1>5, <2>1 DEF Shapes, Shaped, Abandon, NoChange, Remote, External
<1>6. CASE Clash
  <2>1. change.at = "clash" /\ change # NoChange /\ UNCHANGED <<setup, calendar, pc, req, mail>>
    BY <1>6 DEF Clash, NoChange, callVars
  <2>2. CASE \/ Abandon(FALSE) /\ UNCHANGED jobs
             \/ jobs' = [jobs EXCEPT ![change.job] = Changed] /\ Abandon(FALSE)
    BY <1>5, <2>1, <2>2
  <2>3. CASE Remote /\ change' = [change EXCEPT !.at = "store"] /\ UNCHANGED jobs
    <3>1. change \in Changes
      BY <1>1, <2>1
    <3>2. change'.to = change.to
      BY <2>3, <3>1 DEF Changes
    <3> QED
      BY <1>2, <2>1, <2>3, <3>2 DEF Shapes, Shaped, Remote, External
  <2> QED
    BY <1>6, <2>2, <2>3 DEF Clash
<1>7. CASE AtCalendar
  <2>1. change.at = "calendar" /\ change # NoChange /\ UNCHANGED <<setup, jobs, pc, req, mail>>
    BY <1>7 DEF AtCalendar, NoChange, callVars
  <2>2. CASE Abandon(FALSE) /\ UNCHANGED calendar
    BY <1>5, <2>1, <2>2
  <2>3. CASE /\ calendar' = [calendar EXCEPT ![change.job] = change.to]
             /\ change' = [change EXCEPT !.at = "store"]
    <3>1. change \in Changes
      BY <1>1, <2>1
    <3>2. change'.to = change.to /\ change'.kind = change.kind
      BY <2>3, <3>1 DEF Changes
    <3>3. \A c \in Calls : Shaped(calendar'[c])
      BY <1>1, <1>2, <2>1, <2>3 DEF Shapes, TypeOK
    <3>4. External
      BY <2>1 DEF Shapes
    <3> QED
      BY <1>2, <2>1, <3>2, <3>3, <3>4 DEF Shapes, Shaped, Remote, External
  <2> QED
    BY <1>7, <2>2, <2>3 DEF AtCalendar
<1>8. CASE AtStore
  <2>1. change # NoChange /\ UNCHANGED <<setup, calendar, pc, req, mail>>
    BY <1>8 DEF AtStore, NoChange, callVars
  <2>2. CASE jobs' = [jobs EXCEPT ![change.job] = Changed] /\ Abandon(FALSE)
    BY <1>5, <2>1, <2>2
  <2>3. CASE Abandon(CalendarMoved) /\ UNCHANGED jobs
    BY <1>5, <2>1, <2>3
  <2> QED
    BY <1>8, <2>2, <2>3 DEF AtStore
<1>9. CASE Restart
  <2>1. \A c \in Calls : Shaped(jobs'[c])
    BY <1>9 DEF Restart, Shapes, Shaped, Nothing
  <2>2. /\ \A c \in Calls : pc'[c] = "done" \/ pc'[c] = pc[c]
        /\ change' = NoChange /\ UNCHANGED <<setup, calendar, req, mail>>
    BY <1>9 DEF Restart, Abandon
  <2> QED
    BY <2>1, <2>2 DEF Shapes, Shaped, NoChange, Remote, External
<1> QED
  BY <1>4, <1>6, <1>7, <1>8, <1>9

LEMMA AppointmentsAreShaped == Spec => [](BookingInv /\ Shapes)
<1>1. Init => Shapes
  BY DEF Init, Shapes, Shaped, Nothing, NoChange
<1>2. BookingInv /\ Shapes /\ [Next]_vars => Shapes'
  <2> SUFFICES ASSUME BookingInv, Shapes, [Next]_vars PROVE Shapes'
    OBVIOUS
  <2>1. CASE UNCHANGED vars
    BY <2>1 DEF vars, Shapes, Shaped, Remote, External
  <2> QED
    BY <2>1, CallShapes, WireShapes, ChangeShapes DEF Next
<1> QED
  BY <1>1, <1>2, BookingInvInductive, PTL DEF Spec

-------------------------------------------------------------------------------
(* The agenda of a booking system: what is held.                           *)

\* The entry that counts for a call, and the units of time it takes.
Counts(c) == IF External THEN calendar[c] ELSE jobs[c]
Span(e)   == IF e.state = "scheduled" THEN e.start .. (e.end - 1) ELSE {}

AllUnits == UNION {s .. (s + l) : s \in Starts, l \in Lengths \cup {TypeLength}}

LEMMA HoldsIsSpan == Holds = [c \in Calls |-> Span(Counts(c))]
  BY DEF Holds, Span, Counts

LEMMA AppointmentFits ==
  ASSUME NEW e \in Entry, Shaped(e), e.state = "scheduled"
  PROVE  Span(e) \subseteq AllUnits /\ Span(e) # {}
<1> DEFINE s == e.start
           l == e.end - e.start
<1>1. s \in Starts /\ l \in Lengths \cup {TypeLength}
  BY DEF Shaped
<1>2. s \in Int /\ e.end \in Int /\ l \in Int
  BY DEF Entry
<1>3. l > 0
  <2>1. \A k \in Lengths : k \in Nat /\ k # 0
    BY BookingConstants
  <2>2. TypeLength \in Nat /\ TypeLength # 0
    BY BookingConstants
  <2> HIDE DEF l
  <2> QED
    BY <1>1, <2>1, <2>2
<1>4. s + l = e.end
  BY <1>2
<1>5. Span(e) = s .. (e.end - 1)
  BY DEF Span
<1> HIDE DEF s, l
<1>6. e.end - 1 <= s + l /\ s <= e.end - 1
  BY <1>2, <1>3, <1>4
<1>7. s \in Span(e) /\ \A x \in Span(e) : x \in s .. (s + l)
  BY <1>2, <1>5, <1>6
<1>8. s .. (s + l) \in {b .. (b + n) : b \in Starts, n \in Lengths \cup {TypeLength}}
  BY <1>1
<1> DEFINE span == s .. (s + l)
<1> HIDE DEF span
<1>9. span \in {b .. (b + n) : b \in Starts, n \in Lengths \cup {TypeLength}}
      /\ \A x \in Span(e) : x \in span
  BY <1>7, <1>8 DEF span
<1>10. span \subseteq AllUnits
  BY <1>9 DEF AllUnits
<1> QED
  BY <1>7, <1>9, <1>10

LEMMA AppointmentsAreApart ==
  ASSUME NEW e \in Entry, NEW f \in Entry, e.state = "scheduled", ~ Overlaps(f, e.start, e.end)
  PROVE  Span(e) \cap Span(f) = {}
<1> SUFFICES ASSUME NEW x \in Span(e), x \in Span(f) PROVE FALSE
  OBVIOUS
<1>1. /\ e.start \in Int /\ e.end \in Int /\ f.start \in Int /\ f.end \in Int
      /\ f.state = "scheduled" /\ x \in e.start .. (e.end - 1) /\ x \in f.start .. (f.end - 1)
  BY DEF Entry, Span
<1>2. f.start < e.end /\ f.end > e.start
  BY <1>1
<1> QED
  BY <1>1, <1>2 DEF Overlaps

\* A time nobody's entry overlaps is free.
LEMMA FreeForOne ==
  ASSUME TypeOK, NEW c \in Calls, NEW e \in Entry, Shaped(e), e.state = "scheduled",
         \A d \in Calls \ {c} : ~ Overlaps(Counts(d), e.start, e.end)
  PROVE  Span(e) \in (SUBSET A!Free(c)) \ {{}}
<1>1. Span(e) \subseteq AllUnits /\ Span(e) # {}
  BY AppointmentFits
<1>2. ASSUME NEW d \in Calls \ {c} PROVE Span(e) \cap Holds[d] = {}
  <2>1. Counts(d) \in Entry
    BY DEF Counts, TypeOK
  <2>2. Span(e) \cap Span(Counts(d)) = {}
    BY <1>2, <2>1, AppointmentsAreApart
  <2> QED
    BY <2>2, HoldsIsSpan
<1>3. A!Free(c) = AllUnits \ UNION {Holds[d] : d \in Calls \ {c}}
  BY DEF A!Free, AllUnits
<1> QED
  BY <1>1, <1>2, <1>3

LEMMA NothingMoves ==
  ASSUME UNCHANGED setup, (External /\ UNCHANGED calendar) \/ (~ External /\ UNCHANGED jobs)
  PROVE  UNCHANGED Holds
  BY DEF Holds, External

LEMMA OneMoves ==
  ASSUME TypeOK, NEW c \in Calls, NEW e, UNCHANGED setup,
         \/ External /\ calendar' = [calendar EXCEPT ![c] = e]
         \/ ~ External /\ jobs' = [jobs EXCEPT ![c] = e]
  PROVE  Holds' = [Holds EXCEPT ![c] = Span(e)]
<1>1. \A d \in Calls : Counts(d)' = IF d = c THEN e ELSE Counts(d)
  BY DEF Counts, TypeOK, External
<1>2. Holds' = [d \in Calls |-> Span(Counts(d)')]
  BY HoldsIsSpan DEF Holds, Span, Counts
<1> QED
  BY <1>1, <1>2, HoldsIsSpan

\* What is believed of whom: only a call that is told something becomes unproven.
LEMMA NobodyTold ==
  ASSUME UNCHANGED <<setup, told>>,
         \A d \in Calls : told[d] = "booked" => (d \in linked' <=> d \in linked)
  PROVE  UNCHANGED Unproven
  BY DEF Unproven, External

LEMMA NobodyBooked ==
  ASSUME TypeOK, NEW c \in Calls, NEW what, what # "booked", UNCHANGED <<setup, linked>>,
         told[c] # "booked", told' = [told EXCEPT ![c] = what]
  PROVE  UNCHANGED Unproven
<1>1. \A d \in Calls : told'[d] = IF d = c THEN what ELSE told[d]
  BY DEF TypeOK
<1> QED
  BY <1>1 DEF Unproven, External

LEMMA OneBooked ==
  ASSUME TypeOK, NEW c \in Calls, UNCHANGED <<setup, linked>>,
         told[c] # "booked", told' = [told EXCEPT ![c] = "booked"]
  PROVE  Unproven' = IF External /\ c \notin linked THEN Unproven \cup {c} ELSE Unproven
<1>1. \A d \in Calls : told'[d] = IF d = c THEN "booked" ELSE told[d]
  BY DEF TypeOK
<1> QED
  BY <1>1 DEF Unproven, External

-------------------------------------------------------------------------------
(* Every step is a step of the agenda, or none of its business.            *)

\* The stub over Supabase is left out: it promises less.
Keeping == External \/ ~ Remote

LEMMA CallKeepsAgenda ==
  ASSUME BookingInv, Shapes, Keeping, NEW c \in Calls, CallStep(c)
  PROVE  [A!Next]_(A!vars)
<1>1. TypeOK /\ CallOK(c)
  BY DEF BookingInv, Types
<1>2. UNCHANGED setup /\ \A d \in Calls : Counts(d) \in Entry
  BY <1>1 DEF CallStep, Incomplete, Begin, Check, Connect, Unreachable, TimeOut, Resend, Refused,
              Mirror, Stored, Counts, TypeOK
<1>3. pc[c] # "done" => told[c] = "none"
  BY <1>1 DEF CallOK
<1>4. Blank(c) => Holds[c] = {}
  BY DEF Holds, Blank
<1>5. CASE Begin(c) \/ Connect(c) \/ Resend(c)
  <2>1. UNCHANGED <<setup, linked, calendar, jobs, told>>
    BY <1>5 DEF Begin, Connect, Resend
  <2> QED
    BY <2>1, NothingMoves, NobodyTold DEF A!vars
<1>6. CASE Incomplete(c)
  <2>1. /\ told' = [told EXCEPT ![c] = "incomplete"] /\ UNCHANGED <<setup, linked, calendar, jobs>>
        /\ told[c] = "none" /\ Blank(c)
    BY <1>1, <1>6 DEF Incomplete, Tell, CallOK
  <2>2. UNCHANGED Unproven
    BY <1>1, <2>1, NobodyBooked
  <2>3. A!Refuse(c)
    BY <1>4, <2>1, <2>2, NothingMoves DEF A!Refuse
  <2> QED
    BY <2>3 DEF A!Next
<1>7. CASE Unreachable(c) \/ TimeOut(c)
  <2>1. /\ told' = [told EXCEPT ![c] = "failed"] /\ UNCHANGED <<setup, linked, calendar, jobs>>
        /\ told[c] = "none"
    BY <1>3, <1>7 DEF Unreachable, TimeOut, Tell
  <2>2. UNCHANGED Unproven
    BY <1>1, <2>1, NobodyBooked
  <2>3. A!GiveUp(c)
    BY <2>1, <2>2, NothingMoves DEF A!GiveUp
  <2> QED
    BY <2>3 DEF A!Next
<1>8. CASE Refused(c)
  <2>1. /\ told' = [told EXCEPT ![c] = Outcome(answer[c])]
        /\ UNCHANGED <<setup, linked, calendar, jobs>>
        /\ told[c] = "none"
    BY <1>3, <1>8 DEF Refused, Tell
  <2>2. CASE answer[c] = "taken"
    <3>1. Blank(c) /\ Outcome(answer[c]) = "taken"
      BY <1>1, <1>8, <2>2 DEF Refused, CallOK, BookingOK, Blank, Outcome
    <3>2. A!Refuse(c)
      BY <1>1, <1>4, <2>1, <3>1, NothingMoves, NobodyBooked DEF A!Refuse
    <3> QED
      BY <3>2 DEF A!Next
  <2>3. CASE answer[c] # "taken"
    <3>1. Outcome(answer[c]) = "failed"
      BY <2>3 DEF Outcome
    <3>2. A!GiveUp(c)
      BY <1>1, <2>1, <3>1, NothingMoves, NobodyBooked DEF A!GiveUp
    <3> QED
      BY <3>2 DEF A!Next
  <2> QED
    BY <2>2, <2>3
\* The job is added: at once where the store is memory, and where it is remote there
\* is a calendar, which has the event already or was believed to have it.
<1>9. CASE Mirror(c)
  <2>1. /\ External /\ told[c] = "none" /\ Save(c, JobFor(c)) /\ c \notin linked
        /\ UNCHANGED <<setup, calendar>>
        /\ linked' = IF answer[c] = "booked" THEN linked \cup {c} ELSE linked
        /\ answer[c] = "booked" => calendar[c].state = "scheduled"
    BY <1>1, <1>3, <1>9 DEF Mirror, CallOK, BookingOK
  <2>2. UNCHANGED Holds
    BY <2>1, NothingMoves
  <2>3. CASE UNCHANGED told
    <3>1. UNCHANGED Unproven
      BY <2>1, <2>3, NobodyTold
    <3> QED
      BY <2>2, <2>3, <3>1 DEF A!vars
  <2>4. CASE told' = [told EXCEPT ![c] = "booked"] /\ answer[c] = "booked"
    <3>1. calendar[c] \in Entry /\ Shaped(calendar[c])
      BY <1>1 DEF TypeOK, Shapes
    <3>2. Span(calendar[c]) # {}
      BY <2>1, <2>4, <3>1, AppointmentFits
    <3>3. Holds[c] # {}
      BY <2>1, <3>2, HoldsIsSpan DEF Counts
    <3>4. UNCHANGED Unproven
      BY <1>1, <2>1, <2>4 DEF Unproven, External, TypeOK
    <3>5. A!Confirm(c)
      BY <2>1, <2>2, <2>4, <3>3, <3>4 DEF A!Confirm
    <3> QED
      BY <3>5 DEF A!Next
  <2>5. CASE told' = [told EXCEPT ![c] = "booked"] /\ answer[c] # "booked"
    <3>1. Unproven' = Unproven \cup {c}
      BY <1>1, <2>1, <2>5, OneBooked
    <3>2. A!Believe(c)
      BY <2>1, <2>2, <2>5, <3>1 DEF A!Believe
    <3> QED
      BY <3>2 DEF A!Next
  <2> QED
    BY <2>1, <2>3, <2>4, <2>5 DEF Save, Tell
<1>10. CASE Stored(c)
  <2>1. /\ External /\ told[c] = "none" /\ (c \in linked => calendar[c].state = "scheduled")
        /\ told' = [told EXCEPT ![c] = "booked"] /\ UNCHANGED <<setup, linked, calendar>>
    BY <1>1, <1>3, <1>10 DEF Stored, CallOK, StoringOK, Keeping, Tell
  <2>2. UNCHANGED Holds
    BY <2>1, NothingMoves
  <2>3. Unproven' = IF c \notin linked THEN Unproven \cup {c} ELSE Unproven
    BY <1>1, <2>1, OneBooked
  <2>4. CASE c \in linked
    <3>1. calendar[c] \in Entry /\ Shaped(calendar[c])
      BY <1>1 DEF TypeOK, Shapes
    <3>2. Span(calendar[c]) # {}
      BY <2>1, <2>4, <3>1, AppointmentFits
    <3>3. Holds[c] # {}
      BY <2>1, <3>2, HoldsIsSpan DEF Counts
    <3>4. A!Confirm(c)
      BY <2>1, <2>2, <2>3, <2>4, <3>3 DEF A!Confirm
    <3> QED
      BY <3>4 DEF A!Next
  <2>5. CASE c \notin linked
    <3>1. A!Believe(c)
      BY <2>1, <2>2, <2>3, <2>5 DEF A!Believe
    <3> QED
      BY <3>1 DEF A!Next
  <2> QED
    BY <2>4, <2>5
<1>11. CASE Check(c)
  <2> DEFINE e == At(req[c].start, req[c].length)
  <2>1. told[c] = "none" /\ Blank(c) /\ ~ External /\ ~ Remote /\ UNCHANGED linked
    BY <1>1, <1>11 DEF Check, CallOK, Keeping
  <2>2. CASE Tell(c, "taken") /\ UNCHANGED jobs
    <3>1. A!Refuse(c)
      BY <1>1, <1>2, <1>4, <2>1, <2>2, NothingMoves, NobodyBooked DEF A!Refuse, Tell
    <3> QED
      BY <3>1 DEF A!Next
  <2>3. CASE Save(c, e) /\ ScheduledBetween(e.start, e.end, {}) = {}
    <3>1. req[c] \in Asked
      BY <1>11 DEF Check, Shapes
    <3>2. e \in Entry /\ Shaped(e) /\ e.state = "scheduled"
      BY <3>1, AskedIsShaped DEF At
    <3>3. \A d \in Calls : ~ Overlaps(Counts(d), e.start, e.end)
      BY <2>1, <2>3 DEF ScheduledBetween, Counts
    <3> HIDE DEF e
    <3>4. jobs' = [jobs EXCEPT ![c] = e] /\ told' = [told EXCEPT ![c] = "booked"]
      BY <2>1, <2>3 DEF Save, Tell
    <3>5. Holds' = [Holds EXCEPT ![c] = Span(e)]
      BY <1>1, <1>2, <2>1, <3>4, OneMoves
    <3>6. Span(e) \in (SUBSET A!Free(c)) \ {{}}
      BY <1>1, <3>2, <3>3, FreeForOne
    <3>7. A!Book(c)
      BY <1>1, <1>2, <1>4, <2>1, <3>4, <3>5, <3>6, OneBooked DEF A!Book
    <3> QED
      BY <3>7 DEF A!Next
  <2>4. \/ Tell(c, "taken") /\ UNCHANGED jobs
        \/ Save(c, e) /\ ScheduledBetween(e.start, e.end, {}) = {}
    BY <1>11 DEF Check, At
  <2> QED
    BY <2>2, <2>3, <2>4
<1> QED
  BY <1>5, <1>6, <1>7, <1>8, <1>9, <1>10, <1>11 DEF CallStep

\* The calendar takes the time for a call that may have given up; the rest of the
\* wire moves nothing that is held.
LEMMA WireKeepsAgenda ==
  ASSUME BookingInv, Shapes, Keeping, NEW c \in Calls, Deliver(c) \/ Insert(c) \/ Lose(c)
  PROVE  [A!Next]_(A!vars)
<1>0. TypeOK /\ CallOK(c) /\ UNCHANGED <<setup, linked, told>>
  BY DEF BookingInv, Types, Deliver, Insert, Lose
<1>1. TypeOK /\ CallOK(c) /\ UNCHANGED <<setup, told, Unproven>>
  BY <1>0, NobodyTold
<1>2. CASE UNCHANGED calendar /\ (External \/ UNCHANGED jobs)
  BY <1>1, <1>2, NothingMoves DEF A!vars
<1>3. CASE Insert(c) \/ Lose(c)
  <2>1. UNCHANGED calendar /\ (UNCHANGED jobs \/ mail[c] = "row")
    BY <1>3 DEF Insert, Lose
  <2>2. mail[c] = "row" => External
    BY <1>1 DEF CallOK, MailOK, Keeping
  <2> QED
    BY <1>2, <2>1, <2>2
<1>4. CASE Deliver(c)
  <2> DEFINE r == [start |-> req[c].start,
                   length |-> IF mail[c] = "length" THEN req[c].length ELSE TypeLength]
             e == At(r.start, r.length)
  <2>1. req[c] \in Asked /\ mail[c] \in {"length", "plain"}
    BY <1>4 DEF Deliver, Shapes
  <2>2. External /\ Blank(c) /\ told[c] \in {"none", "failed", "cut"}
    <3>1. External /\ Blank(c)
      BY <1>1, <2>1 DEF CallOK, MailOK
    <3>2. told[c] \notin {"booked", "taken", "incomplete"}
      BY <1>1, <2>1 DEF CallOK, DoneOK
    <3> QED
      BY <1>1, <3>1, <3>2 DEF TypeOK
  <2>3. r \in Asked
    BY <2>1 DEF Asked
  <2>4. e \in Entry /\ Shaped(e) /\ e.state = "scheduled"
    <3> HIDE DEF r
    <3> QED
      BY <2>3, AskedIsShaped DEF At
  <2>5. UNCHANGED calendar \/ (CalendarFree(c, e) /\ calendar' = [calendar EXCEPT ![c] = e])
    BY <1>4 DEF Deliver
  <2> HIDE DEF e
  <2>6. CASE CalendarFree(c, e) /\ calendar' = [calendar EXCEPT ![c] = e]
    <3>1. Holds' = [Holds EXCEPT ![c] = Span(e)]
      BY <1>1, <2>2, <2>6, OneMoves
    <3>2. Span(e) \in (SUBSET A!Free(c)) \ {{}}
      <4>1. \A d \in Calls \ {c} : ~ Overlaps(Counts(d), e.start, e.end)
        BY <2>2, <2>6 DEF CalendarFree, Counts
      <4> QED
        BY <1>1, <2>4, <4>1, FreeForOne
    <3>3. Holds[c] = {}
      BY <2>2 DEF Holds, Blank
    <3>4. A!Take(c)
      BY <1>1, <2>2, <3>1, <3>2, <3>3 DEF A!Take, A!Unsure
    <3> QED
      BY <3>4 DEF A!Next
  <2> QED
    BY <1>2, <2>2, <2>5, <2>6
<1> QED
  BY <1>3, <1>4

\* A booked appointment moves to a free time or goes.
LEMMA EntryChanges ==
  ASSUME BookingInv, NEW j \in Calls, told[j] = "booked", UNCHANGED <<setup, linked, told>>,
         External => j \in linked,
         NEW e \in Entry, Shaped(e),
         e.state = "scheduled" => /\ Counts(j).state = "scheduled"
                                  /\ \A d \in Calls \ {j} : ~ Overlaps(Counts(d), e.start, e.end),
         Shaped(Counts(j)),
         \/ External /\ calendar' = [calendar EXCEPT ![j] = e]
         \/ ~ External /\ jobs' = [jobs EXCEPT ![j] = e]
  PROVE  [A!Next]_(A!vars)
<1>1. TypeOK /\ Counts(j) \in Entry
  BY DEF BookingInv, Types, TypeOK, Counts
<1>2. Holds' = [Holds EXCEPT ![j] = Span(e)] /\ Holds[j] = Span(Counts(j))
  BY <1>1, OneMoves, HoldsIsSpan
<1>0. UNCHANGED Unproven /\ j \notin Unproven
  BY NobodyTold DEF Unproven
<1>3. CASE Holds[j] = {} /\ e.state # "scheduled"
  <2>1. Holds' = Holds
    BY <1>2, <1>3, HoldsIsSpan DEF Span
  <2> QED
    BY <1>0, <2>1 DEF A!vars
<1>4. CASE Holds[j] # {} \/ e.state = "scheduled"
  <2>1. Holds[j] # {}
    BY <1>1, <1>2, <1>4, AppointmentFits
  <2>2. Span(e) \in SUBSET A!Free(j)
    <3>1. CASE e.state = "scheduled"
      BY <1>1, <3>1, FreeForOne
    <3>2. CASE e.state # "scheduled"
      BY <3>2 DEF Span
    <3> QED
      BY <3>1, <3>2
  <2>3. A!Change(j)
    BY <1>0, <1>2, <2>1, <2>2 DEF A!Change
  <2> QED
    BY <2>3 DEF A!Next
<1> QED
  BY <1>3, <1>4

LEMMA ChangeKeepsAgenda ==
  ASSUME BookingInv, Shapes, Keeping,
         Clash \/ AtCalendar \/ AtStore \/ \E j \in Calls : Require(j)
  PROVE  [A!Next]_(A!vars)
<1>0. TypeOK /\ change \in {NoChange} \cup Changes /\ ChangeOK /\ UNCHANGED <<setup, linked, told>>
  BY DEF BookingInv, Types, Clash, AtCalendar, AtStore, Require, callVars
<1>1. /\ TypeOK /\ change \in {NoChange} \cup Changes /\ ChangeOK
      /\ UNCHANGED <<setup, linked, told, Unproven>>
  BY <1>0, NobodyTold
<1>2. CASE (External /\ UNCHANGED calendar) \/ (~ External /\ UNCHANGED jobs)
  BY <1>1, <1>2, NothingMoves DEF A!vars
<1>3. change # NoChange => /\ change \in Changes /\ change.job \in Calls /\ told[change.job] = "booked"
                           /\ change.to \in Entry /\ Shaped(change.to)
                           /\ change.to.state = IF change.kind = "move" THEN "scheduled"
                                                                         ELSE "cancelled"
  BY <1>1 DEF Changes, ChangeOK, Shapes
<1>4. \A d \in Calls : Shaped(Counts(d))
  BY DEF Shapes, Counts
<1>5. CASE \E j \in Calls : Require(j)
  BY <1>2, <1>5 DEF Require
<1>6. CASE AtCalendar
  <2>1. change # NoChange /\ External /\ change.job \in linked
    BY <1>1, <1>6 DEF AtCalendar, NoChange, Shapes, ChangeOK
  <2>2. PICK j \in Calls : j = change.job
    BY <1>3, <2>1
  <2>3. CASE /\ change.kind = "cancel" \/ CalendarFree(j, change.to)
             /\ calendar[j].state = "scheduled"
             /\ calendar' = [calendar EXCEPT ![j] = change.to]
    <3>1. change.to.state = "scheduled" =>
            /\ Counts(j).state = "scheduled"
            /\ \A d \in Calls \ {j} : ~ Overlaps(Counts(d), change.to.start, change.to.end)
      BY <1>3, <2>1, <2>3 DEF CalendarFree, Counts
    <3> QED
      BY <1>1, <1>3, <1>4, <2>1, <2>2, <2>3, <3>1, EntryChanges
  <2> QED
    BY <1>2, <1>6, <2>1, <2>2, <2>3 DEF AtCalendar
\* The stub, over memory.
<1>7. CASE ~ External /\ change # NoChange /\ jobs' = [jobs EXCEPT ![change.job] = Changed]
           /\ (change.kind = "move" =>
                 ScheduledBetween(change.to.start, change.to.end, {change.job}) = {})
  <2>1. PICK j \in Calls : j = change.job
    BY <1>3, <1>7
  <2>2. /\ Changed \in Entry /\ Changed.start = change.to.start /\ Changed.end = change.to.end
        /\ Changed.state = IF change.kind = "move" THEN jobs[j].state ELSE "cancelled"
    <3>1. change.copy = jobs[j] /\ jobs[j] \in Entry
      BY <1>1, <1>7, <2>1 DEF ChangeOK, TypeOK
    <3> QED
      BY <1>3, <1>7, <2>1, <3>1 DEF Changed, Entry
  <2>3. Shaped(Changed)
    BY <1>3, <1>7, <2>2 DEF Shaped
  <2>4. Changed.state = "scheduled" =>
          /\ Counts(j).state = "scheduled"
          /\ \A d \in Calls \ {j} : ~ Overlaps(Counts(d), Changed.start, Changed.end)
    BY <1>7, <2>1, <2>2 DEF ScheduledBetween, Counts
  <2> QED
    BY <1>1, <1>3, <1>4, <1>7, <2>1, <2>2, <2>3, <2>4, EntryChanges
<1>8. CASE Clash
  <2>1. change # NoChange /\ ~ External
    BY <1>1, <1>8 DEF Clash, NoChange, ChangeOK
  <2> QED
    BY <1>2, <1>7, <1>8, <2>1 DEF Clash
<1>9. CASE AtStore
  <2>1. change # NoChange /\ UNCHANGED calendar
    BY <1>9 DEF AtStore, NoChange
  <2>2. ~ External => change.kind = "cancel"
    BY <1>9 DEF AtStore, Shapes, Keeping
  <2>3. UNCHANGED jobs \/ jobs' = [jobs EXCEPT ![change.job] = Changed]
    BY <1>9 DEF AtStore
  <2> QED
    BY <1>2, <1>7, <2>1, <2>2, <2>3
<1> QED
  BY <1>5, <1>6, <1>8, <1>9

\* A store in memory forgets; the calendar does not.
LEMMA RestartKeepsAgenda ==
  ASSUME BookingInv, Keeping, Restart PROVE [A!Next]_(A!vars)
<1> DEFINE cut == {c \in Calls : pc[c] \notin {"idle", "done"}}
<1>1. /\ UNCHANGED <<setup, linked, calendar>>
      /\ told' = [c \in Calls |-> IF c \in cut THEN "cut" ELSE told[c]]
      /\ jobs' = IF Remote THEN jobs ELSE [c \in Calls |-> Nothing]
  BY DEF Restart
<1>2. cut \in SUBSET {c \in Calls : told[c] = "none"}
  BY DEF BookingInv, CallOK
<1>3. Holds' \in {Holds, [c \in Calls |-> {}]}
  <2>1. CASE External
    BY <1>1, <2>1, NothingMoves
  <2>2. CASE ~ External
    <3>1. \A c \in Calls : jobs'[c].state = "none" /\ ~ External'
      BY <1>1, <2>2 DEF Keeping, Nothing, External
    <3> QED
      BY <3>1 DEF Holds
  <2> QED
    BY <2>1, <2>2
<1>4. UNCHANGED Unproven
  BY <1>1, <1>2 DEF Unproven, External
<1> HIDE DEF cut
<1>5. A!Stop
  BY <1>1, <1>2, <1>3, <1>4 DEF A!Stop
<1> QED
  BY <1>5 DEF A!Next

\* What book_job tells its callers and what it does to the calendar is what the
\* agenda promises: create_booking, cancel and reschedule of the stub over a store
\* in memory, and of both Cal.com providers over any store.  The stub over Supabase
\* does not, and is left out: two of its calls may find the same time free.
THEOREM ImplementsTheAgenda ==
  ASSUME \A s \in Setups : s.provider # "stub" \/ s.store # "supabase"
  PROVE  Spec => KeepsTheAgenda
<1>1. Init => A!Init
  BY DEF Init, A!Init, Holds, Unproven, Nothing
<1>2. BookingInv => Keeping
  BY DEF BookingInv, Types, TypeOK, Keeping, External, Remote
<1>3. BookingInv /\ Shapes /\ [Next]_vars => [A!Next]_(A!vars)
  <2> SUFFICES ASSUME BookingInv, Shapes, [Next]_vars PROVE [A!Next]_(A!vars)
    OBVIOUS
  <2>1. CASE UNCHANGED vars
    BY <2>1, NothingMoves, NobodyTold DEF vars, A!vars
  <2> QED
    BY <1>2, <2>1, CallKeepsAgenda, WireKeepsAgenda, ChangeKeepsAgenda, RestartKeepsAgenda DEF Next
<1> QED
  BY <1>1, <1>3, AppointmentsAreShaped, PTL DEF Spec, KeepsTheAgenda, A!Spec
===============================================================================
