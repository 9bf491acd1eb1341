------------------------------ MODULE MCServices ------------------------------
(* The caches, sessions, counters and tools one process keeps apart.  They    *)
(* share no state, so one run explores an instance of each, alone.            *)
EXTENDS ScheduleCache, McpSessions, McpTools, RateLimits, Previews,
        Availability, CallReports, Outreach, MarkupFilter

VARIABLE service   \* the one this behaviour is about

vars == <<service, scheduleVars, sessionVars, toolVars, limitVars, previewVars,
          availabilityVars, reportVars, outreachVars, filterVars>>

Services == {"schedule", "sessions", "tools", "limits", "previews", "availability",
             "reports", "outreach", "markup"}

Init == /\ service \in Services
        /\ ScheduleInit /\ SessionInit /\ ToolsInit /\ LimitsInit /\ PreviewInit
        /\ AvailabilityInit /\ ReportsInit /\ OutreachInit /\ FilterInit
        \* The others rest in one state.
        /\ service # "schedule" => config = CHOOSE c \in Configs : TRUE
        /\ service # "previews" => off = {}
        /\ service # "availability" => /\ calendar = "stub"
                                       /\ hours = [d \in AllDays |-> Closed]
        /\ service # "reports" => /\ backend = "memory"
                                  /\ \A r \in Reports : report[r].of = CHOOSE c \in CallIds : TRUE
        /\ service # "outreach" => /\ line = CHOOSE l \in Lines : TRUE
                                   /\ ~ booked

Schedule  == /\ service = "schedule"
            /\ UNCHANGED <<service, sessionVars, toolVars, limitVars,
                           previewVars, availabilityVars, reportVars,
                           outreachVars, filterVars>>
Sessions  == /\ service = "sessions"
            /\ UNCHANGED <<service, scheduleVars, toolVars, limitVars,
                           previewVars, availabilityVars, reportVars,
                           outreachVars, filterVars>>
Tools     == /\ service = "tools"
            /\ UNCHANGED <<service, scheduleVars, sessionVars, limitVars,
                           previewVars, availabilityVars, reportVars,
                           outreachVars, filterVars>>
Limiting  == /\ service = "limits"
            /\ UNCHANGED <<service, scheduleVars, sessionVars, toolVars,
                           previewVars, availabilityVars, reportVars,
                           outreachVars, filterVars>>
Visiting  == /\ service = "previews"
            /\ UNCHANGED <<service, scheduleVars, sessionVars, toolVars,
                           limitVars, availabilityVars, reportVars,
                           outreachVars, filterVars>>
Offering  == /\ service = "availability"
            /\ UNCHANGED <<service, scheduleVars, sessionVars, toolVars,
                           limitVars, previewVars, reportVars, outreachVars,
                           filterVars>>
Reporting == /\ service = "reports"
            /\ UNCHANGED <<service, scheduleVars, sessionVars, toolVars,
                           limitVars, previewVars, availabilityVars,
                           outreachVars, filterVars>>
Reaching  == /\ service = "outreach"
            /\ UNCHANGED <<service, scheduleVars, sessionVars, toolVars,
                           limitVars, previewVars, availabilityVars, reportVars,
                           filterVars>>
Filtering == /\ service = "markup"
            /\ UNCHANGED <<service, scheduleVars, sessionVars, toolVars,
                           limitVars, previewVars, availabilityVars, reportVars,
                           outreachVars>>

Next ==
  \/ \E l \in Lookups : \/ Schedule /\ Lookup(l)
                        \/ Schedule /\ Ask(l)
                        \/ Schedule /\ Remember(l)
                        \/ Schedule /\ LookAgain(l)
  \/ Schedule /\ EditHours
  \/ Schedule /\ Configure
  \/ Schedule /\ Tick
  \/ \E c \in Calls : \/ Sessions /\ Begin(c)
                      \/ Sessions /\ Resolve(c)
                      \/ Sessions /\ Opened(c)
                      \/ Sessions /\ Rejected(c)
                      \/ Sessions /\ Completed(c)
                      \/ Sessions /\ CallFails(c)
                      \/ Sessions /\ Fault(c)
                      \/ Sessions /\ CloseDone(c)
                      \/ Sessions /\ CloseBreaks(c)
  \/ Sessions /\ Expire
  \/ Sessions /\ AgeSession
  \/ Sessions /\ ShutDown
  \/ \E t \in Turns : \/ Tools /\ Fetch(t)
                      \/ Tools /\ Connect(t)
                      \/ Tools /\ Load(t)
                      \/ Tools /\ TurnAgain(t)
  \/ Tools /\ AgeTools
  \/ Tools /\ EditServers
  \/ Limiting /\ Open
  \/ Limiting /\ Test
  \/ \E v \in Visitors : Limiting /\ Chat(v)
  \/ Limiting /\ Second
  \/ \E v \in Guests : \/ Visiting /\ Handshake(v)
                       \/ \E link \in Links : Visiting /\ CreateTestLink(v, link)
                       \/ Visiting /\ TestSession(v)
                       \/ Visiting /\ VoiceLive(v)
                       \/ Visiting /\ Say(v)
                       \/ Visiting /\ Speak(v)
                       \/ Visiting /\ Direct(v)
                       \/ Visiting /\ Reply(v)
                       \/ Visiting /\ Expires(v)
  \/ Visiting /\ SaveDraft
  \/ Visiting /\ DeployDraft
  \/ Visiting /\ DiscardDraft
  \/ Visiting /\ SetStatus
  \/ Visiting /\ CacheAges
  \/ \E time \in Times \cup {Anytime}, length \in Durations :
       Offering /\ CheckAvailability(time, length)
  \/ \E c \in Times : Offering /\ Appoint(c)
  \/ Offering /\ Decline
  \/ Offering /\ CancelAppointment
  \/ Offering /\ Elapse
  \/ \E r \in Reports : \/ Reporting /\ Unmatched(r)
                        \/ Reporting /\ RecordCall(r)
                        \/ Reporting /\ LookUpRow(r)
                        \/ Reporting /\ WriteRow(r)
                        \/ Reporting /\ RequestLost(r)
                        \/ Reporting /\ Resend(r)
  \/ Reporting /\ SetStanding
  \/ \E kind \in {"confirmation", "escalate"} : Reaching /\ Use(kind)
  \/ Reaching /\ LookUpJob
  \/ Reaching /\ RecordEscalation
  \/ Reaching /\ BadTemplate
  \/ Reaching /\ TextStub
  \/ Reaching /\ NoCredentials
  \/ Reaching /\ Post
  \/ Reaching /\ Log
  \/ Reaching /\ ReplyEnds
  \/ Reaching /\ Transfer
  \/ Reaching /\ NextReply
  \/ Filtering /\ \E chunk \in Chunks : FeedChunk(chunk)
  \/ Filtering /\ EndsMarkup
  \/ Filtering /\ HoldsMarkup
  \/ Filtering /\ BeginsMarkup
  \/ Filtering /\ Plain
  \/ Filtering /\ NothingPending
  \/ Filtering /\ FlushFilter

Spec == Init /\ [][Next]_vars

Limits  == [ip |-> 4, session |-> 1, tenant |-> 2, test |-> 1]
Windows == [ip |-> 1, session |-> 2, tenant |-> 3, test |-> 1]
OneOrTwo == {<<a>> : a \in Symbols} \cup {<<a, b>> : a, b \in Symbols}
Weeks   == {Closed, [open |-> 0, close |-> 8], [open |-> 3, close |-> 7]}
===============================================================================
