------------------------------ MODULE Availability ----------------------------
(***************************************************************************)
(* check_availability: which of the free times a caller is offered.  The   *)
(* stub walks its own opening hours and jobs, Cal.com lists its own free   *)
(* times; the tool asks from the start of the day the caller named, takes  *)
(* so many candidates, and reads out the few nearest to the wish.  Times   *)
(* are counted in units from midnight of the first day.                    *)
(***************************************************************************)
EXTENDS Integers, FiniteSets, FiniteSetsExt

CONSTANTS DayLength,      \* units in a day
          Horizon,        \* booking.horizon_days
          Granularity,    \* booking.slot_granularity_minutes
          Lead,           \* booking.lead_time_hours
          CandidateLimit, \* _CANDIDATE_LIMIT
          Read,           \* booking.max_slots_returned
          Durations,      \* of the services
          OpeningHours,   \* the opening hours a day may have
          MaxAppointments \* bound on the appointments made

ASSUME AvailabilityBounds ==
  /\ {DayLength, Horizon, Granularity} \subseteq Nat \ {0}
  /\ {Lead, CandidateLimit, Read, MaxAppointments} \subseteq Nat
  /\ Durations \subseteq Nat \ {0}
  /\ OpeningHours \subseteq [open : 0 .. DayLength, close : 0 .. DayLength]

VARIABLES calendar,  \* "stub", or Cal.com
          hours,     \* the opening hours of each day
          present,   \* the time it is
          taken,     \* the appointments in the job store or on the calendar
          wish,      \* what the last caller asked for
          offers     \* the start times the last caller was offered

availabilityVars == <<calendar, hours, present, taken, wish, offers>>

Closed  == [open |-> 0, close |-> 0]
Anytime == -1                      \* a caller who names no time
NoWish  == [time |-> Anytime, length |-> 0]
AllDays == 0 .. Horizon
Midnight(t) == (t \div DayLength) * DayLength

AvailabilityInit == /\ calendar \in {"stub", "calcom"}
                    /\ hours \in [AllDays -> OpeningHours]
                    /\ present = 0
                    /\ taken = {}
                    /\ wish = NoWish /\ offers = {}

\* TenantConfig.hours_for, for a moment of day d.
Opens(d)  == IF d \in AllDays THEN d * DayLength + hours[d].open ELSE d * DayLength
Closes(d) == IF d \in AllDays THEN d * DayLength + hours[d].close ELSE d * DayLength

Overlapping(a, s, e) == s < a.end /\ e > a.start

RoundUp(t) == Midnight(t) + ((t - Midnight(t) + Granularity - 1) \div Granularity) * Granularity

Grid(from, to) == {c \in from .. to : (c - from) % Granularity = 0}

-------------------------------------------------------------------------------
(* The providers: free start times.                                        *)

First(n, starts) == {s \in starts : Cardinality({t \in starts : t < s}) < n}

\* StubBookingProvider.check_availability: one query for the jobs of the whole
\* window, then every day of the horizon from its opening, or from the floor.
StubSlots(length, earliest) ==
  LET floor  == RoundUp(Max({present + Lead, earliest}))
      end    == floor + (Horizon + 1) * DayLength
      booked == {a \in taken : Overlapping(a, floor, end)}
      days   == {floor \div DayLength + i : i \in 0 .. Horizon}
      cursor(d) == RoundUp(Max({Opens(d), floor}))
  IN {c \in UNION {Grid(cursor(d), Closes(d) - length) : d \in days} :
        \A a \in booked : ~ Overlapping(a, c, c + length)}

\* Cal.com lists its free times of the days asked for; those before the start
\* of the search are dropped.
Listed(length) ==
  {c \in UNION {Grid(Opens(d), Closes(d) - length) : d \in AllDays} :
     c >= present /\ \A a \in taken : ~ Overlapping(a, c, c + length)}

RemoteSlots(length, earliest) ==
  {c \in Listed(length) : c >= earliest /\ c < earliest + Horizon * DayLength}

Slots(length, earliest) == IF calendar = "stub" THEN StubSlots(length, earliest)
                                                ELSE RemoteSlots(length, earliest)

\* Where a day's start times are counted from.
GridStart(d) == IF calendar = "stub" THEN d * DayLength ELSE Opens(d)

-------------------------------------------------------------------------------
(* The tool.                                                                *)

DayFloor_FromWish(time) == IF time = Anytime THEN present ELSE Max({time, present})

\* The search begins with the day the caller named, never in the past.
DayFloor(time) == IF time = Anytime THEN present ELSE Max({Midnight(time), present})

Away(t, time) == IF t < time THEN time - t ELSE t - time

\* The nearest to the wish, of two as near the earlier.
Nearer(t, s, time) == \/ Away(t, time) < Away(s, time)
                      \/ Away(t, time) = Away(s, time) /\ t < s

Narrow(slots, time) ==
  IF time = Anytime THEN First(Read, slots)
  ELSE {s \in slots : Cardinality({t \in slots : Nearer(t, s, time)}) < Read}

CheckAvailability(time, length) ==
  /\ wish = NoWish
  /\ wish' = [time |-> time, length |-> length]
  /\ offers' = Narrow(First(CandidateLimit, Slots(length, DayFloor(time))), time)
  /\ UNCHANGED <<calendar, hours, present, taken>>

\* The checks of create_booking: the stub's, or the calendar's own.
Bookable(c, length) ==
  /\ \A a \in taken : ~ Overlapping(a, c, c + length)
  /\ \E d \in AllDays : Opens(d) <= c /\ c < Closes(d)

AsksNoMore == wish' = NoWish /\ offers' = {}

\* The caller takes one of the times, which nobody has taken meanwhile.
Appoint(c) ==
  /\ c \in offers /\ Cardinality(taken) < MaxAppointments
  /\ Bookable(c, wish.length)
  /\ taken' = taken \cup {[start |-> c, end |-> c + wish.length]}
  /\ AsksNoMore /\ UNCHANGED <<calendar, hours, present>>

\* Or none of them.
Decline == wish # NoWish /\ AsksNoMore /\ UNCHANGED <<calendar, hours, present, taken>>

CancelAppointment == /\ wish = NoWish
                     /\ \E a \in taken : taken' = taken \ {a}
                     /\ UNCHANGED <<calendar, hours, present, wish, offers>>

Elapse == /\ wish = NoWish /\ present < DayLength
          /\ present' = present + 1
          /\ UNCHANGED <<calendar, hours, taken, wish, offers>>

Times == 0 .. (Horizon + 1) * DayLength - 1

AvailabilityNext ==
  \/ \E time \in Times \cup {Anytime}, length \in Durations : CheckAvailability(time, length)
  \/ \E c \in Times : Appoint(c)
  \/ Decline \/ CancelAppointment \/ Elapse

AvailabilitySpec == AvailabilityInit /\ [][AvailabilityNext]_availabilityVars

-------------------------------------------------------------------------------
\* A start time the provider lists: on its grid, not too soon, over before closing,
\* and free.
CanStart(c, length) ==
  /\ c >= present + (IF calendar = "stub" THEN Lead ELSE 0)
  /\ Bookable(c, length)
  /\ \E d \in AllDays : /\ Opens(d) <= c /\ c + length <= Closes(d)
                         /\ (c - GridStart(d)) % Granularity = 0

FitEarlierThatDay(c, length) ==
  {b \in Times : CanStart(b, length) /\ Midnight(b) = Midnight(c) /\ b < c}

\* As many as are read out are offered, and none is further from the wish than c.
NoneFurther(c) == /\ Cardinality(offers') = Read
                  /\ \A o \in offers' : Away(o, wish'.time) <= Away(c, wish'.time)

LeftOut(c) == /\ CanStart(c, wish'.length) /\ Midnight(c) = Midnight(wish'.time)
              /\ c \notin offers'

\* "The tool returns the open slots CLOSEST to that time": each time a caller is
\* offered can be booked at once, and a time that fits on the day they named is left
\* out only for times no further from their wish, or because so many of that day come
\* before it that it was no candidate.
OffersTheNearest ==
  [][wish = NoWish /\ wish' # NoWish =>
       /\ \A c \in offers' : Bookable(c, wish'.length) /\ c >= present
       /\ wish'.time # Anytime =>
            \A c \in Times : LeftOut(c) =>
              NoneFurther(c) \/ Cardinality(FitEarlierThatDay(c, wish'.length)) >= CandidateLimit
    ]_availabilityVars

\* The candidates are to cover "a full day of fine-grained slots so 'as late as
\* possible' can reach the last slot of the day": none is left out for being late.
ReachesTheLastSlot ==
  [][wish = NoWish /\ wish' # NoWish /\ wish'.time # Anytime =>
       \A c \in Times : LeftOut(c) => NoneFurther(c)]_availabilityVars
===============================================================================
