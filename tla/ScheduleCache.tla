----------------------------- MODULE ScheduleCache ----------------------------
(***************************************************************************)
(* Opening hours, resolved once per tenant and cached: every turn asks for *)
(* one prompt line, the panel asks past the cache, and the calendar behind *)
(* the cache is a network call away.  The owner may edit the hours, and an *)
(* operator the configuration, while a look-up is waiting.                 *)
(***************************************************************************)
EXTENDS Integers, Sequences

CONSTANTS Askers,   \* look-ups of turns, which use the cache
          Panels,   \* look-ups of the panel, which pass it
          Configs,  \* configurations, each with a fingerprint of its own
          Ttl,      \* seconds, counted in ticks
          MaxTime, MaxEdits   \* bounds on the clock and on the owner's edits

ASSUME TtlAssumption == Ttl \in Nat

VARIABLES clock,
          config,   \* the tenant's configuration
          edits,    \* when the owner edited the hours at the calendar
          kept,     \* the tenant's cache entry
          lookup,   \* where each look-up is
          held,     \* its fingerprint, the time it began, what it has read
          shown     \* the newest hours the panel has shown

scheduleVars == <<clock, config, edits, kept, lookup, held, shown>>

Lookups    == Askers \cup Panels
Unanswered == -1            \* what a failed look-up leaves: None, cached as a miss
Hours      == Len(edits)    \* the hours in force: as of the last edit

NoHours  == [of |-> "nothing", until |-> 0, hours |-> Unanswered, from |-> "nothing"]
NoLookup == [of |-> "nothing", now |-> 0, hours |-> Unanswered, from |-> "nothing"]

ScheduleInit == /\ clock = 0
                /\ config \in Configs
                /\ edits = <<>>
                /\ kept = NoHours
                /\ lookup = [l \in Lookups |-> "idle"]
                /\ held = [l \in Lookups |-> NoLookup]
                /\ shown = Unanswered

\* Keyed on the tenant alone.
HoursHit_AnyConfig == kept.of # "nothing" /\ kept.until > clock

\* The entry is used while it is of this configuration and has not expired.
HoursHit == kept.of = config /\ kept.until > clock

Lookup(l) ==
  /\ lookup[l] = "idle"
  /\ IF l \in Askers /\ HoursHit
     THEN /\ lookup' = [lookup EXCEPT ![l] = "done"]
          /\ held' = [held EXCEPT ![l] = [of |-> config, now |-> clock, hours |-> kept.hours,
                                          from |-> kept.from]]
     ELSE /\ lookup' = [lookup EXCEPT ![l] = "asking"]
          /\ held' = [held EXCEPT ![l] = [NoLookup EXCEPT !.of = config, !.now = clock]]
  /\ UNCHANGED <<clock, config, edits, kept, shown>>

\* The provider of the look-up's own configuration answers with what is in force,
\* or fails.
Ask(l) ==
  /\ lookup[l] = "asking"
  /\ \E h \in {Hours, Unanswered} :
       held' = [held EXCEPT ![l] = [of |-> @.of, now |-> @.now, hours |-> h, from |-> @.of]]
  /\ lookup' = [lookup EXCEPT ![l] = "answered"]
  /\ UNCHANGED <<clock, config, edits, kept, shown>>

\* The lifetime counts from before the question was asked.
Until(l) == held[l].now + Ttl

Remember(l) ==
  /\ lookup[l] = "answered"
  /\ lookup' = [lookup EXCEPT ![l] = "done"]
  /\ kept' = [of |-> held[l].of, until |-> Until(l), hours |-> held[l].hours,
              from |-> held[l].from]
  /\ shown' = IF l \in Panels /\ held[l].hours > shown THEN held[l].hours ELSE shown
  /\ UNCHANGED <<clock, config, edits, held>>

\* The next turn, the next visit to the panel.
LookAgain(l) == /\ lookup[l] = "done"
                /\ lookup' = [lookup EXCEPT ![l] = "idle"]
                /\ held' = [held EXCEPT ![l] = NoLookup]
                /\ UNCHANGED <<clock, config, edits, kept, shown>>

EditHours == /\ Len(edits) < MaxEdits
             /\ edits' = Append(edits, clock)
             /\ UNCHANGED <<clock, config, kept, lookup, held, shown>>

Configure == /\ config' \in Configs \ {config}
             /\ UNCHANGED <<clock, edits, kept, lookup, held, shown>>

Tick == /\ clock < MaxTime
        /\ clock' = clock + 1
        /\ UNCHANGED <<config, edits, kept, lookup, held, shown>>

ScheduleNext == \/ \E l \in Lookups : Lookup(l) \/ Ask(l) \/ Remember(l) \/ LookAgain(l)
                \/ EditHours \/ Configure \/ Tick

ScheduleSpec == ScheduleInit /\ [][ScheduleNext]_scheduleVars

-------------------------------------------------------------------------------
\* The hours h were in force at some moment of the last Ttl seconds before t.
InForceSince(h, t) == h = Hours \/ edits[h + 1] >= t - Ttl

\* A turn that is answered from the cache gets hours of its own configuration,
\* which the calendar still had within the lifetime of an entry, however long
\* the question took and whoever asked it.
FreshAndItsOwn ==
  \A l \in Askers : lookup[l] = "done" =>
    /\ held[l].from = held[l].of
    /\ held[l].hours # Unanswered => InForceSince(held[l].hours, held[l].now)

\* "The panel refreshing it is what makes an edit in Cal.com show up in the bot
\* without waiting out the TTL": once the panel has shown some hours, no turn is
\* answered from the cache with older ones.
PanelMakesItShow ==
  [][\A l \in Askers : lookup[l] = "idle" /\ lookup'[l] = "done" /\ held'[l].hours # Unanswered
                         => held'[l].hours >= shown]_scheduleVars
===============================================================================
