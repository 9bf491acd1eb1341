------------------------------ MODULE MCBooking -------------------------------
(* Instances of Booking: two callers after overlapping times.              *)
EXTENDS Booking

Of(p, s, shared, multi) == [provider |-> p, store |-> s, shared |-> shared, multi |-> multi]

StubInMemory == {Of("stub", "memory", FALSE, FALSE)}
StubOnSupabase == {Of("stub", "supabase", FALSE, FALSE)}

\* A shared event type with and without lengths of its own, and a service with
\* an event type of its own.
CalCom == {Of(p, s, t[1], t[2]) : p \in {"calcom", "mcp_calcom"}, s \in {"memory", "supabase"},
                                  t \in {<<TRUE, TRUE>>, <<TRUE, FALSE>>, <<FALSE, FALSE>>}}

KeepingSetups == StubInMemory \cup CalCom
===============================================================================
