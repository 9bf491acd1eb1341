-------------------------- MODULE MCCalendarGrant --------------------------
(* Instances of CalendarGrant for TLC. *)
EXTENDS CalendarGrant, TLC

CONSTANTS c1, c2, r1, r2

\* Each replica serves one call at a time, ...
Apart == c1 :> r1 @@ c2 :> r2
\* ... or one replica serves both.
Together == c1 :> r1 @@ c2 :> r1

\* One replica that serves one call at a time.
Alone == c1 :> r1

\* Each replica and its call against the other.
Swap == {c1 :> c2 @@ c2 :> c1 @@ r1 :> r2 @@ r2 :> r1}
=============================================================================
