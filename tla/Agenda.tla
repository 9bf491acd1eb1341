-------------------------------- MODULE Agenda --------------------------------
(***************************************************************************)
(* What a booking tool promises the people it talks to, whoever keeps the  *)
(* calendar: a time is held by one call at most, a caller is told "booked" *)
(* only while the time is held for them, and a caller told to pick another *)
(* time never turns out to hold one.  A call that failed may hold a time   *)
(* or not: nobody knows, and it was not told that it does.  A call may     *)
(* also believe a calendar that answers without naming an appointment: it  *)
(* is then listed as unproven, and nothing moves for it any more.          *)
(***************************************************************************)
EXTENDS FiniteSets

CONSTANTS Calls,  \* the calls of book_job, which are also the job ids
          Units   \* the units of time an appointment is made of

VARIABLES told,     \* what each call was answered
          holds,    \* the units of time each call's appointment occupies
          unproven  \* calls told "booked" on an answer that named no appointment

vars == <<told, holds, unproven>>

Unsure == {"failed", "cut"}
Final  == {"booked", "taken", "incomplete"} \cup Unsure

Init == /\ told = [c \in Calls |-> "none"]
        /\ holds = [c \in Calls |-> {}]
        /\ unproven = {}

Free(c) == Units \ UNION {holds[d] : d \in Calls \ {c}}

\* Also after the call gave up: its request may still be under way.
Take(c) == /\ told[c] \in {"none"} \cup Unsure
           /\ holds[c] = {}
           /\ \E t \in (SUBSET Free(c)) \ {{}} : holds' = [holds EXCEPT ![c] = t]
           /\ UNCHANGED <<told, unproven>>

Confirm(c) == /\ told[c] = "none" /\ holds[c] # {}
              /\ told' = [told EXCEPT ![c] = "booked"]
              /\ UNCHANGED <<holds, unproven>>

\* An answer that names the time taken is final and leaves nothing behind.
Refuse(c) == /\ told[c] = "none" /\ holds[c] = {}
             /\ \E a \in {"taken", "incomplete"} : told' = [told EXCEPT ![c] = a]
             /\ UNCHANGED <<holds, unproven>>

GiveUp(c) == /\ told[c] = "none"
             /\ told' = [told EXCEPT ![c] = "failed"]
             /\ UNCHANGED <<holds, unproven>>

Book(c) == /\ told[c] = "none" /\ holds[c] = {}
           /\ told' = [told EXCEPT ![c] = "booked"]
           /\ \E t \in (SUBSET Free(c)) \ {{}} : holds' = [holds EXCEPT ![c] = t]
           /\ UNCHANGED unproven

\* Whether a time is held for it, nobody knows.
Believe(c) == /\ told[c] = "none"
              /\ told' = [told EXCEPT ![c] = "booked"]
              /\ unproven' = unproven \cup {c}
              /\ UNCHANGED holds

\* A booked appointment is cancelled or moved to a free time.
Change(c) == /\ told[c] = "booked" /\ holds[c] # {} /\ c \notin unproven
             /\ \E t \in SUBSET Free(c) : holds' = [holds EXCEPT ![c] = t]
             /\ UNCHANGED <<told, unproven>>

\* The process stops: every open call is cut, and what it kept may be lost.
Stop == /\ told' \in {[c \in Calls |-> IF c \in C THEN "cut" ELSE told[c]]
                        : C \in SUBSET {c \in Calls : told[c] = "none"}}
        /\ holds' \in {holds, [c \in Calls |-> {}]}
        /\ UNCHANGED unproven

Next == Stop \/ \E c \in Calls : \/ Take(c) \/ Confirm(c) \/ Refuse(c)
                                 \/ GiveUp(c) \/ Book(c) \/ Believe(c) \/ Change(c)

Spec == Init /\ [][Next]_vars
===============================================================================
