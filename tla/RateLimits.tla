------------------------------ MODULE RateLimits ------------------------------
(***************************************************************************)
(* The limits of the public routes: fixed windows, counted per address,    *)
(* per session and per tenant.  A chat request meets three of them in      *)
(* order, a handshake shares the first with it, test links have their own. *)
(***************************************************************************)
EXTENDS Integers, Sequences, FiniteSets, SequencesExt

CONSTANTS Visitors,       \* sessions of one tenant, all from one address
          Limit, Window,  \* of each scope: "ip", "session", "tenant", "test"
          MaxNow, MaxRequests  \* bounds

Scopes == {"ip", "session", "tenant", "test"}

ASSUME LimitsAssumption == Limit \in [Scopes -> Nat] /\ Window \in [Scopes -> Nat \ {0}]

VARIABLES now,
          windows,   \* the window of each key
          passed,    \* when each key let a request pass
          promise,   \* until when a session was told to wait; -1: it was not
          requests

limitVars == <<now, windows, passed, promise, requests>>

Keys == {<<"ip">>, <<"tenant">>, <<"test">>} \cup {<<"session", v>> : v \in Visitors}
Unused == [start |-> 0, count |-> 0]

LimitsInit == /\ now = 0
              /\ windows = [k \in Keys |-> Unused]
              /\ passed = [k \in Keys |-> <<>>]
              /\ promise = [v \in Visitors |-> -1]
              /\ requests = 0

\* _hit: a window that has run its length starts anew; every hit is counted,
\* refused or not.
Hit_Prolongs(k) == [start |-> now,
                    count |-> IF windows[k].count = 0 \/ now - windows[k].start >= Window[k[1]]
                              THEN 1 ELSE windows[k].count + 1]

Hit(k) == IF windows[k].count = 0 \/ now - windows[k].start >= Window[k[1]]
          THEN [start |-> now, count |-> 1]
          ELSE [windows[k] EXCEPT !.count = @ + 1]

Over_OneLate(k) == Hit(k).count > Limit[k[1]] + 1

Over(k) == Hit(k).count > Limit[k[1]]

\* A request meets these keys in order, without waiting in between, and is
\* counted by each until one refuses it.
Met(keys) == LET refusing == {i \in DOMAIN keys : Over(keys[i])}
             IN IF refusing = {} THEN keys
                ELSE SubSeq(keys, 1, CHOOSE i \in refusing : \A j \in refusing : i <= j)

Refused(keys) == Over(Last(Met(keys)))

Meet(keys) ==
  LET met == Met(keys)
      ok  == {k \in ToSet(met) : ~ Over(k)}
  IN /\ requests < MaxRequests
     /\ requests' = requests + 1
     /\ windows' = [k \in Keys |-> IF k \in ToSet(met) THEN Hit(k) ELSE windows[k]]
     /\ passed' = [k \in Keys |-> IF k \in ok THEN Append(passed[k], now) ELSE passed[k]]

\* POST /chat/session, POST /test/session.
Open == Meet(<<<<"ip">>>>) /\ UNCHANGED <<now, promise>>
Test == Meet(<<<<"test">>>>) /\ UNCHANGED <<now, promise>>

\* POST /chat; Retry-After is what is left of the window.
Chat(v) ==
  LET keys == <<<<"ip">>, <<"session", v>>, <<"tenant">>>>
      own  == <<"session", v>>
  IN /\ Meet(keys)
     /\ promise' = [promise EXCEPT ![v] =
          IF Last(Met(keys)) = own /\ Refused(keys) THEN Hit(own).start + Window["session"]
          ELSE IF own \in ToSet(Met(keys)) THEN -1 ELSE @]
     /\ UNCHANGED now

Second == now < MaxNow /\ now' = now + 1 /\ UNCHANGED <<windows, passed, promise, requests>>

LimitsNext == Open \/ Test \/ (\E v \in Visitors : Chat(v)) \/ Second

LimitsSpec == LimitsInit /\ [][LimitsNext]_limitVars

-------------------------------------------------------------------------------
\* A fixed window lets through at most two windows' worth in any span as long as
\* the window, whatever is refused in between and at whichever limit.
TwoWindowsAtMost ==
  \A k \in Keys : \A i \in DOMAIN passed[k] :
    Cardinality({j \in DOMAIN passed[k] : /\ passed[k][j] >= passed[k][i]
                                          /\ passed[k][j] < passed[k][i] + Window[k[1]]})
      <= 2 * Limit[k[1]]

\* The Retry-After of a session's own limit is true: a session that comes back
\* when it was told to is not refused by that limit, however often it came too
\* early.
RetryAfterHolds ==
  [][\A v \in Visitors : promise[v] # -1 /\ promise'[v] # promise[v] => promise'[v] = -1]_limitVars
===============================================================================
