------------------------------ MODULE McpSessions -----------------------------
(***************************************************************************)
(* The session to Cal.com's MCP server that the booking tools of a tenant  *)
(* share: kept in a cache with the access token it was opened with,        *)
(* replaced when the token changes or it grows old, dropped when a call on *)
(* it fails.  Opening and closing one take a while, so calls of the same   *)
(* tenant may open, use, replace and close sessions at the same time; a    *)
(* close may also be cancelled or raise.                                   *)
(***************************************************************************)
EXTENDS Integers, FiniteSets

CONSTANTS Calls,       \* booking calls of one tenant
          MaxTokens,   \* bound on the access tokens minted
          MaxSessions, \* bound on the sessions opened
          MaxFaults    \* bound on failures of the network

VARIABLES token,    \* the cached access token; 0: none
          minted,   \* tokens minted so far; the last is the newest
          accepted, \* the oldest token the server still accepts
          sessions, \* sessions opened so far
          open,     \* those still open
          cached,   \* the cached session: its number and token, and whether it is old
          call,     \* where each call is
          resolved, \* the token each call resolved
          uses,     \* the session each call works on; 0: none
          closes,   \* the session each call is closing; 0: none
          broken,   \* history: sessions whose close broke off
          clean,    \* calls during which nothing else went on
          strikes,  \* calls in a row that failed although nothing else went on
          faults

sessionVars == <<token, minted, accepted, sessions, open, cached, call, resolved, uses,
                 closes, broken, clean, strikes, faults>>

NoSession == [session |-> 0, token |-> 0, old |-> FALSE]

SessionInit == /\ token = 0 /\ minted = 0 /\ accepted = 1
               /\ sessions = 0 /\ open = {} /\ cached = NoSession
               /\ call = [c \in Calls |-> "idle"]
               /\ resolved = [c \in Calls |-> 0]
               /\ uses = [c \in Calls |-> 0]
               /\ closes = [c \in Calls |-> 0] /\ broken = {}
               /\ clean = {} /\ strikes = 0 /\ faults = 0

Busy == {c \in Calls : call[c] # "idle"}

Begin(c) == /\ call[c] = "idle"
            /\ call' = [call EXCEPT ![c] = "resolving"]
            /\ clean' = IF Busy = {} THEN {c} ELSE {}
            /\ UNCHANGED <<token, minted, accepted, sessions, open, cached, resolved, uses,
                           closes, broken, strikes, faults>>

\* The call is over; whether it failed counts if nothing but it went on.
Leave(c, ok, lone) ==
  /\ call' = [call EXCEPT ![c] = "idle"]
  /\ uses' = [uses EXCEPT ![c] = 0]
  /\ clean' = lone \ {c}
  /\ strikes' = IF c \notin lone THEN strikes ELSE IF ok THEN 0 ELSE strikes + 1

\* build_connection: the cached access token, or a new one; and then, without
\* waiting in between, the cached session if it was opened with this token and
\* is not too old.
Resolve(c) ==
  /\ call[c] \in {"resolving", "again"}
  /\ token' = IF token = 0 THEN minted + 1 ELSE token
  /\ minted' = IF token = 0 THEN minted + 1 ELSE minted
  /\ minted' <= MaxTokens
  /\ resolved' = [resolved EXCEPT ![c] = token']
  /\ IF call[c] = "resolving" /\ cached.session # 0 /\ cached.token = token' /\ ~ cached.old
     THEN /\ uses' = [uses EXCEPT ![c] = cached.session]
          /\ call' = [call EXCEPT ![c] = "using"]
     ELSE /\ call' = [call EXCEPT ![c] = IF call[c] = "again" THEN "reopening" ELSE "opening"]
          /\ UNCHANGED uses
  /\ UNCHANGED <<accepted, sessions, open, cached, closes, broken, clean, strikes, faults>>

\* The handshake succeeds: the session takes the place of the one cached by now,
\* and the call closes that one before it goes on.
Replaced_LeftOpen == 0

Replaced == cached.session

Opened(c) ==
  /\ call[c] \in {"opening", "reopening"}
  /\ resolved[c] >= accepted /\ sessions < MaxSessions
  /\ sessions' = sessions + 1
  /\ cached' = [session |-> sessions', token |-> resolved[c], old |-> FALSE]
  /\ open' = open \cup {sessions'}
  /\ uses' = [uses EXCEPT ![c] = sessions']
  /\ closes' = [closes EXCEPT ![c] = Replaced]
  /\ call' = [call EXCEPT ![c] = IF Replaced = 0 THEN "using" ELSE "replacing"]
  /\ UNCHANGED <<token, minted, accepted, resolved, broken, clean, strikes, faults>>

\* The handshake is refused for its token: the token is dropped and the
\* handshake tried once more with a new one.
Forget_Keeps == UNCHANGED token

Forget == token' = 0

Rejected(c) ==
  /\ call[c] \in {"opening", "reopening"}
  /\ resolved[c] < accepted
  /\ IF call[c] = "opening"
     THEN /\ Forget
          /\ call' = [call EXCEPT ![c] = "again"]
          /\ UNCHANGED <<uses, clean, strikes>>
     ELSE Leave(c, FALSE, clean) /\ UNCHANGED token
  /\ UNCHANGED <<minted, accepted, sessions, open, cached, resolved, closes, broken, faults>>

Completed(c) ==
  /\ call[c] = "using" /\ uses[c] \in open /\ resolved[c] >= accepted
  /\ Leave(c, TRUE, clean)
  /\ UNCHANGED <<token, minted, accepted, sessions, open, cached, resolved, closes, broken,
                 faults>>

\* _drop_session: whatever is cached now is forgotten and closed, and, once that is
\* done, the access token is forgotten as well.
Drop(c, lone) ==
  /\ cached' = NoSession
  /\ \/ /\ cached.session # 0
        /\ closes' = [closes EXCEPT ![c] = cached.session]
        /\ call' = [call EXCEPT ![c] = "dropping"]
        /\ clean' = lone
        /\ UNCHANGED <<token, uses, strikes>>
     \/ /\ cached.session = 0
        /\ token' = 0
        /\ Leave(c, FALSE, lone)
        /\ UNCHANGED closes

\* The server refuses the token in the middle of a session, or the session was
\* closed under the call.
ClosedUnder(s) == s \notin open \/ s \in broken \/ \E b \in Calls : closes[b] = s

CallFails(c) ==
  /\ call[c] = "using"
  /\ ClosedUnder(uses[c]) \/ resolved[c] < accepted
  /\ Drop(c, clean)
  /\ UNCHANGED <<minted, accepted, sessions, open, resolved, broken, faults>>

\* The network fails, or the call times out: a handshake leaves nothing behind, a
\* call in a session drops it.
Fault(c) ==
  /\ faults < MaxFaults
  /\ faults' = faults + 1
  /\ \/ /\ call[c] \in {"resolving", "again", "opening", "reopening"}
        /\ Leave(c, FALSE, {})
        /\ UNCHANGED <<token, cached, closes>>
     \/ call[c] = "using" /\ Drop(c, {})
  /\ UNCHANGED <<minted, accepted, sessions, open, resolved, broken>>

\* The close is done: the call goes on in its new session, or is over.
CloseDone(c) ==
  /\ open' = open \ {closes[c]}
  /\ closes' = [closes EXCEPT ![c] = 0]
  /\ \/ /\ call[c] = "replacing"
        /\ call' = [call EXCEPT ![c] = "using"]
        /\ UNCHANGED <<token, uses, clean, strikes>>
     \/ call[c] = "dropping" /\ token' = 0 /\ Leave(c, FALSE, clean)
  /\ UNCHANGED <<minted, accepted, sessions, cached, resolved, broken, faults>>

\* The close is cancelled or raises, an anyio scope left in another task than it was
\* entered in: the call ends with it, and what it had still to do is not done.  A
\* call that was dropping has failed of something else by then.
CloseBreaks(c) ==
  /\ call[c] \in {"replacing", "dropping"}
  /\ broken' = broken \cup {closes[c]}
  /\ open' \in {open, open \ {closes[c]}}
  /\ closes' = [closes EXCEPT ![c] = 0]
  /\ Leave(c, FALSE, IF call[c] = "dropping" THEN clean ELSE {})
  /\ UNCHANGED <<token, minted, accepted, sessions, cached, resolved, faults>>

\* The server accepts none of the tokens minted so far: they expired, or the
\* grant was replaced.
Expire == /\ minted >= accepted
          /\ accepted' = minted + 1 /\ accepted' <= MaxTokens
          /\ clean' = {}
          /\ strikes' = 0
          /\ UNCHANGED <<token, minted, sessions, open, cached, call, resolved, uses, closes, broken,
                          faults>>

AgeSession == /\ cached.session # 0 /\ ~ cached.old
              /\ cached' = [cached EXCEPT !.old = TRUE]
              /\ UNCHANGED <<token, minted, accepted, sessions, open, call, resolved, uses, closes,
                             broken, clean, strikes, faults>>

\* aclose_calcom_mcp_sessions, at the end of the process: no call is running.
ShutDown == /\ Busy = {} /\ cached.session # 0
            /\ cached' = NoSession
            /\ \/ open' = open \ {cached.session} /\ UNCHANGED broken
               \/ broken' = broken \cup {cached.session} /\ UNCHANGED open
            /\ UNCHANGED <<token, minted, accepted, sessions, call, resolved, uses, closes, clean,
                           strikes, faults>>

SessionNext == \/ \E c \in Calls : \/ Begin(c) \/ Resolve(c) \/ Opened(c) \/ Rejected(c)
                                   \/ Completed(c) \/ CallFails(c) \/ Fault(c) \/ CloseDone(c)
                                   \/ CloseBreaks(c)
               \/ Expire \/ AgeSession \/ ShutDown

SessionSpec == SessionInit /\ [][SessionNext]_sessionVars

-------------------------------------------------------------------------------
\* Calls that open, replace and drop sessions at the same time leave none behind: an
\* open session is the one in the cache, which the next replacement, failure or shutdown
\* closes, or the one a single call is closing, or its close broke off.
NoSessionIsLost ==
  /\ open \subseteq {cached.session} \cup {closes[c] : c \in Calls} \cup broken
  /\ \A c \in Calls : closes[c] # 0 => /\ closes[c] # cached.session
                                      /\ \A d \in Calls \ {c} : closes[d] # closes[c]

\* A token the server stopped accepting costs one call at most: the call after
\* it, if nothing else goes wrong, has a token and a session that work.
OneStrike == strikes <= 1

\* "so open MCP sessions close cleanly": with no call running, the cache has every open
\* session.
AllClosed == Busy = {} => open \subseteq {cached.session}
===============================================================================
