------------------------------ MODULE ServiceProofs ----------------------------
(***************************************************************************)
(* Theorems about what one process keeps apart from the calls themselves.  *)
(* Of remote services: the session to Cal.com's MCP server, for any number *)
(* of calls, tokens, sessions and failures, the tools of all servers, for  *)
(* any turns, servers and edits, and the cached opening hours, for any     *)
(* readers, edits and lifetime.  Of the channels: the rows of end-of-call  *)
(* reports, for any reports, calls and resends; previews of a draft, for   *)
(* any sessions and versions; what the tools that reach people may say,    *)
(* for any uses and failures; and what the limits of the public routes let *)
(* through, for any limits and windows.                                    *)
(***************************************************************************)
EXTENDS McpSessions, McpTools, ScheduleCache, CallReports, Previews, Outreach, RateLimits,
        FiniteSetTheorems, TLAPS

-----------------------------------------------------------------------------
(* The sessions.                                                           *)

SessionTypes ==
  /\ token \in Nat /\ minted \in Nat /\ accepted \in Nat /\ sessions \in Nat
  /\ cached \in [session : Nat, token : Nat, old : BOOLEAN]
  /\ call \in [Calls -> {"idle", "resolving", "again", "opening", "reopening", "using",
                         "replacing", "dropping"}]
  /\ resolved \in [Calls -> Nat] /\ uses \in [Calls -> Nat] /\ closes \in [Calls -> Nat]
  /\ strikes \in {0, 1}

\* The sessions opened so far are numbered; the next one is none of them.
Numbered == /\ \A s \in open \cup broken : s \in Nat /\ s # 0 /\ s <= sessions
            /\ cached.session <= sessions
            /\ \A c \in Calls : closes[c] <= sessions

\* The one cached is open, and nobody is closing it.
CacheServes == cached.session # 0 => ~ ClosedUnder(cached.session)

\* Who closes a session closes it alone; every other open session is cached or broken.
Tended ==
  /\ \A s \in open : s = cached.session \/ s \in broken \/ \E c \in Calls : closes[c] = s
  /\ \A c \in Calls : closes[c] # 0 <=> call[c] \in {"replacing", "dropping"}
  /\ \A c \in Calls : closes[c] # 0 => \A d \in Calls \ {c} : closes[d] # closes[c]

\* The server has not yet refused the next token.
NextWorks == accepted <= minted + 1

\* A call that goes on alone is the only one, its second handshake, if it needs one,
\* will be accepted, and the session it drops is the last.
Alone ==
  \A c \in clean : /\ c \in Calls /\ call[c] # "idle"
                   /\ \A d \in Calls \ {c} : call[d] = "idle"
                   /\ call[c] = "again" => token = 0
                   /\ call[c] = "reopening" => resolved[c] >= accepted
                   /\ call[c] = "dropping" => cached.session = 0

\* After a strike no session with the refused token is cached, and the call that is
\* under way alone has, once it has a session, one that works.
Healed ==
  strikes = 1 =>
    /\ cached.session # 0 => cached.token >= accepted
    /\ \A c \in clean : /\ call[c] # "dropping"
                        /\ call[c] \in {"using", "replacing"} =>
                             resolved[c] >= accepted /\ ~ ClosedUnder(uses[c])

SessionInv == /\ SessionTypes /\ Numbered /\ CacheServes /\ Tended
              /\ NextWorks /\ Alone /\ Healed

LEMMA SessionInitially == SessionInit => SessionInv
BY DEF SessionInit, NoSession, SessionInv, SessionTypes, Numbered, CacheServes, Tended,
   NextWorks, Alone, Healed, ClosedUnder

LEMMA BeginKeeps == ASSUME SessionInv, NEW c \in Calls, Begin(c) PROVE SessionInv'
BY DEF Begin, Busy, SessionInv, SessionTypes, Numbered, CacheServes, Tended,
   NextWorks, Alone, Healed, ClosedUnder

LEMMA ResolveKeeps == ASSUME SessionInv, NEW c \in Calls, Resolve(c) PROVE SessionInv'
BY DEF Resolve, SessionInv, SessionTypes, Numbered, CacheServes, Tended,
   NextWorks, Alone, Healed, ClosedUnder

LEMMA OpenedKeeps == ASSUME SessionInv, NEW c \in Calls, Opened(c) PROVE SessionInv'
BY DEF Opened, Replaced, SessionInv, SessionTypes, Numbered, CacheServes, Tended,
   NextWorks, Alone, Healed, ClosedUnder

LEMMA RejectedKeeps == ASSUME SessionInv, NEW c \in Calls, Rejected(c) PROVE SessionInv'
BY DEF Rejected, Forget, Leave, SessionInv, SessionTypes, Numbered, CacheServes, Tended,
   NextWorks, Alone, Healed, ClosedUnder

LEMMA CompletedKeeps == ASSUME SessionInv, NEW c \in Calls, Completed(c) PROVE SessionInv'
BY DEF Completed, Leave, SessionInv, SessionTypes, Numbered, CacheServes, Tended,
   NextWorks, Alone, Healed, ClosedUnder

LEMMA CallFailsKeeps == ASSUME SessionInv, NEW c \in Calls, CallFails(c) PROVE SessionInv'
BY DEF CallFails, Drop, Leave, NoSession, SessionInv, SessionTypes, Numbered, CacheServes, Tended,
   NextWorks, Alone, Healed, ClosedUnder

LEMMA FaultKeeps == ASSUME SessionInv, NEW c \in Calls, Fault(c) PROVE SessionInv'
<1> USE DEF SessionInv, Fault, Drop, Leave, NoSession
<1>1. SessionTypes'
  <2>1. strikes' = strikes
    OBVIOUS
  <2>2. /\ call' \in [Calls -> {"idle", "resolving", "again", "opening", "reopening", "using",
                               "replacing", "dropping"}]
        /\ uses' \in [Calls -> Nat] /\ closes' \in [Calls -> Nat]
    BY DEF SessionTypes
  <2>3. /\ cached' = cached \/ cached' = NoSession
        /\ token' = token \/ token' = 0
        /\ UNCHANGED <<minted, accepted, sessions, resolved>>
    OBVIOUS
  <2> HIDE DEF Fault, Drop, Leave
  <2>4. NoSession \in [session : Nat, token : Nat, old : BOOLEAN]
    OBVIOUS
  <2> HIDE DEF NoSession
  <2>5. cached' \in [session : Nat, token : Nat, old : BOOLEAN]
    BY <2>3, <2>4 DEF SessionTypes
  <2>6. token' \in Nat
    BY <2>3 DEF SessionTypes
  <2> QED
    BY <2>1, <2>2, <2>3, <2>5, <2>6 DEF SessionTypes
<1>2. Numbered'
  BY DEF SessionTypes, Numbered
<1>3. CacheServes'
  BY DEF SessionTypes, Numbered, CacheServes, ClosedUnder, Tended
<1>4. Tended'
  BY DEF SessionTypes, Numbered, CacheServes, ClosedUnder, Tended
<1>5. NextWorks' /\ Alone'
  BY DEF SessionTypes, NextWorks, Alone
<1>6. Healed'
  BY DEF SessionTypes, Healed, Alone, CacheServes, ClosedUnder, Tended
<1> QED
  BY <1>1, <1>2, <1>3, <1>4, <1>5, <1>6

LEMMA CloseDoneKeeps == ASSUME SessionInv, NEW c \in Calls, CloseDone(c) PROVE SessionInv'
<1> USE DEF SessionInv, CloseDone, Leave
<1>1. SessionTypes'
  BY DEF SessionTypes, Alone, Healed, Numbered
<1>2. Numbered'
  BY DEF SessionTypes, Numbered
<1>3. CacheServes'
  BY DEF SessionTypes, Numbered, CacheServes, ClosedUnder, Tended
<1>4. Tended'
  BY DEF SessionTypes, Numbered, CacheServes, ClosedUnder, Tended
<1>5. NextWorks' /\ Alone'
  BY DEF SessionTypes, NextWorks, Alone
<1>6. Healed'
  <2>1. CASE call[c] = "replacing"
    <3>1. ASSUME NEW s, ~ ClosedUnder(s) PROVE ~ ClosedUnder(s)'
      BY <2>1, <3>1 DEF SessionTypes, Numbered, ClosedUnder
    <3>2. \A x \in clean : x = c
      BY <2>1 DEF Alone
    <3>3. UNCHANGED <<strikes, cached, accepted, resolved, uses, clean>> /\ call'[c] = "using"
      BY <2>1 DEF SessionTypes
    <3> QED
      BY <2>1, <3>1, <3>2, <3>3 DEF Healed
  <2>2. CASE call[c] = "dropping"
    <3>1. clean' = {}
      BY <2>2 DEF Alone
    <3>2. strikes' = 1 => strikes = 1 \/ cached.session = 0
      BY <2>2 DEF SessionTypes, Alone
    <3> QED
      BY <2>2, <3>1, <3>2 DEF Healed
  <2> QED
    BY <2>1, <2>2
<1> QED
  BY <1>1, <1>2, <1>3, <1>4, <1>5, <1>6

LEMMA CloseBreaksKeeps == ASSUME SessionInv, NEW c \in Calls, CloseBreaks(c) PROVE SessionInv'
<1> USE DEF SessionInv, CloseBreaks, Leave
<1>1. SessionTypes'
  BY DEF SessionTypes, Alone, Healed, Numbered
<1>2. Numbered'
  BY DEF SessionTypes, Numbered, Tended
<1>3. CacheServes'
  BY DEF SessionTypes, Numbered, CacheServes, ClosedUnder, Tended
<1>4. Tended'
  BY DEF SessionTypes, Numbered, CacheServes, ClosedUnder, Tended
<1>5. NextWorks' /\ Alone'
  BY DEF SessionTypes, NextWorks, Alone
<1>6. Healed'
  BY DEF SessionTypes, Healed, Alone, CacheServes, ClosedUnder, Tended
<1> QED
  BY <1>1, <1>2, <1>3, <1>4, <1>5, <1>6

LEMMA ExpireKeeps == ASSUME SessionInv, Expire PROVE SessionInv'
BY DEF Expire, SessionInv, SessionTypes, Numbered, CacheServes, Tended,
   NextWorks, Alone, Healed, ClosedUnder

LEMMA AgeKeeps == ASSUME SessionInv, AgeSession PROVE SessionInv'
<1> USE DEF SessionInv, AgeSession
<1>1. SessionTypes'
  BY DEF SessionTypes, Alone, Healed, Numbered
<1>2. Numbered'
  BY DEF SessionTypes, Numbered
<1>3. CacheServes'
  BY DEF SessionTypes, Numbered, CacheServes, ClosedUnder, Tended
<1>4. Tended'
  BY DEF SessionTypes, Numbered, CacheServes, ClosedUnder, Tended
<1>5. NextWorks' /\ Alone'
  BY DEF SessionTypes, NextWorks, Alone
<1>6. Healed'
  BY DEF SessionTypes, Healed, Alone, CacheServes, ClosedUnder, Tended
<1> QED
  BY <1>1, <1>2, <1>3, <1>4, <1>5, <1>6

LEMMA ShutDownKeeps == ASSUME SessionInv, ShutDown PROVE SessionInv'
<1> USE DEF SessionInv, ShutDown, Busy, NoSession
<1>1. SessionTypes'
  BY DEF SessionTypes, Alone, Healed, Numbered
<1>2. Numbered'
  BY DEF SessionTypes, Numbered
<1>3. CacheServes'
  BY DEF SessionTypes, Numbered, CacheServes, ClosedUnder, Tended
<1>4. Tended'
  BY DEF SessionTypes, Numbered, CacheServes, ClosedUnder, Tended
<1>5. NextWorks' /\ Alone'
  BY DEF SessionTypes, NextWorks, Alone
<1>6. Healed'
  BY DEF SessionTypes, Healed, Alone, CacheServes, ClosedUnder, Tended
<1> QED
  BY <1>1, <1>2, <1>3, <1>4, <1>5, <1>6

\* Every step of the sessions keeps the invariant.
LEMMA SessionStep == ASSUME SessionInv, [SessionNext]_sessionVars PROVE SessionInv'
<1>1. ASSUME NEW c \in Calls,
             \/ Begin(c) \/ Resolve(c) \/ Opened(c) \/ Rejected(c)
             \/ Completed(c) \/ CallFails(c) \/ Fault(c) \/ CloseDone(c)
             \/ CloseBreaks(c)
      PROVE  SessionInv'
  BY <1>1, BeginKeeps, ResolveKeeps, OpenedKeeps, RejectedKeeps, CompletedKeeps, CallFailsKeeps,
     FaultKeeps, CloseDoneKeeps, CloseBreaksKeeps
<1>2. CASE Expire \/ AgeSession \/ ShutDown
  BY <1>2, ExpireKeeps, AgeKeeps, ShutDownKeeps
<1>3. CASE UNCHANGED sessionVars
  BY <1>3 DEF sessionVars, SessionInv, SessionTypes, Numbered, CacheServes, Tended, NextWorks,
             Alone, Healed, ClosedUnder
<1> QED
  BY <1>1, <1>2, <1>3 DEF SessionNext

LEMMA SessionInvariant == SessionSpec => []SessionInv
<1>1. SessionInit => SessionInv
  BY SessionInitially
<1>2. SessionInv /\ [SessionNext]_sessionVars => SessionInv'
  BY SessionStep
<1> QED
  BY <1>1, <1>2, PTL DEF SessionSpec

\* _open_session and _drop_session, which change the cache first and close afterwards:
\* whatever calls open, replace and drop meanwhile, a session that is open is the one
\* in the cache, or one call is closing it, or its close broke off.
THEOREM SessionsAreKept == SessionSpec => []NoSessionIsLost
<1>1. SessionInv => NoSessionIsLost
  BY DEF SessionInv, SessionTypes, Numbered, CacheServes, Tended, ClosedUnder, NoSessionIsLost
<1> QED
  BY <1>1, SessionInvariant, PTL

\* The handshake's retry and _drop_session: of the calls that run alone, no two in a
\* row fail because the server stopped accepting a token, even if the close in
\* _drop_session breaks off and the token stays cached.
THEOREM DeadTokenCostsOneCall == SessionSpec => []OneStrike
<1>1. SessionInv => OneStrike
  BY DEF SessionInv, SessionTypes, OneStrike
<1> QED
  BY <1>1, SessionInvariant, PTL

-----------------------------------------------------------------------------
(* The tools.                                                              *)

\* The kind of thing each variable is: the tools themselves are anything.
ToolShapes ==
  /\ turn \in [Turns -> {"idle", "connecting", "loading", "thinking", "done"}]
  /\ phase \in [Turns -> {"bind", "run"}]
  /\ DOMAIN conns = Turns /\ DOMAIN tools = Turns
  /\ \A t \in Turns : DOMAIN tools[t] = {"bind", "run"}

\* A list of tools that come from these connections.
From(list, c) == \A x \in list : x[1] \in DOMAIN c /\ x[2] = c[x[1]]

\* What is cached came from the connections it is filed under.
EntryIsOwn == From(toolEntry.tools, toolEntry.of)

ToolsInv == ToolShapes /\ EntryIsOwn

\* mcp_max_tools only takes tools away.
LEMMA CutTakesAway == ASSUME NEW S, NEW list \in Cut(S) PROVE list \subseteq S
BY DEF Cut

\* What is loaded over some connections comes from them.
LEMMA LoadedFrom ==
  ASSUME NEW c, NEW up \in SUBSET DOMAIN c, NEW list \in Cut({<<s, c[s]>> : s \in up})
  PROVE  From(list, c)
<1>1. list \subseteq {<<s, c[s]>> : s \in up}
  BY CutTakesAway
<1> QED
  BY <1>1 DEF From

LEMMA FetchOwn ==
  ASSUME ToolsInv, NEW t \in Turns, Fetch(t)
  PROVE  ToolsInv' /\ \A u \in Turns : GetsItsOwn(u)
<1>1. ToolShapes'
  BY DEF Fetch, ToolsInv, ToolShapes
<1>2. \A u \in Turns : GetsItsOwn(u)
  BY DEF Fetch, ToolsInv, ToolShapes, GetsItsOwn
<1> QED
  BY <1>1, <1>2 DEF Fetch, ToolsInv, EntryIsOwn, From

LEMMA ConnectOwn ==
  ASSUME ToolsInv, NEW t \in Turns, Connect(t)
  PROVE  ToolsInv' /\ \A u \in Turns : GetsItsOwn(u)
<1>1. PICK usable \in SUBSET DOMAIN conns[t] :
        LET c == [s \in usable |-> secret[s]]
        IN /\ conns' = [conns EXCEPT ![t] = c]
           /\ IF usable = {} THEN Got(t, {})
              ELSE IF ToolsHit(c) THEN Got(t, toolEntry.tools)
              ELSE turn' = [turn EXCEPT ![t] = "loading"] /\ UNCHANGED tools
  BY DEF Connect
<1> DEFINE c == [s \in usable |-> secret[s]]
<1>2. conns' = [conns EXCEPT ![t] = c] /\ turn[t] = "connecting" /\ UNCHANGED <<toolEntry, phase>>
  BY <1>1 DEF Connect
<1>3. EntryIsOwn'
  BY <1>2 DEF ToolsInv, EntryIsOwn, From
<1>4. ASSUME NEW list, Got(t, list), From(list, c)
      PROVE  ToolShapes' /\ \A u \in Turns : GetsItsOwn(u)
  BY <1>2, <1>4 DEF Got, ToolsInv, ToolShapes, GetsItsOwn, From
<1>5. CASE usable = {}
  BY <1>1, <1>3, <1>4, <1>5 DEF From, ToolsInv
<1>6. CASE usable # {} /\ ToolsHit(c)
  <2>1. From(toolEntry.tools, c)
    BY <1>6 DEF ToolsHit, ToolsInv, EntryIsOwn
  <2> QED
    BY <1>1, <1>3, <1>4, <1>6, <2>1 DEF ToolsInv
<1>7. CASE usable # {} /\ ~ ToolsHit(c)
  BY <1>1, <1>2, <1>3, <1>7 DEF ToolsInv, ToolShapes, GetsItsOwn
<1> QED
  BY <1>5, <1>6, <1>7

LEMMA LoadOwn ==
  ASSUME ToolsInv, NEW t \in Turns, Load(t)
  PROVE  ToolsInv' /\ \A u \in Turns : GetsItsOwn(u)
<1>1. PICK up \in SUBSET DOMAIN conns[t] :
        \E list \in Cut({<<s, conns[t][s]>> : s \in up}) :
          Got(t, list) /\ toolEntry' = [of |-> conns[t], old |-> FALSE, tools |-> list]
  BY DEF Load
<1>2. PICK list \in Cut({<<s, conns[t][s]>> : s \in up}) :
        Got(t, list) /\ toolEntry' = [of |-> conns[t], old |-> FALSE, tools |-> list]
  BY <1>1
<1>3. From(list, conns[t])
  BY <1>2, LoadedFrom
<1>4. turn[t] = "loading" /\ UNCHANGED <<phase, conns>>
  BY DEF Load
<1>5. EntryIsOwn'
  BY <1>2, <1>3 DEF EntryIsOwn, From
<1>6. ToolShapes' /\ \A u \in Turns : GetsItsOwn(u)
  BY <1>2, <1>3, <1>4 DEF Got, ToolsInv, ToolShapes, GetsItsOwn, From
<1> QED
  BY <1>5, <1>6 DEF ToolsInv

\* The steps that give no node its tools.
LEMMA OthersOwn ==
  ASSUME ToolsInv, (\E t \in Turns : TurnAgain(t)) \/ AgeTools \/ EditServers
  PROVE  ToolsInv' /\ \A u \in Turns : GetsItsOwn(u)
<1>1. CASE \E t \in Turns : TurnAgain(t)
  BY <1>1 DEF TurnAgain, Unset, ToolsInv, ToolShapes, EntryIsOwn, From, GetsItsOwn
<1>2. CASE AgeTools
  BY <1>2 DEF AgeTools, ToolsInv, ToolShapes, EntryIsOwn, From, GetsItsOwn
<1>3. CASE EditServers
  BY <1>3 DEF EditServers, ToolsInv, ToolShapes, EntryIsOwn, From, GetsItsOwn
<1> QED
  BY <1>1, <1>2, <1>3

\* load_mcp_tools: a node is handed tools of servers it has just connected to, with
\* the secrets it resolved, whatever the cache holds.
THEOREM ToolsAreItsOwn == ToolsSpec => OnlyItsConnections
<1>1. ToolsInit => ToolsInv
  BY DEF ToolsInit, NoTools, Unset, ToolsInv, ToolShapes, EntryIsOwn, From
<1>2. ToolsInv /\ [ToolsNext]_toolVars => ToolsInv'
  <2>1. CASE UNCHANGED toolVars
    BY <2>1 DEF toolVars, ToolsInv, ToolShapes, EntryIsOwn, From
  <2> QED
    BY <2>1, FetchOwn, ConnectOwn, LoadOwn, OthersOwn DEF ToolsNext
<1>3. ToolsInv /\ [ToolsNext]_toolVars => [\A t \in Turns : GetsItsOwn(t)]_toolVars
  BY FetchOwn, ConnectOwn, LoadOwn, OthersOwn DEF ToolsNext
<1> QED
  BY <1>1, <1>2, <1>3, PTL DEF ToolsSpec, OnlyItsConnections

-----------------------------------------------------------------------------
(* The cache of opening hours.                                             *)

Known == Configs \cup {"nothing"}

ScheduleTypes ==
  /\ clock \in Nat /\ config \in Configs
  /\ edits \in Seq(Nat)
  /\ kept \in [of : Known, until : Int, hours : Int, from : Known]
  /\ lookup \in [Lookups -> {"idle", "asking", "answered", "done"}]
  /\ held \in [Lookups -> [of : Known, now : Int, hours : Int, from : Known]]

\* Hours that were still in force at time t or are now: h counts the edits before them.
StoodAt(h, t) == h = Unanswered \/ (h \in 0..Len(edits) /\ (h = Len(edits) \/ edits[h + 1] >= t))

\* What is kept was in force when its lifetime began, and that is no time to come.
KeptIsSound ==
  /\ kept.from = kept.of /\ kept.until - Ttl <= clock
  /\ StoodAt(kept.hours, kept.until - Ttl)

\* What a look-up was answered was in force after it began.
AnswersAreSound ==
  \A l \in Lookups :
    /\ lookup[l] \in {"asking", "answered", "done"} => held[l].now <= clock
    /\ lookup[l] \in {"answered", "done"} => held[l].from = held[l].of
    /\ lookup[l] = "answered" => StoodAt(held[l].hours, held[l].now)
    /\ lookup[l] = "done" => StoodAt(held[l].hours, held[l].now - Ttl)

ScheduleInv == ScheduleTypes /\ KeptIsSound /\ AnswersAreSound

\* Hours that stood stand under an earlier claim as well.
LEMMA StoodEarlier ==
  ASSUME ScheduleTypes, NEW h \in Int, NEW t \in Int, NEW s \in Int, s <= t, StoodAt(h, t)
  PROVE  StoodAt(h, s)
<1>1. h \in 0..Len(edits) /\ h # Len(edits) => edits[h + 1] \in Nat
  BY DEF ScheduleTypes
<1> QED
  BY <1>1 DEF StoodAt

LEMMA LookupKeeps == ASSUME ScheduleInv, NEW l \in Lookups, Lookup(l) PROVE ScheduleInv'
<1> DEFINE hit == [of |-> config, now |-> clock, hours |-> kept.hours, from |-> kept.from]
           miss == [of |-> config, now |-> clock, hours |-> Unanswered, from |-> "nothing"]
<1>1. /\ UNCHANGED <<clock, config, edits, kept>>
      /\ \/ /\ HoursHit /\ lookup' = [lookup EXCEPT ![l] = "done"]
            /\ held' = [held EXCEPT ![l] = hit]
         \/ /\ lookup' = [lookup EXCEPT ![l] = "asking"]
            /\ held' = [held EXCEPT ![l] = miss]
  BY DEF Lookup, NoLookup
<1>2. /\ hit \in [of : Known, now : Int, hours : Int, from : Known]
      /\ hit.of = config /\ hit.now = clock /\ hit.hours = kept.hours /\ hit.from = kept.from
  BY DEF ScheduleInv, ScheduleTypes, Known
<1>3. miss \in [of : Known, now : Int, hours : Int, from : Known] /\ miss.now = clock
  <2>1. Unanswered \in Int
    BY DEF Unanswered
  <2> QED
    BY <2>1 DEF ScheduleInv, ScheduleTypes, Known
<1> HIDE DEF hit, miss
<1>4. ScheduleTypes'
  <2>1. CASE held' = [held EXCEPT ![l] = hit] /\ lookup' = [lookup EXCEPT ![l] = "done"]
    BY <1>1, <1>2, <2>1 DEF ScheduleInv, ScheduleTypes
  <2>2. CASE held' = [held EXCEPT ![l] = miss] /\ lookup' = [lookup EXCEPT ![l] = "asking"]
    BY <1>1, <1>3, <2>2 DEF ScheduleInv, ScheduleTypes
  <2> QED
    BY <1>1, <2>1, <2>2
<1>5. KeptIsSound'
  BY <1>1 DEF ScheduleInv, KeptIsSound, StoodAt
<1>6. HoursHit => StoodAt(kept.hours, clock - Ttl) /\ kept.from = config
  <2>1. HoursHit => clock - Ttl <= kept.until - Ttl
    BY TtlAssumption DEF HoursHit, ScheduleInv, ScheduleTypes
  <2>2. kept.until - Ttl \in Int /\ clock - Ttl \in Int /\ kept.hours \in Int
    BY TtlAssumption DEF ScheduleInv, ScheduleTypes
  <2> QED
    BY <2>1, <2>2, StoodEarlier DEF HoursHit, ScheduleInv, KeptIsSound
<1>7. AnswersAreSound'
  <2>1. \A h, t : StoodAt(h, t)' = StoodAt(h, t)
    BY <1>1 DEF StoodAt
  <2>2. \A k \in Lookups \ {l} : lookup'[k] = lookup[k] /\ held'[k] = held[k]
    BY <1>1 DEF ScheduleInv, ScheduleTypes
  <2>3. clock \in Nat /\ clock <= clock
    BY DEF ScheduleInv, ScheduleTypes
  <2>4. CASE HoursHit /\ lookup'[l] = "done" /\ held'[l] = hit
    BY <1>1, <1>2, <1>6, <2>1, <2>2, <2>3, <2>4 DEF ScheduleInv, AnswersAreSound
  <2>5. CASE lookup'[l] = "asking" /\ held'[l] = miss
    BY <1>1, <1>3, <2>1, <2>2, <2>3, <2>5 DEF ScheduleInv, AnswersAreSound
  <2> QED
    BY <1>1, <2>4, <2>5 DEF ScheduleInv, ScheduleTypes
<1> QED
  BY <1>4, <1>5, <1>7 DEF ScheduleInv

LEMMA AskKeeps == ASSUME ScheduleInv, NEW l \in Lookups, Ask(l) PROVE ScheduleInv'
<1>1. PICK h \in {Hours, Unanswered} :
        held' = [held EXCEPT ![l] = [of |-> held[l].of, now |-> held[l].now, hours |-> h,
                                     from |-> held[l].of]]
  BY DEF Ask
<1>2. /\ lookup[l] = "asking" /\ lookup' = [lookup EXCEPT ![l] = "answered"]
      /\ UNCHANGED <<clock, config, edits, kept>>
  BY DEF Ask
<1>3. h \in Int /\ \A t : StoodAt(h, t)
  BY DEF Hours, Unanswered, StoodAt, ScheduleInv, ScheduleTypes
<1>4. /\ held'[l].hours = h /\ held'[l].from = held[l].of /\ held'[l].of = held[l].of
      /\ held'[l].now = held[l].now
      /\ \A k \in Lookups \ {l} : lookup'[k] = lookup[k] /\ held'[k] = held[k]
  BY <1>1, <1>2 DEF ScheduleInv, ScheduleTypes
<1>5. ScheduleTypes'
  <2> DEFINE to == [of |-> held[l].of, now |-> held[l].now, hours |-> h, from |-> held[l].of]
  <2>1. to \in [of : Known, now : Int, hours : Int, from : Known]
    <3>1. held[l].of \in Known /\ held[l].now \in Int
      BY DEF ScheduleInv, ScheduleTypes
    <3> QED
      BY <1>3, <3>1
  <2>2. held' = [held EXCEPT ![l] = to]
    BY <1>1 DEF ScheduleInv, ScheduleTypes
  <2> HIDE DEF to
  <2> QED
    BY <1>2, <2>1, <2>2 DEF ScheduleInv, ScheduleTypes
<1>6. KeptIsSound'
  BY <1>2 DEF ScheduleInv, KeptIsSound, StoodAt
<1>7. AnswersAreSound'
  <2>1. \A g, t : StoodAt(g, t)' = StoodAt(g, t)
    BY <1>2 DEF StoodAt
  <2> QED
    BY <1>2, <1>3, <1>4, <2>1 DEF ScheduleInv, ScheduleTypes, AnswersAreSound
<1> QED
  BY <1>5, <1>6, <1>7 DEF ScheduleInv

LEMMA RememberKeeps == ASSUME ScheduleInv, NEW l \in Lookups, Remember(l) PROVE ScheduleInv'
<1>1. /\ lookup[l] = "answered" /\ lookup' = [lookup EXCEPT ![l] = "done"]
      /\ kept' = [of |-> held[l].of, until |-> held[l].now + Ttl, hours |-> held[l].hours,
                  from |-> held[l].from]
      /\ UNCHANGED <<clock, config, edits, held>>
  BY DEF Remember, Until
<1>2. /\ held[l].now \in Int /\ held[l].hours \in Int /\ held[l].now <= clock
      /\ held[l].of \in Known /\ held[l].from = held[l].of /\ clock \in Nat
      /\ StoodAt(held[l].hours, held[l].now)
  BY <1>1 DEF ScheduleInv, ScheduleTypes, AnswersAreSound
<1>3. StoodAt(held[l].hours, held[l].now - Ttl)
  BY <1>2, StoodEarlier, TtlAssumption DEF ScheduleInv
<1>4. ScheduleTypes'
  BY <1>1, <1>2, TtlAssumption DEF ScheduleInv, ScheduleTypes
<1>5. (held[l].now + Ttl) - Ttl = held[l].now
  BY <1>2, TtlAssumption
<1>6. KeptIsSound'
  BY <1>1, <1>2, <1>5 DEF KeptIsSound, StoodAt
<1>7. AnswersAreSound'
  <2>1. \A h, t : StoodAt(h, t)' = StoodAt(h, t)
    BY <1>1 DEF StoodAt
  <2>2. \A k \in Lookups : lookup'[k] = IF k = l THEN "done" ELSE lookup[k]
    BY <1>1 DEF ScheduleInv, ScheduleTypes
  <2> QED
    BY <1>1, <1>2, <1>3, <2>1, <2>2 DEF ScheduleInv, AnswersAreSound
<1> QED
  BY <1>4, <1>6, <1>7 DEF ScheduleInv

\* An edit comes after every look-up that has begun, and after what is kept began.
LEMMA EditKeeps == ASSUME ScheduleInv, EditHours PROVE ScheduleInv'
<1>1. edits' = Append(edits, clock) /\ UNCHANGED <<clock, config, kept, lookup, held>>
  BY DEF EditHours
<1>2. /\ edits \in Seq(Nat) /\ clock \in Nat
      /\ Len(edits') = Len(edits) + 1 /\ edits' \in Seq(Nat)
      /\ \A i \in 1..Len(edits) : edits'[i] = edits[i]
      /\ edits'[Len(edits) + 1] = clock
  BY <1>1 DEF ScheduleInv, ScheduleTypes
<1>3. ASSUME NEW h \in Int, NEW t \in Int, t <= clock, StoodAt(h, t)
      PROVE  StoodAt(h, t)'
  <2>1. CASE h = Unanswered
    BY <2>1 DEF StoodAt
  <2>2. CASE h = Len(edits)
    <3>1. h \in 0..Len(edits') /\ edits'[h + 1] >= t
      BY <1>2, <1>3, <2>2
    <3> QED
      BY <3>1 DEF StoodAt
  <2>3. CASE h \in 0..Len(edits) /\ h # Len(edits) /\ edits[h + 1] >= t
    <3>1. h + 1 \in 1..Len(edits) /\ h \in 0..Len(edits')
      BY <1>2, <2>3
    <3> QED
      BY <1>2, <2>3, <3>1 DEF StoodAt
  <2> QED
    BY <1>3, <2>1, <2>2, <2>3 DEF StoodAt
<1>4. ScheduleTypes'
  BY <1>1, <1>2 DEF ScheduleInv, ScheduleTypes
<1>5. KeptIsSound'
  <2>1. kept.hours \in Int /\ kept.until - Ttl \in Int /\ kept.until - Ttl <= clock
    BY TtlAssumption DEF ScheduleInv, ScheduleTypes, KeptIsSound
  <2>2. StoodAt(kept.hours, kept.until - Ttl)
    BY DEF ScheduleInv, KeptIsSound
  <2> QED
    BY <1>1, <1>3, <2>1, <2>2 DEF ScheduleInv, KeptIsSound
<1>6. AnswersAreSound'
  <2> SUFFICES ASSUME NEW l \in Lookups, lookup[l] \in {"answered", "done"}
               PROVE  /\ lookup[l] = "answered" => StoodAt(held[l].hours, held[l].now)'
                      /\ lookup[l] = "done" => StoodAt(held[l].hours, held[l].now - Ttl)'
    BY <1>1 DEF ScheduleInv, AnswersAreSound
  <2>1. /\ held[l].hours \in Int /\ held[l].now \in Int /\ held[l].now - Ttl \in Int
        /\ held[l].now <= clock /\ held[l].now - Ttl <= clock
    BY TtlAssumption, <1>2 DEF ScheduleInv, ScheduleTypes, AnswersAreSound
  <2> QED
    BY <1>1, <1>3, <2>1 DEF ScheduleInv, AnswersAreSound
<1> QED
  BY <1>4, <1>5, <1>6 DEF ScheduleInv

LEMMA IdleKeeps ==
  ASSUME ScheduleInv, (\E l \in Lookups : LookAgain(l)) \/ Configure \/ Tick
  PROVE  ScheduleInv'
<1>1. /\ clock' \in Nat /\ clock' >= clock /\ config' \in Configs /\ UNCHANGED <<edits, kept>>
  BY DEF LookAgain, Configure, Tick, ScheduleInv, ScheduleTypes
<1>2. \A h, t : StoodAt(h, t)' = StoodAt(h, t)
  BY <1>1 DEF StoodAt
<1>3. KeptIsSound'
  BY <1>1, <1>2, TtlAssumption DEF ScheduleInv, ScheduleTypes, KeptIsSound
<1>4. CASE UNCHANGED <<lookup, held>>
  BY <1>1, <1>2, <1>3, <1>4 DEF ScheduleInv, ScheduleTypes, AnswersAreSound
<1>5. ASSUME NEW l \in Lookups, LookAgain(l)
      PROVE  ScheduleInv'
  <2>1. NoLookup \in [of : Known, now : Int, hours : Int, from : Known]
    BY DEF NoLookup, Known, Unanswered
  <2>2. ScheduleTypes'
    BY <1>1, <1>5, <2>1 DEF LookAgain, ScheduleInv, ScheduleTypes
  <2>3. AnswersAreSound'
    BY <1>1, <1>2, <1>5 DEF LookAgain, ScheduleInv, ScheduleTypes, AnswersAreSound
  <2> QED
    BY <1>3, <2>2, <2>3 DEF ScheduleInv
<1> QED
  BY <1>4, <1>5 DEF Configure, Tick

\* A turn answered from the cache gets hours of its own configuration that the
\* calendar had within the lifetime of an entry: the lifetime counts from before the
\* question, so an answer that was slow to come is not kept longer for it.
THEOREM HoursAreFresh == ScheduleSpec => []FreshAndItsOwn
<1>1. ScheduleInit => ScheduleInv
  BY TtlAssumption
     DEF ScheduleInit, NoHours, NoLookup, Known, Unanswered, ScheduleInv, ScheduleTypes, KeptIsSound,
         AnswersAreSound, StoodAt
<1>2. ScheduleInv /\ [ScheduleNext]_scheduleVars => ScheduleInv'
  <2>1. CASE UNCHANGED scheduleVars
    BY <2>1 DEF scheduleVars, ScheduleInv, ScheduleTypes, KeptIsSound, AnswersAreSound, StoodAt
  <2> QED
    BY <2>1, LookupKeeps, AskKeeps, RememberKeeps, EditKeeps, IdleKeeps DEF ScheduleNext
<1>3. ScheduleInv => FreshAndItsOwn
  BY DEF ScheduleInv, AnswersAreSound, FreshAndItsOwn, InForceSince, StoodAt, Hours, Lookups
<1> QED
  BY <1>1, <1>2, <1>3, PTL DEF ScheduleSpec

-----------------------------------------------------------------------------
(* Reports.                                                                *)

Ids == Reports \X Nat

ReportTypes ==
  /\ backend \in {"memory", "supabase"}
  /\ standing \in {"active", "archived", "purged"}
  /\ report \in [Reports -> [of : CallIds, at : {"sent", "writing", "recorded", "failed", "dropped"},
                             found : Ids \cup {NoRow}]]
  /\ resends \in Nat
  /\ rows \subseteq [id : Ids, of : CallIds, holds : Reports]

\* No two rows have one id, and the id of an attempt that goes on is still unused.
IdsAreNew ==
  /\ \A a, b \in rows : a.id = b.id => a = b
  /\ \A a \in rows : a.id[2] <= resends
  /\ \A r \in Reports : report[r].at \in {"sent", "writing"} =>
       \A a \in rows : a.id # Fresh(r)

\* What a report found is the row of its call, until a purge takes it away.
FoundIsIts ==
  /\ standing = "purged" => rows = {}
  /\ \A r \in Reports : report[r].found # NoRow /\ standing # "purged" =>
       \E a \in rows : a.id = report[r].found /\ a.of = report[r].of

ReportInv == ReportTypes /\ OneRow /\ Acknowledged /\ IdsAreNew /\ FoundIsIts

\* What every step is shown to do.
Kept == ReportInv' /\ RowsKept

\* The marker of a look-up that found nothing is no id.
LEMMA NoRowIsNoId == NoRow \notin Ids
BY DEF NoRow, Ids

LEMMA UnmatchedKeeps == ASSUME ReportInv, NEW r \in Reports, Unmatched(r) PROVE Kept
BY DEF Unmatched, Goes, Kept, RowsKept, ReportInv, ReportTypes, OneRow, Acknowledged, IdsAreNew,
       FoundIsIts, Fresh

LEMMA LookUpKeeps == ASSUME ReportInv, NEW r \in Reports, LookUpRow(r) PROVE Kept
<1> DEFINE old == Of(report[r].of)
           id  == IF old = {} THEN NoRow ELSE (CHOOSE row \in old : TRUE).id
<1>1. /\ report[r].at = "sent" /\ standing = "active"
      /\ report' = [report EXCEPT ![r].at = "writing", ![r].found = id]
      /\ UNCHANGED <<backend, standing, resends, rows>>
  BY DEF LookUpRow
<1>2. id # NoRow => \E a \in rows : a.id = id /\ a.of = report[r].of
  BY DEF Of
<1>3. id \in Ids \cup {NoRow}
  BY DEF Of, ReportInv, ReportTypes
<1> HIDE DEF id
<1>4. ReportTypes'
  BY <1>1, <1>3 DEF ReportInv, ReportTypes
<1>5. FoundIsIts'
  BY <1>1, <1>2 DEF ReportInv, ReportTypes, FoundIsIts
<1> QED
  BY <1>1, <1>4, <1>5 DEF Kept, RowsKept, ReportInv, ReportTypes, OneRow, Acknowledged, IdsAreNew,
                          Fresh

\* An id under which a report's row may be written: that of its call's row if there
\* is one, or a new one.
IsIdFor(id, r) ==
  /\ id \in Ids /\ id[2] <= resends
  /\ \A a \in rows : a.of = report[r].of <=> a.id = id
  /\ \A s \in Reports \ {r} : report[s].at \in {"sent", "writing"} => id # Fresh(s)

\* A row written under such an id takes the place of its call's.
LEMMA RowReplaced ==
  ASSUME ReportInv, NEW r \in Reports, standing # "purged",
         NEW id, IsIdFor(id, r),
         rows' = {a \in rows : a.id # id} \cup {Row(r, id)},
         NEW where \in {"recorded", "failed"}, Goes(r, where),
         UNCHANGED <<backend, standing, resends>>
  PROVE  Kept
<1> DEFINE new == Row(r, id)
<1>1. /\ new \in [id : Ids, of : CallIds, holds : Reports]
      /\ new.id = id /\ new.of = report[r].of
  BY DEF Row, IsIdFor, ReportInv, ReportTypes
<1>2. \A a : a \in rows' <=> a = new \/ (a \in rows /\ a.id # id)
  OBVIOUS
<1> HIDE DEF new
<1>3. report' = [report EXCEPT ![r].at = where]
  BY DEF Goes
<1>4. ReportTypes'
  BY <1>1, <1>2, <1>3 DEF ReportInv, ReportTypes
<1>5. OneRow'
  BY <1>1, <1>2 DEF ReportInv, OneRow, IsIdFor
<1>6. \A a \in rows : \E b \in rows' : b.id = a.id /\ b.of = a.of
  BY <1>1, <1>2 DEF IsIdFor
<1>7. Acknowledged'
  <2> SUFFICES ASSUME NEW s \in Reports, report'[s].at = "recorded"
               PROVE  \E row \in rows' : row.of = report'[s].of
    BY DEF Acknowledged
  <2>1. CASE s = r
    BY <1>1, <1>2, <1>3, <2>1 DEF ReportInv, ReportTypes
  <2>2. CASE s # r
    BY <1>3, <1>6, <2>2 DEF ReportInv, ReportTypes, Acknowledged
  <2> QED
    BY <2>1, <2>2
<1>8. FoundIsIts'
  BY <1>3, <1>6 DEF ReportInv, ReportTypes, FoundIsIts
<1>9. IdsAreNew'
  <2>1. \A a, b \in rows' : a.id = b.id => a = b
    BY <1>1, <1>2 DEF ReportInv, IdsAreNew
  <2>2. \A a \in rows' : a.id[2] <= resends
    BY <1>1, <1>2 DEF ReportInv, IdsAreNew, IsIdFor
  <2>3. ASSUME NEW s \in Reports, report'[s].at \in {"sent", "writing"}, NEW a \in rows'
        PROVE  a.id # Fresh(s)
    <3>1. s # r /\ report'[s] = report[s]
      BY <1>3, <2>3 DEF ReportInv, ReportTypes
    <3> QED
      BY <1>1, <1>2, <2>3, <3>1 DEF ReportInv, IdsAreNew, IsIdFor
  <2> QED
    BY <2>1, <2>2, <2>3 DEF IdsAreNew, Fresh
<1> QED
  BY <1>4, <1>5, <1>6, <1>7, <1>8, <1>9 DEF Kept, ReportInv, RowsKept

LEMMA RecordKeeps == ASSUME ReportInv, NEW r \in Reports, RecordCall(r) PROVE Kept
<1> DEFINE old == Of(report[r].of)
           id  == IF old = {} THEN Fresh(r) ELSE (CHOOSE row \in old : TRUE).id
<1>1. /\ report[r].at = "sent" /\ standing = "active"
      /\ rows' = (rows \ old) \cup {Row(r, id)}
      /\ Goes(r, "recorded")
      /\ UNCHANGED <<backend, standing, resends>>
  BY DEF RecordCall
<1>2. id \in Ids /\ id[2] <= resends
  BY DEF Of, Ids, Fresh, ReportInv, ReportTypes, IdsAreNew
<1>3. \A a \in rows : a.id = id => a \in old
  BY <1>1 DEF Of, ReportInv, IdsAreNew
<1>4. \A a \in old : a.id = id
  BY DEF Of, ReportInv, OneRow
<1>5. \A s \in Reports \ {r} : report[s].at \in {"sent", "writing"} => id # Fresh(s)
  BY DEF Of, Fresh, ReportInv, IdsAreNew
<1>6. old = {a \in rows : a.of = report[r].of}
  BY DEF Of
<1> HIDE DEF id, old
<1>7. IsIdFor(id, r)
  BY <1>2, <1>3, <1>4, <1>5, <1>6 DEF IsIdFor
<1>8. rows \ old = {a \in rows : a.id # id}
  BY <1>3, <1>4, <1>6
<1> QED
  BY <1>1, <1>7, <1>8, RowReplaced

\* What a write may do to the rows: an update of the row that was found, or a new row
\* where the call had none.
LEMMA EffectOfWrite ==
  ASSUME ReportInv, NEW r \in Reports, report[r].at = "writing", NEW after \in Effect(r)
  PROVE  /\ standing # "purged"
         /\ \E id : IsIdFor(id, r) /\ after = {a \in rows : a.id # id} \cup {Row(r, id)}
<1>1. CASE report[r].found # NoRow
  <2>1. /\ after = (rows \ {row \in rows : row.id = report[r].found}) \cup {Row(r, report[r].found)}
        /\ \E row \in rows : row.id = report[r].found
    BY <1>1 DEF Effect, Updated
  <2>2. standing # "purged"
    BY <2>1 DEF ReportInv, FoundIsIts
  <2>3. PICK a \in rows : a.id = report[r].found /\ a.of = report[r].of
    BY <1>1, <2>2 DEF ReportInv, FoundIsIts
  <2>4. a.id \in Ids /\ a.id[2] <= resends
    BY <2>3 DEF ReportInv, ReportTypes, IdsAreNew
  <2>5. \A b \in rows : b.of = report[r].of <=> b.id = a.id
    BY <2>3 DEF ReportInv, OneRow, IdsAreNew
  <2>6. \A s \in Reports \ {r} : report[s].at \in {"sent", "writing"} => a.id # Fresh(s)
    BY DEF ReportInv, IdsAreNew
  <2>7. IsIdFor(a.id, r)
    BY <2>4, <2>5, <2>6 DEF IsIdFor
  <2>8. after = {b \in rows : b.id # a.id} \cup {Row(r, a.id)}
    BY <2>1, <2>3
  <2> QED
    BY <2>2, <2>7, <2>8
<1>2. CASE report[r].found = NoRow
  <2>1. /\ after = rows \cup {Row(r, Fresh(r))}
        /\ Of(report[r].of) = {} /\ standing # "purged"
    BY <1>2 DEF Effect, Allowed
  <2>2. Fresh(r) \in Ids /\ Fresh(r)[2] <= resends
    BY DEF Fresh, Ids, ReportInv, ReportTypes
  <2>3. \A b \in rows : b.of # report[r].of /\ b.id # Fresh(r)
    BY <2>1 DEF Of, ReportInv, IdsAreNew
  <2>4. \A s \in Reports \ {r} : Fresh(r) # Fresh(s)
    BY DEF Fresh
  <2>5. IsIdFor(Fresh(r), r)
    BY <2>2, <2>3, <2>4 DEF IsIdFor
  <2>6. after = {b \in rows : b.id # Fresh(r)} \cup {Row(r, Fresh(r))}
    BY <2>1, <2>3
  <2> QED
    BY <2>1, <2>5, <2>6
<1> QED
  BY <1>1, <1>2

\* A write that has its effect, whether or not its answer arrives.
LEMMA WrittenKeeps ==
  ASSUME ReportInv, NEW r \in Reports, report[r].at = "writing", rows' \in Effect(r),
         NEW where \in {"recorded", "failed"}, Goes(r, where),
         UNCHANGED <<backend, standing, resends>>
  PROVE  Kept
<1>1. /\ standing # "purged"
      /\ \E id : IsIdFor(id, r) /\ rows' = {a \in rows : a.id # id} \cup {Row(r, id)}
  BY EffectOfWrite
<1>2. PICK id : IsIdFor(id, r) /\ rows' = {a \in rows : a.id # id} \cup {Row(r, id)}
  BY <1>1
<1> QED
  BY <1>1, <1>2, RowReplaced

\* A write that is refused, or a request that fails without effect.
LEMMA NotWrittenKeeps ==
  ASSUME ReportInv, NEW r \in Reports, Goes(r, "failed"),
         UNCHANGED <<backend, standing, resends, rows>>
  PROVE  Kept
BY DEF Goes, Kept, RowsKept, ReportInv, ReportTypes, OneRow, Acknowledged, IdsAreNew,
       FoundIsIts, Fresh

LEMMA WriteKeeps == ASSUME ReportInv, NEW r \in Reports, WriteRow(r) PROVE Kept
BY WrittenKeeps, NotWrittenKeeps DEF WriteRow

LEMMA LostKeeps == ASSUME ReportInv, NEW r \in Reports, RequestLost(r) PROVE Kept
BY WrittenKeeps, NotWrittenKeeps DEF RequestLost

\* A report that is sent again makes a new id.
LEMMA ResendKeeps == ASSUME ReportInv, NEW r \in Reports, Resend(r) PROVE Kept
<1>1. /\ report' = [report EXCEPT ![r].at = "sent", ![r].found = NoRow]
      /\ resends' = resends + 1 /\ UNCHANGED <<backend, standing, rows>>
  BY DEF Resend
<1>2. ReportTypes'
  <2> DEFINE none == NoRow
  <2>1. none \in Ids \cup {NoRow}
    OBVIOUS
  <2> HIDE DEF none
  <2>2. report' = [report EXCEPT ![r].at = "sent", ![r].found = none]
    BY <1>1 DEF none
  <2>3. report' \in [Reports -> [of : CallIds, at : {"sent", "writing", "recorded", "failed", "dropped"},
                                found : Ids \cup {NoRow}]]
    BY <2>1, <2>2 DEF ReportInv, ReportTypes
  <2> QED
    BY <1>1, <2>3 DEF ReportInv, ReportTypes
<1>3. \A a \in rows : a.id[2] <= resends' /\ \A s \in Reports : a.id # <<s, resends'>>
  BY <1>1 DEF ReportInv, ReportTypes, IdsAreNew, Ids
<1>4. IdsAreNew'
  BY <1>1, <1>3 DEF ReportInv, IdsAreNew, Fresh
<1> QED
  BY <1>1, <1>2, <1>4 DEF Kept, RowsKept, ReportInv, ReportTypes, OneRow, Acknowledged, FoundIsIts

LEMMA StandingKeeps == ASSUME ReportInv, SetStanding PROVE Kept
BY DEF SetStanding, Kept, RowsKept, ReportInv, ReportTypes, OneRow, Acknowledged, IdsAreNew,
       FoundIsIts, Fresh

LEMMA ReportStep == ASSUME ReportInv, ReportsNext PROVE Kept
BY UnmatchedKeeps, LookUpKeeps, RecordKeeps, WriteKeeps, LostKeeps, ResendKeeps, StandingKeeps
   DEF ReportsNext

\* arecord_call and record_call: a call has one row, with one id, and a report that
\* was acknowledged is in it.
THEOREM CallsHaveOneRow == ReportsSpec => OneRowPerCall
<1>1. ReportsInit => ReportInv
  BY DEF ReportsInit, NoRow, ReportInv, ReportTypes, OneRow, Acknowledged, IdsAreNew, FoundIsIts
<1>2. ReportInv /\ [ReportsNext]_reportVars => ReportInv'
  <2>1. CASE UNCHANGED reportVars
    BY <2>1 DEF reportVars, ReportInv, ReportTypes, OneRow, Acknowledged, IdsAreNew, FoundIsIts,
                Fresh
  <2> QED
    BY <2>1, ReportStep DEF Kept
<1>3. ReportInv /\ [ReportsNext]_reportVars => [OneRow' /\ Acknowledged' /\ RowsKept]_reportVars
  BY ReportStep DEF Kept, ReportInv
<1> QED
  BY <1>1, <1>2, <1>3, PTL DEF ReportsSpec, OneRowPerCall

-----------------------------------------------------------------------------
(* Previews.                                                               *)

Visits == [variant : {"none", "live", "draft"}, mode : Channels \cup {"none"},
           at : {"out", "linked", "in", "asking", "answering"}, override : Nat]

PreviewTypes ==
  /\ live \in Nat /\ draft \in Nat /\ shared \in Nat
  /\ deployed \subseteq Nat
  /\ visit \in [Guests -> Visits]
  /\ heard \in [Guests -> SUBSET Nat]

\* What is live has been deployed, and so has what the sessions share;
SharedIsDeployed == live \in deployed /\ (shared # 0 => shared \in deployed)

\* a draft is only ever in the hands of a session that previews it, and a visitor
\* comes to a session with nothing heard.
DraftsAreHeld ==
  \A v \in Guests : /\ visit[v].override # 0 => visit[v].variant = "draft"
                    /\ visit[v].at \in {"out", "linked"} => heard[v] = {}

PreviewInv == PreviewTypes /\ SharedIsDeployed /\ DraftsAreHeld /\ DraftStaysPreview

\* The configuration a session without an override is served was deployed.
LEMMA CurrentIsDeployed == ASSUME PreviewInv PROVE Current \in deployed /\ Current \in Nat
BY DEF PreviewInv, PreviewTypes, SharedIsDeployed, Current

\* A step that moves one session, and fills the cache at most.
LEMMA MoveKeeps ==
  ASSUME PreviewInv, NEW v \in Guests, NEW to \in Visits,
         visit' = [visit EXCEPT ![v] = to],
         to.override # 0 => to.variant = "draft",
         NEW words \in SUBSET Nat, heard' = [heard EXCEPT ![v] = words],
         \/ words = {}
         \/ to.at \notin {"out", "linked"} /\ (to.variant = "live" => words \subseteq deployed),
         shared' \in {shared, Current},
         UNCHANGED <<live, draft, deployed>>
  PROVE  PreviewInv'
<1>1. PreviewTypes'
  BY CurrentIsDeployed DEF PreviewInv, PreviewTypes
<1>2. SharedIsDeployed'
  BY CurrentIsDeployed DEF PreviewInv, SharedIsDeployed
<1>3. DraftsAreHeld' /\ DraftStaysPreview'
  BY DEF PreviewInv, PreviewTypes, DraftsAreHeld, DraftStaysPreview
<1> QED
  BY <1>1, <1>2, <1>3 DEF PreviewInv

\* A visitor who comes in by a handshake, with a link, or leaves.
LEMMA VisitKeeps ==
  ASSUME PreviewInv, NEW v \in Guests,
         \/ Handshake(v) \/ TestSession(v) \/ VoiceLive(v)
         \/ \E link \in Links : CreateTestLink(v, link)
         \/ Expires(v)
  PROVE  PreviewInv'
<1>1. /\ UNCHANGED <<live, draft, deployed>> /\ shared' \in {shared, Current}
      /\ \E to \in Visits : visit' = [visit EXCEPT ![v] = to] /\ to.override = 0
  <2>1. ASSUME NEW variant \in {"none", "live", "draft"}, NEW mode \in Channels \cup {"none"},
               NEW at \in {"out", "linked", "in"}
        PROVE  Visit(variant, mode, at) \in Visits /\ Visit(variant, mode, at).override = 0
    BY DEF Visit, Visits
  <2>2. CASE Handshake(v) \/ TestSession(v) \/ VoiceLive(v)
    BY <2>1, <2>2 DEF Handshake, TestSession, VoiceLive, Enters, Serves, Presents, Channels, Visits,
                      PreviewInv, PreviewTypes
  <2>3. CASE \E link \in Links : CreateTestLink(v, link)
    <3>1. PICK link \in Links : CreateTestLink(v, link)
      BY <2>3
    <3>2. link.variant \in {"none", "live", "draft"} /\ link.mode \in Channels \cup {"none"}
      BY DEF Links
    <3> QED
      BY <2>1, <3>1, <3>2 DEF CreateTestLink, Serves
  <2>4. CASE Expires(v)
    <3>1. Out \in Visits /\ Out.override = 0
      BY DEF Out, Visit, Visits
    <3> QED
      BY <2>4, <3>1 DEF Expires
  <2> QED
    BY <2>2, <2>3, <2>4
<1>2. heard' = [heard EXCEPT ![v] = {}]
  <2>1. Expires(v) \/ (heard' = heard /\ heard[v] = {})
    BY DEF Handshake, TestSession, VoiceLive, CreateTestLink, Presents, PreviewInv, DraftsAreHeld
  <2> QED
    BY <2>1 DEF Expires, PreviewInv, PreviewTypes
<1>3. PICK to \in Visits : visit' = [visit EXCEPT ![v] = to] /\ to.override = 0
  BY <1>1
<1>4. {} \in SUBSET Nat
  OBVIOUS
<1> QED
  BY <1>1, <1>2, <1>3, <1>4, MoveKeeps

\* A visitor who asks, and a turn that begins.
LEMMA AskedKeeps ==
  ASSUME PreviewInv, NEW v \in Guests, Say(v) \/ Speak(v) \/ Direct(v)
  PROVE  PreviewInv'
<1> DEFINE words == heard[v]
<1>1. /\ UNCHANGED <<live, draft, deployed>> /\ shared' \in {shared, Current}
      /\ heard' = [heard EXCEPT ![v] = words] /\ words \in SUBSET Nat
  BY DEF Say, Speak, Direct, Directed, Serves, PreviewInv, PreviewTypes
<1>2. visit[v].variant = "live" => words \subseteq deployed
  BY DEF PreviewInv, DraftStaysPreview
<1>3. \E to \in Visits : /\ visit' = [visit EXCEPT ![v] = to]
                         /\ to.override # 0 => to.variant = "draft"
                         /\ to.at \notin {"out", "linked"} /\ to.variant = visit[v].variant
  <2> DEFINE to(at, override) == [visit[v] EXCEPT !.at = at, !.override = override]
  <2>1. ASSUME NEW at \in {"in", "asking", "answering"}, NEW override \in Nat
        PROVE  /\ to(at, override) \in Visits /\ to(at, override).at = at
               /\ to(at, override).override = override
               /\ to(at, override).variant = visit[v].variant
    BY DEF PreviewInv, PreviewTypes, Visits
  <2>2. \/ visit' = [visit EXCEPT ![v] = to("asking", visit[v].override)]
        \/ visit' = [visit EXCEPT ![v] = to("in", visit[v].override)]
        \/ visit' = [visit EXCEPT ![v] = to("answering", draft)] /\ visit[v].variant = "draft"
        \/ visit' = [visit EXCEPT ![v] = to("answering", 0)]
    BY DEF Say, Speak, Direct, Directed, PreviewInv, PreviewTypes, Visits
  <2>3. draft \in Nat /\ visit[v].override \in Nat
        /\ (visit[v].override # 0 => visit[v].variant = "draft")
    BY DEF PreviewInv, PreviewTypes, Visits, DraftsAreHeld
  <2> HIDE DEF to
  <2> QED
    BY <2>1, <2>2, <2>3
<1>4. PICK to \in Visits : /\ visit' = [visit EXCEPT ![v] = to]
                           /\ to.override # 0 => to.variant = "draft"
                           /\ to.at \notin {"out", "linked"} /\ to.variant = visit[v].variant
  BY <1>3
<1> HIDE DEF words
<1>5. to.variant = "live" => words \subseteq deployed
  BY <1>2, <1>4
<1> QED
  BY <1>1, <1>4, <1>5, MoveKeeps

LEMMA ReplyKeeps == ASSUME PreviewInv, NEW v \in Guests, Reply(v) PROVE PreviewInv'
<1> DEFINE said == IF visit[v].override # 0 THEN visit[v].override ELSE Current
           to   == [visit[v] EXCEPT !.at = "in", !.override = 0]
           words == heard[v] \cup {said}
<1>1. to \in Visits /\ to.at = "in" /\ to.override = 0 /\ to.variant = visit[v].variant
  BY DEF PreviewInv, PreviewTypes, Visits
<1>2. visit' = [visit EXCEPT ![v] = to]
  BY DEF Reply, PreviewInv, PreviewTypes, Visits
<1>3. said \in Nat /\ (visit[v].variant = "live" => said \in deployed)
  BY CurrentIsDeployed DEF PreviewInv, PreviewTypes, Visits, DraftsAreHeld
<1>4. heard' = [heard EXCEPT ![v] = words]
      /\ shared' \in {shared, Current} /\ UNCHANGED <<live, draft, deployed>>
  BY DEF Reply, Serves
<1> HIDE DEF said, to
<1>5. words \in SUBSET Nat /\ (to.variant = "live" => words \subseteq deployed)
  BY <1>1, <1>3 DEF PreviewInv, PreviewTypes, DraftStaysPreview
<1> HIDE DEF words
<1> QED
  BY <1>1, <1>2, <1>4, <1>5, MoveKeeps

LEMMA OperatorKeeps ==
  ASSUME PreviewInv, SaveDraft \/ DeployDraft \/ DiscardDraft \/ SetStatus \/ CacheAges
  PROVE  PreviewInv'
<1>1. UNCHANGED <<visit, heard>> /\ deployed \subseteq deployed'
  BY DEF SaveDraft, DeployDraft, DiscardDraft, SetStatus, CacheAges
<1>2. PreviewTypes'
  BY <1>1, CurrentIsDeployed
     DEF SaveDraft, DeployDraft, DiscardDraft, SetStatus, CacheAges, PreviewInv, PreviewTypes
<1>3. SharedIsDeployed'
  BY <1>1, CurrentIsDeployed
     DEF SaveDraft, DeployDraft, DiscardDraft, SetStatus, CacheAges, PreviewInv, SharedIsDeployed
<1> QED
  BY <1>1, <1>2, <1>3 DEF PreviewInv, DraftsAreHeld, DraftStaysPreview

\* "writing a draft into it would leak an unpublished, unreviewed edit": the shared
\* cache holds deployed versions only, and a turn's override belongs to a preview.
THEOREM DraftsStayPreviews == PreviewSpec => []DraftStaysPreview
<1>1. PreviewInit => PreviewInv
  BY DEF PreviewInit, Out, Visit, Visits, PreviewInv, PreviewTypes, SharedIsDeployed, DraftsAreHeld,
         DraftStaysPreview
<1>2. PreviewInv /\ [PreviewNext]_previewVars => PreviewInv'
  <2>1. CASE UNCHANGED previewVars
    BY <2>1 DEF previewVars, PreviewInv, PreviewTypes, SharedIsDeployed, DraftsAreHeld,
                DraftStaysPreview
  <2> QED
    BY <2>1, VisitKeeps, AskedKeeps, ReplyKeeps, OperatorKeeps DEF PreviewNext
<1>3. PreviewInv => DraftStaysPreview
  BY DEF PreviewInv
<1> QED
  BY <1>1, <1>2, <1>3, PTL DEF PreviewSpec

-----------------------------------------------------------------------------
(* The tools that reach somebody.                                          *)

Running == [kind : {"confirmation", "escalate"}, at : {"store", "text", "log", "note"}]

OutreachTypes ==
  /\ line \in Lines /\ booked \in BOOLEAN
  /\ tool \in {NoTool} \cup Running
  /\ made \in [texted : BOOLEAN, logged : {"nothing", "sent", "failed"}, stored : BOOLEAN]
  /\ escalated \in Nat
  /\ promised \in BOOLEAN

\* What a tool that is running has done so far: nothing before it has read or
\* written the store, no text before it is sent; an escalation is stored first.
DoneSoFar ==
  /\ tool # NoTool => told = "nothing" /\ reply = "going"
  /\ tool.at = "store" => made = Undone
  /\ tool.at = "text" => ~ made.texted
  /\ tool.at = "log" => made.texted
  /\ tool.kind = "escalate" /\ tool.at # "store" => made.stored
  /\ made.stored => escalated > 0

\* Nobody is told of a transfer where none may be promised.
ToldOfTransfer == told = "transfer" => CanTransfer

OutreachInv == OutreachTypes /\ DoneSoFar /\ ToldOfTransfer /\ ToolsTellTheTruth

\* The end of a tool's use: what it may return, given what it has done.
LEMMA ReturnKeeps ==
  ASSUME OutreachInv, tool # NoTool,
         NEW what \in {"no job", "no number", "unread", "unsent", "sent", "transfer", "callback"},
         Returns(what),
         made' \in [texted : BOOLEAN, logged : {"nothing", "sent", "failed"}, stored : BOOLEAN],
         made'.stored = made.stored,
         what = "no job" => ~ booked,
         what = "sent" => made'.texted /\ made'.logged = "sent",
         made'.texted => made'.logged # "nothing",
         what \in {"transfer", "callback"} => made.stored,
         what = "transfer" => CanTransfer
  PROVE  OutreachInv'
<1>1. OutreachTypes'
  BY DEF Returns, OutreachInv, OutreachTypes
<1>2. DoneSoFar'
  BY DEF Returns, NoTool, OutreachInv, OutreachTypes, DoneSoFar
<1>3. ToldOfTransfer'
  BY DEF Returns, CanTransfer, ToldOfTransfer
<1>4. ToolsTellTheTruth'
  BY DEF Returns, CanTransfer, OutreachInv, OutreachTypes, DoneSoFar, ToolsTellTheTruth
<1> QED
  BY <1>1, <1>2, <1>3, <1>4 DEF OutreachInv

\* An exception leaves what was done.
LEMMA RaiseKeeps ==
  ASSUME OutreachInv, Raises, UNCHANGED made
  PROVE  OutreachInv'
BY DEF Raises, NoTool, OutreachInv, OutreachTypes, DoneSoFar, ToldOfTransfer, CanTransfer,
       ToolsTellTheTruth

\* A step inside a tool, which tells nobody anything yet.
LEMMA InsideKeeps ==
  ASSUME OutreachInv, tool # NoTool,
         tool' \in Running, tool'.at # "store", tool'.kind = tool.kind,
         made' \in [texted : BOOLEAN, logged : {"nothing", "sent", "failed"}, stored : BOOLEAN],
         tool'.at = "text" => ~ made'.texted,
         tool'.at = "log" => made'.texted,
         tool.kind = "escalate" => made'.stored,
         escalated' \in Nat, escalated' >= escalated, made'.stored => escalated' > 0,
         UNCHANGED <<line, booked, told, reply, promised, frame>>
  PROVE  OutreachInv'
<1>1. OutreachTypes'
  BY DEF OutreachInv, OutreachTypes
<1>2. tool' # NoTool
  BY DEF NoTool, Running
<1>3. DoneSoFar'
  BY DEF OutreachInv, DoneSoFar
<1>4. ToldOfTransfer' /\ ToolsTellTheTruth'
  BY <1>2 DEF CanTransfer, OutreachInv, OutreachTypes, DoneSoFar, ToldOfTransfer, ToolsTellTheTruth
<1> QED
  BY <1>1, <1>3, <1>4 DEF OutreachInv

\* What is returned when no text was sent, and when one was.
LEMMA NotTextedKeeps ==
  ASSUME OutreachInv, tool \in Running, tool.at # "store", NotTexted,
         made' \in [texted : BOOLEAN, logged : {"nothing", "sent", "failed"}, stored : BOOLEAN],
         made'.stored = made.stored, made'.texted => made'.logged # "nothing"
  PROVE  OutreachInv'
<1>1. tool # NoTool
  BY DEF NoTool, Running
<1>2. tool.kind # "confirmation" => tool.kind = "escalate" /\ made.stored
  BY DEF Running, OutreachInv, DoneSoFar
<1> QED
  BY <1>1, <1>2, ReturnKeeps DEF NotTexted

LEMMA WhenTextedKeeps ==
  ASSUME OutreachInv, tool \in Running, tool.at # "store", WhenTexted,
         made' \in [texted : BOOLEAN, logged : {"nothing", "sent", "failed"}, stored : BOOLEAN],
         made'.stored = made.stored, made'.texted, made'.logged = "sent"
  PROVE  OutreachInv'
<1>1. tool # NoTool
  BY DEF NoTool, Running
<1> QED
  BY <1>1, NotTextedKeeps, ReturnKeeps DEF WhenTexted

LEMMA UseKeeps == ASSUME OutreachInv, NEW kind \in {"confirmation", "escalate"}, Use(kind)
                  PROVE  OutreachInv'
BY DEF Use, Undone, NoTool, Running, OutreachInv, OutreachTypes, DoneSoFar, ToldOfTransfer,
       CanTransfer, ToolsTellTheTruth

LEMMA LookUpJobKeeps == ASSUME OutreachInv, LookUpJob PROVE OutreachInv'
<1>1. /\ tool = [kind |-> "confirmation", at |-> "store"] /\ tool \in Running /\ tool # NoTool
      /\ UNCHANGED made /\ made = Undone
  BY DEF LookUpJob, Running, NoTool, OutreachInv, DoneSoFar
<1>2. CASE To("text") /\ UNCHANGED <<line, booked, told, escalated, reply, promised, frame>>
  <2>1. tool' = [kind |-> "confirmation", at |-> "text"]
    BY <1>1, <1>2 DEF To
  <2> QED
    BY <1>1, <1>2, <2>1, InsideKeeps DEF Running, Undone, OutreachInv, OutreachTypes
<1>3. CASE \E what \in {"no job", "no number", "unread"} : Returns(what) /\ (what = "no job" => ~ booked)
  BY <1>1, <1>3, ReturnKeeps DEF Undone
<1> QED
  BY <1>2, <1>3 DEF LookUpJob, Unread

LEMMA RecordEscalationKeeps == ASSUME OutreachInv, RecordEscalation PROVE OutreachInv'
<1>1. CASE Raises /\ UNCHANGED made
  BY <1>1, RaiseKeeps
<1>2. CASE /\ To("text") /\ escalated' = escalated + 1
           /\ made' = [made EXCEPT !.stored = TRUE]
           /\ UNCHANGED <<line, booked, told, reply, promised, frame>>
  <2>1. tool = [kind |-> "escalate", at |-> "store"] /\ tool # NoTool /\ made = Undone
    BY DEF RecordEscalation, NoTool, OutreachInv, DoneSoFar
  <2>2. tool' = [kind |-> "escalate", at |-> "text"]
    BY <1>2, <2>1 DEF To
  <2>3. made' = [texted |-> FALSE, logged |-> "nothing", stored |-> TRUE]
    BY <1>2, <2>1 DEF Undone
  <2> QED
    <3>1. /\ tool' \in Running /\ tool'.at = "text" /\ tool'.kind = tool.kind
          /\ tool.kind = "escalate"
      BY <2>1, <2>2 DEF Running
    <3>2. /\ made' \in [texted : BOOLEAN, logged : {"nothing", "sent", "failed"}, stored : BOOLEAN]
          /\ ~ made'.texted /\ made'.stored
      BY <2>3
    <3>3. escalated' \in Nat /\ escalated' >= escalated /\ escalated' > 0
      BY <1>2 DEF OutreachInv, OutreachTypes
    <3> QED
      BY <1>2, <2>1, <3>1, <3>2, <3>3, InsideKeeps
<1> QED
  BY <1>1, <1>2 DEF RecordEscalation

LEMMA TextingKeeps == ASSUME OutreachInv, BadTemplate \/ TextStub \/ NoCredentials PROVE OutreachInv'
<1>1. /\ tool \in Running /\ tool.at = "text" /\ ~ made.texted
      /\ made \in [texted : BOOLEAN, logged : {"nothing", "sent", "failed"}, stored : BOOLEAN]
  BY DEF BadTemplate, TextStub, NoCredentials, Worded, NoTool, Running, OutreachInv, OutreachTypes,
         DoneSoFar
<1>2. CASE Raises /\ UNCHANGED made
  BY <1>2, RaiseKeeps
<1>3. CASE NotTexted /\ UNCHANGED made
  BY <1>1, <1>3, NotTextedKeeps
<1>4. CASE made' = [made EXCEPT !.texted = TRUE, !.logged = "sent"] /\ WhenTexted
  BY <1>1, <1>4, WhenTextedKeeps
<1> QED
  BY <1>2, <1>3, <1>4 DEF BadTemplate, TextStub, NoCredentials

LEMMA PostKeeps == ASSUME OutreachInv, Post PROVE OutreachInv'
<1>1. /\ tool \in Running /\ tool # NoTool /\ tool.at = "text"
      /\ tool.kind = "escalate" => made.stored
      /\ made \in [texted : BOOLEAN, logged : {"nothing", "sent", "failed"}, stored : BOOLEAN]
      /\ made.stored => escalated > 0
      /\ escalated \in Nat
  BY DEF Post, Worded, NoTool, Running, OutreachInv, OutreachTypes, DoneSoFar
<1>2. PICK where \in {"log", "note"}, carried \in BOOLEAN :
        /\ To(where) /\ made' = [made EXCEPT !.texted = carried]
        /\ where = "log" => carried
  BY DEF Post
<1>3. tool' \in Running /\ tool'.at = where /\ tool'.kind = tool.kind
  BY <1>1, <1>2 DEF To, Running
<1>4. /\ made' \in [texted : BOOLEAN, logged : {"nothing", "sent", "failed"}, stored : BOOLEAN]
      /\ made'.stored = made.stored /\ made'.texted = carried
  BY <1>1, <1>2
<1> QED
  BY <1>1, <1>2, <1>3, <1>4, InsideKeeps DEF Post, Stays

LEMMA LogKeeps == ASSUME OutreachInv, Log PROVE OutreachInv'
<1>1. /\ tool \in Running /\ tool.at \in {"log", "note"} /\ (tool.at = "log" => made.texted)
      /\ made \in [texted : BOOLEAN, logged : {"nothing", "sent", "failed"}, stored : BOOLEAN]
  BY DEF Log, NoTool, Running, OutreachInv, OutreachTypes, DoneSoFar
<1>2. CASE Raises /\ UNCHANGED made
  BY <1>2, RaiseKeeps
<1>3. CASE tool.at = "log" /\ made' = [made EXCEPT !.logged = "sent"] /\ WhenTexted
  BY <1>1, <1>3, WhenTextedKeeps
<1>4. CASE tool.at = "note" /\ made' = [made EXCEPT !.logged = "failed"] /\ NotTexted
  BY <1>1, <1>4, NotTextedKeeps
<1> QED
  BY <1>1, <1>2, <1>3, <1>4 DEF Log

LEMMA TurnKeeps == ASSUME OutreachInv, ReplyEnds \/ Transfer \/ NextReply PROVE OutreachInv'
<1>1. CASE ReplyEnds
  BY <1>1 DEF ReplyEnds, NoTool, OutreachInv, OutreachTypes, DoneSoFar, ToldOfTransfer, CanTransfer,
              ToolsTellTheTruth
<1>2. CASE Transfer
  BY <1>2 DEF Transfer, Transferred, OutreachInv, OutreachTypes, DoneSoFar, ToldOfTransfer,
              CanTransfer, ToolsTellTheTruth
<1>3. CASE NextReply
  <2>1. tool = NoTool
    BY <1>3 DEF NextReply, OutreachInv, DoneSoFar
  <2> QED
    BY <1>3, <2>1 DEF NextReply, Undone, NoTool, OutreachInv, OutreachTypes, DoneSoFar,
                      ToldOfTransfer, ToolsTellTheTruth
<1> QED
  BY <1>1, <1>2, <1>3

\* What send_confirmation and escalate tell the model is so, however many requests
\* fail: what a tool has done is settled before it returns.
THEOREM ToolsAreTruthful == OutreachSpec => []ToolsTellTheTruth
<1>1. OutreachInit => OutreachInv
  <2>1. Undone \in [texted : BOOLEAN, logged : {"nothing", "sent", "failed"}, stored : BOOLEAN]
    BY DEF Undone
  <2>2. OutreachInit => OutreachTypes
    BY <2>1, Zenon, 0 \in Nat DEF OutreachInit, OutreachTypes
  <2>3. OutreachInit => DoneSoFar /\ ToldOfTransfer /\ ToolsTellTheTruth
    BY DEF OutreachInit, Undone, NoTool, DoneSoFar, ToldOfTransfer, ToolsTellTheTruth
  <2> QED
    BY <2>2, <2>3 DEF OutreachInv
<1>2. OutreachInv /\ [OutreachNext]_outreachVars => OutreachInv'
  <2>1. CASE UNCHANGED outreachVars
    <3>1. OutreachTypes' = OutreachTypes
      BY <2>1 DEF outreachVars, OutreachTypes
    <3>2. (DoneSoFar /\ ToldOfTransfer)' = (DoneSoFar /\ ToldOfTransfer)
      BY <2>1 DEF outreachVars, DoneSoFar, ToldOfTransfer, CanTransfer
    <3>3. ToolsTellTheTruth' = ToolsTellTheTruth
      BY <2>1 DEF outreachVars, ToolsTellTheTruth
    <3> QED
      BY <3>1, <3>2, <3>3, Zenon DEF OutreachInv
  <2> QED
    BY <2>1, UseKeeps, LookUpJobKeeps, RecordEscalationKeeps, TextingKeeps, PostKeeps, LogKeeps,
       TurnKeeps DEF OutreachNext
<1>3. OutreachInv => ToolsTellTheTruth
  BY DEF OutreachInv
<1> QED
  BY <1>1, <1>2, <1>3, PTL DEF OutreachSpec

-----------------------------------------------------------------------------
(* Limits. *)

\* The requests let pass from one time on and before another.
Within(s, a, b) == {i \in DOMAIN s : a <= s[i] /\ s[i] < b}

\* What a window knows of its key's past: no request passed after it, those that passed in it
\* are counted, and of those before it no span that reaches into it has more than the limit.
Remembers(s, start, count, limit, length) ==
  /\ count = 0 => s = <<>>
  /\ \A i \in DOMAIN s : s[i] < start + length
  /\ Cardinality(Within(s, start, start + length)) <= count
  /\ Cardinality(Within(s, start, start + length)) <= limit
  /\ \A a \in Int : a + length > start => Cardinality(Within(s, a, start)) <= limit
  /\ \A a \in Int : Cardinality(Within(s, a, a + length)) <= 2 * limit

KeyTypes == /\ windows \in [Keys -> [start : Nat, count : Nat]]
            /\ passed \in [Keys -> Seq(Nat)]

KeyInv(k) ==
  /\ windows[k].start <= now
  /\ \A i \in DOMAIN passed[k] : passed[k][i] <= now
  /\ Remembers(passed[k], windows[k].start, windows[k].count, Limit[k[1]], Window[k[1]])

LimitInv == now \in Nat /\ KeyTypes /\ \A k \in Keys : KeyInv(k)

LEMMA KeysHaveScopes ==
  ASSUME NEW k \in Keys
  PROVE  Limit[k[1]] \in Nat /\ Window[k[1]] \in Nat \ {0}
<1>1. k[1] \in Scopes
  BY DEF Keys, Scopes
<1> QED
  BY <1>1, LimitsAssumption

LEMMA WithinIsFinite ==
  ASSUME NEW s \in Seq(Nat), NEW a \in Int, NEW b \in Int
  PROVE  IsFiniteSet(Within(s, a, b)) /\ Cardinality(Within(s, a, b)) \in Nat
<1>1. Len(s) \in Int /\ DOMAIN s = 1 .. Len(s)
  OBVIOUS
<1>2. IsFiniteSet(DOMAIN s) /\ Within(s, a, b) \subseteq DOMAIN s
  BY <1>1, FS_Interval DEF Within
<1> QED
  BY <1>2, FS_Subset, FS_CardinalityType

LEMMA WithinLess ==
  ASSUME NEW s \in Seq(Nat), NEW a \in Int, NEW b \in Int, NEW c \in Int, NEW d \in Int,
         Within(s, a, b) \subseteq Within(s, c, d)
  PROVE  Cardinality(Within(s, a, b)) <= Cardinality(Within(s, c, d))
BY WithinIsFinite, FS_Subset

LEMMA WithinNone ==
  ASSUME NEW s, NEW a, NEW b, \A i \in DOMAIN s : ~ (a <= s[i] /\ s[i] < b)
  PROVE  Cardinality(Within(s, a, b)) = 0
<1>1. Within(s, a, b) = {}
  BY DEF Within
<1> QED
  BY <1>1, FS_EmptySet

\* A span is no more than its parts.
LEMMA WithinParts ==
  ASSUME NEW s \in Seq(Nat), NEW a \in Int, NEW b \in Int, NEW c \in Int, NEW d \in Int,
         Within(s, a, d) \subseteq Within(s, a, b) \cup Within(s, b, c)
  PROVE  Cardinality(Within(s, a, d)) <= Cardinality(Within(s, a, b)) + Cardinality(Within(s, b, c))
<1> DEFINE P == Within(s, a, b)
           Q == Within(s, b, c)
<1>1. IsFiniteSet(P) /\ IsFiniteSet(Q) /\ Cardinality(P) \in Nat /\ Cardinality(Q) \in Nat
      /\ Cardinality(Within(s, a, d)) \in Nat
  BY WithinIsFinite
<1> HIDE DEF P, Q
<1>2. /\ IsFiniteSet(P \cup Q) /\ Cardinality(P \cup Q) = Cardinality(P) + Cardinality(Q) - Cardinality(P \cap Q)
      /\ IsFiniteSet(P \cap Q)
  BY <1>1, FS_Union, FS_Intersection
<1>3. Cardinality(P \cap Q) \in Nat /\ Cardinality(Within(s, a, d)) <= Cardinality(P \cup Q)
  BY <1>2, FS_CardinalityType, FS_Subset DEF P, Q
<1> QED
  BY <1>1, <1>2, <1>3 DEF P, Q

LEMMA WithinAppended ==
  ASSUME NEW s \in Seq(Nat), NEW n \in Nat, NEW a \in Int, NEW b \in Int
  PROVE  /\ ~ (a <= n /\ n < b) => Within(Append(s, n), a, b) = Within(s, a, b)
         /\ Cardinality(Within(Append(s, n), a, b)) <= Cardinality(Within(s, a, b)) + 1
<1> DEFINE r == Append(s, n)
<1>1. /\ r \in Seq(Nat) /\ Len(r) = Len(s) + 1 /\ r[Len(s) + 1] = n
      /\ \A i \in 1 .. Len(s) : r[i] = s[i]
  OBVIOUS
<1> HIDE DEF r
<1>2. DOMAIN r = DOMAIN s \cup {Len(s) + 1} /\ DOMAIN s = 1 .. Len(s)
  BY <1>1
<1>3. ~ (a <= n /\ n < b) => Within(r, a, b) = Within(s, a, b)
  BY <1>1, <1>2 DEF Within
<1>4. Within(r, a, b) \subseteq Within(s, a, b) \cup {Len(s) + 1}
  BY <1>1, <1>2 DEF Within
<1>5. IsFiniteSet(Within(s, a, b)) /\ Cardinality(Within(s, a, b)) \in Nat
      /\ Cardinality(Within(r, a, b)) \in Nat
  BY <1>1, WithinIsFinite
<1>6. /\ IsFiniteSet(Within(s, a, b) \cup {Len(s) + 1})
      /\ Cardinality(Within(s, a, b) \cup {Len(s) + 1}) <= Cardinality(Within(s, a, b)) + 1
  <2> DEFINE P == Within(s, a, b)
  <2>1. IsFiniteSet(P) /\ Cardinality(P) \in Nat
    BY <1>5
  <2> HIDE DEF P
  <2>2. \A x : /\ IsFiniteSet(P \cup {x})
                /\ Cardinality(P \cup {x}) = IF x \in P THEN Cardinality(P) ELSE Cardinality(P) + 1
    BY <2>1, FS_AddElement, Zenon
  <2>3. \A x : Cardinality(P \cup {x}) <= Cardinality(P) + 1
    <3> SUFFICES ASSUME NEW x PROVE Cardinality(P \cup {x}) <= Cardinality(P) + 1
      OBVIOUS
    <3>1. CASE x \in P
      BY <2>1, <2>2, <3>1
    <3>2. CASE x \notin P
      BY <2>1, <2>2, <3>2
    <3> QED
      BY <3>1, <3>2
  <2> QED
    BY <2>2, <2>3 DEF P
<1>7. Cardinality(Within(r, a, b)) <= Cardinality(Within(s, a, b) \cup {Len(s) + 1})
  BY <1>4, <1>6, FS_Subset
<1> QED
  BY <1>3, <1>5, <1>6, <1>7, FS_CardinalityType DEF r

\* A window that began anew.
LEMMA FreshRemembers ==
  ASSUME NEW s \in Seq(Nat), NEW start \in Nat, NEW count \in Nat, NEW limit \in Nat,
         NEW length \in Nat \ {0}, NEW n \in Nat, Remembers(s, start, count, limit, length),
         count = 0 \/ n - start >= length
  PROVE  /\ Remembers(s, n, 1, limit, length)
         /\ Cardinality(Within(s, n, n + length)) = 0
<1>0. \A i \in DOMAIN s : s[i] \in Nat
  OBVIOUS
<1>1. \A i \in DOMAIN s : s[i] \in Nat /\ s[i] < n
  <2>1. CASE s = <<>>
    BY <2>1
  <2>2. CASE n - start >= length
    BY <1>0, <2>2, SMTT(30) DEF Remembers
  <2> QED
    BY <2>1, <2>2 DEF Remembers
<1>2. Cardinality(Within(s, n, n + length)) = 0
  BY <1>1, WithinNone
<1>3. ASSUME NEW a \in Int, a + length > n PROVE Cardinality(Within(s, a, n)) <= limit
  <2>1. CASE s = <<>>
    <3>1. Cardinality(Within(s, a, n)) = 0
      BY <2>1, WithinNone
    <3> QED
      BY <3>1
  <2>2. CASE n - start >= length
    <3>1. Within(s, a, n) \subseteq Within(s, start, start + length)
      BY <1>3, <2>2 DEF Within, Remembers
    <3>2. /\ Cardinality(Within(s, a, n)) <= Cardinality(Within(s, start, start + length))
          /\ Cardinality(Within(s, start, start + length)) \in Nat
          /\ Cardinality(Within(s, a, n)) \in Nat
      BY <3>1, WithinLess, WithinIsFinite
    <3> QED
      BY <3>2 DEF Remembers
  <2> QED
    BY <2>1, <2>2 DEF Remembers
<1>4. \A i \in DOMAIN s : s[i] < n + length
  BY <1>1
<1>5. Cardinality(Within(s, n, n + length)) <= 1 /\ Cardinality(Within(s, n, n + length)) <= limit
  BY <1>2
<1> QED
  BY <1>2, <1>3, <1>4, <1>5 DEF Remembers

\* A request passes in a window that has room for it.
LEMMA PassingRemembers ==
  ASSUME NEW s \in Seq(Nat), NEW start \in Nat, NEW count \in Nat, NEW limit \in Nat,
         NEW length \in Nat \ {0}, NEW n \in Nat, Remembers(s, start, count, limit, length),
         start <= n, n < start + length, \A i \in DOMAIN s : s[i] <= n,
         Cardinality(Within(s, start, start + length)) + 1 <= count,
         Cardinality(Within(s, start, start + length)) + 1 <= limit
  PROVE  Remembers(Append(s, n), start, count, limit, length)
<1> DEFINE r == Append(s, n)
<1>1. r \in Seq(Nat) /\ \A i \in DOMAIN r : r[i] <= n
  OBVIOUS
<1>2. \A a, b \in Int : /\ ~ (a <= n /\ n < b) => Within(r, a, b) = Within(s, a, b)
                        /\ Cardinality(Within(r, a, b)) <= Cardinality(Within(s, a, b)) + 1
  BY WithinAppended
<1>3. \A a, b \in Int : Cardinality(Within(r, a, b)) \in Nat /\ Cardinality(Within(s, a, b)) \in Nat
  BY <1>1, WithinIsFinite
<1> HIDE DEF r
<1>4. /\ Cardinality(Within(r, start, start + length)) <= count
      /\ Cardinality(Within(r, start, start + length)) <= limit
  <2> DEFINE P == Within(s, start, start + length)
             Q == Within(r, start, start + length)
  <2>1. Cardinality(Q) <= Cardinality(P) + 1 /\ Cardinality(P) \in Nat /\ Cardinality(Q) \in Nat
    BY <1>2, <1>3
  <2>2. Cardinality(P) + 1 <= count /\ Cardinality(P) + 1 <= limit
    OBVIOUS
  <2> HIDE DEF P, Q
  <2>3. Cardinality(Q) <= count /\ Cardinality(Q) <= limit
    BY <2>1, <2>2
  <2> QED
    BY <2>3 DEF Q
<1>5. ASSUME NEW a \in Int, a + length > start PROVE Cardinality(Within(r, a, start)) <= limit
  BY <1>2, <1>5 DEF Remembers
<1>6. ASSUME NEW a \in Int PROVE Cardinality(Within(r, a, a + length)) <= 2 * limit
  <2>1. CASE ~ (a <= n /\ n < a + length)
    <3>1. a + length \in Int
      OBVIOUS
    <3>2. Within(r, a, a + length) = Within(s, a, a + length)
      BY <1>2, <2>1, <3>1
    <3> QED
      BY <3>2 DEF Remembers
  <2>2. CASE a <= n /\ n < a + length
    <3>1. Within(r, a, a + length) \subseteq Within(r, a, start) \cup Within(r, start, start + length)
      BY <1>1 DEF Within
    <3>2. Cardinality(Within(r, a, a + length)) <=
            Cardinality(Within(r, a, start)) + Cardinality(Within(r, start, start + length))
      BY <1>1, <3>1, WithinParts
    <3>3. /\ Cardinality(Within(r, a, start)) <= limit
          /\ Cardinality(Within(r, start, start + length)) <= limit
      BY <1>4, <1>5, <2>2
    <3> DEFINE x == Cardinality(Within(r, a, a + length))
               y == Cardinality(Within(r, a, start))
               z == Cardinality(Within(r, start, start + length))
    <3>4. x \in Nat /\ y \in Nat /\ z \in Nat /\ x <= y + z /\ y <= limit /\ z <= limit
      BY <1>3, <3>2, <3>3
    <3> HIDE DEF x, y, z
    <3>5. x <= 2 * limit
      BY <3>4
    <3> QED
      BY <3>5 DEF x
  <2> QED
    BY <2>1, <2>2
<1>7. count # 0
  <2>1. Cardinality(Within(s, start, start + length)) \in Nat
    BY WithinIsFinite
  <2> QED
    BY <2>1
<1>8. \A i \in DOMAIN r : r[i] < start + length
  BY <1>1
<1> QED
  BY <1>4, <1>5, <1>6, <1>7, <1>8 DEF Remembers, r

\* A key of a request: it is counted, and the request passes if there is room.
Counts(k) ==
  /\ windows'[k] = Hit(k)
  /\ \/ Over(k) /\ passed'[k] = passed[k]
     \/ ~ Over(k) /\ passed'[k] = Append(passed[k], now)

LEMMA CountsKeeps ==
  ASSUME LimitInv, NEW k \in Keys, Counts(k), now' = now
  PROVE  KeyInv(k)'
<1> DEFINE s == passed[k]
           start == windows[k].start
           count == windows[k].count
           limit == Limit[k[1]]
           length == Window[k[1]]
<1>1. /\ s \in Seq(Nat) /\ start \in Nat /\ count \in Nat /\ limit \in Nat /\ length \in Nat \ {0}
      /\ now \in Nat /\ start <= now /\ \A i \in DOMAIN s : s[i] <= now
      /\ Remembers(s, start, count, limit, length)
  BY KeysHaveScopes DEF LimitInv, KeyInv, KeyTypes
<1>2. \A i \in DOMAIN Append(s, now) : Append(s, now)[i] <= now
  BY <1>1
<1>3. PICK from, hits \in Nat :
        /\ Hit(k).start = from /\ Hit(k).count = hits /\ from <= now
        /\ Remembers(s, from, hits, limit, length)
        /\ hits <= limit => Remembers(Append(s, now), from, hits, limit, length)
  <2>1. CASE count = 0 \/ now - start >= length
    <3>1. Hit(k) = [start |-> now, count |-> 1]
      BY <2>1 DEF Hit
    <3>2. Remembers(s, now, 1, limit, length) /\ Cardinality(Within(s, now, now + length)) = 0
      BY <1>1, <2>1, FreshRemembers
    <3>3. ASSUME 1 <= limit PROVE Remembers(Append(s, now), now, 1, limit, length)
      <4>1. now < now + length /\ 1 \in Nat /\ now <= now
        BY <1>1
      <4>2. /\ Cardinality(Within(s, now, now + length)) + 1 <= 1
            /\ Cardinality(Within(s, now, now + length)) + 1 <= limit
        BY <3>2, <3>3
      <4> HIDE DEF s, limit, length
      <4> QED
        BY <1>1, <3>2, <4>1, <4>2, PassingRemembers, ZenonT(30)
    <3> QED
      BY <1>1, <3>1, <3>2, <3>3
  <2>2. CASE count # 0 /\ now - start < length
    <3>1. Hit(k).start = start /\ Hit(k).count = count + 1
      BY <1>1, <2>2 DEF Hit, LimitInv, KeyInv, KeyTypes
    <3>2. Cardinality(Within(s, start, start + length)) \in Nat
      BY <1>1, WithinIsFinite
    <3>3. Remembers(s, start, count + 1, limit, length)
      <4> DEFINE x == Cardinality(Within(s, start, start + length))
      <4>1. x <= count /\ x \in Nat
        BY <1>1, <3>2 DEF Remembers
      <4>2. x <= count + 1 /\ count + 1 # 0
        BY <1>1, <4>1
      <4> HIDE DEF s, start, count, limit, length
      <4> QED
        BY <1>1, <4>2 DEF Remembers
    <3>4. ASSUME count + 1 <= limit PROVE Remembers(Append(s, now), start, count + 1, limit, length)
      <4>1. /\ Cardinality(Within(s, start, start + length)) + 1 <= count + 1
            /\ Cardinality(Within(s, start, start + length)) + 1 <= limit
        <5> DEFINE x == Cardinality(Within(s, start, start + length))
        <5>1. x <= count /\ x \in Nat
          BY <1>1, <3>2 DEF Remembers
        <5> HIDE DEF x
        <5> QED
          BY <1>1, <3>4, <5>1 DEF x
      <4>2. now < start + length
        BY <1>1, <2>2
      <4>3. count + 1 \in Nat
        BY <1>1
      <4> HIDE DEF s, start, count, limit, length
      <4> QED
        BY <1>1, <3>3, <4>1, <4>2, <4>3, PassingRemembers
    <3> QED
      BY <1>1, <3>1, <3>3, <3>4
  <2> QED
    BY <1>1, <2>1, <2>2
<1>4. windows'[k].start = from /\ windows'[k].count = hits /\ (Over(k) <=> hits > limit)
  BY <1>3 DEF Counts, Over
<1>5. CASE Over(k) /\ passed'[k] = s
  BY <1>1, <1>3, <1>4, <1>5 DEF KeyInv
<1>6. CASE ~ Over(k) /\ passed'[k] = Append(s, now)
  BY <1>1, <1>2, <1>3, <1>4, <1>6 DEF KeyInv
<1> QED
  BY <1>5, <1>6 DEF Counts

LEMMA HitIsTyped == ASSUME LimitInv, NEW k \in Keys PROVE Hit(k) \in [start : Nat, count : Nat]
<1>1. windows[k].start \in Nat /\ windows[k].count \in Nat /\ now \in Nat
  BY DEF LimitInv, KeyInv, KeyTypes
<1>2. windows[k] \in [start : Nat, count : Nat]
  BY DEF LimitInv, KeyInv, KeyTypes
<1>3. Hit(k) \in {[start |-> now, count |-> 1], [windows[k] EXCEPT !.count = @ + 1]}
  BY DEF Hit
<1>4. [windows[k] EXCEPT !.count = @ + 1] \in [start : Nat, count : Nat]
  BY <1>1, <1>2
<1> QED
  BY <1>1, <1>3, <1>4

LEMMA MeetKeeps ==
  ASSUME LimitInv, NEW keys, Meet(keys), now' = now
  PROVE  LimitInv'
<1>1. \A k \in Keys : Counts(k) \/ (windows'[k] = windows[k] /\ passed'[k] = passed[k])
  BY DEF Meet, Counts
<1>2. KeyTypes'
  <2>1. \A k \in Keys : Append(passed[k], now) \in Seq(Nat)
    BY DEF LimitInv, KeyInv, KeyTypes
  <2> QED
    BY <2>1, HitIsTyped DEF Meet, LimitInv, KeyInv, KeyTypes
<1>3. ASSUME NEW k \in Keys PROVE KeyInv(k)'
  <2>1. CASE windows'[k] = windows[k] /\ passed'[k] = passed[k]
    BY <2>1 DEF LimitInv, KeyInv
  <2> QED
    BY <1>1, <2>1, CountsKeeps
<1> QED
  BY <1>2, <1>3 DEF LimitInv, KeyInv

LEMMA LimitInductive == LimitInv /\ [LimitsNext]_limitVars => LimitInv'
<1> SUFFICES ASSUME LimitInv, [LimitsNext]_limitVars PROVE LimitInv'
  OBVIOUS
<1>1. CASE Open \/ Test \/ \E v \in Visitors : Chat(v)
  BY <1>1, MeetKeeps DEF Open, Test, Chat
<1>2. CASE Second
  <2>1. now \in Nat /\ now' = now + 1 /\ UNCHANGED <<windows, passed>>
    BY <1>2 DEF Second, LimitInv, KeyInv
  <2>2. \A k \in Keys : /\ windows[k].start \in Nat /\ windows[k].start <= now
                        /\ \A i \in DOMAIN passed[k] : passed[k][i] \in Nat /\ passed[k][i] <= now
    BY DEF LimitInv, KeyInv, KeyTypes
  <2>3. \A k \in Keys : /\ windows[k].start <= now + 1
                        /\ \A i \in DOMAIN passed[k] : passed[k][i] <= now + 1
    BY <2>1, <2>2
  <2> QED
    BY <2>1, <2>3 DEF LimitInv, KeyInv, KeyTypes
<1>3. CASE UNCHANGED limitVars
  BY <1>3 DEF limitVars, LimitInv, KeyInv, KeyTypes
<1> QED
  BY <1>1, <1>2, <1>3 DEF LimitsNext

LEMMA LimitInvAlways == LimitsSpec => []LimitInv
<1>1. LimitsInit => LimitInv
  <2> SUFFICES ASSUME LimitsInit PROVE LimitInv
    OBVIOUS
  <2>1. KeyTypes /\ now = 0
    BY DEF LimitsInit, KeyTypes, Unused
  <2>2. ASSUME NEW k \in Keys PROVE KeyInv(k)
    <3>1. windows[k].start = 0 /\ windows[k].count = 0 /\ passed[k] = <<>>
      BY DEF LimitsInit, Unused
    <3>2. \A a, b : Cardinality(Within(<<>>, a, b)) = 0
      BY WithinNone
    <3>3. Remembers(<<>>, 0, 0, Limit[k[1]], Window[k[1]])
      BY <3>2, KeysHaveScopes DEF Remembers
    <3> QED
      BY <2>1, <3>1, <3>3 DEF KeyInv
  <2> QED
    BY <2>1, <2>2 DEF LimitInv, KeyInv
<1> QED
  BY <1>1, LimitInductive, PTL DEF LimitsSpec

\* A fixed window lets through at most two windows' worth in any span as long as the
\* window, whatever is refused in between and at whichever limit.
THEOREM AtMostTwoWindows == LimitsSpec => []TwoWindowsAtMost
<1>1. LimitInv => TwoWindowsAtMost
  <2> SUFFICES ASSUME LimitInv, NEW k \in Keys, NEW i \in DOMAIN passed[k]
               PROVE  Cardinality({j \in DOMAIN passed[k] :
                                     /\ passed[k][j] >= passed[k][i]
                                     /\ passed[k][j] < passed[k][i] + Window[k[1]]})
                        <= 2 * Limit[k[1]]
    BY DEF TwoWindowsAtMost
  <2> DEFINE a == passed[k][i]
  <2>1. a \in Int /\ \A j \in DOMAIN passed[k] : passed[k][j] \in Nat
    BY DEF LimitInv, KeyInv, KeyTypes
  <2>2. Cardinality(Within(passed[k], a, a + Window[k[1]])) <= 2 * Limit[k[1]]
    BY <2>1 DEF LimitInv, KeyInv, Remembers
  <2>3. Within(passed[k], a, a + Window[k[1]]) =
          {j \in DOMAIN passed[k] : passed[k][j] >= a /\ passed[k][j] < a + Window[k[1]]}
    BY <2>1 DEF Within
  <2> QED
    BY <2>2, <2>3
<1> QED
  BY <1>1, LimitInvAlways, PTL

\* A session that was told to wait was told when its window ends.
Promised ==
  /\ promise \in [Visitors -> Int]
  /\ \A v \in Visitors : promise[v] # -1 =>
       promise[v] = windows[<<"session", v>>].start + Window["session"]

\* The keys a request meets are of those it could meet.
LEMMA MetAreKeys ==
  ASSUME NEW v \in Visitors, NEW keys, keys = <<<<"ip">>, <<"session", v>>, <<"tenant">>>>
  PROVE  /\ ToSet(Met(keys)) \subseteq {<<"ip">>, <<"session", v>>, <<"tenant">>}
         /\ Last(Met(keys)) \in ToSet(Met(keys))
<1>1. /\ keys \in Seq({<<"ip">>, <<"session", v>>, <<"tenant">>}) /\ Len(keys) = 3
      /\ DOMAIN keys = 1 .. 3
  BY DEF Keys
<1> DEFINE refusing == {i \in DOMAIN keys : Over(keys[i])}
<1>2. CASE refusing = {}
  <2>1. Met(keys) = keys
    BY <1>2 DEF Met
  <2> QED
    <3>1. keys[1] = <<"ip">> /\ keys[2] = <<"session", v>> /\ keys[3] = <<"tenant">>
      OBVIOUS
    <3>2. ToSet(keys) \subseteq {<<"ip">>, <<"session", v>>, <<"tenant">>} /\ Last(keys) \in ToSet(keys)
      BY <1>1, <3>1 DEF ToSet, Last
    <3> QED
      BY <2>1, <3>2
<1>3. CASE refusing # {}
  <2>1. \E i \in refusing : \A j \in refusing : i <= j
    <3>1. refusing \subseteq 1 .. 3
      BY <1>1
    <3> HIDE DEF refusing
    <3>2. CASE 1 \in refusing
      BY <3>1, <3>2
    <3>3. CASE 1 \notin refusing /\ 2 \in refusing
      BY <3>1, <3>3
    <3>4. CASE 1 \notin refusing /\ 2 \notin refusing
      <4>1. refusing \subseteq {3} /\ refusing # {}
        BY <1>3, <3>1, <3>4
      <4>2. 3 \in refusing /\ \A j \in refusing : j = 3
        BY <4>1
      <4> QED
        BY <4>2
    <3> QED
      BY <3>2, <3>3, <3>4
  <2>2. PICK n \in 1 .. 3 : Met(keys) = SubSeq(keys, 1, n)
    BY <1>1, <1>3, <2>1 DEF Met
  <2>3. SubSeq(keys, 1, n) \in Seq({<<"ip">>, <<"session", v>>, <<"tenant">>})
        /\ Len(SubSeq(keys, 1, n)) = n
    BY <1>1
  <2> QED
    BY <2>2, <2>3, SMTT(30) DEF ToSet, Last
<1> QED
  BY <1>2, <1>3

LEMMA ChatKeepsPromises ==
  ASSUME LimitInv, Promised, Limit["session"] # 0, NEW v \in Visitors, Chat(v)
  PROVE  /\ Promised'
         /\ \A u \in Visitors : promise[u] # -1 /\ promise'[u] # promise[u] => promise'[u] = -1
<1> DEFINE keys == <<<<"ip">>, <<"session", v>>, <<"tenant">>>>
           own == <<"session", v>>
<1>1. /\ ToSet(Met(keys)) \subseteq {<<"ip">>, own, <<"tenant">>}
      /\ Last(Met(keys)) \in ToSet(Met(keys))
  BY MetAreKeys
<1>2. /\ windows' = [k \in Keys |-> IF k \in ToSet(Met(keys)) THEN Hit(k) ELSE windows[k]]
      /\ promise' = [promise EXCEPT ![v] =
           IF Last(Met(keys)) = own /\ Refused(keys) THEN Hit(own).start + Window["session"]
           ELSE IF own \in ToSet(Met(keys)) THEN -1 ELSE @]
  BY DEF Chat, Meet
<1>3. \A u \in Visitors : <<"session", u>> \in Keys
  BY DEF Keys
<1>4. ASSUME NEW u \in Visitors \ {v}
      PROVE  promise'[u] = promise[u] /\ windows'[<<"session", u>>] = windows[<<"session", u>>]
  <2>1. <<"session", u>> \notin {<<"ip">>, own, <<"tenant">>}
    OBVIOUS
  <2> QED
    BY <1>1, <1>2, <1>3, <2>1 DEF Promised
<1>5. own \in Keys /\ Hit(own).start \in Int /\ Limit["session"] \in Nat \ {0} /\ Window["session"] \in Nat
  BY <1>3, HitIsTyped, LimitsAssumption DEF Scopes
<1> HIDE DEF keys
<1>6. CASE Last(Met(keys)) = own /\ Refused(keys)
  <2>1. promise'[v] = Hit(own).start + Window["session"] /\ windows'[own] = Hit(own)
    BY <1>1, <1>2, <1>5, <1>6 DEF Promised
  <2>2. Hit(own).count > Limit["session"]
    BY <1>6 DEF Refused, Over
  <2>3. Hit(own).start = windows[own].start
    BY <1>5, <2>2 DEF Hit, LimitInv, KeyInv, KeyTypes
  <2>4. promise[v] # -1 => promise'[v] = promise[v]
    BY <2>1, <2>3 DEF Promised
  <2>5. promise' \in [Visitors -> Int]
    BY <1>2, <1>5, <1>6 DEF Promised
  <2> QED
    BY <1>4, <2>1, <2>4, <2>5 DEF Promised
<1>7. CASE ~ (Last(Met(keys)) = own /\ Refused(keys)) /\ own \in ToSet(Met(keys))
  <2>1. promise'[v] = -1 /\ promise' \in [Visitors -> Int]
    BY <1>2, <1>7 DEF Promised
  <2> QED
    BY <1>4, <2>1 DEF Promised
<1>8. CASE own \notin ToSet(Met(keys))
  <2>1. promise' = promise /\ windows'[own] = windows[own]
    BY <1>1, <1>2, <1>5, <1>8 DEF Promised
  <2> QED
    BY <1>4, <2>1 DEF Promised
<1> QED
  BY <1>6, <1>7, <1>8

LEMMA OthersKeepPromises ==
  ASSUME Promised, Open \/ Test \/ Second \/ UNCHANGED limitVars
  PROVE  Promised' /\ promise' = promise
<1>1. promise' = promise
  BY DEF Open, Test, Second, limitVars
<1>2. ASSUME NEW v \in Visitors PROVE windows'[<<"session", v>>] = windows[<<"session", v>>]
  <2>1. <<"session", v>> \in Keys
    BY DEF Keys
  <2>2. ASSUME NEW k, k \in {<<"ip">>, <<"test">>}, Meet(<<k>>)
        PROVE  windows'[<<"session", v>>] = windows[<<"session", v>>]
    <3>1. ToSet(Met(<<k>>)) \subseteq {k}
      BY DEF ToSet, Met
    <3>2. <<"session", v>> # k
      BY <2>2
    <3> QED
      BY <2>1, <2>2, <3>1, <3>2 DEF Meet
  <2> QED
    BY <2>2 DEF Open, Test, Second, limitVars
<1> QED
  BY <1>1, <1>2 DEF Promised

\* The Retry-After of a session's own limit is true, unless that limit is set to nothing: a
\* session that comes back when it was told to is not refused by it, however often it came
\* too early.
THEOREM RetryAfterIsTrue ==
  ASSUME Limit["session"] # 0
  PROVE  LimitsSpec => RetryAfterHolds
<1> DEFINE Truthful == \A v \in Visitors : promise[v] # -1 /\ promise'[v] # promise[v] => promise'[v] = -1
<1>1. LimitsInit => Promised
  BY DEF LimitsInit, Promised
<1>2. LimitInv /\ Promised /\ [LimitsNext]_limitVars => Promised' /\ Truthful
  BY ChatKeepsPromises, OthersKeepPromises DEF LimitsNext
<1>3. LimitInv /\ Promised /\ [LimitsNext]_limitVars => [Truthful]_limitVars
  BY <1>2
<1> QED
  BY <1>1, <1>2, <1>3, LimitInvAlways, PTL DEF LimitsSpec, RetryAfterHolds
===============================================================================
