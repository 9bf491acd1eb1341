--------------------------- MODULE CalendarGrant ---------------------------
(***************************************************************************)
(* One tenant's grant for Cal.com's MCP server: src/app/mcp/oauth.py turns *)
(* a refresh token into access tokens, src/app/tenancy/secrets.py keeps it *)
(* in a vault behind a cache, src/app/tools/booking/mcp_calcom.py presents *)
(* the access token, and src/scripts/authorize_calcom.py replaces all.     *)
(*                                                                         *)
(* The authorization server gives out a new refresh token on every use and *)
(* refuses the one before.  Several replicas share one vault; each has its *)
(* own caches and serves several calls at once, which may be suspended     *)
(* between any two requests.                                               *)
(*                                                                         *)
(* A refresh token is its grant and its place in the grant's chain, a      *)
(* client id has place 0; of an access token only the grant is kept.       *)
(***************************************************************************)
EXTENDS Naturals, Sequences

CONSTANTS Replicas,   \* processes that serve calls
          Desk,       \* the process authorize_calcom runs in
          Callers,    \* calls a replica may serve at once
          Where,      \* the replica of each caller
          Script,     \* authorize_calcom
          Never,      \* nothing stored, nothing known
          Given,      \* authorizations at the start: 0 or 1
          MaxGrants,  \* bound: authorizations, the first included
          MaxCalls,   \* bound: calls
          MaxFaults   \* bound: requests that fail and grants that spoil

Processes == Replicas \cup {Desk}
Clients == Callers \cup {Script}
Grants == 1 .. MaxGrants
Keys == {"refresh", "client"}
Tokens == [grant : Grants, n : Nat]
Values == Tokens \cup {Never}

ASSUME BoundsAssumption == MaxGrants \in Nat \ {0} /\ Given \in {0, 1} /\ MaxCalls \in Nat /\ MaxFaults \in Nat
ASSUME NamesAssumption  == /\ Desk \notin Replicas
                           /\ Script \notin Callers
                           /\ Where \in [Callers -> Replicas]
ASSUME NeverAssumption  == Never \notin Grants \cup Tokens

VARIABLES
  chain,   \* the newest refresh token of each grant; 0: not granted
  health,  \* what the servers think of a grant
  vault,   \* the tenant's secrets
  secret,  \* each process's cache of them
  access,  \* each process's cached access token
  todo,    \* what each client has still to do
  hand,    \* what it holds meanwhile
  faults, calls,
  owed,    \* history: the calls nothing has been in the way of, until served
  lost,    \* history: a rotated token may be in nobody's hands
  settled  \* history: the grant authorize_calcom last reported as working

servers == <<chain, health>>
bounds == <<faults, calls>>
history == <<owed, lost, settled>>
vars == <<servers, vault, secret, access, todo, hand, bounds, history>>

Steps == {"token", "read_refresh", "keep_refresh", "read_client", "keep_client",
          "post", "answer", "persist", "pop", "connect",
          "put_client", "put_refresh"}
Reads == [refresh |-> "read_refresh", client |-> "read_client"]
Keeps == [refresh |-> "keep_refresh", client |-> "keep_client"]
Puts == [refresh |-> "put_refresh", client |-> "put_client"]
Quiet == <<>>
Load == <<"read_refresh", "read_client">>
Use == <<"token", "connect">>
Badge == Load  \* has_grant, which the panel calls to draw a badge

Host == [p \in Clients |-> IF p = Script THEN Desk ELSE Where[p]]
Forgotten == [k \in Keys |-> {}]

Fresh(g) == [grant |-> g, n |-> 1]
Id(g) == [grant |-> g, n |-> 0]
Empty == [seen |-> Never, refresh |-> Never, client |-> Never, tried |-> Never,
          answer |-> Never, access |-> Never, again |-> FALSE]

Running(p) == todo[p] # Quiet
At(p, s) == todo[p] # Quiet /\ Head(todo[p]) = s
Rest(p) == Tail(todo[p])

\* The vault holds a refresh token the authorization server would accept, of
\* a grant whose access tokens the calendar accepts.
Usable == /\ vault["refresh"] # Never /\ vault["client"] # Never
          /\ LET g == vault["client"].grant
             IN /\ vault["refresh"] = [grant |-> g, n |-> chain[g]]
                /\ health[g] = "good"

\* Nothing in memory comes from a grant other than the vault's.
OneGrant == \A r \in Replicas :
              /\ access[r] \in {Never, vault["client"].grant}
              /\ \A k \in Keys : \A v \in secret[r][k] :
                   v # Never /\ v.grant = vault["client"].grant

Init ==
  /\ chain = [g \in Grants |-> IF g <= Given THEN 1 ELSE 0]
  /\ vault = IF Given = 1 THEN [refresh |-> Fresh(1), client |-> Id(1)]
                          ELSE [refresh |-> Never, client |-> Never]
  /\ settled = IF Given = 1 THEN 1 ELSE Never
  /\ health = [g \in Grants |-> "good"]
  /\ secret = [r \in Processes |-> Forgotten]
  /\ access = [r \in Processes |-> Never]
  /\ todo = [p \in Clients |-> Quiet]
  /\ hand = [p \in Clients |-> Empty]
  /\ faults = 0 /\ calls = 0
  /\ owed = {}
  /\ lost = FALSE

-----------------------------------------------------------------------------
(* How a step ends. *)

Undisturbed == UNCHANGED <<owed, faults>>
Fault == /\ faults < MaxFaults
         /\ faults' = faults + 1
         /\ owed' = {}

Goes(p, h, program) ==
  /\ todo' = [todo EXCEPT ![p] = program]
  /\ hand' = [hand EXCEPT ![p] = IF program = Quiet THEN Empty ELSE h]

Raises(p) ==
  /\ todo' = [todo EXCEPT ![p] = Quiet]
  /\ hand' = [hand EXCEPT ![p] = Empty]

-----------------------------------------------------------------------------
(* secrets.py *)

\* get_tenant_secret: the cached value, or a request when there is none or it
\* is older than secret_cache_ttl_seconds.  When that fails an old value is
\* better than none.
Read(p, k) ==
  LET entry == secret[Host[p]][k]
  IN /\ At(p, Reads[k])
     /\ \/ /\ \E v \in entry : Goes(p, [hand[p] EXCEPT ![k] = v], Rest(p))
           /\ Undisturbed
        \/ /\ Goes(p, [hand[p] EXCEPT !.seen = vault[k]], <<Keeps[k]>> \o Rest(p))
           /\ Undisturbed
        \/ /\ entry = {}
           /\ Raises(p)
           /\ Fault
     /\ UNCHANGED <<servers, vault, secret, access, calls, lost, settled>>

\* The answer arrives and is cached, whatever has been written since.
Keep(p, k) ==
  /\ At(p, Keeps[k])
  /\ secret' = [secret EXCEPT ![Host[p]][k] = {hand[p].seen}]
  /\ Goes(p, [hand[p] EXCEPT ![k] = hand[p].seen, !.seen = Never], Rest(p))
  /\ UNCHANGED <<servers, vault, access, bounds, history>>

\* set_tenant_secret: the write, and the end of the copy in the cache.  A
\* rotated token that could not be written is only warned about.
Persist(p) ==
  /\ At(p, "persist")
  /\ \E applied, ok \in BOOLEAN :
       /\ ok => applied
       /\ vault' = IF applied THEN [vault EXCEPT !["refresh"] = hand[p].answer] ELSE vault
       /\ Goes(p, [hand[p] EXCEPT !.answer = Never],
               IF ok THEN Rest(p) ELSE Tail(Rest(p)))
       /\ IF ok THEN Undisturbed ELSE Fault
       /\ lost' = (lost \/ ~applied)
  /\ UNCHANGED <<servers, secret, access, calls, settled>>

Pop(p) ==
  /\ At(p, "pop")
  /\ secret' = [secret EXCEPT ![Host[p]]["refresh"] = {}]
  /\ Goes(p, hand[p], Rest(p))
  /\ UNCHANGED <<servers, vault, access, bounds, history>>

-----------------------------------------------------------------------------
(* oauth.py: access_token_for. *)

\* The cached access token, unless there is none or its time is over.
Token(p) ==
  /\ At(p, "token")
  /\ \/ /\ access[Host[p]] # Never
        /\ Goes(p, [hand[p] EXCEPT !.access = access[Host[p]]], Rest(p))
     \/ Goes(p, hand[p], Load \o <<"post", "answer">> \o Rest(p))
  /\ UNCHANGED <<servers, vault, secret, access, bounds, history>>

Accepted(t, c) == t = [grant |-> c.grant, n |-> chain[c.grant]] /\ health[c.grant] # "revoked"

\* Neither credential may be missing and the endpoint has to be found; after a
\* rejection the token must be another one, else "the grant really is bad".
Barred(p) == \/ hand[p].refresh = Never \/ hand[p].client = Never
             \/ hand[p].refresh = hand[p].tried
Unsent(p) ==
  /\ At(p, "post")
  /\ \/ Barred(p) /\ Undisturbed
     \/ ~Barred(p) /\ hand[p].tried = Never /\ Fault
  /\ Raises(p)
  /\ UNCHANGED <<servers, vault, secret, access, calls, lost, settled>>

\* The token endpoint.  Its answer may be lost with the new token in it.
Post(p) ==
  LET t == hand[p].refresh
  IN /\ At(p, "post") /\ ~Barred(p)
     /\ \/ /\ Accepted(t, hand[p].client)
           /\ chain' = [chain EXCEPT ![t.grant] = @ + 1]
           /\ \/ /\ Goes(p, [hand[p] EXCEPT !.answer = [t EXCEPT !.n = @ + 1]], Rest(p))
                 /\ Undisturbed
                 /\ UNCHANGED lost
              \/ Goes(p, hand[p], Rest(p)) /\ Fault /\ lost' = TRUE
        \/ /\ Goes(p, hand[p], Rest(p))
           /\ IF Accepted(t, hand[p].client) THEN Fault ELSE Undisturbed
           /\ UNCHANGED <<chain, lost>>
     /\ UNCHANGED <<health, vault, secret, access, calls, settled>>

\* Slip: the retry hands its token out and does not keep the new refresh token.
Issued_DropsRetried(p) ==
  /\ At(p, "answer") /\ hand[p].answer # Never
  /\ access' = [access EXCEPT ![Host[p]] = hand[p].answer.grant]
  /\ Goes(p, [Empty EXCEPT !.answer = hand[p].answer, !.again = hand[p].again,
                           !.access = hand[p].answer.grant],
          (IF hand[p].tried = Never THEN <<"persist", "pop">> ELSE <<>>) \o Rest(p))
  /\ UNCHANGED <<servers, vault, secret, bounds, history>>

\* A token is cached, and only then is the rotated refresh token kept.
Issued(p) ==
  /\ At(p, "answer") /\ hand[p].answer # Never
  /\ access' = [access EXCEPT ![Host[p]] = hand[p].answer.grant]
  /\ Goes(p, [Empty EXCEPT !.answer = hand[p].answer, !.again = hand[p].again,
                           !.access = hand[p].answer.grant],
          <<"persist", "pop">> \o Rest(p))
  /\ UNCHANGED <<servers, vault, secret, bounds, history>>

\* Slip: the credentials are read again without forgetting the cached ones.
Rejected_TrustsCache(p) ==
  /\ At(p, "answer") /\ hand[p].answer = Never /\ hand[p].tried = Never
  /\ Goes(p, [Empty EXCEPT !.tried = hand[p].refresh, !.again = hand[p].again],
          Load \o <<"post", "answer">> \o Rest(p))
  /\ UNCHANGED <<servers, vault, secret, access, bounds, history>>

\* The first rejection may be a lost race: the vault is asked again, once.
Rejected(p) ==
  /\ At(p, "answer") /\ hand[p].answer = Never /\ hand[p].tried = Never
  /\ secret' = [secret EXCEPT ![Host[p]] = Forgotten]
  /\ Goes(p, [Empty EXCEPT !.tried = hand[p].refresh, !.again = hand[p].again],
          Load \o <<"post", "answer">> \o Rest(p))
  /\ UNCHANGED <<servers, vault, access, bounds, history>>

GivesUp(p) ==
  /\ At(p, "answer") /\ hand[p].answer = Never /\ hand[p].tried # Never
  /\ Raises(p)
  /\ UNCHANGED <<servers, vault, secret, access, bounds, history>>

-----------------------------------------------------------------------------
(* mcp_calcom.py: _get_session; authorize_calcom.py: _verify_grant. *)

\* The handshake carries the access token.  When it is refused a replica
\* forgets it and tries once more, the script gives up.
Connect(p) ==
  /\ At(p, "connect")
  /\ \/ /\ health[hand[p].access] = "good"
        /\ Goes(p, hand[p], Quiet)
        /\ settled' = IF p = Script THEN hand[p].access ELSE settled
        /\ owed' = owed \ {p}
        /\ UNCHANGED <<access, faults>>
     \/ /\ health[hand[p].access] # "good" /\ p # Script /\ ~hand[p].again
        /\ access' = [access EXCEPT ![Host[p]] = Never]
        /\ Goes(p, [Empty EXCEPT !.again = TRUE], Use)
        /\ UNCHANGED settled
        /\ Undisturbed
     \/ /\ health[hand[p].access] # "good" /\ (p = Script \/ hand[p].again)
        /\ Raises(p)
        /\ UNCHANGED <<access, settled>>
        /\ Undisturbed
     \/ /\ Raises(p)
        /\ UNCHANGED <<access, settled>>
        /\ Fault
  /\ UNCHANGED <<servers, vault, secret, calls, lost>>

-----------------------------------------------------------------------------
(* authorize_calcom.py: _run. *)

\* A fresh client, a fresh grant, in a fresh process.
Authorize(g) ==
  /\ ~Running(Script)
  /\ chain[g] = 0 /\ \A i \in Grants : i < g => chain[i] > 0
  /\ chain' = [chain EXCEPT ![g] = 1]
  /\ secret' = [secret EXCEPT ![Desk] = Forgotten]
  /\ access' = [access EXCEPT ![Desk] = Never]
  /\ hand' = [hand EXCEPT ![Script] = [Empty EXCEPT !.client = Id(g),
                                                    !.refresh = Fresh(g)]]
  /\ todo' = [todo EXCEPT ![Script] = <<"put_client", "put_refresh">> \o Use]
  /\ owed' = {}
  /\ settled' = Never
  /\ UNCHANGED <<health, vault, bounds, lost>>

Put(k) ==
  /\ At(Script, Puts[k])
  /\ \/ /\ vault' = [vault EXCEPT ![k] = hand[Script][k]]
        /\ \/ Goes(Script, hand[Script], Rest(Script)) /\ Undisturbed
           \/ Raises(Script) /\ Fault
     \/ Raises(Script) /\ Fault /\ UNCHANGED vault
  /\ UNCHANGED <<servers, secret, access, calls, lost, settled>>

-----------------------------------------------------------------------------
(* Calls and the provider. *)

Begin(c, program) ==
  /\ ~Running(c)
  /\ calls < MaxCalls
  /\ calls' = calls + 1
  /\ todo' = [todo EXCEPT ![c] = program]
  /\ owed' = IF program = Use /\ Usable /\ OneGrant /\ \A p \in Clients : ~Running(p)
             THEN {c} ELSE {}
  /\ UNCHANGED <<servers, vault, secret, access, hand, faults, lost, settled>>

\* The provider revokes a grant, or goes on refreshing it while the calendar
\* refuses its access tokens.
Spoils(g) ==
  /\ chain[g] > 0
  /\ health[g] = "good"
  /\ \E h \in {"refused", "revoked"} : health' = [health EXCEPT ![g] = h]
  /\ Fault
  /\ settled' = IF settled = g THEN Never ELSE settled
  /\ UNCHANGED <<chain, vault, secret, access, todo, hand, calls, lost>>

Step(p) ==
  \/ \E k \in Keys : Read(p, k) \/ Keep(p, k)
  \/ Persist(p) \/ Pop(p) \/ Token(p) \/ Unsent(p) \/ Post(p)
  \/ Issued(p) \/ Rejected(p) \/ GivesUp(p) \/ Connect(p)

Next ==
  \/ \E p \in Clients : Step(p)
  \/ \E c \in Callers, program \in {Use, Badge} : Begin(c, program)
  \/ \E g \in Grants : Authorize(g) \/ Spoils(g)
  \/ \E k \in Keys : Put(k)

Spec == Init /\ [][Next]_vars

-----------------------------------------------------------------------------
(* Properties. *)

\* Every variable has its type; a cached access token is of a granted grant.
TypeOK ==
  /\ chain \in [Grants -> Nat]
  /\ health \in [Grants -> {"good", "refused", "revoked"}]
  /\ vault \in [Keys -> Values]
  /\ secret \in [Processes -> [Keys -> SUBSET Values]]
  /\ \A r \in Processes, k \in Keys : \A v, w \in secret[r][k] : v = w
  /\ access \in [Processes -> Grants \cup {Never}]
  /\ todo \in [Clients -> Seq(Steps)]
  /\ hand \in [Clients -> [seen : Values, refresh : Values, client : Values, tried : Values,
                           answer : Tokens \cup {Never}, access : Grants \cup {Never},
                           again : BOOLEAN]]
  /\ faults \in 0 .. MaxFaults /\ calls \in 0 .. MaxCalls
  /\ owed \subseteq Callers /\ lost \in BOOLEAN
  /\ settled \in Grants \cup {Never}

\* Holds a new refresh token that is on its way to the vault.
Carries(p, g) == hand[p].answer # Never /\ hand[p].answer.grant = g
                 /\ \E i \in 1 .. Len(todo[p]) : todo[p][i] \in {"answer", "persist"}

\* However many replicas and calls race for it, no rotation is dropped: unless
\* a request failed, the vault has the newest refresh token of the grant it
\* holds, or a call has it in hand and has still to write it.
NoRotationLost ==
  ~lost /\ vault["refresh"] # Never =>
    LET g == vault["refresh"].grant
    IN vault["refresh"].n = chain[g] \/ \E p \in Clients : Carries(p, g)

\* A call that overlaps no other, meets no failure and begins with a usable
\* grant in the vault is served, however stale what its replica remembers: the
\* token another replica spent is noticed, forgotten and read again.
LoneCallIsServed == \A c \in owed : Running(c)

\* authorize_calcom.py:11-12: a second run "overwrites the stored grant": from
\* when it has reported success, and nobody refuses that grant, the vault holds
\* its client and one of its refresh tokens.
AuthorizationHolds ==
  settled # Never => /\ vault["client"] = Id(settled)
                     /\ vault["refresh"] # Never /\ vault["refresh"].grant = settled
=============================================================================
