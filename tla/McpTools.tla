------------------------------- MODULE McpTools -------------------------------
(***************************************************************************)
(* The tools a turn gets from the MCP servers of its tenant.  They are     *)
(* resolved twice: reason binds them to the model, and tools runs what the *)
(* model called.  Both read the tenant's servers, build a connection to    *)
(* each, and take the list from a cache keyed by those connections, or     *)
(* load it from the servers that answer.                                   *)
(***************************************************************************)
EXTENDS Integers, FiniteSets, Functions

CONSTANTS Turns, Servers,
          MaxTools,   \* mcp_max_tools, in servers: each offers one tool here
          MaxChanges  \* bound on edits of the server list and of secrets

VARIABLES enabled,  \* the servers the operator has enabled
          secret,   \* the version of each server's secret
          toolEntry, \* the tenant's cache entry
          turn, phase, \* where each turn is, and for which node
          conns,    \* the connections it has built
          tools,    \* what each node of each turn got
          changes

toolVars == <<enabled, secret, toolEntry, turn, phase, conns, tools, changes>>

NoTools == [of |-> <<>>, old |-> TRUE, tools |-> {}]
Unset   == [bind |-> {}, run |-> {}]

ToolsInit == /\ enabled = Servers
             /\ secret = [s \in Servers |-> 0]
             /\ toolEntry = NoTools
             /\ turn = [t \in Turns |-> "idle"]
             /\ phase = [t \in Turns |-> "bind"]
             /\ conns = [t \in Turns |-> <<>>]
             /\ tools = [t \in Turns |-> Unset]
             /\ changes = 0

\* load_mcp_tools returns to the node that asked.
Got(t, list) == /\ tools' = [tools EXCEPT ![t][phase[t]] = list]
                /\ turn' = [turn EXCEPT ![t] = IF phase[t] = "bind" THEN "thinking" ELSE "done"]

\* servers_for: the enabled servers whose rows are sound, or none when the
\* registry does not answer.
Fetch(t) ==
  /\ turn[t] \in {"idle", "thinking"}
  /\ phase' = [phase EXCEPT ![t] = IF turn[t] = "idle" THEN "bind" ELSE "run"]
  /\ \/ /\ enabled # {}
        /\ conns' = [conns EXCEPT ![t] = [s \in enabled |-> 0]]
        /\ turn' = [turn EXCEPT ![t] = "connecting"]
        /\ UNCHANGED tools
     \/ /\ conns' = [conns EXCEPT ![t] = <<>>]
        /\ turn' = [turn EXCEPT ![t] = IF turn[t] = "idle" THEN "thinking" ELSE "done"]
        /\ tools' = [tools EXCEPT ![t][phase'[t]] = {}]
  /\ UNCHANGED <<enabled, secret, toolEntry, changes>>

ToolsHit_AnyConnections(c) == ~ toolEntry.old
ToolsHit(c) == toolEntry.of = c /\ ~ toolEntry.old

\* build_connection for each server: one that is not allowed, or whose secret
\* cannot be resolved, is left out.  The cache is asked in the same step.
Connect(t) ==
  /\ turn[t] = "connecting"
  /\ \E usable \in SUBSET DOMAIN conns[t] :
       LET c == [s \in usable |-> secret[s]]
       IN /\ conns' = [conns EXCEPT ![t] = c]
          /\ IF usable = {} THEN Got(t, {})
             ELSE IF ToolsHit(c) THEN Got(t, toolEntry.tools)
             ELSE turn' = [turn EXCEPT ![t] = "loading"] /\ UNCHANGED tools
  /\ UNCHANGED <<enabled, secret, toolEntry, phase, changes>>

\* _load_fresh: the tools of the servers that answer in time, cut to the first
\* MaxTools.  What did not answer is cached as absent.
Cut(list) == IF Cardinality(list) <= MaxTools THEN {list}
             ELSE {l \in SUBSET list : Cardinality(l) = MaxTools}

Load(t) ==
  /\ turn[t] = "loading"
  /\ \E up \in SUBSET DOMAIN conns[t] :
     \E list \in Cut({<<s, conns[t][s]>> : s \in up}) :
       /\ Got(t, list)
       /\ toolEntry' = [of |-> conns[t], old |-> FALSE, tools |-> list]
  /\ UNCHANGED <<enabled, secret, phase, conns, changes>>

TurnAgain(t) == /\ turn[t] = "done"
                /\ turn' = [turn EXCEPT ![t] = "idle"]
                /\ conns' = [conns EXCEPT ![t] = <<>>]
                /\ tools' = [tools EXCEPT ![t] = Unset]
                /\ UNCHANGED <<enabled, secret, toolEntry, phase, changes>>

\* mcp_tool_cache_ttl_seconds pass.
AgeTools == /\ ~ toolEntry.old
            /\ toolEntry' = [toolEntry EXCEPT !.old = TRUE]
            /\ UNCHANGED <<enabled, secret, turn, phase, conns, tools, changes>>

\* An operator edits the list, or a secret or access token is replaced.
EditServers == /\ changes < MaxChanges
               /\ changes' = changes + 1
               /\ \/ \E s \in Servers : secret' = [secret EXCEPT ![s] = @ + 1] /\ UNCHANGED enabled
                  \/ enabled' \in SUBSET Servers \ {enabled} /\ UNCHANGED secret
               /\ UNCHANGED <<toolEntry, turn, phase, conns, tools>>

ToolsNext == \/ \E t \in Turns : Fetch(t) \/ Connect(t) \/ Load(t) \/ TurnAgain(t)
             \/ AgeTools \/ EditServers

ToolsSpec == ToolsInit /\ [][ToolsNext]_toolVars

-------------------------------------------------------------------------------
\* A turn that got its tools in this step got tools of servers it has connected to.
GetsItsOwn(t) ==
  turn[t] \in {"connecting", "loading"} /\ turn'[t] \in {"thinking", "done"} =>
    \A tool \in tools'[t][phase[t]] :
      tool[1] \in DOMAIN conns'[t] /\ tool[2] = conns'[t][tool[1]]

\* Whatever is cached and whoever loaded it, a node gets only tools of servers
\* it has itself just read and connected to, with the secrets it resolved.
OnlyItsConnections == [][\A t \in Turns : GetsItsOwn(t)]_toolVars

\* "One cached list per tenant per TTL makes bind and execute provably the same
\* set": what the model was given is what its calls are run against.
BindIsExecute == \A t \in Turns : turn[t] = "done" => tools[t].run = tools[t].bind
===============================================================================
