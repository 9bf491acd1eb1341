---------------------------- MODULE TenantConfig ----------------------------
(***************************************************************************)
(* One tenant's configuration: src/app/tenancy/admin.py and sync.py write  *)
(* it to Postgres, one HTTP request at a time and without transactions;    *)
(* supabase_repository.py and loader.py serve it from memory.              *)
(*                                                                         *)
(* An operation of the admin panel is a process: `todo[p]` is what it has  *)
(* still to do, one step per request it sends.  Any request may fail, and  *)
(* any write may be applied and its answer lost; requests of different     *)
(* operations interleave.  The background refresh of main.py is one more   *)
(* process, Loop.                                                          *)
(*                                                                         *)
(* A configuration is a model value.  What it lists in the child tables is *)
(* one row, named after it: enough to tell two lists apart.                *)
(***************************************************************************)
EXTENDS Naturals, Sequences

CONSTANTS Ops,        \* admin operations; each runs once
          Loop,       \* the background refresh
          Configs,    \* what a tenant can be configured as
          Voiced,     \* the configurations that name a cloned voice
          Blank,      \* the default `config` of a row that never had one
          Origin,     \* what happened before this model begins
          None,       \* no row, no draft, nothing in memory
          MaxFaults,  \* bound: requests that fail
          KindsUsed,  \* the operations this instance runs
          Serving     \* TRUE: with turns, expiry and the background refresh

Kinds == {"draft", "discard", "deploy", "switch", "delete", "create", "status", "purge"}
Procs == Ops \cup {Loop}

ASSUME BoundsAssumption == /\ MaxFaults \in Nat
                           /\ Voiced \subseteq Configs
                           /\ KindsUsed \subseteq Kinds
                           /\ Serving \in BOOLEAN
ASSUME NamesAssumption  == /\ Blank \notin Configs
                           /\ Loop \notin Ops
                           /\ Origin \notin Ops
                           /\ None \notin Ops \cup {Origin}

Statuses == {"active", "archived", "onboarding"}
Tables == {"services", "mcp_servers"}
Docs == [cfg : Configs, status : Statuses, menu : SUBSET Configs]
Rows == [cfg : Configs \cup {Blank}, status : Statuses]
Drafts == [doc : Docs, stamp : Ops \cup {Origin}]
Versions == [id : Ops \cup {Origin}, n : Nat, doc : Docs, live : BOOLEAN]

ASSUME NoneAssumption == None \notin Docs \cup Rows \cup Drafts

Quiet == <<>>
\* Slip: rows the configuration no longer lists are left (before Phase 8).
Sync_UpsertsOnly == <<"put_row", "put_services", "put_servers", "drop_servers">>
Sync == <<"put_row", "put_services", "put_servers", "drop_services", "drop_servers">>
Refresh == <<"clear", "fetch", "install">>
\* Slip: consent is looked up when the tables have been written.
Save_ChecksLate == Sync \o <<"current", "consent">> \o Refresh
Save == <<"current", "consent">> \o Sync \o Refresh

\* Slip: a deploy records its version before it writes live.
Program_RecordsFirst(k) ==
  CASE k = "draft"   -> <<"open", "base", "match", "write_draft">>
    [] k = "discard" -> <<"clear_draft">>
    [] k = "deploy"  -> <<"read_draft", "max", "unset", "insert">> \o Save \o <<"clear_draft">>
    [] k = "switch"  -> <<"read_version">> \o Save \o <<"unset", "flip">>
    [] k = "delete"  -> <<"read_version", "delete">>
    [] k = "create"  -> <<"absent">> \o Sync \o <<"activate">> \o Sync \o <<"insert">> \o Refresh
    [] k = "status"  -> Sync \o Refresh
    [] k = "purge"   -> <<"purge_history", "purge_services", "purge_servers",
                          "purge_consents", "purge_versions", "purge_row">> \o Refresh

\* What each operation does, in order.
Program(k) ==
  CASE k = "draft"   -> <<"open", "base", "match", "write_draft">>
    [] k = "discard" -> <<"clear_draft">>
    [] k = "deploy"  -> <<"read_draft">> \o Save
                          \o <<"max", "unset", "insert", "clear_draft">>
    [] k = "switch"  -> <<"read_version">> \o Save \o <<"unset", "flip">>
    [] k = "delete"  -> <<"read_version", "delete">>
    [] k = "create"  -> <<"absent">> \o Sync \o <<"activate">> \o Sync
                          \o <<"insert">> \o Refresh
    [] k = "status"  -> Sync \o Refresh
    [] k = "purge"   -> <<"purge_history", "purge_services", "purge_servers",
                          "purge_consents", "purge_versions", "purge_row">> \o Refresh

Steps == {"put_row", "put_services", "put_servers", "drop_services", "drop_servers",
          "clear", "fetch", "install", "current", "consent", "open", "base", "match",
          "write_draft", "clear_draft", "read_draft", "max", "unset", "insert",
          "read_version", "flip", "delete", "absent", "activate", "purge_history",
          "purge_services", "purge_servers", "purge_consents", "purge_versions",
          "purge_row"}
Local == {"clear", "install", "activate"}  \* no request is sent

VARIABLES
  row,       \* the tenants row: config and status
  tables,    \* services and mcp_servers
  draft,     \* tenants.draft_config and draft_updated_at
  versions,  \* tenant_versions
  consent,   \* a voice_consents row exists
  snapshot,  \* SupabaseTenantRepository._snapshot
  cache,     \* the loader's _cache
  todo, kind, result,
  hand,      \* each process's local variables
  faults,
  asked,     \* history: configurations an operator asked to publish
  written,   \* history: documents whose sync_tenant returned
  wrote,     \* history: operations that have changed the database
  alone      \* history: operations no other operation overlapped

database == <<row, tables, draft, versions, consent>>
memory == <<snapshot, cache>>
control == <<todo, kind, result, faults>>
history == <<asked, written, wrote, alone>>
vars == <<database, memory, control, hand, history>>

Whole(c, s) == [cfg |-> c, status |-> s, menu |-> {c}]
Live == {v \in versions : v.live}

\* What a refresh makes of the row: a blank config fails validation.
Stored == IF row = None THEN None
          ELSE IF row.cfg = Blank THEN None
          ELSE [cfg |-> row.cfg, status |-> row.status, menu |-> tables["services"]]

Listed(d, t) == IF t = "services" THEN d.menu ELSE {d.cfg}

\* get_tenant_config: the cached document while it lasts, else the snapshot's.
Served == IF cache # None THEN cache ELSE snapshot

Empty == [doc |-> None, ver |-> None, num |-> 0, stamp |-> None, rows |-> None]

Init ==
  /\ \E c \in Configs, s \in {"active", "archived"} :
       /\ row \in {None, [cfg |-> c, status |-> s]}
       /\ tables = [t \in Tables |-> IF row = None THEN {} ELSE {c}]
       /\ versions = IF row = None THEN {}
                     ELSE {[id |-> Origin, n |-> 1, doc |-> Whole(c, s), live |-> TRUE]}
       /\ draft \in IF row = None THEN {None}
                    ELSE {None} \cup {[doc |-> Whole(d, s), stamp |-> Origin] : d \in Configs \ {c}}
       /\ consent \in BOOLEAN
       /\ c \in Voiced => consent
       /\ snapshot = IF row = None THEN None ELSE Whole(c, s)
       /\ asked = IF row = None THEN {} ELSE {c}
       /\ written = IF row = None THEN {} ELSE {Whole(c, s)}
  /\ cache \in {None, snapshot}
  /\ todo = [p \in Procs |-> Quiet]
  /\ kind = [p \in Ops |-> "draft"]
  /\ result = [p \in Ops |-> "idle"]
  /\ hand = [p \in Procs |-> Empty]
  /\ faults = 0
  /\ wrote = {}
  /\ alone = [p \in Ops |-> TRUE]

-----------------------------------------------------------------------------
(* How a step ends. *)

At(p, s) == todo[p] # Quiet /\ Head(todo[p]) = s
Rest(p) == Tail(todo[p])

\* An answer that is not a success counts against MaxFaults.
Counted(ok) == IF ok THEN UNCHANGED faults ELSE faults < MaxFaults /\ faults' = faults + 1

Continue(p, rest) ==
  /\ todo' = [todo EXCEPT ![p] = rest]
  /\ result' = IF rest = Quiet /\ p \in Ops THEN [result EXCEPT ![p] = "ok"] ELSE result
  /\ UNCHANGED kind

Stop(p, why) ==
  /\ todo' = [todo EXCEPT ![p] = Quiet]
  /\ result' = [result EXCEPT ![p] = why]
  /\ UNCHANGED kind

\* A write is applied; its answer arrives, or is lost and the operation raises.
Applied(p) ==
  \E ok \in BOOLEAN :
    /\ Counted(ok)
    /\ IF ok THEN Continue(p, Rest(p)) ELSE Stop(p, "failed")
    /\ wrote' = wrote \cup {p}
    /\ UNCHANGED <<memory, hand, asked, alone>>

\* The operation ends here, with nothing changed by this step.
Ends(p, why) == Stop(p, why) /\ UNCHANGED <<database, memory, hand, history>>
Refused(p, why) == UNCHANGED faults /\ Ends(p, why)

\* A read is answered and the local variables become h.
Learns(p, h, rest) ==
  /\ hand' = [hand EXCEPT ![p] = h]
  /\ Continue(p, rest)
  /\ UNCHANGED <<database, snapshot, written, wrote, alone>>

\* A request that gets no answer, or a write that is refused: the operation
\* raises.  A failed refresh does not (see Fetch).
RequestFails(p) ==
  /\ p \in Ops
  /\ todo[p] # Quiet
  /\ Head(todo[p]) \notin Local \cup {"fetch"}
  /\ Counted(FALSE)
  /\ Ends(p, "failed")

-----------------------------------------------------------------------------
(* admin.py: drafts. *)

\* The panel loads the tenant and keeps _draft_version for the If-Match header.
Open(p) ==
  /\ At(p, "open")
  /\ Learns(p, [hand[p] EXCEPT !.stamp = IF draft = None THEN None ELSE draft.stamp], Rest(p))
  /\ UNCHANGED <<faults, cache, asked>>

\* put_tenant merges the edit onto the draft if there is one, else onto what
\* is served.  A read of the draft answered with an error status is no draft.
Base(p) ==
  /\ At(p, "base")
  /\ IF Served = None THEN Refused(p, "rejected") ELSE
     \E ok \in BOOLEAN :
       LET base == IF ok /\ draft # None THEN draft.doc ELSE Served
           rest == IF hand[p].stamp = None THEN Tail(Rest(p)) ELSE Rest(p)
       IN /\ Counted(ok)
          /\ Learns(p, [hand[p] EXCEPT !.doc.status = base.status], rest)
          /\ cache' = Served
          /\ UNCHANGED asked

\* save_draft compares If-Match with a read of its own, one request before the write.
Match(p) ==
  /\ At(p, "match")
  /\ \E ok \in BOOLEAN :
       LET stored == IF ok /\ draft # None THEN draft.stamp ELSE None
       IN /\ Counted(ok)
          /\ IF stored = hand[p].stamp
             THEN Learns(p, hand[p], Rest(p)) /\ UNCHANGED <<cache, asked>>
             ELSE Ends(p, "rejected")

\* Slip: the draft is written where the live configuration is.
WriteDraft_Live(p) ==
  /\ At(p, "write_draft")
  /\ draft' = [doc |-> hand[p].doc, stamp |-> p]
  /\ row' = [cfg |-> hand[p].doc.cfg, status |-> hand[p].doc.status]
  /\ Applied(p)
  /\ UNCHANGED <<tables, versions, consent, written>>

\* The upsert makes a row of defaults when a purge has removed it.
WriteDraft(p) ==
  /\ At(p, "write_draft")
  /\ draft' = [doc |-> hand[p].doc, stamp |-> p]
  /\ row' = IF row = None THEN [cfg |-> Blank, status |-> "active"] ELSE row
  /\ Applied(p)
  /\ UNCHANGED <<tables, versions, consent, written>>

ClearDraft(p) ==
  /\ At(p, "clear_draft")
  /\ draft' = None
  /\ Applied(p)
  /\ UNCHANGED <<row, tables, versions, consent, written>>

ReadDraft(p) ==
  /\ At(p, "read_draft")
  /\ \E ok \in BOOLEAN :
       /\ Counted(ok)
       /\ IF ok /\ draft # None
          THEN /\ Learns(p, [hand[p] EXCEPT !.doc = draft.doc], Rest(p))
               /\ asked' = asked \cup {draft.doc.cfg}
               /\ UNCHANGED cache
          ELSE Ends(p, "rejected")

-----------------------------------------------------------------------------
(* save_tenant and sync_tenant. *)

\* A voice the row does not already have needs consent; an unreadable row has none.
Current(p) ==
  /\ At(p, "current")
  /\ \E ok \in BOOLEAN :
       LET had == ok /\ row # None /\ row.cfg \in Voiced
           rest == IF hand[p].doc.cfg \in Voiced /\ ~had THEN Rest(p) ELSE Tail(Rest(p))
       IN Counted(ok) /\ Learns(p, hand[p], rest) /\ UNCHANGED <<cache, asked>>

Consent(p) ==
  /\ At(p, "consent")
  /\ \E ok \in BOOLEAN :
       /\ Counted(ok)
       /\ IF ok /\ consent
          THEN Learns(p, hand[p], Rest(p)) /\ UNCHANGED <<cache, asked>>
          ELSE Ends(p, "rejected")

\* The trigger of 0005_voice_consent.sql runs before every insert, so before
\* every upsert.  save_tenant turns its error into VoiceConsentRequiredError.
PutRow(p) ==
  /\ At(p, "put_row")
  /\ IF hand[p].doc.cfg \in Voiced /\ ~consent
     THEN Refused(p, IF kind[p] \in {"deploy", "switch"} THEN "rejected" ELSE "failed")
     ELSE /\ row' = [cfg |-> hand[p].doc.cfg, status |-> hand[p].doc.status]
          /\ Applied(p)
          /\ UNCHANGED <<tables, draft, versions, consent, written>>

\* The child rows reference the tenants row.
PutRows(p, s, t) ==
  /\ At(p, s)
  /\ LET rows == Listed(hand[p].doc, t)
     IN IF row = None /\ rows # {} THEN Refused(p, "failed")
        ELSE /\ tables' = [tables EXCEPT ![t] = @ \cup rows]
             /\ Applied(p)
             /\ UNCHANGED <<row, draft, versions, consent, written>>

\* _delete_absent_services, _delete_absent_mcp_servers
DropRows(p, s, t) ==
  /\ At(p, s)
  /\ tables' = [tables EXCEPT ![t] = @ \cap Listed(hand[p].doc, t)]
  /\ Applied(p)
  /\ written' = IF s = "drop_servers" /\ todo'[p] # Quiet
                THEN written \cup {hand[p].doc} ELSE written
  /\ UNCHANGED <<row, draft, versions, consent>>

-----------------------------------------------------------------------------
(* refresh_tenant_repository: clear the cache, read, replace the snapshot. *)

Clear(p) ==
  /\ At(p, "clear")
  /\ cache' = None
  /\ Continue(p, Rest(p))
  /\ UNCHANGED <<faults, database, snapshot, hand, history>>

\* refresh never raises: when it fails, also on its second attempt, the old
\* snapshot stays.
Fetch(p) ==
  /\ At(p, "fetch")
  /\ \E ok \in BOOLEAN :
       /\ Counted(ok)
       /\ IF ok THEN Learns(p, [hand[p] EXCEPT !.rows = Stored], Rest(p))
          ELSE Learns(p, hand[p], Tail(Rest(p)))
  /\ UNCHANGED <<cache, asked>>

\* Slip: only the first load replaces the snapshot.
Install_KeepsFirst(p) ==
  /\ At(p, "install")
  /\ snapshot' = IF snapshot = None THEN hand[p].rows ELSE snapshot
  /\ hand' = [hand EXCEPT ![p].rows = None]
  /\ Continue(p, Rest(p))
  /\ UNCHANGED <<faults, database, cache, history>>

Install(p) ==
  /\ At(p, "install")
  /\ snapshot' = hand[p].rows
  /\ hand' = [hand EXCEPT ![p].rows = None]
  /\ Continue(p, Rest(p))
  /\ UNCHANGED <<faults, database, cache, history>>

-----------------------------------------------------------------------------
(* The version history. *)

\* The highest number, or 0 when the read is answered with an error status.
MaxVersion(p) ==
  /\ At(p, "max")
  /\ \E ok \in BOOLEAN, top \in {0} \cup {v.n : v \in versions} :
       /\ \A v \in versions : v.n <= top
       /\ Counted(ok)
       /\ Learns(p, [hand[p] EXCEPT !.num = IF ok THEN top ELSE 0], Rest(p))
  /\ UNCHANGED <<cache, asked>>

Unset(p) ==
  /\ At(p, "unset")
  /\ versions' = {[v EXCEPT !.live = FALSE] : v \in versions}
  /\ Applied(p)
  /\ UNCHANGED <<row, tables, draft, consent, written>>

\* Numbers are unique and so is the live row (0012_versions.sql).
Insert(p) ==
  LET new == [id |-> p, n |-> hand[p].num + 1, doc |-> hand[p].doc, live |-> TRUE]
  IN /\ At(p, "insert")
     /\ IF row = None \/ Live # {} \/ \E v \in versions : v.n = new.n
        THEN Refused(p, "failed")
        ELSE /\ versions' = versions \cup {new}
             /\ Applied(p)
             /\ UNCHANGED <<row, tables, draft, consent, written>>

\* switch_to_version reads the version to publish, delete_version to see
\* whether it is live.  An error status is no such version.
ReadVersion(p) ==
  /\ At(p, "read_version")
  /\ \E ok \in BOOLEAN :
       LET found == IF ok THEN {v \in versions : v.id = hand[p].ver} ELSE {}
       IN /\ Counted(ok)
          /\ IF found = {} \/ (kind[p] = "delete" /\ \E v \in found : v.live)
             THEN Ends(p, "rejected")
             ELSE \E v \in found : /\ Learns(p, [hand[p] EXCEPT !.doc = v.doc], Rest(p))
                                   /\ UNCHANGED <<cache, asked>>

\* The PATCH succeeds when the version is gone: it matches no row.
Flip(p) ==
  /\ At(p, "flip")
  /\ IF /\ \E v \in versions : v.id = hand[p].ver
        /\ \E v \in Live : v.id # hand[p].ver
     THEN Refused(p, "failed")
     ELSE /\ versions' = {[v EXCEPT !.live = @ \/ v.id = hand[p].ver] : v \in versions}
          /\ Applied(p)
          /\ UNCHANGED <<row, tables, draft, consent, written>>

Delete(p) ==
  /\ At(p, "delete")
  /\ versions' = {v \in versions : v.id # hand[p].ver}
  /\ Applied(p)
  /\ UNCHANGED <<row, tables, draft, consent, written>>

-----------------------------------------------------------------------------
(* create_tenant and purge_tenant. *)

\* An unreadable row is no row.
Absent(p) ==
  /\ At(p, "absent")
  /\ \E ok \in BOOLEAN :
       /\ Counted(ok)
       /\ IF ok /\ row # None THEN Ends(p, "rejected")
          ELSE Learns(p, hand[p], Rest(p)) /\ UNCHANGED <<cache, asked>>

\* The second write carries the status the bot is to have.
Activate(p) ==
  /\ At(p, "activate")
  /\ Learns(p, [hand[p] EXCEPT !.doc.status = "active"], Rest(p))
  /\ UNCHANGED <<faults, cache, asked>>

\* The tables of _PURGE_TABLES in order; the first eight are not modelled.
PurgeHistory(p) ==
  At(p, "purge_history") /\ Applied(p) /\ UNCHANGED <<database, written>>

PurgeRows(p, s, t) ==
  /\ At(p, s)
  /\ tables' = [tables EXCEPT ![t] = {}]
  /\ Applied(p)
  /\ UNCHANGED <<row, draft, versions, consent, written>>

PurgeConsents(p) ==
  /\ At(p, "purge_consents")
  /\ consent' = FALSE
  /\ Applied(p)
  /\ UNCHANGED <<row, tables, draft, versions, written>>

PurgeVersions(p) ==
  /\ At(p, "purge_versions")
  /\ versions' = {}
  /\ Applied(p)
  /\ UNCHANGED <<row, tables, draft, consent, written>>

\* The row takes its draft along and, by the foreign keys, its children.
PurgeRow(p) ==
  /\ At(p, "purge_row")
  /\ row' = None
  /\ draft' = None
  /\ tables' = [t \in Tables |-> {}]
  /\ versions' = {}
  /\ consent' = FALSE
  /\ Applied(p)
  /\ UNCHANGED written

-----------------------------------------------------------------------------
(* Operations begin; the rest of the system. *)

\* set_tenant_status and purge_tenant start from what is served, not from the
\* row; a switch or a delete from the list of versions.
Hands(k) ==
  CASE k = "create" -> {[Empty EXCEPT !.doc = Whole(c, "onboarding")] : c \in Configs}
    [] k = "draft"  -> {[Empty EXCEPT !.doc = Whole(c, "active")] : c \in Configs}
    [] k \in {"switch", "delete"} -> {[Empty EXCEPT !.ver = v.id] : v \in versions}
    [] k = "status" -> IF Served = None THEN {} ELSE
         {[Empty EXCEPT !.doc = [Served EXCEPT !.status = s]] : s \in {"active", "archived"}}
    [] k = "purge"  -> IF Served = None THEN {} ELSE {Empty : x \in {Served.status} \cap {"archived"}}
    [] OTHER -> {Empty}

Running(p) == result[p] = "running"

Begin(p, k) ==
  /\ result[p] = "idle"
  /\ \E h \in Hands(k) :
       /\ hand' = [hand EXCEPT ![p] = h]
       /\ asked' = IF k = "create" THEN asked \cup {h.doc.cfg} ELSE asked
  /\ todo' = [todo EXCEPT ![p] = Program(k)]
  /\ kind' = [kind EXCEPT ![p] = k]
  /\ result' = [result EXCEPT ![p] = "running"]
  /\ alone' = [q \in Ops |-> IF q = p THEN \A r \in Ops : ~Running(r)
                             ELSE alone[q] /\ ~Running(q)]
  /\ cache' = IF k \in {"status", "purge"} THEN Served ELSE cache
  /\ UNCHANGED <<faults, database, snapshot, written, wrote>>

\* Any turn, route or tool that asks for the configuration.
Turn ==
  /\ Serving
  /\ cache = None
  /\ cache' = Served
  /\ UNCHANGED <<database, snapshot, control, hand, history>>

\* TENANT_CACHE_TTL_SECONDS after it was cached.
Expire ==
  /\ Serving
  /\ cache # None
  /\ cache' = None
  /\ UNCHANGED <<database, snapshot, control, hand, history>>

\* _tenant_snapshot_refresh_loop
Tick ==
  /\ Serving
  /\ todo[Loop] = Quiet
  /\ todo' = [todo EXCEPT ![Loop] = <<"fetch", "install">>]
  /\ UNCHANGED <<database, memory, kind, result, faults, hand, history>>

\* onboard_tenant.py records a consent while the service runs.
RecordConsent ==
  /\ row # None
  /\ ~consent
  /\ consent' = TRUE
  /\ UNCHANGED <<row, tables, draft, versions, memory, control, hand, history>>

Step(p) ==
  \/ Open(p) \/ Base(p) \/ Match(p) \/ WriteDraft(p) \/ ClearDraft(p) \/ ReadDraft(p)
  \/ Current(p) \/ Consent(p) \/ PutRow(p)
  \/ PutRows(p, "put_services", "services") \/ PutRows(p, "put_servers", "mcp_servers")
  \/ DropRows(p, "drop_services", "services") \/ DropRows(p, "drop_servers", "mcp_servers")
  \/ MaxVersion(p) \/ Unset(p) \/ Insert(p) \/ ReadVersion(p) \/ Flip(p) \/ Delete(p)
  \/ Absent(p) \/ Activate(p) \/ PurgeHistory(p)
  \/ PurgeRows(p, "purge_services", "services") \/ PurgeRows(p, "purge_servers", "mcp_servers")
  \/ PurgeConsents(p) \/ PurgeVersions(p) \/ PurgeRow(p)
  \/ RequestFails(p)

Refreshing(p) == Clear(p) \/ Fetch(p) \/ Install(p)

Next ==
  \/ \E p \in Ops, k \in KindsUsed : Begin(p, k)
  \/ \E p \in Ops : Step(p)
  \/ \E p \in Procs : Refreshing(p)
  \/ Turn \/ Expire \/ Tick \/ RecordConsent

Spec == Init /\ [][Next]_vars

\* Requests have timeouts, so an operation that has begun goes on to its end;
\* the background loop runs for as long as the service does; time passes.
Fairness ==
  /\ \A p \in Ops : WF_vars(Step(p))
  /\ \A p \in Procs : WF_vars(Refreshing(p))
  /\ WF_vars(Tick)
  /\ WF_vars(Expire)

FairSpec == Spec /\ Fairness

-----------------------------------------------------------------------------
(* Properties. *)

DocOrNone == Docs \cup {None}

\* Every variable keeps its type: a blank row in particular is never served.
TypeOK ==
  /\ row \in Rows \cup {None}
  /\ tables \in [Tables -> SUBSET Configs]
  /\ draft \in Drafts \cup {None}
  /\ versions \in SUBSET Versions
  /\ consent \in BOOLEAN
  /\ snapshot \in DocOrNone
  /\ cache \in DocOrNone
  /\ todo \in [Procs -> Seq(Steps)]
  /\ kind \in [Ops -> Kinds]
  /\ result \in [Ops -> {"idle", "running", "ok", "rejected", "failed"}]
  /\ hand \in [Procs -> [doc : DocOrNone, ver : Ops \cup {Origin, None}, num : Nat,
                         stamp : Ops \cup {Origin, None}, rows : DocOrNone]]
  /\ faults \in 0 .. MaxFaults
  /\ asked \subseteq Configs
  /\ written \subseteq Docs
  /\ wrote \subseteq Ops
  /\ alone \in [Ops -> BOOLEAN]

\* "A failed live write must never leave a version row claiming to be live"
\* (deploy_tenant): whatever the history lists was once written in full to
\* the row and both child tables.
VersionsWereLive == \A v \in versions : v.doc \in written

\* "A rejected write must leave nothing behind to roll back" (save_tenant):
\* an operation that ends in a conflict has changed nothing.
RejectedWroteNothing == \A p \in Ops : result[p] = "rejected" => p \notin wrote

\* "A draft can never leak live" (save_draft): a configuration nobody asked to
\* publish is in no table and not in memory, however stale what is written back.
OnlyAskedIsSeen ==
  /\ row # None => row.cfg \in asked \cup {Blank}
  /\ \A t \in Tables : tables[t] \subseteq asked
  /\ \A v \in versions : v.doc.cfg \in asked
  /\ \A d \in {snapshot, cache} \ {None} : d.cfg \in asked /\ d.menu \subseteq asked

\* What each operation promises.
Published(d) ==
  /\ row = [cfg |-> d.cfg, status |-> d.status]
  /\ \A t \in Tables : tables[t] = Listed(d, t)

Kept(p) ==
  CASE kind[p] = "deploy"  -> Published(hand[p].doc) /\ draft = None
                              /\ \E v \in Live : v.id = p /\ v.doc = hand[p].doc
    [] kind[p] = "switch"  -> Published(hand[p].doc) /\ \E v \in Live : v.id = hand[p].ver
    [] kind[p] = "create"  -> Published(hand[p].doc) /\ \E v \in Live : v.id = p
    [] kind[p] = "status"  -> Published(hand[p].doc)
    [] kind[p] = "draft"   -> draft = [doc |-> hand[p].doc, stamp |-> p]
    [] kind[p] = "discard" -> draft = None
    [] kind[p] = "delete"  -> \A v \in versions : v.id # hand[p].ver
    [] kind[p] = "purge"   -> row = None /\ versions = {} /\ ~consent /\ draft = None
                              /\ \A t \in Tables : tables[t] = {}

\* An operation that no other overlapped and that reports success has done,
\* over all its requests, what it promises: the tables and the history agree.
AloneKeepsItsPromise ==
  [][\A p \in Ops : result[p] # "ok" /\ result'[p] = "ok" /\ alone'[p] => Kept(p)']_vars

\* Whatever went wrong in between, once the operations are over the service
\* comes to serve what the tables hold.
ServesWhatIsStored == <>[](snapshot = Stored /\ Served = Stored)

\* delete_version: "a tenant with no live version is a worse bug than refusing
\* the request": with the operations over, a tenant with a history has one live.
AlwaysLive == (\A p \in Ops : ~Running(p)) /\ versions # {} => Live # {}

\* set_tenant_status: "a pure status flip, nothing else about the tenant
\* changes": even when no other operation is under way, and none has failed,
\* the row it writes keeps its configuration.
StatusFlipOnly ==
  [][\A p \in Ops : kind[p] = "status" /\ alone[p] /\ PutRow(p) /\ row # None
                      => row'.cfg = row.cfg]_vars
=============================================================================
