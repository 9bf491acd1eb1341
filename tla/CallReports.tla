------------------------------ MODULE CallReports ------------------------------
(***************************************************************************)
(* End-of-call reports: Vapi posts one per call, posts it again when it    *)
(* gets no 200, and may post it twice at once; the store keeps one row per *)
(* call.  Over Supabase the row is looked up in one request and written in *)
(* another, in memory it is written under a lock.                          *)
(***************************************************************************)
EXTENDS Integers, FiniteSets

CONSTANTS Reports,     \* reports; each arrival writes a row id of its own
          CallIds,     \* the ids calls have; reports without one share "unknown"
          MaxResends   \* bound

VARIABLES backend,   \* "memory" or "supabase"
          standing,  \* the tenant: "active", "archived", or "purged" with its rows
          report,    \* each report: the call it is of, where it is, the row it found
          resends,
          rows       \* public.calls: the id, the call and the report each row holds

reportVars == <<backend, standing, report, resends, rows>>

NoRow == <<>>

ReportsInit ==
  /\ backend \in {"memory", "supabase"}
  /\ standing = "active"
  /\ report \in [Reports -> [of : CallIds, at : {"sent"}, found : {NoRow}]]
  /\ resends = 0
  /\ rows = {}

\* Every attempt makes an id of its own.
Fresh(r) == <<r, resends>>

Of(id) == {row \in rows : row.of = id}

Row(r, id) == [id |-> id, of |-> report[r].of, holds |-> r]

Goes(r, where) == report' = [report EXCEPT ![r].at = where]

-------------------------------------------------------------------------------
\* POST /webhooks/vapi.  An archived or unknown tenant is no error: the report is
\* acknowledged and dropped.
Unmatched(r) ==
  /\ report[r].at = "sent" /\ standing # "active"
  /\ Goes(r, "dropped") /\ UNCHANGED <<backend, standing, resends, rows>>

\* InMemoryStore.record_call: the row of the call is replaced and keeps its id.
RecordCall(r) ==
  /\ report[r].at = "sent" /\ standing = "active" /\ backend = "memory"
  /\ LET old == Of(report[r].of)
         id  == IF old = {} THEN Fresh(r) ELSE (CHOOSE row \in old : TRUE).id
     IN rows' = (rows \ old) \cup {Row(r, id)}
  /\ Goes(r, "recorded") /\ UNCHANGED <<backend, standing, resends>>

\* SupabaseStore.arecord_call: first the row's id is asked for,
LookUpRow(r) ==
  /\ report[r].at = "sent" /\ standing = "active" /\ backend = "supabase"
  /\ LET old == Of(report[r].of)
     IN report' = [report EXCEPT ![r].at = "writing",
                                 ![r].found = IF old = {} THEN NoRow
                                              ELSE (CHOOSE row \in old : TRUE).id]
  /\ UNCHANGED <<backend, standing, resends, rows>>

Updated_OwnId(r) ==
  (rows \ {row \in rows : row.id = report[r].found}) \cup {Row(r, Fresh(r))}

\* then the row of that id is patched with everything but the id,
Updated(r) ==
  (rows \ {row \in rows : row.id = report[r].found}) \cup {Row(r, report[r].found)}

\* or one is inserted, which the unique key and the tenant's row may refuse.
Allowed(r) == Of(report[r].of) = {} /\ standing # "purged"

Effect(r) ==
  IF report[r].found # NoRow
  THEN IF \E row \in rows : row.id = report[r].found THEN {Updated(r)} ELSE {}
  ELSE IF Allowed(r) THEN {rows \cup {Row(r, Fresh(r))}} ELSE {}

WriteRow(r) ==
  /\ report[r].at = "writing"
  /\ \/ rows' \in Effect(r) /\ Goes(r, "recorded")
     \/ Effect(r) = {} /\ Goes(r, "failed") /\ UNCHANGED rows
  /\ UNCHANGED <<backend, standing, resends>>

\* A request fails, or its answer is lost after it was carried out: a 500.
RequestLost(r) ==
  /\ backend = "supabase"
  /\ \/ report[r].at = "sent" /\ standing = "active" /\ UNCHANGED rows
     \/ report[r].at = "writing" /\ rows' \in {rows} \cup Effect(r)
  /\ Goes(r, "failed") /\ UNCHANGED <<backend, standing, resends>>

\* Vapi posts again what was not acknowledged, and may post again what was.
Resend(r) ==
  /\ report[r].at \in {"failed", "recorded"} /\ resends < MaxResends
  /\ resends' = resends + 1
  /\ report' = [report EXCEPT ![r].at = "sent", ![r].found = NoRow]
  /\ UNCHANGED <<backend, standing, rows>>

\* The operator archives, restores, and purges what is archived.
SetStanding ==
  /\ \/ standing # "purged" /\ standing' \in {"active", "archived"} \ {standing}
        /\ UNCHANGED rows
     \/ standing = "archived" /\ standing' = "purged" /\ rows' = {}
  /\ UNCHANGED <<backend, report, resends>>

ReportsNext ==
  \/ \E r \in Reports : \/ Unmatched(r) \/ RecordCall(r) \/ LookUpRow(r) \/ WriteRow(r)
                         \/ RequestLost(r) \/ Resend(r)
  \/ SetStanding

ReportsSpec == ReportsInit /\ [][ReportsNext]_reportVars

-------------------------------------------------------------------------------
\* No call has two rows.
OneRow == \A a, b \in rows : a.of = b.of => a = b

\* A report that was acknowledged as recorded has its row.
Acknowledged ==
  standing # "purged" =>
    \A r \in Reports : report[r].at = "recorded" => \E row \in rows : row.of = report[r].of

\* A row keeps its id and its call until the tenant is purged.
RowsKept ==
  standing' = "purged" \/ \A a \in rows : \E b \in rows' : b.id = a.id /\ b.of = a.of

\* "Keep the existing id, replace the rest": all of this holds however reports race,
\* are lost or are posted again.
OneRowPerCall == [][OneRow' /\ Acknowledged' /\ RowsKept]_reportVars
===============================================================================
