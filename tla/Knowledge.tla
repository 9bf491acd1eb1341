------------------------------- MODULE Knowledge ------------------------------
(***************************************************************************)
(* The knowledge base of one tenant: documents, the chunks search reads,   *)
(* and the background tasks that turn a text into chunks.  A route answers *)
(* as soon as the document's row exists; the task goes on alone, beside    *)
(* others, a delete, the hourly sweep and a restart of the process.  Each  *)
(* step ends at the next request to the store or to the embedding service. *)
(***************************************************************************)
EXTENDS Integers, FiniteSetsExt

CONSTANTS Docs,
          Tasks,       \* ingestion tasks, numbered in the order they start
          Stores,      \* "supabase" and "memory"
          Quota,       \* knowledge.max_chunks
          MaxPieces,   \* bound on the chunks of one text
          MaxLost,     \* bound on requests to the store that fail
          MaxRestarts

ASSUME PiecesAssumption == MaxPieces \in Nat
ASSUME QuotaAssumption == IsFiniteSet(Docs) /\ Quota \in Nat

VARIABLES store,    \* which store this process runs on
          docs,     \* the documents' rows
          chunks,   \* the chunks: <<document, task, ordinal>>, under ids of their own
          task,     \* the tasks
          alone,    \* history: tasks beside which no other ran
          surplus,  \* history: documents with chunks that their row will not count
          lost, restarts

knowledgeVars == <<store, docs, chunks, task, alone, surplus, lost, restarts>>

NoDoc   == [status |-> "none", source |-> "none", count |-> 0, old |-> FALSE]
NotYet  == [at |-> "unused", doc |-> CHOOSE d \in Docs : TRUE, pieces |-> 0]
Ended   == [NotYet EXCEPT !.at = "over"]
Settled == {"none", "ready", "failed", "deleted"}
Exists(d) == docs[d].status \notin {"none", "deleted"}
Running == {t \in Tasks : task[t].at \notin {"unused", "over"}}

KnowledgeInit == /\ store \in Stores
                 /\ docs = [d \in Docs |-> NoDoc]
                 /\ chunks = {}
                 /\ task = [t \in Tasks |-> NotYet]
                 /\ alone = {} /\ surplus = {}
                 /\ lost = 0 /\ restarts = 0

\* asyncio.create_task: the next task begins on d, at its first request or at
\* the extraction of a file.
Launch(d, from) ==
  \E t \in Tasks :
    /\ task[t].at = "unused" /\ \A u \in Tasks : task[u].at = "unused" => t <= u
    /\ task' = [task EXCEPT ![t].at = from, ![t].doc = d]
    /\ alone' = IF Running = {} THEN {t} ELSE {}

\* A request fails: it may have been carried out all the same.
Lose == /\ store = "supabase" /\ lost < MaxLost
        /\ lost' = lost + 1

-------------------------------------------------------------------------------
\* The routes of the panel.

\* A pasted text, a file, or a page of a crawl; the row of a page fetched alone is
\* that of a text.
Source(kind) == IF kind = "page" THEN "url" ELSE IF kind = "file" THEN "file" ELSE "text"

Add(d, kind) ==
  /\ docs[d].status = "none"
  /\ docs' = [docs EXCEPT ![d].status = "pending", ![d].source = Source(kind)]
  /\ \/ Launch(d, IF kind = "file" THEN "extract" ELSE "index") /\ UNCHANGED lost
     \/ Lose /\ UNCHANGED <<task, alone>>
  /\ UNCHANGED <<store, chunks, surplus, restarts>>

\* The page or the site cannot be fetched: a row says so, without a task.
AddUnfetched(d) ==
  /\ docs[d].status = "none"
  /\ docs' = [docs EXCEPT ![d].status = "failed", ![d].source = "url"]
  /\ UNCHANGED <<store, chunks, task, alone, surplus, lost, restarts>>

Reindex(d) ==
  /\ Exists(d) /\ docs[d].source = "url"
  /\ Launch(d, "index")
  /\ UNCHANGED <<store, docs, chunks, surplus, lost, restarts>>

\* The chunks go with the row.
Delete(d) ==
  /\ Exists(d)
  /\ docs' = [docs EXCEPT ![d] = [NoDoc EXCEPT !.status = "deleted"]]
  /\ chunks' = {c \in chunks : c[1] # d}
  /\ surplus' = surplus \ {d}
  /\ UNCHANGED <<store, task, alone, lost, restarts>>

-------------------------------------------------------------------------------
\* The task.
Go(t, where) == task' = [task EXCEPT ![t] = IF where = "over" THEN Ended
                                            ELSE [@ EXCEPT !.at = where]]

\* The text is read, or an ExtractionError is recorded; any other error, a malformed
\* CSV's say, ends the task and leaves the row as it is.
Extract(t) ==
  /\ task[t].at = "extract"
  /\ \E where \in {"index", "unread", "over"} : Go(t, where)
  /\ UNCHANGED <<store, docs, chunks, alone, surplus, lost, restarts>>

\* What a status update writes, where the task goes after it, and where an error
\* takes it: to the handler that records the failure, or out of the task.
Written(t) == IF task[t].at = "index" THEN "indexing"
              ELSE IF task[t].at = "ready" THEN "ready" ELSE "failed"
After(t)   == IF task[t].at = "index" THEN "list" ELSE "over"
OnError(t) == IF task[t].at \in {"unread", "record"} THEN "over" ELSE "record"

\* aset_document_status: the count is written with "ready" only.
Marked(t) == [docs EXCEPT ![task[t].doc].status = Written(t),
                          ![task[t].doc].count = IF Written(t) = "ready" THEN task[t].pieces
                                                                         ELSE @]

Mark(t) ==
  /\ task[t].at \in {"index", "ready", "fail", "record", "unread"}
  /\ \/ /\ Exists(task[t].doc)
        /\ docs' = Marked(t) /\ Go(t, After(t)) /\ UNCHANGED <<surplus, lost>>
     \/ ~ Exists(task[t].doc) /\ Go(t, OnError(t)) /\ UNCHANGED <<docs, surplus, lost>>
     \/ /\ Lose
        /\ docs' \in {docs, IF Exists(task[t].doc) THEN Marked(t) ELSE docs}
        /\ surplus' = surplus \cup IF task[t].at = "ready" THEN {task[t].doc} ELSE {}
        /\ Go(t, OnError(t))
  /\ UNCHANGED <<store, chunks, alone, restarts>>

\* _enforce_quota: what the other documents' rows leave of the quota for the
\* chunks of the text.
Counted(rows, ds) == MapThenSumSet(LAMBDA d : rows[d].count, ds)

Budget_Whole(t) == Quota

Budget(t) == Quota - Counted(docs, Docs \ {task[t].doc})

List(t) ==
  /\ task[t].at = "list"
  /\ \/ Go(t, "fail") /\ UNCHANGED lost         \* no text, or no room
     \/ /\ \E n \in 1..MaxPieces :
             /\ n <= Budget(t)                    \* what is longer is cut to the room
             /\ task' = [task EXCEPT ![t].at = "embed", ![t].pieces = n]
        /\ UNCHANGED lost
     \/ Lose /\ Go(t, "record")
  /\ UNCHANGED <<store, docs, chunks, alone, surplus, restarts>>

\* The embedding service answers, or not, or with too few vectors.
Embed(t) ==
  /\ task[t].at = "embed"
  /\ \/ Go(t, "store") \/ Go(t, "fail")
  /\ UNCHANGED <<store, docs, chunks, alone, surplus, lost, restarts>>

\* aupsert_chunks inserts: rows already there stay.  Supabase refuses the chunks
\* of a document without a row, memory takes them.
Pieces(d, t, n) == {<<d, t, i>> : i \in 1..n}
Rows(t) == Pieces(task[t].doc, t, task[t].pieces)
Accepted(t) == store = "memory" \/ Exists(task[t].doc)

\* Chunks are inserted that no row will count: beside others of the document, without
\* its row, or by a request that seemed to fail.
Surplus(t, inserted) ==
  LET d == task[t].doc
  IN surplus' = surplus \cup IF /\ chunks' # chunks
                                /\ ~ inserted \/ ~ Exists(d) \/ \E c \in chunks : c[1] = d
                             THEN {d} ELSE {}

Insert_ReadyFirst(t) ==
  /\ task[t].at = "store" /\ Accepted(t)
  /\ docs' = [docs EXCEPT ![task[t].doc].status = "ready",
                          ![task[t].doc].count = task[t].pieces]
  /\ chunks' = chunks \cup {c \in Rows(t) : c[3] = 1}
  /\ Go(t, "ready")
  /\ UNCHANGED <<surplus, lost>>

Insert(t) ==
  /\ task[t].at = "store"
  /\ \/ /\ Accepted(t)
        /\ chunks' = chunks \cup Rows(t)
        /\ Surplus(t, TRUE)
        /\ Go(t, "ready") /\ UNCHANGED lost
     \/ ~ Accepted(t) /\ Go(t, "record") /\ UNCHANGED <<chunks, surplus, lost>>
     \/ /\ Lose
        /\ chunks' \in {chunks, IF Accepted(t) THEN chunks \cup Rows(t) ELSE chunks}
        /\ Surplus(t, FALSE)
        /\ Go(t, "record")
  /\ UNCHANGED docs

StoreChunks(t) == Insert(t) /\ UNCHANGED <<store, alone, restarts>>

TaskStep(t) == Extract(t) \/ Mark(t) \/ List(t) \/ Embed(t) \/ StoreChunks(t)

-------------------------------------------------------------------------------
\* An hour passes over a document that is not settled.
Old(d) == /\ store = "supabase"
          /\ docs[d].status \notin Settled /\ ~ docs[d].old
          /\ docs' = [docs EXCEPT ![d].old = TRUE]
          /\ UNCHANGED <<store, chunks, task, alone, surplus, lost, restarts>>

\* The hourly job of the database: an old document still under way has failed.
Sweepable_Indexing == {"indexing"}

Sweepable == {"pending", "indexing"}

Sweep(d) ==
  /\ store = "supabase" /\ docs[d].old /\ docs[d].status \in Sweepable
  /\ docs' = [docs EXCEPT ![d].status = "failed"]
  /\ UNCHANGED <<store, chunks, task, alone, surplus, lost, restarts>>

\* The tasks are gone; so is all the memory store held.
RestartProcess ==
  /\ restarts < MaxRestarts
  /\ restarts' = restarts + 1
  /\ task' = [t \in Tasks |-> IF task[t].at = "unused" THEN NotYet ELSE Ended]
  /\ IF store = "supabase"
     THEN /\ surplus' = surplus \cup {task[t].doc : t \in {u \in Tasks : task[u].at = "ready"}}
          /\ UNCHANGED <<docs, chunks>>
     ELSE /\ docs' = [d \in Docs |-> IF Exists(d) THEN [NoDoc EXCEPT !.status = "deleted"]
                                     ELSE docs[d]]
          /\ chunks' = {} /\ surplus' = {}
  /\ UNCHANGED <<store, alone, lost>>

KnowledgeNext ==
  \/ \E d \in Docs : \/ \E kind \in {"text", "file", "page"} : Add(d, kind)
                     \/ AddUnfetched(d) \/ Reindex(d) \/ Delete(d) \/ Old(d) \/ Sweep(d)
  \/ \E t \in Tasks : TaskStep(t)
  \/ RestartProcess

\* The event loop runs every task, and the database its jobs.
KnowledgeFairness ==
  /\ \A t \in Tasks : WF_knowledgeVars(TaskStep(t))
  /\ \A d \in Docs : WF_knowledgeVars(Old(d)) /\ WF_knowledgeVars(Sweep(d))

KnowledgeSpec == KnowledgeInit /\ [][KnowledgeNext]_knowledgeVars /\ KnowledgeFairness

-------------------------------------------------------------------------------
ChunksOf(d, t) == {c \in chunks : c[1] = d /\ c[2] = t}

\* A document that is listed as ready has all the chunks it counts, from one
\* task, whatever failed, was retried, ran beside it or was swept.
ReadyIsWhole ==
  \A d \in Docs : docs[d].status = "ready" =>
    /\ docs[d].count > 0
    /\ \E t \in Tasks : ChunksOf(d, t) = Pieces(d, t, docs[d].count)

\* The quota is read before the chunks are embedded and counted after they are stored:
\* when a task that no other ran beside reports success, the rows count no more than the
\* quota, and no more is stored, but for documents with chunks their row does not count.
\* (The ceiling of ingest.py:219-224 is on what is stored; StoredWithinQuota says so.)
FitsAlone ==
  [][\A t \in alone : task[t].at = "ready" /\ docs'[task[t].doc].status = "ready" =>
       /\ Counted(docs', Docs) <= Quota
       /\ Cardinality({c \in chunks' : c[1] \notin surplus'}) <= Quota]_knowledgeVars

\* No document stays pending or indexing for ever: its task, the handler of the task's
\* errors, a restart of the memory store or the sweep settles it.  A file that an uncaught
\* error of the extraction leaves pending has only the sweep, which memory lacks.
Settles ==
  \A d \in Docs :
    /\ docs[d].status \notin Settled
    /\ \/ store = "supabase" \/ docs[d].source # "file"
       \/ \E t \in Running : task[t].doc = d /\ task[t].at # "extract"
    ~> docs[d].status \in Settled

\* "a re-index deletes the old chunk set first": what search finds of a document
\* that is ready is the text it was last given.
SearchIsCurrent ==
  \A d \in Docs : docs[d].status = "ready" =>
    \A c, e \in chunks : c[1] = d /\ e[1] = d => c[2] = e[2]

\* "knowledge.max_chunks is a per-tenant quota": the rows never count more, and the
\* store never holds more.
WithinQuota == Counted(docs, Docs) <= Quota
StoredWithinQuota == Cardinality(chunks) <= Quota

\* "every failure is recorded on the document row": in the end its status is final.
AlwaysSettles == \A d \in Docs : docs[d].status \notin Settled ~> docs[d].status \in Settled
===============================================================================
