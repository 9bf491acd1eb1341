---------------------------- MODULE KnowledgeProofs ----------------------------
(***************************************************************************)
(* A document is listed as ready only when it is whole, and a task that    *)
(* runs alone keeps the tenant within its quota: for any number of         *)
(* documents, tasks, failed requests and restarts, over either store.      *)
(***************************************************************************)
EXTENDS Knowledge, FiniteSetTheorems, WellFoundedInduction, TLAPS

Statuses == {"none", "pending", "indexing", "ready", "failed", "deleted"}

Doc == [status : Statuses, source : {"none", "text", "file", "url"}, count : Nat, old : BOOLEAN]

Places == {"unused", "extract", "index", "list", "embed", "store", "ready", "fail", "record",
           "unread", "over"}

Task == [at : Places, doc : Docs \cup {NotYet.doc}, pieces : Nat]

\* Every variable has its type, and a task that runs was begun on a document.
TypesOK ==
  /\ docs \in [Docs -> Doc]
  /\ task \in [Tasks -> Task]
  /\ \A t \in Running : task[t].doc \in Docs /\ docs[task[t].doc].status # "none"
  /\ chunks \subseteq Docs \X Tasks \X Nat

\* A task that has not inserted yet has no chunks: its insert brings all of them.
Before == {"unused", "extract", "index", "list", "embed", "store"}
NothingInserted == \A t \in Tasks : task[t].at \in Before => \A c \in chunks : c[2] # t

\* A task about to say "ready" has inserted all its chunks, and they are still there
\* unless its document is not.
Inserted ==
  \A t \in Tasks :
    /\ task[t].at \in {"embed", "store", "ready"} => task[t].pieces > 0
    /\ task[t].at = "ready" /\ Exists(task[t].doc) => ChunksOf(task[t].doc, t) = Rows(t)

KnowledgeInv == TypesOK /\ NothingInserted /\ Inserted /\ ReadyIsWhole

-------------------------------------------------------------------------------
\* What a step may do to the documents: one becomes ready only when it is whole; and to
\* the tasks, without inserting.
DocsKeep ==
  \A d \in Docs :
    /\ docs'[d].status = "ready" =>
         \/ docs[d].status = "ready" /\ docs'[d].count = docs[d].count
         \/ docs'[d].count > 0 /\ \E t \in Tasks : ChunksOf(d, t) = Pieces(d, t, docs'[d].count)
    /\ docs'[d].status \notin {"none", "deleted"} => docs[d].status # "deleted"

TasksKeep ==
  \A t \in Tasks :
    /\ task'[t].at \in Before => task[t].at \in Before
    /\ task'[t].at \in {"embed", "store"} => task'[t].pieces > 0
    /\ task'[t].at = "ready" => task'[t] = task[t]

LEMMA QuietStep ==
  ASSUME KnowledgeInv, UNCHANGED chunks, TypesOK', DocsKeep, TasksKeep
  PROVE  KnowledgeInv'
<1>1. NothingInserted'
  BY DEF KnowledgeInv, NothingInserted, TasksKeep
<1>2. Inserted'
  <2> SUFFICES ASSUME NEW t \in Tasks
               PROVE  /\ task'[t].at \in {"embed", "store", "ready"} => task'[t].pieces > 0
                      /\ task'[t].at = "ready" /\ Exists(task[t].doc)' =>
                           ChunksOf(task[t].doc, t)' = Rows(t)'
    BY DEF Inserted
  <2>1. CASE task'[t].at = "ready"
    <3>1. task'[t] = task[t] /\ t \in Running
      BY <2>1 DEF TasksKeep, Running
    <3>2. task[t].doc \in Docs /\ docs[task[t].doc].status # "none"
      BY <3>1 DEF KnowledgeInv, TypesOK
    <3>3. Exists(task[t].doc)' => Exists(task[t].doc)
      BY <3>1, <3>2 DEF Exists, DocsKeep
    <3> QED
      BY <2>1, <3>1, <3>3 DEF KnowledgeInv, Inserted, ChunksOf, Rows
  <2> QED
    BY <2>1 DEF TasksKeep
<1>3. ReadyIsWhole'
  <2>1. \A d \in Docs, t \in Tasks : ChunksOf(d, t)' = ChunksOf(d, t)
    BY DEF ChunksOf
  <2> QED
    BY <2>1 DEF KnowledgeInv, ReadyIsWhole, DocsKeep
<1> QED
  BY <1>1, <1>2, <1>3 DEF KnowledgeInv

\* A new task starts with nothing inserted.
LEMMA LaunchKeeps ==
  ASSUME KnowledgeInv, NEW d \in Docs, NEW from \in {"extract", "index"}, Launch(d, from),
         docs' \in [Docs -> Doc], UNCHANGED chunks, DocsKeep, docs'[d].status # "none",
         \A e \in Docs : docs[e].status # "none" => docs'[e].status # "none"
  PROVE  KnowledgeInv'
<1>1. PICK t \in Tasks : /\ task[t].at = "unused"
                         /\ task' = [task EXCEPT ![t].at = from, ![t].doc = d]
  BY DEF Launch
<1>2. task' \in [Tasks -> Task]
  <2> DEFINE new == [task[t] EXCEPT !.at = from, !.doc = d]
  <2>1. task \in [Tasks -> Task] /\ task' = [task EXCEPT ![t] = new]
    BY <1>1 DEF KnowledgeInv, TypesOK
  <2>2. new \in Task
    BY <2>1 DEF Task, Places
  <2> HIDE DEF new
  <2> QED
    BY <2>1, <2>2
<1>3. task'[t].at = from /\ task'[t].doc = d /\ \A u \in Tasks \ {t} : task'[u] = task[u]
  BY <1>1 DEF KnowledgeInv, TypesOK, Task
<1>4. TypesOK'
  <2>1. ASSUME NEW u \in Tasks, task'[u].at \notin {"unused", "over"}
        PROVE  task'[u].doc \in Docs /\ docs'[task'[u].doc].status # "none"
    <3>1. CASE u = t
      BY <1>3, <3>1
    <3>2. CASE u # t
      BY <1>3, <2>1, <3>2 DEF KnowledgeInv, TypesOK, Running
    <3> QED
      BY <3>1, <3>2
  <2> QED
    BY <1>2, <2>1 DEF KnowledgeInv, TypesOK, Running
<1>5. TasksKeep
  BY <1>1, <1>3 DEF KnowledgeInv, TypesOK, Inserted, TasksKeep, Before
<1> QED
  BY <1>4, <1>5, QuietStep

LEMMA AddKeeps ==
  ASSUME KnowledgeInv, NEW d \in Docs, NEW kind \in {"text", "file", "page"}, Add(d, kind)
  PROVE  KnowledgeInv'
<1>1. /\ docs[d].status = "none" /\ UNCHANGED chunks
      /\ docs' = [docs EXCEPT ![d].status = "pending", ![d].source = Source(kind)]
  BY DEF Add
<1>2. docs' \in [Docs -> Doc]
  <2> DEFINE source == Source(kind)
  <2>1. source \in {"text", "file", "url"}
    BY DEF Source
  <2> HIDE DEF source
  <2>2. docs' = [docs EXCEPT ![d].status = "pending", ![d].source = source]
    BY <1>1 DEF source
  <2>3. docs \in [Docs -> Doc]
    BY DEF KnowledgeInv, TypesOK
  <2>4. [docs[d] EXCEPT !.status = "pending", !.source = source] \in Doc
    BY <2>1, <2>3 DEF Doc, Statuses
  <2> QED
    BY <2>2, <2>3, <2>4
<1>3. docs'[d].status = "pending" /\ \A e \in Docs \ {d} : docs'[e] = docs[e]
  BY <1>1 DEF KnowledgeInv, TypesOK, Doc
<1>4. DocsKeep /\ \A e \in Docs : docs[e].status # "none" => docs'[e].status # "none"
  BY <1>1, <1>3 DEF DocsKeep
<1>5. CASE UNCHANGED task
  <2>1. TypesOK'
    BY <1>1, <1>2, <1>4, <1>5 DEF KnowledgeInv, TypesOK, Running
  <2>2. TasksKeep
    BY <1>5 DEF TasksKeep, KnowledgeInv, Inserted
  <2> QED
    BY <1>1, <1>4, <2>1, <2>2, QuietStep
<1>6. CASE Launch(d, IF kind = "file" THEN "extract" ELSE "index")
  BY <1>1, <1>2, <1>3, <1>4, <1>6, LaunchKeeps
<1> QED
  BY <1>5, <1>6 DEF Add

\* A document whose row alone changes, to a status that is not "ready".
LEMMA RowKeeps ==
  ASSUME KnowledgeInv, UNCHANGED <<chunks, task>>, NEW d \in Docs, NEW row \in Doc,
         docs' = [docs EXCEPT ![d] = row],
         row.status \notin {"none", "ready"}, docs[d].status = "deleted" => row.status = "deleted"
  PROVE  KnowledgeInv'
<1>1. docs' \in [Docs -> Doc] /\ docs'[d] = row /\ \A e \in Docs \ {d} : docs'[e] = docs[e]
  BY DEF KnowledgeInv, TypesOK
<1>2. TypesOK'
  BY <1>1 DEF KnowledgeInv, TypesOK, Running
<1>3. DocsKeep /\ TasksKeep
  BY <1>1 DEF DocsKeep, TasksKeep, KnowledgeInv, Inserted
<1> QED
  BY <1>2, <1>3, QuietStep

LEMMA StatusKeeps ==
  ASSUME KnowledgeInv, NEW d \in Docs, AddUnfetched(d) \/ Old(d) \/ Sweep(d)
  PROVE  KnowledgeInv'
<1>1. UNCHANGED <<chunks, task>> /\ docs[d] \in Doc
  BY DEF AddUnfetched, Old, Sweep, KnowledgeInv, TypesOK
<1>2. CASE AddUnfetched(d)
  <2> DEFINE row == [docs[d] EXCEPT !.status = "failed", !.source = "url"]
  <2>1. row \in Doc /\ row.status = "failed"
    BY <1>1 DEF Doc, Statuses
  <2>2. docs' = [docs EXCEPT ![d] = row] /\ docs[d].status # "deleted"
    BY <1>1, <1>2 DEF AddUnfetched, KnowledgeInv, TypesOK, Doc
  <2> HIDE DEF row
  <2> QED
    BY <1>1, <2>1, <2>2, RowKeeps
<1>3. CASE Old(d)
  <2> DEFINE row == [docs[d] EXCEPT !.old = TRUE]
  <2>1. row \in Doc /\ row.status = docs[d].status
    BY <1>1 DEF Doc
  <2>2. docs' = [docs EXCEPT ![d] = row] /\ docs[d].status \notin Settled
    BY <1>1, <1>3 DEF Old, KnowledgeInv, TypesOK, Doc
  <2> HIDE DEF row
  <2> QED
    BY <1>1, <2>1, <2>2, RowKeeps DEF Settled
<1>4. CASE Sweep(d)
  <2> DEFINE row == [docs[d] EXCEPT !.status = "failed"]
  <2>1. row \in Doc /\ row.status = "failed"
    BY <1>1 DEF Doc, Statuses
  <2>2. docs' = [docs EXCEPT ![d] = row] /\ docs[d].status # "deleted"
    BY <1>1, <1>4 DEF Sweep, Sweepable, KnowledgeInv, TypesOK, Doc
  <2> HIDE DEF row
  <2> QED
    BY <1>1, <2>1, <2>2, RowKeeps
<1> QED
  BY <1>2, <1>3, <1>4

LEMMA ReindexKeeps == ASSUME KnowledgeInv, NEW d \in Docs, Reindex(d) PROVE KnowledgeInv'
<1>1. /\ Exists(d) /\ Launch(d, "index") /\ UNCHANGED <<docs, chunks>>
  BY DEF Reindex
<1>2. docs' \in [Docs -> Doc] /\ DocsKeep /\ docs'[d].status # "none"
  BY <1>1 DEF KnowledgeInv, TypesOK, DocsKeep, Exists
<1> QED
  BY <1>1, <1>2, LaunchKeeps

LEMMA DeleteKeeps == ASSUME KnowledgeInv, NEW d \in Docs, Delete(d) PROVE KnowledgeInv'
<1>1. /\ docs' = [docs EXCEPT ![d] = [NoDoc EXCEPT !.status = "deleted"]]
      /\ chunks' = {c \in chunks : c[1] # d} /\ UNCHANGED task
  BY DEF Delete
<1>2. [NoDoc EXCEPT !.status = "deleted"] \in Doc /\ [NoDoc EXCEPT !.status = "deleted"].status = "deleted"
  BY DEF NoDoc, Doc, Statuses
<1>3. docs' \in [Docs -> Doc] /\ docs'[d].status = "deleted"
      /\ \A e \in Docs \ {d} : docs'[e] = docs[e]
  BY <1>1, <1>2 DEF KnowledgeInv, TypesOK
<1>4. \A e \in Docs \ {d}, t \in Tasks : ChunksOf(e, t)' = ChunksOf(e, t)
  BY <1>1 DEF ChunksOf
<1>5. TypesOK'
  BY <1>1, <1>3 DEF KnowledgeInv, TypesOK, Running
<1>6. NothingInserted'
  BY <1>1 DEF KnowledgeInv, NothingInserted
<1>7. Inserted'
  <2>1. \A t \in Tasks : task'[t].at \in {"embed", "store", "ready"} => task'[t].pieces > 0
    BY <1>1 DEF KnowledgeInv, Inserted
  <2>2. ASSUME NEW t \in Tasks, task[t].at = "ready", Exists(task[t].doc)'
        PROVE  ChunksOf(task[t].doc, t)' = Rows(t)'
    <3>1. task[t].doc \in Docs
      BY <2>2 DEF KnowledgeInv, TypesOK, Running
    <3>2. task[t].doc # d /\ Exists(task[t].doc)
      BY <1>1, <1>3, <2>2, <3>1 DEF Exists
    <3>3. ChunksOf(task[t].doc, t) = Rows(t)
      BY <2>2, <3>2 DEF KnowledgeInv, Inserted
    <3> QED
      BY <1>1, <1>4, <3>1, <3>2, <3>3 DEF Rows
  <2> QED
    BY <1>1, <2>1, <2>2 DEF Inserted
<1>8. ReadyIsWhole'
  BY <1>3, <1>4 DEF KnowledgeInv, ReadyIsWhole
<1> QED
  BY <1>5, <1>6, <1>7, <1>8 DEF KnowledgeInv

-------------------------------------------------------------------------------
\* One task moves on and inserts nothing.
LEMMA MoveKeeps ==
  ASSUME KnowledgeInv, NEW t \in Running, NEW to \in Task, task' = [task EXCEPT ![t] = to],
         to.doc = task[t].doc \/ to.at = "over",
         to.at \notin {"unused", "ready"},
         to.at \in Before => task[t].at \in Before,
         to.at \in {"embed", "store"} => to.pieces > 0,
         UNCHANGED chunks, docs' \in [Docs -> Doc], DocsKeep,
         \A e \in Docs : docs[e].status # "none" => docs'[e].status # "none"
  PROVE  KnowledgeInv'
<1>1. t \in Tasks /\ task[t].at \notin {"unused", "over"}
  BY DEF Running
<1>2. /\ task' \in [Tasks -> Task] /\ task'[t] = to
      /\ \A u \in Tasks \ {t} : task'[u] = task[u]
  BY <1>1 DEF KnowledgeInv, TypesOK
<1>3. TypesOK'
  <2>1. ASSUME NEW u \in Tasks, task'[u].at \notin {"unused", "over"}
        PROVE  task'[u].doc \in Docs /\ docs'[task'[u].doc].status # "none"
    <3>1. u \in Running /\ task'[u].doc = task[u].doc
      BY <1>1, <1>2, <2>1 DEF Running
    <3> QED
      BY <3>1 DEF KnowledgeInv, TypesOK
  <2> QED
    BY <1>2, <2>1 DEF KnowledgeInv, TypesOK, Running
<1>4. TasksKeep
  BY <1>1, <1>2 DEF TasksKeep, KnowledgeInv, Inserted
<1> QED
  BY <1>3, <1>4, QuietStep

LEMMA GoKeeps ==
  ASSUME KnowledgeInv, NEW t \in Running, NEW where \in Places \ {"unused", "ready"}, Go(t, where),
         where \in Before => task[t].at \in Before,
         where \in {"embed", "store"} => task[t].pieces > 0,
         UNCHANGED chunks, docs' \in [Docs -> Doc], DocsKeep,
         \A e \in Docs : docs[e].status # "none" => docs'[e].status # "none"
  PROVE  KnowledgeInv'
<1> DEFINE to == IF where = "over" THEN Ended ELSE [task[t] EXCEPT !.at = where]
<1>1. t \in Tasks /\ task[t] \in Task
  BY DEF Running, KnowledgeInv, TypesOK
<1>2. /\ task' = [task EXCEPT ![t] = to] /\ to \in Task /\ to.at = where
      /\ to.doc = task[t].doc \/ to.at = "over"
      /\ where # "over" => to.pieces = task[t].pieces
  BY <1>1 DEF Go, Ended, NotYet, Task, Places
<1> HIDE DEF to
<1> QED
  BY <1>2, MoveKeeps

\* A task that leaves the rows alone.
LEMMA RowsAlone == ASSUME KnowledgeInv, UNCHANGED docs
                   PROVE  /\ docs' \in [Docs -> Doc] /\ DocsKeep
                          /\ \A e \in Docs : docs[e].status # "none" => docs'[e].status # "none"
BY DEF KnowledgeInv, TypesOK, DocsKeep

LEMMA MarkKeeps == ASSUME KnowledgeInv, NEW t \in Tasks, Mark(t) PROVE KnowledgeInv'
<1> DEFINE d == task[t].doc
           where == IF Exists(d) /\ docs' = Marked(t) /\ Go(t, After(t)) THEN After(t) ELSE OnError(t)
<1>1. /\ t \in Running /\ d \in Docs /\ task[t] \in Task /\ docs[d] \in Doc
      /\ task[t].at \in {"index", "ready", "fail", "record", "unread"}
  BY DEF Mark, Running, KnowledgeInv, TypesOK
<1>2. Go(t, where) /\ UNCHANGED chunks /\ (docs' = docs \/ (docs' = Marked(t) /\ Exists(d)))
  BY DEF Mark
<1>3. where \in {"list", "over", "record"} /\ (where = "list" => task[t].at = "index")
  BY <1>1 DEF After, OnError
<1>4. /\ docs' \in [Docs -> Doc] /\ DocsKeep
      /\ \A e \in Docs : docs[e].status # "none" => docs'[e].status # "none"
  <2>1. CASE docs' = docs
    BY <2>1, RowsAlone
  <2>2. CASE docs' = Marked(t) /\ Exists(d)
    <3> DEFINE says == Written(t)
               count == IF says = "ready" THEN task[t].pieces ELSE docs[d].count
    <3>1. /\ says \in {"indexing", "ready", "failed"} /\ count \in Nat
          /\ says = "ready" => task[t].at = "ready"
      BY <1>1 DEF Written, Task, Doc
    <3>2. docs' = [docs EXCEPT ![d].status = says, ![d].count = count]
      BY <2>2 DEF Marked
    <3>3. says = "ready" => count > 0 /\ ChunksOf(d, t) = Pieces(d, t, count)
      BY <2>2, <3>1 DEF KnowledgeInv, Inserted, Rows
    <3> HIDE DEF says, count, d
    <3>4. /\ docs' \in [Docs -> Doc] /\ docs'[d].status = says /\ docs'[d].count = count
          /\ \A e \in Docs \ {d} : docs'[e] = docs[e]
      BY <1>1, <3>1, <3>2 DEF KnowledgeInv, TypesOK, Doc, Statuses
    <3>5. DocsKeep
      BY <1>1, <2>2, <3>1, <3>3, <3>4 DEF DocsKeep, Exists
    <3> QED
      BY <1>1, <3>1, <3>4, <3>5
  <2> QED
    BY <1>2, <2>1, <2>2
<1> HIDE DEF where, d
<1> QED
  BY <1>1, <1>2, <1>3, <1>4, GoKeeps DEF Places, Before

LEMMA ListKeeps == ASSUME KnowledgeInv, NEW t \in Tasks, List(t) PROVE KnowledgeInv'
<1>1. /\ t \in Running /\ task[t] \in Task /\ task[t].at = "list" /\ UNCHANGED <<docs, chunks>>
  BY DEF List, Running, KnowledgeInv, TypesOK
<1>2. CASE Go(t, "fail") \/ Go(t, "record")
  BY <1>1, <1>2, RowsAlone, GoKeeps DEF Places, Before
<1>3. CASE \E n \in 1..MaxPieces : task' = [task EXCEPT ![t].at = "embed", ![t].pieces = n]
  <2>1. PICK n \in 1..MaxPieces : task' = [task EXCEPT ![t].at = "embed", ![t].pieces = n]
    BY <1>3
  <2> DEFINE to == [task[t] EXCEPT !.at = "embed", !.pieces = n]
  <2>2. n \in Nat /\ n > 0
    BY PiecesAssumption
  <2>3. to \in Task /\ to.at = "embed" /\ to.doc = task[t].doc /\ to.pieces > 0
    BY <1>1, <2>2 DEF Task, Places
  <2>4. task' = [task EXCEPT ![t] = to]
    BY <1>1, <2>1 DEF KnowledgeInv, TypesOK, Task
  <2> HIDE DEF to
  <2> QED
    BY <1>1, <2>3, <2>4, RowsAlone, MoveKeeps DEF Before
<1> QED
  BY <1>2, <1>3 DEF List

\* The rows of a task go in at once, where it had none.
LEMMA InsertKeeps == ASSUME KnowledgeInv, NEW t \in Tasks, StoreChunks(t) PROVE KnowledgeInv'
<1> DEFINE d == task[t].doc
<1>1. /\ t \in Running /\ d \in Docs /\ task[t] \in Task /\ task[t].at = "store"
      /\ task[t].pieces > 0 /\ task[t].pieces \in Nat
      /\ UNCHANGED docs
  BY DEF StoreChunks, Insert, Running, KnowledgeInv, TypesOK, Inserted, Task
<1>2. CASE UNCHANGED chunks /\ Go(t, "record")
  BY <1>1, <1>2, RowsAlone, GoKeeps DEF Places, Before
<1>3. CASE chunks' = chunks \cup Rows(t) /\ (Go(t, "ready") \/ Go(t, "record"))
  <2> DEFINE to == task'[t]
  <2>1. /\ to \in Task /\ to.at \in {"ready", "record"} /\ to.doc = d /\ to.pieces = task[t].pieces
        /\ task' \in [Tasks -> Task] /\ \A u \in Tasks \ {t} : task'[u] = task[u]
    BY <1>1, <1>3 DEF Go, KnowledgeInv, TypesOK, Task, Places
  <2>2. \A e \in Docs, u \in Tasks : e # d \/ u # t => ChunksOf(e, u)' = ChunksOf(e, u)
    BY <1>3 DEF ChunksOf, Rows, Pieces
  <2>3. ChunksOf(d, t) = {}
    BY <1>1 DEF ChunksOf, KnowledgeInv, NothingInserted, Before
  <2>4. ChunksOf(d, t)' = Rows(t)
    <3>1. \A c \in Rows(t) : c[1] = d /\ c[2] = t
      BY DEF Rows, Pieces
    <3>2. ChunksOf(d, t)' = ChunksOf(d, t) \cup {c \in Rows(t) : c[1] = d /\ c[2] = t}
      BY <1>3, <2>1 DEF ChunksOf
    <3> QED
      BY <2>3, <3>1, <3>2
  <2>5. Rows(t)' = Rows(t) /\ \A u \in Tasks \ {t} : Rows(u)' = Rows(u)
    BY <2>1 DEF Rows
  <2>6. Rows(t) \subseteq Docs \X Tasks \X Nat
    BY <1>1 DEF Rows, Pieces
  <2>7. \A c \in Rows(t) : c[2] = t
    BY DEF Rows, Pieces
  <2>8. \A e : Exists(e)' = Exists(e)
    BY <1>1 DEF Exists
  <2> HIDE DEF to, d
  <2>9. TypesOK'
    <3>1. \A u \in Running' : task'[u].doc \in Docs /\ docs[task'[u].doc].status # "none"
      BY <1>1, <2>1 DEF Running, KnowledgeInv, TypesOK, d, to
    <3> QED
      BY <1>1, <1>3, <2>1, <2>6, <3>1 DEF KnowledgeInv, TypesOK
  <2>10. NothingInserted'
    BY <1>3, <2>1, <2>7 DEF KnowledgeInv, NothingInserted, Before, to
  <2>11. Inserted'
    <3>1. ASSUME NEW u \in Tasks \ {t}
          PROVE  /\ task'[u].at \in {"embed", "store", "ready"} => task'[u].pieces > 0
                 /\ task'[u].at = "ready" /\ Exists(task[u].doc)' =>
                      ChunksOf(task[u].doc, u)' = Rows(u)'
      <4>1. task'[u] = task[u]
        BY <2>1
      <4>2. task[u].at = "ready" => task[u].doc \in Docs
        BY DEF Running, KnowledgeInv, TypesOK
      <4> QED
        BY <2>2, <2>5, <2>8, <4>1, <4>2 DEF KnowledgeInv, Inserted
    <3> QED
      BY <1>1, <2>1, <2>4, <2>5, <3>1 DEF Inserted, d, to
  <2>12. ReadyIsWhole'
    <3> SUFFICES ASSUME NEW e \in Docs, docs[e].status = "ready"
                 PROVE  /\ docs[e].count > 0
                        /\ \E u \in Tasks : ChunksOf(e, u)' = Pieces(e, u, docs[e].count)
      BY <1>1 DEF ReadyIsWhole
    <3>1. PICK u \in Tasks : ChunksOf(e, u) = Pieces(e, u, docs[e].count)
      BY DEF KnowledgeInv, ReadyIsWhole
    <3>2. docs[e].count > 0 /\ docs[e].count \in Nat
      BY DEF KnowledgeInv, TypesOK, Doc, ReadyIsWhole
    <3>3. <<e, u, 1>> \in ChunksOf(e, u)
      BY <3>1, <3>2 DEF Pieces
    <3>4. e # d \/ u # t
      BY <2>3, <3>3
    <3> QED
      BY <2>2, <3>1, <3>2, <3>4
  <2> QED
    BY <2>9, <2>10, <2>11, <2>12 DEF KnowledgeInv
<1> QED
  BY <1>2, <1>3 DEF StoreChunks, Insert

LEMMA TaskKeeps == ASSUME KnowledgeInv, NEW t \in Tasks, TaskStep(t) PROVE KnowledgeInv'
<1>1. CASE Extract(t) \/ Embed(t)
  <2>1. /\ t \in Running /\ UNCHANGED <<docs, chunks>> /\ task[t].at \in {"extract", "embed"}
    BY <1>1 DEF Extract, Embed, Running
  <2>2. task[t].at = "embed" => task[t].pieces > 0
    BY DEF KnowledgeInv, Inserted
  <2> QED
    BY <1>1, <2>1, <2>2, RowsAlone, GoKeeps DEF Extract, Embed, Places, Before
<1> QED
  BY <1>1, MarkKeeps, ListKeeps, InsertKeeps DEF TaskStep

LEMMA RestartKeeps == ASSUME KnowledgeInv, RestartProcess PROVE KnowledgeInv'
<1>1. /\ task' = [t \in Tasks |-> IF task[t].at = "unused" THEN NotYet ELSE Ended]
      /\ NotYet.at = "unused" /\ Ended.at = "over"
      /\ NotYet \in Task /\ Ended \in Task
  BY DEF RestartProcess, NotYet, Ended, Task, Places
<1>2. /\ task' \in [Tasks -> Task] /\ \A t \in Tasks : task'[t].at \in {"unused", "over"}
      /\ \A t \in Tasks : task'[t].at = "unused" => task[t].at = "unused"
  BY <1>1
<1>3. CASE UNCHANGED <<docs, chunks>>
  <2>1. TypesOK'
    BY <1>2, <1>3 DEF KnowledgeInv, TypesOK, Running
  <2>2. TasksKeep
    BY <1>2 DEF TasksKeep, Before
  <2> QED
    BY <1>3, <2>1, <2>2, RowsAlone, QuietStep
<1>4. CASE /\ docs' = [d \in Docs |-> IF Exists(d) THEN [NoDoc EXCEPT !.status = "deleted"]
                                     ELSE docs[d]]
           /\ chunks' = {}
  <2>1. [NoDoc EXCEPT !.status = "deleted"] \in Doc /\ [NoDoc EXCEPT !.status = "deleted"].status = "deleted"
    BY DEF NoDoc, Doc, Statuses
  <2>2. docs' \in [Docs -> Doc] /\ \A d \in Docs : docs'[d].status # "ready"
    BY <1>4, <2>1 DEF KnowledgeInv, TypesOK, Exists
  <2>3. TypesOK'
    BY <1>2, <1>4, <2>2 DEF TypesOK, Running
  <2>4. NothingInserted' /\ Inserted' /\ ReadyIsWhole'
    BY <1>2, <1>4, <2>2 DEF NothingInserted, Inserted, ReadyIsWhole
  <2> QED
    BY <2>3, <2>4 DEF KnowledgeInv
<1> QED
  BY <1>3, <1>4 DEF RestartProcess

LEMMA KnowledgeBegins == KnowledgeInit => KnowledgeInv
BY DEF KnowledgeInit, NoDoc, NotYet, Doc, Statuses, Task, Places, KnowledgeInv, TypesOK, Running,
       NothingInserted, Inserted, ReadyIsWhole

LEMMA KnowledgeStep == KnowledgeInv /\ [KnowledgeNext]_knowledgeVars => KnowledgeInv'
<1>1. CASE UNCHANGED knowledgeVars
  BY <1>1 DEF knowledgeVars, KnowledgeInv, TypesOK, Running, NothingInserted, Inserted, Exists,
              ChunksOf, Rows, ReadyIsWhole
<1> QED
  BY <1>1, AddKeeps, StatusKeeps, ReindexKeeps, DeleteKeeps, TaskKeeps, RestartKeeps
     DEF KnowledgeNext

\* "ready" is said after the insert of every chunk the row will count, whatever fails,
\* is deleted, swept or indexed again meanwhile.
THEOREM ReadyDocumentsAreWhole == KnowledgeSpec => []ReadyIsWhole
<1>1. KnowledgeInv => ReadyIsWhole
  BY DEF KnowledgeInv
<1> QED
  BY <1>1, KnowledgeBegins, KnowledgeStep, PTL DEF KnowledgeSpec

-------------------------------------------------------------------------------
(* What rows count.                                                          *)

\* Of some subsets of a finite set, one that holds none of the others: induction over
\* finite sets.
LEMMA SmallestOf ==
  ASSUME NEW S, IsFiniteSet(S), NEW Bad \in SUBSET SUBSET S, Bad # {}
  PROVE  \E s \in Bad : \A t \in Bad : t \subseteq s => t = s
<1> DEFINE R == StrictSubsetOrdering(S)
<1>1. IsWellFoundedOn(R, FiniteSubsetsOf(S))
  BY FS_StrictSubsetOrderingWellFounded
<1>2. Bad \subseteq FiniteSubsetsOf(S)
  <2>1. \A t \in SUBSET S : IsFiniteSet(t)
    BY FS_Subset
  <2> QED
    BY <2>1 DEF FiniteSubsetsOf
<1>3. PICK s \in Bad : \A t \in Bad : <<t, s>> \notin R
  <2> HIDE DEF R
  <2> QED
    BY <1>1, <1>2, WFMin
<1>4. ASSUME NEW t \in Bad, t \subseteq s, t # s PROVE FALSE
  <2>1. <<t, s>> \in R
    BY <1>4 DEF StrictSubsetOrdering
  <2> QED
    BY <1>3, <2>1
<1> QED
  BY <1>4

Chosen(s) == CHOOSE x \in s : TRUE
Rest(s)   == s \ {Chosen(s)}

\* The sums over the subsets of S, each from that over one element less.
Sums(rows, S, f) ==
  f = [s \in SUBSET S |-> IF s = {} THEN 0 ELSE rows[Chosen(s)].count + f[Rest(s)]]

SumsOf(rows, S) == CHOOSE f : Sums(rows, S, f)

LEMMA CountedIs == ASSUME NEW rows, NEW S PROVE Counted(rows, S) = SumsOf(rows, S)[S]
BY DEF Counted, MapThenSumSet, MapThenFoldSet, SumsOf, Sums, Rest, Chosen

LEMMA RestIs == ASSUME NEW s, s # {}
                PROVE  Chosen(s) \in s /\ Rest(s) \subseteq s /\ Rest(s) # s /\ Chosen(s) \notin Rest(s)
BY DEF Chosen, Rest

LEMMA SumsAre ==
  ASSUME NEW rows, NEW S, NEW f, Sums(rows, S, f), NEW s \in SUBSET S
  PROVE  f[s] = IF s = {} THEN 0 ELSE rows[Chosen(s)].count + f[Rest(s)]
BY DEF Sums

\* The sums over the subsets of a set are those over the subsets of a larger one.
LEMMA SameSums ==
  ASSUME NEW rows, NEW S, IsFiniteSet(S), NEW T \in SUBSET S, NEW f, NEW g,
         Sums(rows, S, f), Sums(rows, T, g)
  PROVE  \A s \in SUBSET T : f[s] = g[s]
<1> DEFINE Bad == {s \in SUBSET T : f[s] # g[s]}
<1>1. SUFFICES ASSUME Bad # {} PROVE FALSE
  OBVIOUS
<1>2. Bad \in SUBSET SUBSET S
  OBVIOUS
<1>3. PICK s \in Bad : \A t \in Bad : t \subseteq s => t = s
  <2> HIDE DEF Bad
  <2> QED
    BY <1>1, <1>2, SmallestOf
<1>4. /\ f[s] = IF s = {} THEN 0 ELSE rows[Chosen(s)].count + f[Rest(s)]
      /\ g[s] = IF s = {} THEN 0 ELSE rows[Chosen(s)].count + g[Rest(s)]
  BY SumsAre
<1>5. s # {} => f[Rest(s)] = g[Rest(s)]
  BY <1>3, RestIs
<1> QED
  BY <1>4, <1>5

LEMMA SumsExist == ASSUME NEW rows, NEW S, IsFiniteSet(S) PROVE \E f : Sums(rows, S, f)
<1> DEFINE Bad == {s \in SUBSET S : ~ \E f : Sums(rows, s, f)}
<1>1. SUFFICES ASSUME Bad # {} PROVE FALSE
  OBVIOUS
<1>2. PICK s \in Bad : \A t \in Bad : t \subseteq s => t = s
  <2>1. Bad \in SUBSET SUBSET S
    OBVIOUS
  <2> HIDE DEF Bad
  <2> QED
    BY <1>1, <2>1, SmallestOf
<1>3. ASSUME NEW t \in SUBSET s, t # s PROVE Sums(rows, t, SumsOf(rows, t))
  BY <1>2, <1>3 DEF SumsOf
<1> DEFINE val(t) == SumsOf(rows, t)[t]
           f == [t \in SUBSET s |-> IF t = {} THEN 0 ELSE rows[Chosen(t)].count + val(Rest(t))]
<1>4. ASSUME NEW t \in SUBSET s, t # {} PROVE f[Rest(t)] = val(Rest(t))
  <2> DEFINE u == Rest(t)
  <2>1. u \in SUBSET s /\ u # s
    BY <1>4, RestIs
  <2>2. Sums(rows, u, SumsOf(rows, u))
    BY <1>3, <2>1
  <2>3. val(u) = IF u = {} THEN 0 ELSE rows[Chosen(u)].count + SumsOf(rows, u)[Rest(u)]
    BY <2>2, SumsAre
  <2>4. CASE u = {}
    BY <2>1, <2>3, <2>4
  <2>5. CASE u # {}
    <3>1. Rest(u) \in SUBSET u /\ Rest(u) \in SUBSET s /\ Rest(u) # s
      BY <2>1, <2>5, RestIs
    <3>2. Sums(rows, Rest(u), SumsOf(rows, Rest(u)))
      BY <1>3, <3>1
    <3>3. IsFiniteSet(u)
      BY <2>1, FS_Subset
    <3>4. SumsOf(rows, u)[Rest(u)] = val(Rest(u))
      <4> HIDE DEF u
      <4> QED
        BY <2>2, <3>1, <3>2, <3>3, SameSums
    <3> QED
      BY <2>1, <2>3, <2>5, <3>4
  <2> QED
    BY <2>4, <2>5
<1>5. Sums(rows, s, f)
  <2>1. f = [t \in SUBSET s |-> IF t = {} THEN 0 ELSE rows[Chosen(t)].count + f[Rest(t)]]
    <3> HIDE DEF val
    <3>1. \A t \in SUBSET s : t # {} => rows[Chosen(t)].count + f[Rest(t)] = rows[Chosen(t)].count + val(Rest(t))
      BY <1>4
    <3> QED
      BY <3>1
  <2> HIDE DEF f
  <2> QED
    BY <2>1 DEF Sums
<1> QED
  BY <1>2, <1>5

\* A sum, from that over one element less.
LEMMA CountedFrom ==
  ASSUME NEW rows, NEW S, IsFiniteSet(S)
  PROVE  Counted(rows, S) = IF S = {} THEN 0 ELSE rows[Chosen(S)].count + Counted(rows, Rest(S))
<1>1. \A T \in SUBSET S : IsFiniteSet(T) /\ Sums(rows, T, SumsOf(rows, T))
  BY SumsExist, FS_Subset DEF SumsOf
<1>2. SumsOf(rows, S)[S] = IF S = {} THEN 0 ELSE rows[Chosen(S)].count + SumsOf(rows, S)[Rest(S)]
  BY <1>1, SumsAre
<1>3. ASSUME S # {} PROVE SumsOf(rows, S)[Rest(S)] = SumsOf(rows, Rest(S))[Rest(S)]
  <2>1. Rest(S) \in SUBSET S
    BY <1>3, RestIs
  <2> QED
    BY <1>1, <2>1, SameSums
<1> QED
  BY <1>2, <1>3, CountedIs

LEMMA CountedNat ==
  ASSUME NEW rows, NEW S, IsFiniteSet(S), \A d \in S : rows[d].count \in Nat
  PROVE  Counted(rows, S) \in Nat
<1> DEFINE Bad == {s \in SUBSET S : Counted(rows, s) \notin Nat}
<1>1. SUFFICES ASSUME Bad # {} PROVE FALSE
  OBVIOUS
<1>2. PICK s \in Bad : \A t \in Bad : t \subseteq s => t = s
  <2>1. Bad \in SUBSET SUBSET S
    OBVIOUS
  <2> HIDE DEF Bad
  <2> QED
    BY <1>1, <2>1, SmallestOf
<1>3. Counted(rows, s) = IF s = {} THEN 0 ELSE rows[Chosen(s)].count + Counted(rows, Rest(s))
  BY FS_Subset, CountedFrom
<1>4. s # {} => rows[Chosen(s)].count \in Nat /\ Counted(rows, Rest(s)) \in Nat
  BY <1>2, RestIs
<1> QED
  BY <1>3, <1>4

\* A sum, from that without any one of its elements.
LEMMA CountedWithout ==
  ASSUME NEW rows, NEW S, IsFiniteSet(S), \A d \in S : rows[d].count \in Nat, NEW e \in S
  PROVE  Counted(rows, S) = rows[e].count + Counted(rows, S \ {e})
<1> DEFINE Splits(s, d) == Counted(rows, s) = rows[d].count + Counted(rows, s \ {d})
           Bad == {s \in SUBSET S : \E d \in s : ~ Splits(s, d)}
<1>1. SUFFICES ASSUME Bad # {} PROVE FALSE
  OBVIOUS
<1>2. PICK s \in Bad : \A t \in Bad : t \subseteq s => t = s
  <2>1. Bad \in SUBSET SUBSET S
    OBVIOUS
  <2> HIDE DEF Bad
  <2> QED
    BY <1>1, <2>1, SmallestOf
<1>3. PICK d \in s : ~ Splits(s, d)
  OBVIOUS
<1> DEFINE x == Chosen(s)
<1>4. x \in s /\ Rest(s) = s \ {x} /\ Splits(s, x)
  BY FS_Subset, CountedFrom, RestIs DEF Rest
<1>5. x # d
  BY <1>3, <1>4
<1>6. \A t \in SUBSET S : t \subseteq s /\ t # s => \A c \in t : Splits(t, c)
  BY <1>2
<1> HIDE DEF x
<1>7. Splits(s \ {x}, d) /\ Splits(s \ {d}, x)
  BY <1>4, <1>5, <1>6
<1>8. (s \ {x}) \ {d} = (s \ {d}) \ {x}
  OBVIOUS
<1>9. \A t \in SUBSET S : Counted(rows, t) \in Nat
  BY FS_Subset, CountedNat
<1>10. /\ Counted(rows, s) \in Nat /\ Counted(rows, s \ {x}) \in Nat /\ Counted(rows, s \ {d}) \in Nat
       /\ Counted(rows, (s \ {x}) \ {d}) \in Nat /\ rows[x].count \in Nat /\ rows[d].count \in Nat
  BY <1>4, <1>9
<1>11. Counted(rows, s \ {x}) = rows[d].count + Counted(rows, (s \ {x}) \ {d})
  BY <1>7
<1>12. Counted(rows, s \ {d}) = rows[x].count + Counted(rows, (s \ {x}) \ {d})
  BY <1>7, <1>8
<1>13. Counted(rows, s) = rows[x].count + Counted(rows, s \ {x})
  BY <1>4
<1>14. Counted(rows, s) = rows[d].count + Counted(rows, s \ {d})
  BY <1>10, <1>11, <1>12, <1>13
<1> QED
  BY <1>3, <1>14

\* Of rows that count no more each, neither do all.
LEMMA CountedGrows ==
  ASSUME NEW rows, NEW more, NEW S, IsFiniteSet(S),
         \A d \in S : rows[d].count \in Nat /\ more[d].count \in Nat /\ rows[d].count <= more[d].count
  PROVE  Counted(rows, S) <= Counted(more, S)
<1> DEFINE Bad == {s \in SUBSET S : ~ Counted(rows, s) <= Counted(more, s)}
<1>1. SUFFICES ASSUME Bad # {} PROVE FALSE
  OBVIOUS
<1>2. PICK s \in Bad : \A t \in Bad : t \subseteq s => t = s
  <2>1. Bad \in SUBSET SUBSET S
    OBVIOUS
  <2> HIDE DEF Bad
  <2> QED
    BY <1>1, <2>1, SmallestOf
<1>3. /\ Counted(rows, s) = IF s = {} THEN 0 ELSE rows[Chosen(s)].count + Counted(rows, Rest(s))
      /\ Counted(more, s) = IF s = {} THEN 0 ELSE more[Chosen(s)].count + Counted(more, Rest(s))
  BY FS_Subset, CountedFrom
<1>4. s # {}
  BY <1>3
<1>5. Chosen(s) \in S /\ Rest(s) \in SUBSET S /\ Counted(rows, Rest(s)) <= Counted(more, Rest(s))
  BY <1>2, <1>4, RestIs
<1>6. Counted(rows, Rest(s)) \in Nat /\ Counted(more, Rest(s)) \in Nat
  BY <1>5, FS_Subset, CountedNat
<1> QED
  BY <1>3, <1>4, <1>5, <1>6

-------------------------------------------------------------------------------
(* The quota.                                                                *)

\* A task that runs alone has left its document's row without a count that is shown,
\* and what it is about to count fits beside the other rows.
LoneFits ==
  \A t \in alone :
    /\ t \in Tasks /\ Running \subseteq {t}
    /\ task[t].at \in {"list", "embed", "store", "ready"} => docs[task[t].doc].status # "ready"
    /\ task[t].at \in {"embed", "store", "ready"} =>
         Counted(docs, Docs \ {task[t].doc}) + task[t].pieces <= Quota

\* What FitsAlone says of the rows, of one step; and no other task is about to count.
FitsNow ==
  \A t \in alone : task[t].at = "ready" /\ docs'[task[t].doc].status = "ready" =>
    Counted(docs', Docs) <= Quota /\ \A u \in Tasks : task'[u].at # "ready"

\* Steps that make no document ready and raise no count.
NoneMore ==
  \A d \in Docs : /\ docs'[d].status = "ready" => docs[d].status = "ready"
                  /\ docs'[d].count <= docs[d].count

LEMMA NoneMoreFits == ASSUME KnowledgeInv, LoneFits, NoneMore PROVE FitsNow
<1> SUFFICES ASSUME NEW t \in alone, task[t].at = "ready", docs'[task[t].doc].status = "ready"
             PROVE  FALSE
  BY DEF FitsNow
<1>1. t \in Running /\ docs[task[t].doc].status # "ready"
  BY DEF LoneFits, Running
<1>2. task[t].doc \in Docs
  BY <1>1 DEF KnowledgeInv, TypesOK
<1> QED
  BY <1>1, <1>2 DEF NoneMore

\* The other rows' counts, before and after such a step.
LEMMA OthersFit ==
  ASSUME TypesOK, docs' \in [Docs -> Doc], NEW d,
         \A e \in Docs \ {d} : docs'[e].count <= docs[e].count
  PROVE  /\ Counted(docs', Docs \ {d}) \in Nat /\ Counted(docs, Docs \ {d}) \in Nat
         /\ Counted(docs', Docs \ {d}) <= Counted(docs, Docs \ {d})
<1>1. IsFiniteSet(Docs \ {d})
  BY QuotaAssumption, FS_Subset
<1>2. \A e \in Docs \ {d} : docs'[e].count \in Nat /\ docs[e].count \in Nat
  BY DEF TypesOK, Doc
<1> QED
  BY <1>1, <1>2, CountedNat, CountedGrows

\* The rows change, and no task.
LEMMA RowsChange ==
  ASSUME KnowledgeInv, KnowledgeInv', LoneFits, NoneMore, UNCHANGED <<task, alone>>
  PROVE  LoneFits' /\ FitsNow
<1> SUFFICES ASSUME NEW t \in alone PROVE
               /\ t \in Tasks /\ Running' \subseteq {t}
               /\ task[t].at \in {"list", "embed", "store", "ready"} => docs'[task[t].doc].status # "ready"
               /\ task[t].at \in {"embed", "store", "ready"} =>
                    Counted(docs', Docs \ {task[t].doc}) + task[t].pieces <= Quota
  BY NoneMoreFits DEF LoneFits
<1>1. t \in Tasks /\ Running' = Running /\ Running \subseteq {t}
  BY DEF LoneFits, Running
<1>2. CASE task[t].at \in {"list", "embed", "store", "ready"}
  <2>1. t \in Running
    BY <1>1, <1>2 DEF Running
  <2>2. task[t].doc \in Docs /\ task[t].pieces \in Nat
    BY <2>1, <1>1 DEF KnowledgeInv, TypesOK, Task
  <2>3. docs'[task[t].doc].status # "ready"
    BY <1>2, <2>2 DEF NoneMore, LoneFits
  <2>4. docs' \in [Docs -> Doc] /\ TypesOK
    BY DEF KnowledgeInv, TypesOK
  <2>5. /\ Counted(docs', Docs \ {task[t].doc}) \in Nat /\ Counted(docs, Docs \ {task[t].doc}) \in Nat
        /\ Counted(docs', Docs \ {task[t].doc}) <= Counted(docs, Docs \ {task[t].doc})
    BY <2>4, OthersFit DEF NoneMore
  <2>6. task[t].at \in {"embed", "store", "ready"} =>
          Counted(docs, Docs \ {task[t].doc}) + task[t].pieces <= Quota
    BY DEF LoneFits
  <2> QED
    BY <1>1, <2>2, <2>3, <2>5, <2>6, QuotaAssumption
<1> QED
  BY <1>1, <1>2

\* A task starts: it is alone, or none is.
LEMMA LaunchFits ==
  ASSUME KnowledgeInv, KnowledgeInv', LoneFits, NoneMore,
         NEW d \in Docs, NEW from \in {"extract", "index"}, Launch(d, from)
  PROVE  LoneFits' /\ FitsNow
<1>1. PICK t \in Tasks : /\ task[t].at = "unused"
                         /\ task' = [task EXCEPT ![t].at = from, ![t].doc = d]
                         /\ alone' = IF Running = {} THEN {t} ELSE {}
  BY DEF Launch
<1>2. task'[t].at = from /\ \A u \in Tasks \ {t} : task'[u] = task[u]
  BY <1>1 DEF KnowledgeInv, TypesOK, Task
<1>3. Running = {} => Running' \subseteq {t}
  BY <1>2 DEF Running
<1> QED
  BY <1>1, <1>2, <1>3, NoneMoreFits DEF LoneFits

\* A task moves on beside no other that is alone, and comes no nearer to its count.
LEMMA MoveFits ==
  ASSUME KnowledgeInv, KnowledgeInv', LoneFits, NoneMore, UNCHANGED alone,
         NEW t \in Running,
         \A u \in Tasks \ {t} : task'[u] = task[u],
         task'[t].at \in {"list", "embed", "store", "ready"} =>
           task'[t].doc = task[t].doc /\ docs'[task[t].doc].status # "ready",
         task'[t].at \in {"embed", "store", "ready"} =>
           Counted(docs, Docs \ {task[t].doc}) + task'[t].pieces <= Quota
  PROVE  LoneFits' /\ FitsNow
<1> SUFFICES ASSUME NEW u \in alone PROVE
               /\ u \in Tasks /\ Running' \subseteq {u}
               /\ task'[u].at \in {"list", "embed", "store", "ready"} => docs'[task'[u].doc].status # "ready"
               /\ task'[u].at \in {"embed", "store", "ready"} =>
                    Counted(docs', Docs \ {task'[u].doc}) + task'[u].pieces <= Quota
  BY NoneMoreFits DEF LoneFits
<1>1. u = t /\ t \in Tasks /\ Running' \subseteq {t}
  BY DEF LoneFits, Running
<1>2. task'[t].pieces \in Nat /\ docs' \in [Docs -> Doc] /\ TypesOK
  BY <1>1 DEF KnowledgeInv, TypesOK, Task
<1>3. /\ Counted(docs', Docs \ {task[t].doc}) \in Nat /\ Counted(docs, Docs \ {task[t].doc}) \in Nat
      /\ Counted(docs', Docs \ {task[t].doc}) <= Counted(docs, Docs \ {task[t].doc})
  BY <1>2, OthersFit DEF NoneMore
<1>4. CASE task'[t].at \in {"embed", "store", "ready"}
  <2>1. task'[t].doc = task[t].doc
    BY <1>4
  <2>2. Counted(docs', Docs \ {task[t].doc}) + task'[t].pieces <= Quota
    BY <1>2, <1>3, <1>4, QuotaAssumption
  <2> QED
    BY <1>1, <1>4, <2>1, <2>2
<1> QED
  BY <1>1, <1>4

\* What a move of a task to another place leaves.
LEMMA GoesTo ==
  ASSUME KnowledgeInv, NEW t \in Running, NEW where \in Places, Go(t, where)
  PROVE  /\ \A u \in Tasks \ {t} : task'[u] = task[u]
         /\ task'[t].at = where
         /\ where # "over" => task'[t].doc = task[t].doc /\ task'[t].pieces = task[t].pieces
<1> DEFINE to == IF where = "over" THEN Ended ELSE [task[t] EXCEPT !.at = where]
<1>1. t \in Tasks /\ task[t] \in Task
  BY DEF Running, KnowledgeInv, TypesOK
<1>2. /\ task' = [task EXCEPT ![t] = to] /\ to.at = where
      /\ where # "over" => to.doc = task[t].doc /\ to.pieces = task[t].pieces
  BY <1>1 DEF Go, Ended, NotYet, Task, Places
<1> HIDE DEF to
<1> QED
  BY <1>1, <1>2 DEF KnowledgeInv, TypesOK

\* The rows stay as they are.
LEMMA NoneMoreRows == ASSUME KnowledgeInv, UNCHANGED docs PROVE NoneMore
BY DEF KnowledgeInv, TypesOK, Doc, NoneMore

LEMMA MarkFits ==
  ASSUME KnowledgeInv, KnowledgeInv', LoneFits, NEW t \in Tasks, Mark(t)
  PROVE  LoneFits' /\ FitsNow
<1> DEFINE d == task[t].doc
           where == IF Exists(d) /\ docs' = Marked(t) /\ Go(t, After(t)) THEN After(t) ELSE OnError(t)
<1>1. /\ t \in Running /\ d \in Docs /\ task[t] \in Task /\ docs[d] \in Doc
      /\ task[t].at \in {"index", "ready", "fail", "record", "unread"} /\ UNCHANGED alone
  BY DEF Mark, Running, KnowledgeInv, TypesOK
<1>2. /\ Go(t, where) /\ (docs' = docs \/ (docs' = Marked(t) /\ Exists(d)))
      /\ where = "list" => docs' = Marked(t)
  BY <1>1 DEF Mark, OnError, After
<1>3. where \in {"list", "over", "record"} /\ (where = "list" => task[t].at = "index")
  BY <1>1 DEF After, OnError
<1> HIDE DEF where
<1>4. /\ \A u \in Tasks \ {t} : task'[u] = task[u]
      /\ task'[t].at = where
      /\ where # "over" => task'[t].doc = task[t].doc /\ task'[t].pieces = task[t].pieces
  BY <1>1, <1>2, <1>3, GoesTo DEF Places
<1>5. CASE docs' = docs
  <2>1. ASSUME where = "list" PROVE docs'[d].status # "ready"
    <3>1. docs' = Marked(t) /\ Written(t) = "indexing"
      BY <1>2, <1>3, <2>1 DEF Written
    <3>2. docs'[d].status = Written(t)
      BY <1>1, <3>1 DEF Marked, KnowledgeInv, TypesOK, Doc
    <3> QED
      BY <3>1, <3>2
  <2> QED
    BY <1>1, <1>3, <1>4, <1>5, <2>1, NoneMoreRows, MoveFits
<1>6. CASE docs' = Marked(t)
  <2> DEFINE says == Written(t)
             count == IF says = "ready" THEN task[t].pieces ELSE docs[d].count
  <2>1. /\ says \in {"indexing", "ready", "failed"} /\ count \in Nat
        /\ says = "ready" <=> task[t].at = "ready"
        /\ task[t].at = "index" => says = "indexing"
    BY <1>1 DEF Written, Task, Doc
  <2>2. docs' = [docs EXCEPT ![d].status = says, ![d].count = count]
    BY <1>6 DEF Marked
  <2>3. says = "ready" => count = task[t].pieces
    OBVIOUS
  <2>4. says # "ready" => count = docs[d].count
    OBVIOUS
  <2> HIDE DEF says, count, d
  <2>5. /\ docs' \in [Docs -> Doc] /\ docs'[d].status = says /\ docs'[d].count = count
        /\ \A e \in Docs \ {d} : docs'[e] = docs[e]
    BY <1>1, <2>1, <2>2 DEF KnowledgeInv, TypesOK, Doc, Statuses
  <2>6. CASE says # "ready"
    <3>1. NoneMore
      BY <1>1, <2>1, <2>4, <2>5, <2>6 DEF NoneMore, KnowledgeInv, TypesOK, Doc
    <3>2. docs'[task[t].doc].status # "ready"
      BY <2>5, <2>6 DEF d
    <3> QED
      BY <1>1, <1>3, <1>4, <3>1, <3>2, MoveFits
  <2>7. CASE says = "ready"
    <3>1. where \in {"over", "record"} /\ count = task[t].pieces
      BY <1>3, <2>1, <2>3, <2>7
    <3>2. \A u \in alone : u = t
      BY <1>1 DEF LoneFits
    <3>3. LoneFits'
      BY <1>1, <1>4, <3>1, <3>2 DEF LoneFits, Running
    <3>4. ASSUME t \in alone, NEW u \in Tasks PROVE task'[u].at # "ready"
      <4>1. Running \subseteq {t}
        BY <1>1, <3>4 DEF LoneFits
      <4>2. CASE u = t
        BY <1>4, <3>1, <4>2
      <4>3. CASE u # t
        <5>1. u \notin Running /\ task'[u] = task[u]
          BY <1>4, <4>1, <4>3
        <5> QED
          BY <5>1 DEF Running
      <4> QED
        BY <4>2, <4>3
    <3>5. ASSUME t \in alone PROVE Counted(docs', Docs) <= Quota
      <4>1. Counted(docs, Docs \ {d}) + task[t].pieces <= Quota
        BY <2>1, <2>7, <3>5 DEF LoneFits, d
      <4>2. \A e \in Docs \ {d} : docs'[e].count <= docs[e].count
        BY <2>5 DEF KnowledgeInv, TypesOK, Doc
      <4>3. /\ Counted(docs', Docs \ {d}) \in Nat /\ Counted(docs, Docs \ {d}) \in Nat
            /\ Counted(docs', Docs \ {d}) <= Counted(docs, Docs \ {d})
        BY <2>5, <4>2, OthersFit DEF KnowledgeInv
      <4>4. Counted(docs', Docs) = docs'[d].count + Counted(docs', Docs \ {d})
        BY <1>1, <2>5, QuotaAssumption, CountedWithout DEF Doc
      <4> QED
        BY <2>1, <2>5, <3>1, <4>1, <4>3, <4>4, QuotaAssumption
    <3> QED
      BY <3>2, <3>3, <3>4, <3>5 DEF FitsNow
  <2> QED
    BY <2>6, <2>7
<1> QED
  BY <1>2, <1>5, <1>6

LEMMA ListFits ==
  ASSUME KnowledgeInv, KnowledgeInv', LoneFits, NEW t \in Tasks, List(t)
  PROVE  LoneFits' /\ FitsNow
<1>1. /\ t \in Running /\ task[t] \in Task /\ task[t].at = "list" /\ UNCHANGED <<docs, alone>>
  BY DEF List, Running, KnowledgeInv, TypesOK
<1>2. NoneMore
  BY <1>1, NoneMoreRows
<1>3. CASE Go(t, "fail") \/ Go(t, "record")
  BY <1>1, <1>2, <1>3, GoesTo, MoveFits DEF Places
<1>4. CASE \E n \in 1..MaxPieces :
             n <= Budget(t) /\ task' = [task EXCEPT ![t].at = "embed", ![t].pieces = n]
  <2>1. PICK n \in 1..MaxPieces :
          n <= Budget(t) /\ task' = [task EXCEPT ![t].at = "embed", ![t].pieces = n]
    BY <1>4
  <2>2. /\ task'[t].at = "embed" /\ task'[t].pieces = n /\ task'[t].doc = task[t].doc
        /\ \A u \in Tasks \ {t} : task'[u] = task[u]
    BY <1>1, <2>1 DEF KnowledgeInv, TypesOK, Task
  <2>3. Counted(docs, Docs \ {task[t].doc}) \in Nat
    <3>1. docs' \in [Docs -> Doc] /\ TypesOK
      BY DEF KnowledgeInv, TypesOK
    <3> QED
      BY <1>2, <3>1, OthersFit DEF NoneMore
  <2>4. Counted(docs, Docs \ {task[t].doc}) + n <= Quota
    BY <2>1, <2>3, PiecesAssumption, QuotaAssumption DEF Budget
  <2>5. CASE t \in alone
    <3>1. docs'[task[t].doc].status # "ready"
      BY <1>1, <2>5 DEF LoneFits
    <3> QED
      BY <1>1, <1>2, <2>2, <2>4, <3>1, MoveFits
  <2>6. CASE t \notin alone
    <3>1. alone = {}
      BY <1>1, <2>6 DEF LoneFits
    <3> QED
      BY <1>1, <1>2, <3>1, NoneMoreFits DEF LoneFits
  <2> QED
    BY <2>5, <2>6
<1> QED
  BY <1>3, <1>4 DEF List

\* The other steps of a task.
LEMMA WorkFits ==
  ASSUME KnowledgeInv, KnowledgeInv', LoneFits, NEW t \in Tasks,
         Extract(t) \/ Embed(t) \/ StoreChunks(t)
  PROVE  LoneFits' /\ FitsNow
<1>1. /\ t \in Running /\ task[t] \in Task /\ UNCHANGED <<docs, alone>>
      /\ task[t].at \in {"extract", "embed", "store"}
  BY DEF Extract, Embed, StoreChunks, Insert, Running, KnowledgeInv, TypesOK
<1>2. PICK where \in Places : /\ Go(t, where)
                              /\ where \notin {"list", "embed"}
                              /\ where \in {"store", "ready"} => task[t].at \in {"embed", "store"}
  BY DEF Extract, Embed, StoreChunks, Insert, Places
<1>3. NoneMore
  BY <1>1, NoneMoreRows
<1>4. /\ \A u \in Tasks \ {t} : task'[u] = task[u]
      /\ task'[t].at = where
      /\ where # "over" => task'[t].doc = task[t].doc /\ task'[t].pieces = task[t].pieces
  BY <1>1, <1>2, GoesTo
<1>5. CASE t \in alone
  <2>1. where \in {"store", "ready"} =>
          /\ docs'[task[t].doc].status # "ready"
          /\ Counted(docs, Docs \ {task[t].doc}) + task[t].pieces <= Quota
    BY <1>1, <1>2, <1>5 DEF LoneFits
  <2> QED
    BY <1>1, <1>2, <1>3, <1>4, <2>1, MoveFits
<1>6. CASE t \notin alone
  <2>1. alone = {}
    BY <1>1, <1>6 DEF LoneFits
  <2> QED
    BY <1>1, <1>3, <2>1, NoneMoreFits DEF LoneFits
<1> QED
  BY <1>5, <1>6

LEMMA PanelFits ==
  ASSUME KnowledgeInv, KnowledgeInv', LoneFits, NEW d \in Docs,
         \/ \E kind \in {"text", "file", "page"} : Add(d, kind)
         \/ AddUnfetched(d) \/ Reindex(d) \/ Delete(d) \/ Old(d) \/ Sweep(d)
  PROVE  LoneFits' /\ FitsNow
<1> DEFINE row == docs'[d]
<1>1. docs[d] \in Doc /\ docs \in [Docs -> Doc]
  BY DEF KnowledgeInv, TypesOK
<1>2. CASE \E kind \in {"text", "file", "page"} : Add(d, kind)
  <2>1. PICK kind \in {"text", "file", "page"} : Add(d, kind)
    BY <1>2
  <2>2. docs' = [docs EXCEPT ![d].status = "pending", ![d].source = Source(kind)]
    BY <2>1 DEF Add
  <2>3. NoneMore
    BY <1>1, <2>2 DEF NoneMore, Doc
  <2>4. CASE UNCHANGED <<task, alone>>
    BY <2>3, <2>4, RowsChange
  <2>5. CASE Launch(d, IF kind = "file" THEN "extract" ELSE "index")
    BY <2>3, <2>5, LaunchFits
  <2> QED
    BY <2>1, <2>4, <2>5 DEF Add
<1>3. CASE Reindex(d)
  BY <1>3, NoneMoreRows, LaunchFits DEF Reindex
<1>4. CASE AddUnfetched(d) \/ Delete(d) \/ Old(d) \/ Sweep(d)
  <2>1. UNCHANGED <<task, alone>>
    BY <1>4 DEF AddUnfetched, Delete, Old, Sweep
  <2>2. NoneMore
    BY <1>1, <1>4 DEF AddUnfetched, Delete, Old, Sweep, NoDoc, NoneMore, Doc
  <2> QED
    BY <2>1, <2>2, RowsChange
<1> QED
  BY <1>2, <1>3, <1>4

LEMMA RestartFits ==
  ASSUME KnowledgeInv, KnowledgeInv', LoneFits, RestartProcess
  PROVE  LoneFits' /\ FitsNow
<1>1. \A t \in Tasks : task'[t].at \in {"unused", "over"}
  BY DEF RestartProcess, NotYet, Ended
<1>2. LoneFits'
  BY <1>1 DEF RestartProcess, LoneFits, Running
<1>3. NoneMore
  BY DEF RestartProcess, KnowledgeInv, TypesOK, Doc, NoDoc, NoneMore
<1> QED
  BY <1>2, <1>3, NoneMoreFits

LEMMA LoneFitsStep ==
  KnowledgeInv /\ KnowledgeInv' /\ LoneFits /\ [KnowledgeNext]_knowledgeVars => LoneFits' /\ FitsNow
<1> SUFFICES ASSUME KnowledgeInv, KnowledgeInv', LoneFits, [KnowledgeNext]_knowledgeVars
             PROVE  LoneFits' /\ FitsNow
  OBVIOUS
<1>1. CASE UNCHANGED knowledgeVars
  <2>1. UNCHANGED <<docs, task, alone>>
    BY <1>1 DEF knowledgeVars
  <2> QED
    BY <2>1, NoneMoreRows, RowsChange
<1>2. ASSUME NEW t \in Tasks, TaskStep(t) PROVE LoneFits' /\ FitsNow
  BY <1>2, MarkFits, ListFits, WorkFits DEF TaskStep
<1> QED
  BY <1>1, <1>2, PanelFits, RestartFits DEF KnowledgeNext

-------------------------------------------------------------------------------
(* What is stored.                                                           *)

Of(d) == {c \in chunks : c[1] = d}

\* The chunks of a document that is not in surplus are those its row counts, or those of
\* the task that is about to count them.
Kept(d) ==
  \/ Of(d) = {}
  \/ /\ Exists(d)
     /\ \/ \E t \in Tasks : task[t].at = "ready" /\ task[t].doc = d /\ Of(d) = Rows(t)
        \/ \E t \in Tasks : docs[d].count > 0 /\ Of(d) = Pieces(d, t, docs[d].count)

NoMoreThanCounted == \A d \in Docs \ surplus : Kept(d)

\* A step that leaves a document's chunks and count alone, and the tasks about to count.
LEMMA DocKept ==
  ASSUME NEW d \in Docs, Kept(d), Of(d)' = Of(d),
         Exists(d) => Exists(d)' /\ docs'[d].count = docs[d].count,
         Exists(d) => \A t \in Tasks : task[t].at = "ready" /\ task[t].doc = d => task'[t] = task[t]
  PROVE  Kept(d)'
<1>1. CASE Of(d) = {}
  BY <1>1 DEF Kept
<1>2. ASSUME Exists(d), NEW t \in Tasks, task[t].at = "ready", task[t].doc = d, Of(d) = Rows(t)
      PROVE  Kept(d)'
  <2>1. task'[t] = task[t] /\ Rows(t)' = Rows(t)
    BY <1>2 DEF Rows
  <2> QED
    BY <1>2, <2>1 DEF Kept
<1>3. ASSUME Exists(d), NEW t \in Tasks, docs[d].count > 0, Of(d) = Pieces(d, t, docs[d].count)
      PROVE  Kept(d)'
  BY <1>3 DEF Kept
<1> QED
  BY <1>1, <1>2, <1>3 DEF Kept

LEMMA PanelCounted ==
  ASSUME KnowledgeInv, NoMoreThanCounted, NEW d \in Docs,
         \/ \E kind \in {"text", "file", "page"} : Add(d, kind)
         \/ AddUnfetched(d) \/ Reindex(d) \/ Delete(d) \/ Old(d) \/ Sweep(d)
  PROVE  NoMoreThanCounted'
<1>1. docs \in [Docs -> Doc] /\ task \in [Tasks -> Task]
  BY DEF KnowledgeInv, TypesOK
<1>2. ASSUME NEW t \in Tasks, task[t].at = "ready" PROVE task'[t] = task[t]
  <2>1. task[t].at # "unused"
    BY <1>2
  <2> QED
    BY <1>1, <2>1 DEF Add, AddUnfetched, Reindex, Delete, Old, Sweep, Launch
<1>3. CASE Delete(d)
  <2>1. Of(d)' = {}
    BY <1>3 DEF Delete, Of
  <2>2. ASSUME NEW e \in Docs \ surplus', e # d PROVE Kept(e)'
    <3>1. Of(e)' = Of(e)
      BY <1>3, <2>2 DEF Delete, Of
    <3>2. docs'[e] = docs[e] /\ e \in Docs \ surplus
      BY <1>1, <1>3, <2>2 DEF Delete
    <3> QED
      BY <1>2, <3>1, <3>2, DocKept DEF NoMoreThanCounted, Exists
  <2> QED
    BY <2>1, <2>2 DEF NoMoreThanCounted, Kept
<1>4. CASE ~ Delete(d)
  <2>1. UNCHANGED <<chunks, surplus>>
    BY <1>4 DEF Add, AddUnfetched, Reindex, Old, Sweep
  <2>2. ASSUME NEW e \in Docs, Exists(e) PROVE Exists(e)' /\ docs'[e].count = docs[e].count
    BY <1>1, <1>4, <2>2 DEF Add, AddUnfetched, Reindex, Old, Sweep, Exists, Doc, Source
  <2>3. \A e \in Docs : Of(e)' = Of(e)
    BY <2>1 DEF Of
  <2> QED
    BY <1>2, <2>1, <2>2, <2>3, DocKept DEF NoMoreThanCounted
<1> QED
  BY <1>3, <1>4

\* A task moves on before it has inserted anything, or to its end without a count.
LEMMA MoveCounted ==
  ASSUME KnowledgeInv, NoMoreThanCounted, NEW t \in Tasks, task[t].at # "ready",
         \A u \in Tasks \ {t} : task'[u] = task[u], UNCHANGED <<docs, chunks, surplus>>
  PROVE  NoMoreThanCounted'
<1>1. \A e \in Docs : Of(e)' = Of(e) /\ (Exists(e)' <=> Exists(e))
  BY DEF Of, Exists
<1>2. \A u \in Tasks : task[u].at = "ready" => task'[u] = task[u]
  OBVIOUS
<1> QED
  BY <1>1, <1>2, DocKept DEF NoMoreThanCounted

LEMMA MarkCounted ==
  ASSUME KnowledgeInv, NoMoreThanCounted, NEW t \in Tasks, Mark(t)
  PROVE  NoMoreThanCounted'
<1>0. PICK d \in Docs : d = task[t].doc
  BY DEF Mark, Running, KnowledgeInv, TypesOK
<1>1. /\ t \in Running /\ d = task[t].doc /\ task[t] \in Task /\ docs[d] \in Doc
      /\ docs \in [Docs -> Doc] /\ task \in [Tasks -> Task] /\ UNCHANGED chunks
  BY <1>0 DEF Mark, Running, KnowledgeInv, TypesOK
<1>2. \A u \in Tasks \ {t} : task'[u] = task[u]
  BY <1>1 DEF Mark, Go
<1>3. docs' = docs \/ (Exists(d) /\ docs' = Marked(t))
  BY <1>1 DEF Mark
<1>4. surplus \subseteq surplus'
  BY DEF Mark
<1>5. \A e \in Docs : Of(e)' = Of(e)
  BY <1>1 DEF Of
<1> DEFINE says == Written(t)
           count == IF says = "ready" THEN task[t].pieces ELSE docs[d].count
<1>6. docs' # docs => docs' = [docs EXCEPT ![d].status = says, ![d].count = count]
  BY <1>1, <1>3 DEF Marked
<1>7. /\ says \in {"indexing", "ready", "failed"} /\ count \in Nat
      /\ task[t].at # "ready" => count = docs[d].count
      /\ task[t].at = "ready" => count = task[t].pieces
  BY <1>1 DEF Written, Task, Doc
<1> HIDE DEF says, count
<1>8. /\ docs' # docs => docs'[d].status = says /\ docs'[d].count = count
      /\ \A e \in Docs \ {d} : docs'[e] = docs[e]
  BY <1>1, <1>6, <1>7 DEF Doc
<1>9. ASSUME NEW e \in Docs \ surplus', e # d PROVE Kept(e)'
  <2>1. docs'[e] = docs[e] /\ (Exists(e)' <=> Exists(e)) /\ e \in Docs \ surplus
    BY <1>4, <1>8, <1>9 DEF Exists
  <2>2. \A u \in Tasks : task[u].at = "ready" /\ task[u].doc = e => task'[u] = task[u]
    BY <1>1, <1>2, <1>9
  <2> QED
    BY <1>5, <2>1, <2>2, DocKept DEF NoMoreThanCounted
<1>10. ASSUME d \notin surplus' PROVE Kept(d)'
  <2>1. Kept(d)
    BY <1>1, <1>4, <1>10 DEF NoMoreThanCounted
  <2>2. CASE task[t].at # "ready"
    <3>1. Exists(d) => Exists(d)' /\ docs'[d].count = docs[d].count
      BY <1>7, <1>8, <2>2 DEF Exists
    <3>2. \A u \in Tasks : task[u].at = "ready" /\ task[u].doc = d => task'[u] = task[u]
      BY <1>2, <2>2
    <3> QED
      BY <1>1, <1>5, <2>1, <3>1, <3>2, DocKept
  <2>3. CASE task[t].at = "ready" /\ ~ Exists(d)
    BY <1>5, <2>1, <2>3 DEF Kept
  <2>4. CASE task[t].at = "ready" /\ Exists(d)
    <3>1. docs' = Marked(t)
      BY <1>1, <1>10, <2>4 DEF Mark
    <3>2. docs'[d].count = task[t].pieces /\ Exists(d)'
      <4>1. docs' = [docs EXCEPT ![d].status = says, ![d].count = count]
        BY <1>1, <3>1 DEF Marked, says, count
      <4>2. docs'[d].status = says /\ docs'[d].count = count
        BY <1>1, <4>1 DEF Doc
      <4> QED
        BY <1>7, <2>4, <4>2 DEF Exists
    <3>3. ChunksOf(d, t) = Rows(t) /\ task[t].pieces > 0 /\ task[t].pieces \in Nat
      BY <1>1, <2>4 DEF KnowledgeInv, Inserted, Task
    <3>4. <<d, t, 1>> \in Rows(t)
      BY <1>1, <3>3 DEF Rows, Pieces
    <3>5. <<d, t, 1>> \in Of(d)
      BY <3>3, <3>4 DEF ChunksOf, Of
    <3>6. Rows(t) = Pieces(d, t, docs'[d].count)
      BY <1>1, <3>2 DEF Rows
    <3>7. ASSUME NEW u \in Tasks, NEW n, Of(d) = Pieces(d, u, n) PROVE u = t /\ Of(d) = Rows(t)
      <4>1. u = t /\ \A c \in Of(d) : c[1] = d /\ c[2] = t
        BY <3>5, <3>7 DEF Pieces
      <4>2. Of(d) = ChunksOf(d, t)
        BY <4>1 DEF Of, ChunksOf
      <4> QED
        BY <3>3, <4>1, <4>2
    <3>8. ASSUME NEW u \in Tasks, Of(d) = Pieces(d, u, docs[d].count) PROVE Kept(d)'
      <4>1. Of(d)' = Pieces(d, t, docs'[d].count)
        BY <1>5, <3>6, <3>7, <3>8, <1>1
      <4> QED
        BY <3>2, <3>3, <4>1 DEF Kept
    <3>9. ASSUME NEW u \in Tasks, task[u].doc = d, Of(d) = Rows(u) PROVE Kept(d)'
      <4>1. Of(d) = Pieces(d, u, task[u].pieces)
        BY <3>9 DEF Rows
      <4>2. Of(d)' = Pieces(d, t, docs'[d].count)
        BY <1>5, <3>6, <3>7, <4>1, <1>1
      <4> QED
        BY <3>2, <3>3, <4>2 DEF Kept
    <3> QED
      BY <2>1, <3>5, <3>8, <3>9 DEF Kept
  <2> QED
    BY <2>2, <2>3, <2>4
<1> QED
  BY <1>9, <1>10 DEF NoMoreThanCounted

LEMMA InsertCounted ==
  ASSUME KnowledgeInv, NoMoreThanCounted, NEW t \in Tasks, StoreChunks(t)
  PROVE  NoMoreThanCounted'
<1>0. PICK d \in Docs : d = task[t].doc
  BY DEF StoreChunks, Insert, Running, KnowledgeInv, TypesOK
<1>1. /\ t \in Running /\ d = task[t].doc /\ task[t] \in Task /\ task[t].at = "store" /\ UNCHANGED docs
      /\ docs \in [Docs -> Doc] /\ task \in [Tasks -> Task] /\ surplus \subseteq surplus'
      /\ chunks' = chunks \/ chunks' = chunks \cup Rows(t)
  BY <1>0 DEF StoreChunks, Insert, Surplus, Running, KnowledgeInv, TypesOK
<1>2. \A u \in Tasks \ {t} : task'[u] = task[u]
  BY <1>1 DEF StoreChunks, Insert, Go
<1>3. \A u \in Tasks : task[u].at = "ready" => task'[u] = task[u]
  BY <1>1, <1>2
<1>4. \A c \in Rows(t) : c[1] = d /\ c[2] = t
  BY <1>1 DEF Rows, Pieces
<1>5. ASSUME NEW e \in Docs, Of(e)' = Of(e), e \notin surplus' PROVE Kept(e)'
  BY <1>1, <1>3, <1>5, DocKept DEF NoMoreThanCounted, Exists
<1>6. ASSUME NEW e \in Docs, e # d PROVE Of(e)' = Of(e)
  BY <1>1, <1>4, <1>6 DEF Of
<1>7. ASSUME d \notin surplus', Of(d)' # Of(d) PROVE Kept(d)'
  <2>1. chunks' # chunks
    BY <1>7 DEF Of
  <2>2. /\ task' = [task EXCEPT ![t].at = "ready"] /\ Exists(d) /\ chunks' = chunks \cup Rows(t)
        /\ \A c \in chunks : c[1] # d
    BY <1>1, <1>7, <2>1 DEF StoreChunks, Insert, Surplus, Go
  <2>3. Of(d)' = Rows(t)
    BY <1>4, <2>2 DEF Of
  <2>4. task'[t].at = "ready" /\ task'[t].doc = d /\ task'[t].pieces = task[t].pieces
    BY <1>1, <2>2 DEF Task
  <2>5. Rows(t)' = Rows(t) /\ Exists(d)'
    BY <1>1, <2>2, <2>4 DEF Rows, Exists
  <2> QED
    BY <2>3, <2>4, <2>5 DEF Kept
<1> QED
  BY <1>1, <1>5, <1>6, <1>7 DEF NoMoreThanCounted

LEMMA RestartCounted ==
  ASSUME KnowledgeInv, NoMoreThanCounted, RestartProcess
  PROVE  NoMoreThanCounted'
<1>1. CASE store = "supabase"
  <2>1. UNCHANGED <<docs, chunks>> /\ surplus \subseteq surplus'
        /\ \A t \in Tasks : task[t].at = "ready" => task[t].doc \in surplus'
    BY <1>1 DEF RestartProcess
  <2>2. \A d \in Docs : Of(d)' = Of(d) /\ (Exists(d)' <=> Exists(d))
    BY <2>1 DEF Of, Exists
  <2> QED
    BY <2>1, <2>2, DocKept DEF NoMoreThanCounted
<1>2. CASE store # "supabase"
  <2>1. \A d \in Docs : Of(d)' = {}
    BY <1>2 DEF RestartProcess, Of
  <2> QED
    BY <2>1 DEF NoMoreThanCounted, Kept
<1> QED
  BY <1>1, <1>2

LEMMA CountedStep ==
  KnowledgeInv /\ NoMoreThanCounted /\ [KnowledgeNext]_knowledgeVars => NoMoreThanCounted'
<1> SUFFICES ASSUME KnowledgeInv, NoMoreThanCounted, [KnowledgeNext]_knowledgeVars
             PROVE  NoMoreThanCounted'
  OBVIOUS
<1>1. CASE UNCHANGED knowledgeVars
  BY <1>1 DEF knowledgeVars, NoMoreThanCounted, Kept, Of, Exists, Rows
<1>2. ASSUME NEW t \in Tasks, Extract(t) \/ List(t) \/ Embed(t) PROVE NoMoreThanCounted'
  <2>1. task[t].at # "ready" /\ UNCHANGED <<docs, chunks, surplus>>
    BY <1>2 DEF Extract, List, Embed
  <2>2. \A u \in Tasks \ {t} : task'[u] = task[u]
    BY <1>2 DEF Extract, List, Embed, Go, KnowledgeInv, TypesOK
  <2> QED
    BY <2>1, <2>2, MoveCounted
<1>3. ASSUME NEW t \in Tasks, TaskStep(t) PROVE NoMoreThanCounted'
  BY <1>2, <1>3, MarkCounted, InsertCounted DEF TaskStep
<1> QED
  BY <1>1, <1>3, PanelCounted, RestartCounted DEF KnowledgeNext

\* A text of n pieces is stored as n chunks.
LEMMA PiecesOfText ==
  ASSUME NEW d, NEW t, NEW n \in Nat
  PROVE  IsFiniteSet(Pieces(d, t, n)) /\ Cardinality(Pieces(d, t, n)) = n
<1> DEFINE f == [i \in 1..n |-> <<d, t, i>>]
<1>1. f \in Bijection(1..n, Pieces(d, t, n))
  <2>1. f \in [1..n -> Pieces(d, t, n)]
    BY DEF Pieces
  <2>2. \A i, j \in 1..n : f[i] = f[j] => i = j
    OBVIOUS
  <2>3. \A c \in Pieces(d, t, n) : \E i \in 1..n : f[i] = c
    BY DEF Pieces
  <2> HIDE DEF f
  <2> QED
    BY <2>1, <2>2, <2>3 DEF Bijection, Injection, Surjection, IsInjective
<1>2. IsFiniteSet(1..n) /\ Cardinality(1..n) = n
  BY FS_Interval
<1> HIDE DEF f
<1> QED
  BY <1>1, <1>2, FS_Bijection DEF ExistsBijection

ChunksIn(held, ds) == {c \in held : c[1] \in ds}
ChunksAt(held, d)  == {c \in held : c[1] = d}

\* Chunks of documents that have no more than their rows count are no more than all rows do.
LEMMA StoredIsCounted ==
  ASSUME NEW rows, NEW held, NEW S, IsFiniteSet(S), \A d \in S : rows[d].count \in Nat,
         \A d \in S : /\ IsFiniteSet(ChunksAt(held, d))
                      /\ Cardinality(ChunksAt(held, d)) <= rows[d].count
  PROVE  /\ IsFiniteSet(ChunksIn(held, S))
         /\ Cardinality(ChunksIn(held, S)) <= Counted(rows, S)
<1> DEFINE In(s) == ChunksIn(held, s)
           Fits(s) == IsFiniteSet(In(s)) /\ Cardinality(In(s)) <= Counted(rows, s)
           Bad == {s \in SUBSET S : ~ Fits(s)}
<1>1. SUFFICES ASSUME Bad # {} PROVE FALSE
  OBVIOUS
<1>2. PICK s \in Bad : \A t \in Bad : t \subseteq s => t = s
  <2>1. Bad \in SUBSET SUBSET S
    OBVIOUS
  <2> HIDE DEF Bad
  <2> QED
    BY <1>1, <2>1, SmallestOf
<1>3. Counted(rows, s) = IF s = {} THEN 0 ELSE rows[Chosen(s)].count + Counted(rows, Rest(s))
  BY FS_Subset, CountedFrom
<1>4. CASE s = {}
  <2>1. In(s) = {}
    BY <1>4 DEF ChunksIn
  <2> QED
    BY <1>2, <1>3, <1>4, <2>1, FS_EmptySet
<1>5. CASE s # {}
  <2> DEFINE x == Chosen(s)
             one == ChunksAt(held, x)
             rest == In(Rest(s))
  <2>1. x \in S /\ Rest(s) \in SUBSET S /\ Fits(Rest(s)) /\ s = Rest(s) \cup {x} /\ x \notin Rest(s)
    BY <1>2, <1>5, RestIs DEF Rest
  <2>2. In(s) = rest \cup one /\ rest \cap one = {}
    <3> HIDE DEF x
    <3> QED
      BY <2>1 DEF ChunksIn, ChunksAt
  <2>3. IsFiniteSet(one) /\ Cardinality(one) <= rows[x].count /\ rows[x].count \in Nat
    BY <2>1
  <2>4. IsFiniteSet(rest) /\ Cardinality(rest) <= Counted(rows, Rest(s)) /\ Counted(rows, Rest(s)) \in Nat
    BY <2>1, FS_Subset, CountedNat
  <2> HIDE DEF one, rest, x
  <2>5. IsFiniteSet(rest \cup one) /\ Cardinality(rest \cup one) = Cardinality(rest) + Cardinality(one)
    <3>1. Cardinality(rest \cap one) = 0
      BY <2>2, FS_EmptySet
    <3>2. /\ IsFiniteSet(rest \cup one)
          /\ Cardinality(rest \cup one) = Cardinality(rest) + Cardinality(one) - Cardinality(rest \cap one)
      BY <2>3, <2>4, FS_Union
    <3>3. Cardinality(rest) \in Nat /\ Cardinality(one) \in Nat
      BY <2>3, <2>4, FS_CardinalityType
    <3> QED
      BY <3>1, <3>2, <3>3
  <2>6. Cardinality(rest) \in Nat /\ Cardinality(one) \in Nat
    BY <2>3, <2>4, FS_CardinalityType
  <2> QED
    <3>1. Counted(rows, s) = rows[x].count + Counted(rows, Rest(s))
      BY <1>3, <1>5 DEF x
    <3>2. IsFiniteSet(In(s)) /\ Cardinality(In(s)) <= Counted(rows, s)
      <4> HIDE DEF In
      <4> QED
        BY <2>2, <2>3, <2>4, <2>5, <2>6, <3>1
    <3> QED
      BY <1>2, <3>2
<1> QED
  BY <1>4, <1>5

\* What FitsAlone says of the chunks, of one step.
LEMMA StoredFitsNow ==
  ASSUME KnowledgeInv', NoMoreThanCounted', Counted(docs', Docs) <= Quota,
         \A u \in Tasks : task'[u].at # "ready"
  PROVE  Cardinality({c \in chunks' : c[1] \notin surplus'}) <= Quota
<1> DEFINE held == {c \in chunks' : c[1] \notin surplus'}
<1>1. \A d \in Docs : docs'[d].count \in Nat
  BY DEF KnowledgeInv, TypesOK, Doc
<1>2. ASSUME NEW d \in Docs
      PROVE  /\ IsFiniteSet(ChunksAt(held, d))
             /\ Cardinality(ChunksAt(held, d)) <= docs'[d].count
  <2>1. CASE ChunksAt(held, d) = {}
    <3> HIDE DEF held
    <3> QED
      BY <1>1, <2>1, FS_EmptySet
  <2>2. CASE ChunksAt(held, d) # {}
    <3>1. d \notin surplus' /\ ChunksAt(held, d) = Of(d)'
      BY <2>2 DEF Of, ChunksAt
    <3>2. PICK u \in Tasks : Of(d)' = Pieces(d, u, docs'[d].count)
      BY <2>2, <3>1 DEF NoMoreThanCounted, Kept
    <3>3. /\ IsFiniteSet(Pieces(d, u, docs'[d].count))
          /\ Cardinality(Pieces(d, u, docs'[d].count)) = docs'[d].count
      BY <1>1, PiecesOfText
    <3> HIDE DEF held
    <3> QED
      BY <1>1, <3>1, <3>2, <3>3
  <2> QED
    BY <2>1, <2>2
<1>3. ChunksIn(held, Docs) = held
  BY DEF ChunksIn, KnowledgeInv, TypesOK
<1> HIDE DEF held
<1>4. IsFiniteSet(held) /\ Cardinality(held) <= Counted(docs', Docs)
  BY <1>1, <1>2, <1>3, StoredIsCounted, QuotaAssumption
<1>5. Counted(docs', Docs) \in Nat /\ Cardinality(held) \in Nat
  BY <1>1, <1>4, CountedNat, FS_CardinalityType, QuotaAssumption
<1> QED
  BY <1>4, <1>5, QuotaAssumption DEF held

\* The quota is read before the embedding and written after it, yet when a task beside
\* which no other ran has stored its chunks, neither do the rows count more than the quota
\* nor is more than it stored, but for documents that have chunks their row does not count,
\* whatever is deleted, fails, is swept or restarts meanwhile: for any documents, quota and
\* length of text.
THEOREM LoneTasksFit == KnowledgeSpec => FitsAlone
<1>1. KnowledgeInit => LoneFits /\ NoMoreThanCounted
  BY DEF KnowledgeInit, LoneFits, NoMoreThanCounted, Kept, Of
<1>2. KnowledgeInv /\ KnowledgeInv' /\ LoneFits /\ NoMoreThanCounted /\ [KnowledgeNext]_knowledgeVars =>
        [\A t \in alone : task[t].at = "ready" /\ docs'[task[t].doc].status = "ready" =>
           /\ Counted(docs', Docs) <= Quota
           /\ Cardinality({c \in chunks' : c[1] \notin surplus'}) <= Quota]_knowledgeVars
  BY LoneFitsStep, CountedStep, StoredFitsNow DEF FitsNow
<1> QED
  BY <1>1, <1>2, KnowledgeBegins, KnowledgeStep, LoneFitsStep, CountedStep, PTL
  DEF KnowledgeSpec, FitsAlone
===============================================================================
