-------------------------- MODULE TenantConfigProofs --------------------------
(***************************************************************************)
(* Proofs about TenantConfig, for any number of operations, configurations *)
(* and failed requests.                                                    *)
(*                                                                         *)
(* The first half proves `SafeInv`.  Its `Control` is about the programs:  *)
(* what is still to come is always a suffix of a program of admin.py, so   *)
(* it is enough to prove of each program, and of Tail, that it is          *)
(* `Ordered`: no step that can end in a conflict comes after one that      *)
(* writes, and a version is inserted only after "drop_servers", the last   *)
(* write of sync_tenant.  `HandOK` says what the document in an            *)
(* operation's hands may be, `Seen` what is stored.                        *)
(*                                                                         *)
(* The second half follows one operation that nobody overlaps: `Progress`  *)
(* is the part of its promise whose step is over, and `Shaped` the reason  *)
(* why no later step undoes it.                                            *)
(***************************************************************************)
EXTENDS TenantConfig, SequenceTheorems, TLAPS

-----------------------------------------------------------------------------
(* What the programs of the operations have in common.                     *)

\* The steps that write, and those that may end an operation in a conflict.
Writing == {"write_draft", "clear_draft", "put_row", "put_services", "put_servers",
            "drop_services", "drop_servers", "unset", "insert", "flip", "delete",
            "purge_history", "purge_services", "purge_servers", "purge_consents",
            "purge_versions", "purge_row"}
Rejecting(k) == {"base", "match", "consent", "read_draft", "read_version", "absent"}
                \cup IF k \in {"deploy", "switch"} THEN {"put_row"} ELSE {}

\* The document an operation publishes is the one it begins with, or what its first
\* step reads.
Reading == {"read_draft", "read_version"}
Publishes(k) == k \in {"deploy", "switch", "delete", "create", "status"}
Drafting == {"open", "base", "match", "write_draft"}
Publishing == {"put_row", "put_services", "put_servers", "drop_services",
               "drop_servers", "insert", "activate"} \cup Reading

\* The steps that may skip the one after them.
Skipping == {"current", "base", "fetch"}
Skipped == {"consent", "match", "install"}

Each(k, s) ==
  \A i \in 1 .. Len(s) :
    /\ s[i] \in Drafting => k = "draft"
    /\ s[i] \in Publishing => Publishes(k)
    /\ s[i] = "insert" => k \in {"deploy", "create"}
    /\ s[i] \in Reading => i = 1
    /\ s[i] \in Skipping => i < Len(s) /\ s[i + 1] \in Skipped

Before(k, s) ==
  \A i, j \in 1 .. Len(s) : i < j =>
    /\ s[i] \in Writing => s[j] \notin Rejecting(k)
    /\ s[i] = "insert" => s[j] # "drop_servers"
    /\ s[i] \in Reading \cup {"activate"} /\ s[j] = "insert" =>
         \E m \in i + 1 .. j - 1 : s[m] = "drop_servers"

Ordered(k, s) == Each(k, s) /\ Before(k, s)

LEMMA TailOrdered ==
  ASSUME NEW k, NEW s \in Seq(Steps), s # <<>>, Ordered(k, s)
  PROVE  Tail(s) \in Seq(Steps) /\ Ordered(k, Tail(s))
<1>1. /\ Tail(s) \in Seq(Steps) /\ Len(s) \in Nat /\ Len(Tail(s)) = Len(s) - 1
      /\ \A i \in 1 .. Len(Tail(s)) : Tail(s)[i] = s[i + 1]
  BY HeadTailProperties, LenProperties
<1> DEFINE t == Tail(s)
<1> HIDE DEF t
<1>2. \A i \in 1 .. Len(t) :
       /\ t[i] \in Drafting => k = "draft"
       /\ t[i] \in Publishing => Publishes(k)
       /\ t[i] = "insert" => k \in {"deploy", "create"}
       /\ t[i] \in Reading => i = 1
       /\ t[i] \in Skipping => i < Len(t) /\ t[i + 1] \in Skipped
  <2> SUFFICES ASSUME NEW i \in 1 .. Len(t)
               PROVE  /\ t[i] \in Drafting => k = "draft"
                      /\ t[i] \in Publishing => Publishes(k)
                      /\ t[i] = "insert" => k \in {"deploy", "create"}
                      /\ t[i] \in Reading => i = 1
                      /\ t[i] \in Skipping => i < Len(t) /\ t[i + 1] \in Skipped
    OBVIOUS
  <2>1. i + 1 \in 1 .. Len(s) /\ t[i] = s[i + 1] /\ i + 1 # 1
    BY <1>1 DEF t
  <2>2. i + 1 < Len(s) => i < Len(t) /\ t[i + 1] = s[(i + 1) + 1]
    BY <1>1 DEF t
  <2> QED
    BY <2>1, <2>2 DEF Ordered, Each, Before
<1>3. ASSUME NEW i \in 1 .. Len(t), NEW j \in 1 .. Len(t), i < j
      PROVE  /\ t[i] \in Writing => t[j] \notin Rejecting(k)
             /\ t[i] = "insert" => t[j] # "drop_servers"
             /\ t[i] \in Reading \cup {"activate"} /\ t[j] = "insert" =>
                  \E m \in i + 1 .. j - 1 : t[m] = "drop_servers"
  <2>1. i + 1 \in 1 .. Len(s) /\ j + 1 \in 1 .. Len(s) /\ i + 1 < j + 1
        /\ t[i] = s[i + 1] /\ t[j] = s[j + 1]
    BY <1>1, <1>3 DEF t
  <2>2. /\ s[i + 1] \in Writing => s[j + 1] \notin Rejecting(k)
        /\ s[i + 1] = "insert" => s[j + 1] # "drop_servers"
    BY <2>1 DEF Ordered, Each, Before
  <2>3. ASSUME t[i] \in Reading \cup {"activate"}, t[j] = "insert"
        PROVE  \E m \in i + 1 .. j - 1 : t[m] = "drop_servers"
    <3>1. PICK m \in (i + 1) + 1 .. (j + 1) - 1 : s[m] = "drop_servers"
      BY <2>1, <2>3 DEF Ordered, Each, Before
    <3>2. m - 1 \in i + 1 .. j - 1 /\ t[m - 1] = s[m]
      BY <1>1 DEF t
    <3> QED
      BY <3>1, <3>2
  <2> QED
    BY <2>1, <2>2, <2>3
<1> QED
  BY <1>1, <1>2, <1>3 DEF t, Ordered, Each, Before

\* The rest of this part writes the programs out.
LEMMA Parts == Sync \in Seq(Steps) /\ Refresh \in Seq(Steps) /\ <<"current", "consent">> \in Seq(Steps)
BY DEF Sync, Refresh, Steps

LEMMA ConcatType == \A a, b \in Seq(Steps) : a \o b \in Seq(Steps)
BY ConcatProperties

LEMMA SaveType == Save \in Seq(Steps)
BY Parts, ConcatType DEF Save

LEMMA Deploys ==
  Program("deploy") =
    <<"read_draft", "current", "consent", "put_row", "put_services",
      "put_servers", "drop_services", "drop_servers", "clear", "fetch",
      "install", "max", "unset", "insert", "clear_draft">>
<1> DEFINE s == Program("deploy")
           t == <<"read_draft", "current", "consent", "put_row",
                  "put_services", "put_servers", "drop_services",
                  "drop_servers", "clear", "fetch", "install", "max", "unset",
                  "insert", "clear_draft">>
<1>1. s = <<"read_draft">> \o Save \o <<"max", "unset", "insert", "clear_draft">>
  BY DEF Program
<1>2. s \in Seq(Steps)
  <2>1. /\ <<"read_draft">> \in Seq(Steps)
        /\ <<"max", "unset", "insert", "clear_draft">> \in Seq(Steps)
    BY DEF Steps
  <2>2. <<"read_draft">> \o Save \in Seq(Steps)
    BY <2>1, SaveType, ConcatType
  <2> QED
    BY <1>1, <2>1, <2>2, ConcatType
<1>3. t \in Seq(Steps)
  BY DEF Steps
<1>4. Len(s) = 15 /\ Len(t) = 15
  BY <1>1 DEF Save, Sync, Refresh
<1>5. \A i \in 1 .. 15 : s[i] = t[i]
  BY <1>1 DEF Save, Sync, Refresh
<1> QED
  BY <1>2, <1>3, <1>4, <1>5, SeqEqual

LEMMA Switches ==
  Program("switch") =
    <<"read_version", "current", "consent", "put_row", "put_services",
      "put_servers", "drop_services", "drop_servers", "clear", "fetch",
      "install", "unset", "flip">>
<1> DEFINE s == Program("switch")
           t == <<"read_version", "current", "consent", "put_row",
                  "put_services", "put_servers", "drop_services",
                  "drop_servers", "clear", "fetch", "install", "unset", "flip">>
<1>1. s = <<"read_version">> \o Save \o <<"unset", "flip">>
  BY DEF Program
<1>2. s \in Seq(Steps)
  <2>1. /\ <<"read_version">> \in Seq(Steps)
        /\ <<"unset", "flip">> \in Seq(Steps)
    BY DEF Steps
  <2> QED
    BY <1>1, <2>1, SaveType
<1>3. t \in Seq(Steps)
  BY DEF Steps
<1>4. Len(s) = 13 /\ Len(t) = 13
  BY <1>1 DEF Save, Sync, Refresh
<1>5. \A i \in 1 .. 13 : s[i] = t[i]
  BY <1>1 DEF Save, Sync, Refresh
<1> QED
  BY <1>2, <1>3, <1>4, <1>5, SeqEqual

LEMMA Creates ==
  Program("create") =
    <<"absent", "put_row", "put_services", "put_servers", "drop_services",
      "drop_servers", "activate", "put_row", "put_services", "put_servers",
      "drop_services", "drop_servers", "insert", "clear", "fetch", "install">>
<1> DEFINE s == Program("create")
           t == <<"absent", "put_row", "put_services", "put_servers",
                  "drop_services", "drop_servers", "activate", "put_row",
                  "put_services", "put_servers", "drop_services",
                  "drop_servers", "insert", "clear", "fetch", "install">>
<1>1. s = <<"absent">> \o Sync \o <<"activate">> \o Sync \o <<"insert">> \o Refresh
  BY DEF Program
<1>2. s \in Seq(Steps)
  <2>1. /\ <<"absent">> \in Seq(Steps)
        /\ <<"activate">> \in Seq(Steps)
        /\ <<"insert">> \in Seq(Steps)
    BY DEF Steps
  <2> QED
    <3>1. <<"absent">> \o Sync \o <<"activate">> \in Seq(Steps)
      BY <2>1, Parts, ConcatType
    <3>2. <<"absent">> \o Sync \o <<"activate">> \o Sync \in Seq(Steps)
      BY <3>1, Parts, ConcatType
    <3>3. <<"absent">> \o Sync \o <<"activate">> \o Sync \o <<"insert">> \in Seq(Steps)
      BY <2>1, <3>2, ConcatType
    <3> QED
      BY <1>1, <3>3, Parts, ConcatType
<1>3. t \in Seq(Steps)
  BY DEF Steps
<1>4. Len(s) = 16 /\ Len(t) = 16
  BY <1>1 DEF Save, Sync, Refresh
<1>5. \A i \in 1 .. 16 : s[i] = t[i]
  BY <1>1 DEF Save, Sync, Refresh
<1> QED
  BY <1>2, <1>3, <1>4, <1>5, SeqEqual

LEMMA StatusChanges ==
  Program("status") =
    <<"put_row", "put_services", "put_servers", "drop_services",
      "drop_servers", "clear", "fetch", "install">>
<1> DEFINE s == Program("status")
           t == <<"put_row", "put_services", "put_servers", "drop_services",
                  "drop_servers", "clear", "fetch", "install">>
<1>1. s = Sync \o Refresh
  BY DEF Program
<1>2. s \in Seq(Steps)
  BY <1>1, Parts, ConcatType
<1>3. t \in Seq(Steps)
  BY DEF Steps
<1>4. Len(s) = 8 /\ Len(t) = 8
  BY <1>1 DEF Save, Sync, Refresh
<1>5. \A i \in 1 .. 8 : s[i] = t[i]
  BY <1>1 DEF Save, Sync, Refresh
<1> QED
  BY <1>2, <1>3, <1>4, <1>5, SeqEqual

LEMMA Purges ==
  Program("purge") =
    <<"purge_history", "purge_services", "purge_servers", "purge_consents",
      "purge_versions", "purge_row", "clear", "fetch", "install">>
<1> DEFINE s == Program("purge")
           t == <<"purge_history", "purge_services", "purge_servers",
                  "purge_consents", "purge_versions", "purge_row", "clear",
                  "fetch", "install">>
<1>1. s = <<"purge_history", "purge_services", "purge_servers",
                "purge_consents", "purge_versions", "purge_row">> \o Refresh
  BY DEF Program
<1>2. s \in Seq(Steps)
  <2>1. <<"purge_history", "purge_services", "purge_servers",
         "purge_consents", "purge_versions", "purge_row">> \in Seq(Steps)
    BY DEF Steps
  <2> QED
    BY <1>1, <2>1, Parts, ConcatType
<1>3. t \in Seq(Steps)
  BY DEF Steps
<1>4. Len(s) = 9 /\ Len(t) = 9
  BY <1>1 DEF Save, Sync, Refresh
<1>5. \A i \in 1 .. 9 : s[i] = t[i]
  BY <1>1 DEF Save, Sync, Refresh
<1> QED
  BY <1>2, <1>3, <1>4, <1>5, SeqEqual

LEMMA ProgramsAreOrdered ==
  ASSUME NEW k \in Kinds
  PROVE  Program(k) \in Seq(Steps) /\ Ordered(k, Program(k)) /\ Program(k) # <<>>
<1> USE DEF Drafting, Publishing, Publishes, Reading, Skipping, Skipped, Writing, Rejecting
<1>1. ASSUME NEW s, s = <<"open", "base", "match", "write_draft">>
      PROVE  s \in Seq(Steps) /\ s # <<>> /\ Each("draft", s) /\ Before("draft", s)
  <2>1. s \in Seq(Steps) /\ s # <<>> /\ Len(s) = 4
    BY <1>1 DEF Steps
  <2>2. Each("draft", s)
    BY <1>1 DEF Each
  <2>3. Before("draft", s)
    BY <1>1 DEF Before
  <2> QED
    BY <2>1, <2>2, <2>3
<1>2. ASSUME NEW s, s = <<"clear_draft">>
      PROVE  s \in Seq(Steps) /\ s # <<>> /\ Each("discard", s) /\ Before("discard", s)
  <2>1. s \in Seq(Steps) /\ s # <<>> /\ Len(s) = 1
    BY <1>2 DEF Steps
  <2>2. Each("discard", s)
    BY <1>2 DEF Each
  <2>3. Before("discard", s)
    BY <1>2 DEF Before
  <2> QED
    BY <2>1, <2>2, <2>3
<1>3. ASSUME NEW s, s = <<"read_draft", "current", "consent", "put_row",
                        "put_services", "put_servers", "drop_services",
                        "drop_servers", "clear", "fetch", "install", "max",
                        "unset", "insert", "clear_draft">>
      PROVE  s \in Seq(Steps) /\ s # <<>> /\ Each("deploy", s) /\ Before("deploy", s)
  <2>1. s \in Seq(Steps) /\ s # <<>> /\ Len(s) = 15
    BY <1>3 DEF Steps
  <2>2. Each("deploy", s)
    BY <1>3 DEF Each
  <2>3. Before("deploy", s)
    BY <1>3 DEF Before
  <2> QED
    BY <2>1, <2>2, <2>3
<1>4. ASSUME NEW s, s = <<"read_version", "current", "consent", "put_row",
                        "put_services", "put_servers", "drop_services",
                        "drop_servers", "clear", "fetch", "install", "unset",
                        "flip">>
      PROVE  s \in Seq(Steps) /\ s # <<>> /\ Each("switch", s) /\ Before("switch", s)
  <2>1. s \in Seq(Steps) /\ s # <<>> /\ Len(s) = 13
    BY <1>4 DEF Steps
  <2>2. Each("switch", s)
    BY <1>4 DEF Each
  <2>3. Before("switch", s)
    BY <1>4 DEF Before
  <2> QED
    BY <2>1, <2>2, <2>3
<1>5. ASSUME NEW s, s = <<"read_version", "delete">>
      PROVE  s \in Seq(Steps) /\ s # <<>> /\ Each("delete", s) /\ Before("delete", s)
  <2>1. s \in Seq(Steps) /\ s # <<>> /\ Len(s) = 2
    BY <1>5 DEF Steps
  <2>2. Each("delete", s)
    BY <1>5 DEF Each
  <2>3. Before("delete", s)
    BY <1>5 DEF Before
  <2> QED
    BY <2>1, <2>2, <2>3
<1>6. ASSUME NEW s, s = <<"absent", "put_row", "put_services", "put_servers",
                        "drop_services", "drop_servers", "activate", "put_row",
                        "put_services", "put_servers", "drop_services",
                        "drop_servers", "insert", "clear", "fetch", "install">>
      PROVE  s \in Seq(Steps) /\ s # <<>> /\ Each("create", s) /\ Before("create", s)
  <2>1. s \in Seq(Steps) /\ s # <<>> /\ Len(s) = 16
    BY <1>6 DEF Steps
  <2>2. Each("create", s)
    BY <1>6 DEF Each
  <2>3. Before("create", s)
    BY <1>6 DEF Before
  <2> QED
    BY <2>1, <2>2, <2>3
<1>7. ASSUME NEW s, s = <<"put_row", "put_services", "put_servers",
                        "drop_services", "drop_servers", "clear", "fetch",
                        "install">>
      PROVE  s \in Seq(Steps) /\ s # <<>> /\ Each("status", s) /\ Before("status", s)
  <2>1. s \in Seq(Steps) /\ s # <<>> /\ Len(s) = 8
    BY <1>7 DEF Steps
  <2>2. Each("status", s)
    BY <1>7 DEF Each
  <2>3. Before("status", s)
    BY <1>7 DEF Before
  <2> QED
    BY <2>1, <2>2, <2>3
<1>8. ASSUME NEW s, s = <<"purge_history", "purge_services", "purge_servers",
                        "purge_consents", "purge_versions", "purge_row",
                        "clear", "fetch", "install">>
      PROVE  s \in Seq(Steps) /\ s # <<>> /\ Each("purge", s) /\ Before("purge", s)
  <2>1. s \in Seq(Steps) /\ s # <<>> /\ Len(s) = 9
    BY <1>8 DEF Steps
  <2>2. Each("purge", s)
    BY <1>8 DEF Each
  <2>3. Before("purge", s)
    BY <1>8 DEF Before
  <2> QED
    BY <2>1, <2>2, <2>3
<1> QED
  <2>1. CASE k = "draft"
    BY <1>1, <2>1 DEF Ordered, Program
  <2>2. CASE k = "discard"
    BY <1>2, <2>2 DEF Ordered, Program
  <2>3. CASE k = "deploy"
    BY <1>3, <2>3, Deploys DEF Ordered
  <2>4. CASE k = "switch"
    BY <1>4, <2>4, Switches DEF Ordered
  <2>5. CASE k = "delete"
    BY <1>5, <2>5 DEF Ordered, Program
  <2>6. CASE k = "create"
    BY <1>6, <2>6, Creates DEF Ordered
  <2>7. CASE k = "status"
    BY <1>7, <2>7, StatusChanges DEF Ordered
  <2>8. CASE k = "purge"
    BY <1>8, <2>8, Purges DEF Ordered
  <2> QED
    BY <2>1, <2>2, <2>3, <2>4, <2>5, <2>6, <2>7, <2>8 DEF Kinds

-----------------------------------------------------------------------------
(* The invariant.                                                          *)

\* The background refresh is the end of a change of status.
Kind(p) == IF p \in Ops THEN kind[p] ELSE "status"

Ahead(p, s) == \E i \in 1 .. Len(todo[p]) : todo[p][i] = s

\* An operation runs while it has something to do; once it has written, nothing that
\* is still to come rejects it.
Control ==
  /\ \A p \in Procs : Ordered(Kind(p), todo[p])
  /\ \A p \in Ops : /\ Running(p) <=> todo[p] # Quiet
                    /\ p \in wrote => /\ result[p] \notin {"idle", "rejected"}
                                      /\ \A s \in Rejecting(kind[p]) : ~Ahead(p, s)

\* What somebody asked to publish.
AskedDocs == {d \in Docs : d.cfg \in asked /\ d.menu \subseteq asked}

\* A draft in hand is what the panel sent; a document to publish has been asked for,
\* once it has been read; and it is written in full before a version of it is added.
HandOK(p) ==
  todo[p] # Quiet =>
    /\ kind[p] = "draft" => hand[p].doc \in Docs /\ hand[p].doc.menu = {hand[p].doc.cfg}
    /\ Publishes(kind[p]) /\ Head(todo[p]) \notin Reading => hand[p].doc \in AskedDocs
    /\ Ahead(p, "insert") /\ ~Ahead(p, "drop_servers") /\ Head(todo[p]) \notin Reading
         => hand[p].doc \in written

\* What is in the tables, in memory and on its way there.
Seen ==
  /\ row # None => row.cfg \in asked \cup {Blank}
  /\ \A t \in Tables : tables[t] \subseteq asked
  /\ \A v \in versions : v.doc \in AskedDocs
  /\ snapshot \in AskedDocs \cup {None} /\ cache \in AskedDocs \cup {None}
  /\ \A p \in Procs : hand[p].rows \in AskedDocs \cup {None}
  /\ draft # None => draft.doc.menu = {draft.doc.cfg}

SafeInv ==
  /\ TypeOK /\ Control /\ (\A p \in Ops : HandOK(p)) /\ Seen /\ VersionsWereLive

-----------------------------------------------------------------------------
(* Where an operation goes: every step moves its program on, skips a step   *)
(* or ends it.                                                             *)

Onwards(p) == {Rest(p)} \cup IF Head(todo[p]) \in Skipping THEN {Tail(Rest(p))} ELSE {}
Successors(p) == {Quiet} \cup Onwards(p)

Moves(p) ==
  /\ todo[p] # Quiet
  /\ \E r \in Successors(p) :
       /\ todo' = [todo EXCEPT ![p] = r]
       /\ r # Quiet \/ p \notin Ops => UNCHANGED result
       /\ r = Quiet /\ p \in Ops => \E why \in {"ok", "rejected", "failed"} :
            /\ result' = [result EXCEPT ![p] = why]
            /\ why = "rejected" => Head(todo[p]) \in Rejecting(kind[p]) /\ wrote' = wrote
            /\ why = "ok" => r \in Onwards(p)
  /\ UNCHANGED kind
  /\ wrote' # wrote => p \in Ops /\ Head(todo[p]) \in Writing /\ wrote' = wrote \cup {p}

LEMMA StepMoves ==
  ASSUME TypeOK, NEW p \in Ops, Step(p)
  PROVE  Moves(p)
<1> USE DEF At, Continue, Stop, Applied, Ends, Refused, Learns, Moves, Successors, Onwards, Rest, Quiet
<1>1. CASE Open(p) \/ MaxVersion(p) \/ Activate(p)
  BY <1>1 DEF Open, MaxVersion, Activate, history
<1>2. CASE Base(p)
  <2>1. PICK rest \in {Rest(p), Tail(Rest(p))}, ok \in BOOLEAN :
             \/ Refused(p, "rejected")
             \/ Counted(ok) /\ \E h : Learns(p, h, rest)
    BY <1>2 DEF Base
  <2> QED
    BY <1>2, <2>1 DEF Base, history, Rejecting, Skipping
<1>3. CASE Current(p)
  <2>1. PICK rest \in {Rest(p), Tail(Rest(p))}, ok \in BOOLEAN :
             Counted(ok) /\ Learns(p, hand[p], rest)
    BY <1>3 DEF Current
  <2> QED
    BY <1>3, <2>1 DEF Current, Skipping
<1>a. CASE Match(p)
  BY <1>a DEF Match, history, Rejecting
<1>b. CASE ReadDraft(p)
  BY <1>b DEF ReadDraft, history, Rejecting
<1>c. CASE Consent(p)
  BY <1>c DEF Consent, history, Rejecting
<1>d. CASE ReadVersion(p)
  BY <1>d DEF ReadVersion, history, Rejecting
<1>e. CASE Absent(p)
  BY <1>e DEF Absent, history, Rejecting
<1>4. CASE PutRow(p)
  BY <1>4 DEF PutRow, history, Rejecting, Writing
<1>5. CASE WriteDraft(p) \/ ClearDraft(p) \/ Unset(p) \/ Delete(p) \/ PurgeHistory(p)
            \/ PurgeConsents(p) \/ PurgeVersions(p) \/ PurgeRow(p)
  BY <1>5 DEF WriteDraft, ClearDraft, Unset, Delete, PurgeHistory, PurgeConsents,
              PurgeVersions, PurgeRow, Writing
<1>6. CASE Insert(p) \/ Flip(p)
  BY <1>6 DEF Insert, Flip, history, Writing
<1>7. CASE PutRows(p, "put_services", "services") \/ PutRows(p, "put_servers", "mcp_servers")
  BY <1>7 DEF PutRows, history, Writing
<1>8. CASE \/ DropRows(p, "drop_services", "services") \/ DropRows(p, "drop_servers", "mcp_servers")
           \/ PurgeRows(p, "purge_services", "services")
           \/ PurgeRows(p, "purge_servers", "mcp_servers")
  BY <1>8 DEF DropRows, PurgeRows, Writing
<1>9. CASE RequestFails(p)
  BY <1>9 DEF RequestFails, history
<1> QED
  BY <1>1, <1>2, <1>3, <1>a, <1>b, <1>c, <1>d, <1>e, <1>4, <1>5, <1>6, <1>7, <1>8, <1>9 DEF Step

LEMMA RefreshMoves ==
  ASSUME TypeOK, NEW p \in Procs, Refreshing(p)
  PROVE  Moves(p)
BY DEF Refreshing, Clear, Fetch, Install, At, Continue, Learns, Moves, Successors, Onwards, Rest,
       Quiet, Skipping, history

\* What is still to come after a step was to come before it, and reads are over.
LEMMA SuccessorsAreOrdered ==
  ASSUME TypeOK, Control, NEW p \in Procs, todo[p] # Quiet, NEW r \in Successors(p)
  PROVE  /\ r \in Seq(Steps) /\ Ordered(Kind(p), r)
         /\ \A i \in 1 .. Len(r) : \E j \in 2 .. Len(todo[p]) : r[i] = todo[p][j]
         /\ r # Quiet => Head(r) \notin Reading
         /\ \A s : (\E j \in 1 .. Len(todo[p]) : todo[p][j] = s) =>
                 \/ r = Quiet \/ s = Head(todo[p])
                 \/ s \in Skipped \/ \E i \in 1 .. Len(r) : r[i] = s
<1> DEFINE t == todo[p]
           k == Kind(p)
<1>1. t \in Seq(Steps) /\ t # <<>> /\ Ordered(k, t) /\ Len(t) \in Nat /\ Len(t) >= 1
      /\ Head(t) = t[1]
  BY DEF TypeOK, Control, Quiet
<1>2. /\ Tail(t) \in Seq(Steps) /\ Ordered(k, Tail(t)) /\ Len(Tail(t)) = Len(t) - 1
      /\ \A i \in 1 .. Len(Tail(t)) : Tail(t)[i] = t[i + 1]
  BY <1>1, TailOrdered, HeadTailProperties
<1> HIDE DEF t, k
<1>3. CASE r = Quiet
  BY <1>3 DEF Quiet, Ordered, Each, Before
<1>4. CASE r = Rest(p) /\ r # Quiet
  <2>1. r = Tail(t) /\ Head(r) = r[1] /\ Len(r) >= 1
    BY <1>2, <1>4 DEF Rest, t, Quiet
  <2>2. \A i \in 1 .. Len(r) : i + 1 \in 2 .. Len(t) /\ r[i] = t[i + 1]
    BY <1>1, <1>2, <2>1
  <2>3. Head(r) \notin Reading
    BY <1>1, <2>1, <2>2 DEF Ordered, Each
  <2>4. ASSUME NEW j \in 1 .. Len(t), j # 1 PROVE \E i \in 1 .. Len(r) : r[i] = t[j]
    <3>1. PICK i \in 1 .. Len(r) : i + 1 = j
      BY <1>1, <1>2, <2>1, <2>4
    <3> QED
      BY <2>2, <3>1
  <2>5. \A j \in 1 .. Len(t) : t[j] = Head(t) \/ \E i \in 1 .. Len(r) : r[i] = t[j]
    BY <1>1, <2>4
  <2>6. \A i \in 1 .. Len(r) : \E j \in 2 .. Len(t) : r[i] = t[j]
    BY <2>2
  <2>7. r \in Seq(Steps) /\ Ordered(k, r)
    BY <1>2, <2>1
  <2> QED
    BY <2>3, <2>5, <2>6, <2>7 DEF t, k
<1>5. CASE Head(t) \in Skipping /\ r = Tail(Rest(p)) /\ r # Quiet
  <2>1. Len(t) >= 2 /\ t[2] \in Skipped
    BY <1>1, <1>5 DEF Ordered, Each
  <2>2. Tail(t) # <<>> /\ r = Tail(Tail(t))
    BY <1>2, <1>5, <2>1 DEF Rest, t
  <2>3. /\ r \in Seq(Steps) /\ Ordered(k, r) /\ Len(r) = Len(t) - 2
        /\ \A i \in 1 .. Len(r) : r[i] = Tail(t)[i + 1]
    <3>1. r \in Seq(Steps) /\ Ordered(k, r)
      BY <1>2, <2>2, TailOrdered
    <3>2. Len(r) = Len(Tail(t)) - 1 /\ \A i \in 1 .. Len(r) : r[i] = Tail(t)[i + 1]
      BY <1>2, <2>2, HeadTailProperties
    <3> QED
      BY <1>1, <1>2, <3>1, <3>2
  <2>4. \A i \in 1 .. Len(r) : i + 2 \in 2 .. Len(t) /\ r[i] = t[i + 2]
    BY <1>1, <1>2, <2>3
  <2>5. Head(r) = r[1] /\ Len(r) >= 1
    BY <1>5, <2>3 DEF Quiet
  <2>6. Head(r) \notin Reading
    BY <1>1, <2>4, <2>5 DEF Ordered, Each
  <2>7. ASSUME NEW j \in 1 .. Len(t), j # 1, j # 2 PROVE \E i \in 1 .. Len(r) : r[i] = t[j]
    <3>1. PICK i \in 1 .. Len(r) : i + 2 = j
      BY <1>1, <2>3, <2>7
    <3> QED
      BY <2>4, <3>1
  <2> QED
    BY <1>1, <2>1, <2>3, <2>4, <2>6, <2>7 DEF t, k
<1> QED
  BY <1>3, <1>4, <1>5 DEF Successors, Onwards, t

LEMMA MovesControl ==
  ASSUME TypeOK, Control, NEW p \in Procs, Moves(p)
  PROVE  /\ todo' \in [Procs -> Seq(Steps)] /\ kind' \in [Ops -> Kinds] /\ wrote' \subseteq Ops
         /\ result' \in [Ops -> {"idle", "running", "ok", "rejected", "failed"}]
         /\ Control'
<1>1. PICK r \in Successors(p) :
         /\ todo' = [todo EXCEPT ![p] = r]
         /\ r # Quiet \/ p \notin Ops => UNCHANGED result
         /\ r = Quiet /\ p \in Ops => \E why \in {"ok", "rejected", "failed"} :
              /\ result' = [result EXCEPT ![p] = why]
              /\ why = "rejected" => Head(todo[p]) \in Rejecting(kind[p]) /\ wrote' = wrote
  BY DEF Moves
<1>2. /\ todo[p] # Quiet /\ UNCHANGED kind
      /\ wrote' # wrote => p \in Ops /\ Head(todo[p]) \in Writing /\ wrote' = wrote \cup {p}
  BY DEF Moves
<1>3. /\ r \in Seq(Steps) /\ Ordered(Kind(p), r)
      /\ \A i \in 1 .. Len(r) : \E j \in 2 .. Len(todo[p]) : r[i] = todo[p][j]
  BY <1>2, SuccessorsAreOrdered
<1>4. /\ todo' \in [Procs -> Seq(Steps)] /\ kind' \in [Ops -> Kinds] /\ wrote' \subseteq Ops
      /\ result' \in [Ops -> {"idle", "running", "ok", "rejected", "failed"}]
  BY <1>1, <1>2, <1>3 DEF TypeOK
<1>5. ASSUME NEW q \in Procs PROVE Ordered(Kind(q), todo[q])'
  <2>1. Kind(q)' = Kind(q)
    BY <1>2 DEF Kind
  <2>2. todo'[q] = IF q = p THEN r ELSE todo[q]
    BY <1>1 DEF TypeOK
  <2> QED
    BY <1>3, <2>1, <2>2
       DEF Control, Ordered, Each, Before, Rejecting, Publishes, Publishing, Drafting,
           Reading, Writing, Skipping, Skipped
<1>6. ASSUME NEW q \in Ops PROVE Running(q)' <=> todo'[q] # Quiet
  <2>1. Running(q) <=> todo[q] # Quiet
    BY DEF Control
  <2>2. CASE q # p
    BY <1>1, <2>1, <2>2 DEF TypeOK, Running, Procs
  <2>3. CASE q = p
    BY <1>1, <1>2, <2>1, <2>3 DEF TypeOK, Running, Procs
  <2> QED
    BY <2>2, <2>3
<1>7. ASSUME NEW q \in Ops, q \in wrote'
      PROVE  result'[q] \notin {"idle", "rejected"} /\ \A s \in Rejecting(kind'[q]) : ~Ahead(q, s)'
  <2>1. CASE q # p
    <3>1. q \in wrote /\ todo'[q] = todo[q] /\ result'[q] = result[q] /\ kind'[q] = kind[q]
      BY <1>1, <1>2, <1>7, <2>1 DEF TypeOK, Procs
    <3> QED
      BY <3>1 DEF Control, Ahead
  <2>2. CASE q = p
    <3>1. todo[p] \in Seq(Steps) /\ Len(todo[p]) \in Nat /\ Head(todo[p]) = todo[p][1]
          /\ Len(todo[p]) >= 1 /\ Kind(p) = kind[p] /\ Before(kind[p], todo[p])
      BY <1>2, <2>2 DEF TypeOK, Quiet, Control, Kind, Ordered
    <3>2. q \in wrote \/ Head(todo[p]) \in Writing
      BY <1>2, <1>7
    <3>3. \A s \in Rejecting(kind[p]) : \A j \in 2 .. Len(todo[p]) : todo[p][j] # s
      <4>1. todo[p][1] \in Writing =>
              \A j \in 2 .. Len(todo[p]) : todo[p][j] \notin Rejecting(kind[p])
        BY <3>1 DEF Before
      <4>2. q \in wrote => \A j \in 1 .. Len(todo[p]) : todo[p][j] \notin Rejecting(kind[p])
        BY <2>2 DEF Control, Ahead
      <4> QED
        BY <3>1, <3>2, <4>1, <4>2
    <3>4. \A s \in Rejecting(kind'[q]) : ~Ahead(q, s)'
      <4>1. todo'[q] = r /\ kind' = kind
        BY <1>1, <1>2, <2>2 DEF TypeOK
      <4>2. \A s \in Rejecting(kind[p]) : \A i \in 1 .. Len(r) : r[i] # s
        BY <1>3, <3>3
      <4> QED
        BY <2>2, <4>1, <4>2 DEF Ahead
    <3>5. result'[q] # "idle"
      BY <1>1, <1>2, <2>2 DEF TypeOK, Control, Running
    <3>6. result'[q] # "rejected"
      <4>1. SUFFICES ASSUME result'[q] = "rejected" PROVE FALSE
        OBVIOUS
      <4>2. result[q] = "running"
        BY <1>2, <2>2 DEF Control, Running
      <4>3. Head(todo[p]) \in Rejecting(kind[p]) /\ wrote' = wrote
        BY <1>1, <2>2, <4>1, <4>2 DEF TypeOK
      <4> QED
        BY <1>7, <2>2, <3>1, <4>3 DEF Control, Ahead
    <3> QED
      BY <3>4, <3>5, <3>6
  <2> QED
    BY <2>1, <2>2
<1> QED
  BY <1>4, <1>5, <1>6, <1>7 DEF Control

-----------------------------------------------------------------------------
(* What a step of an operation does to the documents in hand.              *)

\* A step that publishes has a document to publish, one that drafts a draft.
LEMMA InHand ==
  ASSUME SafeInv, NEW p \in Ops, todo[p] # Quiet
  PROVE  /\ Head(todo[p]) \in Publishing \ Reading => hand[p].doc \in AskedDocs
         /\ Head(todo[p]) \in Drafting =>
              kind[p] = "draft" /\ hand[p].doc \in Docs /\ hand[p].doc.menu = {hand[p].doc.cfg}
         /\ Head(todo[p]) \in Drafting \cup Publishing => Head(todo[p]) \notin Drafting \cap Publishing
         /\ Head(todo[p]) = "insert" => hand[p].doc \in written
<1>1. /\ todo[p] \in Seq(Steps) /\ Len(todo[p]) >= 1 /\ Head(todo[p]) = todo[p][1]
      /\ Each(kind[p], todo[p]) /\ Before(kind[p], todo[p]) /\ HandOK(p)
  <2>1. todo[p] \in Seq(Steps) /\ todo[p] # <<>>
    BY DEF SafeInv, TypeOK, Procs, Quiet
  <2>2. Kind(p) = kind[p] /\ Ordered(Kind(p), todo[p]) /\ HandOK(p)
    BY DEF SafeInv, Control, Kind, Procs
  <2> QED
    BY <2>1, <2>2 DEF Ordered
<1>2. Head(todo[p]) \in Publishing => Publishes(kind[p])
  BY <1>1 DEF Each
<1>3. Head(todo[p]) \in Drafting => kind[p] = "draft"
  BY <1>1 DEF Each
<1>4. Head(todo[p]) = "insert" => Ahead(p, "insert") /\ ~Ahead(p, "drop_servers")
  <2>1. \A j \in 1 .. Len(todo[p]) : j = 1 \/ 1 < j
    BY <1>1
  <2> QED
    BY <1>1, <2>1 DEF Ahead, Before
<1> QED
  BY <1>1, <1>2, <1>3, <1>4 DEF HandOK, Reading, Drafting, Publishing

\* Another operation's hand is as good as before when only p moves.
LEMMA OtherHands ==
  ASSUME SafeInv, NEW p \in Procs, Moves(p), NEW q \in Ops, q # p, hand'[q].doc = hand[q].doc,
         asked \subseteq asked', written \subseteq written'
  PROVE  HandOK(q)'
<1>1. todo'[q] = todo[q] /\ kind'[q] = kind[q] /\ HandOK(q)
  BY DEF SafeInv, TypeOK, Moves, Procs
<1>2. AskedDocs \subseteq AskedDocs'
  BY DEF AskedDocs
<1> QED
  BY <1>1, <1>2 DEF HandOK, Ahead

\* What p still has to do after a step, and that its reads are over.
LEMMA AfterMove ==
  ASSUME SafeInv, NEW p \in Ops, Moves(p), todo'[p] # Quiet
  PROVE  /\ todo[p] # Quiet /\ kind'[p] = kind[p]
         /\ Head(todo'[p]) \notin Reading
         /\ \A s : Ahead(p, s)' => Ahead(p, s)
         /\ \A s : Ahead(p, s) => s = Head(todo[p]) \/ s \in Skipped \/ Ahead(p, s)'
         /\ Head(todo[p]) \in Reading \cup {"activate"} /\ Ahead(p, "insert")'
              => Ahead(p, "drop_servers")'
         /\ Head(todo[p]) \in Drafting => ~Ahead(p, "insert")'
<1>1. PICK r \in Successors(p) : todo' = [todo EXCEPT ![p] = r]
  BY DEF Moves
<1>2. todo'[p] = r /\ r # Quiet /\ todo[p] # Quiet /\ kind'[p] = kind[p]
  BY <1>1 DEF SafeInv, TypeOK, Procs, Moves
<1>3. /\ todo[p] \in Seq(Steps) /\ Len(todo[p]) \in Nat /\ Len(todo[p]) >= 1
      /\ Head(todo[p]) = todo[p][1] /\ Each(kind[p], todo[p]) /\ Before(kind[p], todo[p])
  <2>1. todo[p] \in Seq(Steps) /\ todo[p] # <<>>
    BY <1>2 DEF SafeInv, TypeOK, Procs, Quiet
  <2>2. Kind(p) = kind[p] /\ Ordered(Kind(p), todo[p])
    BY DEF SafeInv, Control, Kind, Procs
  <2> QED
    BY <2>1, <2>2 DEF Ordered
<1>4. /\ \A i \in 1 .. Len(r) : \E j \in 2 .. Len(todo[p]) : r[i] = todo[p][j]
      /\ Head(r) \notin Reading
      /\ \A s : (\E j \in 1 .. Len(todo[p]) : todo[p][j] = s) =>
              \/ s = Head(todo[p]) \/ s \in Skipped \/ \E i \in 1 .. Len(r) : r[i] = s
  BY <1>2, SuccessorsAreOrdered DEF SafeInv, Procs
<1>5. \A s : Ahead(p, s)' => \E j \in 2 .. Len(todo[p]) : todo[p][j] = s
  BY <1>2, <1>4 DEF Ahead
<1>6. \A s : Ahead(p, s) => s = Head(todo[p]) \/ s \in Skipped \/ Ahead(p, s)'
  BY <1>2, <1>4 DEF Ahead
<1>7. ASSUME Head(todo[p]) \in Reading \cup {"activate"}, Ahead(p, "insert")'
      PROVE  Ahead(p, "drop_servers")'
  <2>1. PICK j \in 2 .. Len(todo[p]) : todo[p][j] = "insert"
    BY <1>5, <1>7
  <2>2. PICK m \in 1 + 1 .. j - 1 : todo[p][m] = "drop_servers"
    BY <1>3, <1>7, <2>1 DEF Before
  <2>3. Ahead(p, "drop_servers")
    BY <1>3, <2>1, <2>2 DEF Ahead
  <2> QED
    BY <1>6, <1>7, <2>3 DEF Reading, Skipped
<1>8. ASSUME Head(todo[p]) \in Drafting, Ahead(p, "insert")' PROVE FALSE
  <2>1. PICK j \in 2 .. Len(todo[p]) : todo[p][j] = "insert"
    BY <1>5, <1>8
  <2> QED
    BY <1>3, <1>8, <2>1 DEF Each
<1> QED
  BY <1>2, <1>3, <1>4, <1>5, <1>6, <1>7, <1>8 DEF Ahead

\* A step that leaves the document alone leaves the hands good, if it was not a read
\* and has recorded a document it has written in full.
LEMMA HandsKept ==
  ASSUME SafeInv, NEW p \in Procs, Moves(p), \A q \in Ops : hand'[q].doc = hand[q].doc,
         asked \subseteq asked', written \subseteq written',
         p \in Ops /\ todo'[p] # Quiet =>
           /\ Head(todo[p]) \notin Reading
           /\ Head(todo[p]) = "drop_servers" => hand[p].doc \in written'
  PROVE  \A q \in Ops : HandOK(q)'
<1>1. ASSUME p \in Ops PROVE HandOK(p)'
  <2>1. CASE todo'[p] = Quiet
    BY <2>1 DEF HandOK
  <2>2. CASE todo'[p] # Quiet
    <3>1. AskedDocs \subseteq AskedDocs'
      BY DEF AskedDocs
    <3>2. HandOK(p) /\ todo[p] # Quiet /\ kind'[p] = kind[p] /\ hand'[p].doc = hand[p].doc
      BY <1>1, <2>2, AfterMove DEF SafeInv
    <3>3. ASSUME Ahead(p, "insert")', ~Ahead(p, "drop_servers")' PROVE hand'[p].doc \in written'
      <4>1. Ahead(p, "insert") /\ (~Ahead(p, "drop_servers") \/ Head(todo[p]) = "drop_servers")
        BY <1>1, <2>2, <3>3, AfterMove DEF Skipped
      <4>2. Head(todo[p]) \notin Reading /\ (Head(todo[p]) = "drop_servers" => hand[p].doc \in written')
        BY <1>1, <2>2
      <4>3. ~Ahead(p, "drop_servers") => hand[p].doc \in written
        BY <3>2, <4>1, <4>2 DEF HandOK
      <4> QED
        BY <3>2, <4>1, <4>2, <4>3
    <3> QED
      BY <1>1, <2>2, <3>1, <3>2, <3>3 DEF HandOK, Publishes
  <2> QED
    BY <2>1, <2>2
<1> QED
  BY <1>1, OtherHands

\* A step that changes the document has to answer for the new one.
LEMMA HandLearns ==
  ASSUME SafeInv, NEW p \in Ops, Moves(p), \A q \in Ops \ {p} : hand'[q].doc = hand[q].doc,
         asked \subseteq asked', written \subseteq written',
         \/ Head(todo[p]) \in Reading \cup {"activate"} /\ hand'[p].doc \in AskedDocs'
         \/ Head(todo[p]) \in Drafting /\ hand'[p].doc \in Docs
              /\ hand'[p].doc.menu = {hand'[p].doc.cfg}
  PROVE  \A q \in Ops : HandOK(q)'
<1>1. HandOK(p)'
  <2>1. CASE todo'[p] = Quiet
    BY <2>1 DEF HandOK
  <2>2. CASE todo'[p] # Quiet
    <3>1. todo[p] # Quiet /\ kind'[p] = kind[p]
      BY <2>2, AfterMove
    <3>2. Each(kind[p], todo[p]) /\ 1 \in 1 .. Len(todo[p]) /\ Head(todo[p]) = todo[p][1]
      <4>1. todo[p] \in Seq(Steps) /\ todo[p] # <<>>
        BY <3>1 DEF SafeInv, TypeOK, Procs, Quiet
      <4>2. Kind(p) = kind[p] /\ Ordered(Kind(p), todo[p])
        BY DEF SafeInv, Control, Kind, Procs
      <4> QED
        BY <4>1, <4>2 DEF Ordered
    <3>3. CASE Head(todo[p]) \in Reading \cup {"activate"} /\ hand'[p].doc \in AskedDocs'
      <4>1. kind[p] # "draft"
        BY <3>2, <3>3 DEF Each, Publishing, Publishes, Reading
      <4>2. Ahead(p, "insert")' => Ahead(p, "drop_servers")'
        BY <2>2, <3>3, AfterMove
      <4> QED
        BY <3>1, <3>3, <4>1, <4>2 DEF HandOK
    <3>4. CASE Head(todo[p]) \in Drafting /\ hand'[p].doc \in Docs
               /\ hand'[p].doc.menu = {hand'[p].doc.cfg}
      <4>1. kind[p] = "draft"
        BY <3>2, <3>4 DEF Each
      <4>2. ~Ahead(p, "insert")'
        BY <2>2, <3>4, AfterMove
      <4> QED
        BY <3>1, <3>4, <4>1, <4>2 DEF HandOK, Publishes
    <3> QED
      BY <3>3, <3>4
  <2> QED
    BY <2>1, <2>2
<1> QED
  BY <1>1, OtherHands DEF Procs

-----------------------------------------------------------------------------
(* What a step does to the database, the memory and the hands.             *)

Hand == [doc : DocOrNone, ver : Ops \cup {Origin, None}, num : Nat,
         stamp : Ops \cup {Origin, None}, rows : DocOrNone]

DataTypes ==
  /\ row \in Rows \cup {None} /\ tables \in [Tables -> SUBSET Configs]
  /\ draft \in Drafts \cup {None} /\ versions \in SUBSET Versions /\ consent \in BOOLEAN
  /\ snapshot \in DocOrNone /\ cache \in DocOrNone /\ hand \in [Procs -> Hand]
  /\ faults \in 0 .. MaxFaults /\ asked \subseteq Configs /\ written \subseteq Docs
  /\ alone \in [Ops -> BOOLEAN]

DataOK == DataTypes /\ (\A p \in Ops : HandOK(p)) /\ Seen /\ VersionsWereLive

LEMMA CountedType == ASSUME TypeOK, NEW ok \in BOOLEAN, Counted(ok) PROVE faults' \in 0 .. MaxFaults
BY BoundsAssumption DEF TypeOK, Counted

\* An operation that ends without a write.
LEMMA EndsKeeps ==
  ASSUME SafeInv, NEW p \in Ops, Moves(p), NEW why, Ends(p, why), faults' \in 0 .. MaxFaults
  PROVE  DataOK'
<1>1. todo'[p] = Quiet /\ UNCHANGED <<database, memory, hand, history>>
  BY DEF Ends, Stop, SafeInv, TypeOK, Procs
<1>2. \A q \in Ops : HandOK(q)'
  BY <1>1, HandsKept DEF Procs, history
<1> QED
  BY <1>1, <1>2 DEF SafeInv, TypeOK, DataOK, DataTypes, Hand, Seen, AskedDocs, VersionsWereLive,
                    database, memory, history

\* A write that is applied, whether or not its answer arrives.
LEMMA AppliedKeeps ==
  ASSUME SafeInv, NEW p \in Ops, Moves(p), Applied(p), Head(todo[p]) \notin Reading,
         row' \in Rows \cup {None}, row' # None => row'.cfg \in asked \cup {Blank},
         tables' \in [Tables -> SUBSET asked], consent' \in BOOLEAN,
         draft' \in Drafts \cup {None}, draft' # None => draft'.doc.menu = {draft'.doc.cfg},
         written \subseteq written', written' \subseteq Docs,
         versions' \in SUBSET Versions, \A v \in versions' : v.doc \in AskedDocs \cap written',
         Head(todo[p]) = "drop_servers" /\ todo'[p] # Quiet => hand[p].doc \in written'
  PROVE  DataOK'
<1>1. UNCHANGED <<memory, hand, asked, alone>> /\ faults' \in 0 .. MaxFaults
  BY CountedType DEF Applied, SafeInv
<1>2. \A q \in Ops : HandOK(q)'
  BY <1>1, HandsKept DEF Procs
<1> QED
  BY <1>1, <1>2 DEF SafeInv, TypeOK, DataOK, DataTypes, Hand, Seen, AskedDocs, VersionsWereLive,
                    memory

\* A read that is answered, or a step in memory.
LEMMA LearnsKeeps ==
  ASSUME SafeInv, NEW p \in Procs, NEW h \in Hand, hand' = [hand EXCEPT ![p] = h],
         h.rows \in AskedDocs \cup {None}, UNCHANGED <<database, written, alone>>,
         snapshot' \in AskedDocs \cup {None}, cache' \in AskedDocs \cup {None},
         faults' \in 0 .. MaxFaults, asked \subseteq asked', asked' \subseteq Configs,
         \A q \in Ops : HandOK(q)'
  PROVE  DataOK'
<1>1. AskedDocs \subseteq AskedDocs'
  BY DEF AskedDocs
<1>2. DataTypes'
  BY DEF SafeInv, TypeOK, DataTypes, Hand, database, AskedDocs, DocOrNone
<1>3. Seen'
  BY <1>1 DEF SafeInv, TypeOK, Seen, Hand, database
<1> QED
  BY <1>2, <1>3 DEF DataOK, SafeInv, VersionsWereLive, database

-----------------------------------------------------------------------------
(* Every action keeps the invariant.                                       *)

LEMMA HandIsTyped ==
  ASSUME TypeOK, NEW p \in Procs
  PROVE  hand[p] \in Hand /\ hand \in [Procs -> Hand]
BY DEF TypeOK, Hand

LEMMA ServedWasAsked ==
  ASSUME SafeInv
  PROVE  /\ Served \in AskedDocs \cup {None} /\ Stored \in AskedDocs \cup {None}
         /\ snapshot \in AskedDocs \cup {None} /\ cache \in AskedDocs \cup {None}
         /\ \A p \in Procs : hand[p].rows \in AskedDocs \cup {None}
<1>1. Served \in AskedDocs \cup {None}
  BY DEF SafeInv, Seen, Served
<1>2. Stored \in AskedDocs \cup {None}
  <2>1. SUFFICES ASSUME row # None, row.cfg # Blank PROVE Stored \in AskedDocs
    BY DEF Stored
  <2>2. row.cfg \in asked /\ row \in Rows /\ tables["services"] \subseteq asked
        /\ asked \subseteq Configs
    BY <2>1 DEF SafeInv, Seen, TypeOK, Tables
  <2> QED
    BY <2>1, <2>2 DEF Stored, AskedDocs, Docs, Rows
<1> QED
  BY <1>1, <1>2 DEF SafeInv, Seen

\* Reads, and what happens in memory.
LEMMA ReadsKeep ==
  ASSUME SafeInv, NEW p \in Ops, Moves(p),
         \/ Open(p) \/ Base(p) \/ Match(p) \/ ReadDraft(p) \/ Current(p) \/ Consent(p)
         \/ MaxVersion(p) \/ ReadVersion(p) \/ Absent(p) \/ Activate(p) \/ RequestFails(p)
  PROVE  DataOK'
<1> USE DEF At
<1>0. p \in Procs /\ TypeOK /\ hand[p] \in Hand /\ hand \in [Procs -> Hand]
  BY HandIsTyped DEF Procs, SafeInv
<1>1. ASSUME NEW h \in Hand, NEW rest, Learns(p, h, rest), asked' = asked,
             cache' \in {cache, Served}, faults' \in 0 .. MaxFaults,
             h.rows = hand[p].rows,
             \/ h.doc = hand[p].doc /\ Head(todo[p]) \notin Reading \cup {"drop_servers"}
             \/ Head(todo[p]) \in Reading \cup {"activate"} /\ h.doc \in AskedDocs
             \/ Head(todo[p]) \in Drafting /\ h.doc \in Docs /\ h.doc.menu = {h.doc.cfg}
      PROVE  DataOK'
  <2>1. hand'[p] = h /\ hand' = [hand EXCEPT ![p] = h] /\ \A q \in Ops \ {p} : hand'[q] = hand[q]
    BY <1>0, <1>1 DEF Learns, Procs
  <2>2. AskedDocs' = AskedDocs /\ written' = written
    BY <1>1 DEF AskedDocs, Learns
  <2>3. \A q \in Ops : HandOK(q)'
    <3>1. CASE h.doc = hand[p].doc /\ Head(todo[p]) \notin Reading \cup {"drop_servers"}
      <4>1. \A q \in Ops : hand'[q].doc = hand[q].doc
        BY <2>1, <3>1
      <4> QED
        BY <1>0, <1>1, <2>2, <3>1, <4>1, HandsKept
    <3>2. CASE \/ Head(todo[p]) \in Reading \cup {"activate"} /\ h.doc \in AskedDocs
               \/ Head(todo[p]) \in Drafting /\ h.doc \in Docs /\ h.doc.menu = {h.doc.cfg}
      BY <1>1, <2>1, <2>2, <3>2, HandLearns
    <3> QED
      BY <1>1, <3>1, <3>2
  <2> QED
    <3>1. /\ h.rows \in AskedDocs \cup {None} /\ cache' \in AskedDocs \cup {None}
          /\ snapshot \in AskedDocs \cup {None}
      BY <1>0, <1>1, ServedWasAsked
    <3>2. /\ UNCHANGED <<database, written, alone>> /\ snapshot' = snapshot
          /\ asked \subseteq asked' /\ asked' \subseteq Configs
      BY <1>0, <1>1 DEF Learns, TypeOK
    <3> QED
      BY <1>0, <1>1, <2>1, <2>3, <3>1, <3>2, LearnsKeeps
<1>2. ASSUME NEW why, Ends(p, why), faults' \in 0 .. MaxFaults
      PROVE  DataOK'
  BY <1>2, EndsKeeps
<1>3. ASSUME NEW ok \in BOOLEAN, Counted(ok) \/ UNCHANGED faults PROVE faults' \in 0 .. MaxFaults
  BY <1>0, <1>3, CountedType DEF TypeOK
<1>4. CASE Open(p)
  <2> DEFINE h == [hand[p] EXCEPT !.stamp = IF draft = None THEN None ELSE draft.stamp]
  <2>1. h \in Hand /\ h.doc = hand[p].doc /\ h.rows = hand[p].rows
    BY <1>0 DEF Hand, TypeOK, Drafts
  <2>2. Learns(p, h, Rest(p)) /\ asked' = asked /\ cache' = cache /\ faults' = faults
        /\ Head(todo[p]) = "open"
    BY <1>4 DEF Open
  <2> HIDE DEF h
  <2> QED
    BY <1>0, <1>1, <2>1, <2>2 DEF Reading, TypeOK
<1>5. CASE Base(p)
  <2>1. Head(todo[p]) = "base"
    BY <1>5 DEF Base
  <2>2. CASE Served = None
    BY <1>2, <1>3, <1>5, <2>2 DEF Base, Refused
  <2>3. CASE Served # None
    <3>1. PICK ok \in BOOLEAN, base \in {draft.doc, Served}, rest \in {Rest(p), Tail(Rest(p))} :
             /\ (ok /\ draft # None) \/ base = Served
             /\ Counted(ok) /\ Learns(p, [hand[p] EXCEPT !.doc.status = base.status], rest)
             /\ cache' = Served /\ asked' = asked
      BY <1>5, <2>3 DEF Base
    <3>2. base \in Docs
      BY <1>0, <2>3, <3>1, ServedWasAsked DEF TypeOK, Drafts, AskedDocs
    <3>3. hand[p].doc \in Docs /\ hand[p].doc.menu = {hand[p].doc.cfg}
      BY <1>5, <2>1, InHand DEF Base, Drafting
    <3> DEFINE h == [hand[p] EXCEPT !.doc.status = base.status]
    <3>4. h \in Hand /\ h.doc \in Docs /\ h.doc.menu = {h.doc.cfg} /\ h.rows = hand[p].rows
      BY <1>0, <3>2, <3>3 DEF Hand, Docs, DocOrNone
    <3> HIDE DEF h
    <3> QED
      BY <1>1, <1>3, <2>1, <3>1, <3>4 DEF Drafting, h
  <2> QED
    BY <2>2, <2>3
<1>6. CASE Match(p) \/ Consent(p) \/ Absent(p)
  <2>1. PICK ok \in BOOLEAN :
          /\ Counted(ok)
          /\ \/ Learns(p, hand[p], Rest(p)) /\ UNCHANGED <<cache, asked>>
             \/ Ends(p, "rejected")
    BY <1>6 DEF Match, Consent, Absent
  <2>2. Head(todo[p]) \notin Reading \cup {"drop_servers"}
    BY <1>6 DEF Match, Consent, Absent, Reading
  <2> QED
    BY <1>0, <1>1, <1>2, <1>3, <2>1, <2>2
<1>7. CASE Current(p)
  <2>1. PICK ok \in BOOLEAN, rest \in {Rest(p), Tail(Rest(p))} :
          Counted(ok) /\ Learns(p, hand[p], rest) /\ UNCHANGED <<cache, asked>>
    BY <1>7 DEF Current
  <2>2. Head(todo[p]) \notin Reading \cup {"drop_servers"}
    BY <1>7 DEF Current, Reading
  <2> QED
    BY <1>0, <1>1, <1>3, <2>1, <2>2
<1>8. CASE ReadDraft(p)
  <2>1. PICK ok \in BOOLEAN :
          /\ Counted(ok)
          /\ \/ /\ draft # None
                /\ Learns(p, [hand[p] EXCEPT !.doc = draft.doc], Rest(p))
                /\ asked' = asked \cup {draft.doc.cfg}
                /\ UNCHANGED cache
             \/ Ends(p, "rejected")
    BY <1>8 DEF ReadDraft
  <2>2. Head(todo[p]) = "read_draft"
    BY <1>8 DEF ReadDraft
  <2>3. CASE Ends(p, "rejected")
    BY <1>2, <1>3, <2>1, <2>3
  <2>4. CASE draft # None /\ Learns(p, [hand[p] EXCEPT !.doc = draft.doc], Rest(p))
               /\ asked' = asked \cup {draft.doc.cfg} /\ UNCHANGED cache
    <3>1. draft.doc \in Docs /\ draft.doc.menu = {draft.doc.cfg} /\ asked \subseteq Configs
      BY <1>0, <2>4 DEF TypeOK, Drafts, SafeInv, Seen
    <3> DEFINE h == [hand[p] EXCEPT !.doc = draft.doc]
    <3>2. h \in Hand /\ h.doc = draft.doc /\ h.rows = hand[p].rows
      BY <1>0, <3>1 DEF Hand, DocOrNone
    <3>3. hand' = [hand EXCEPT ![p] = h] /\ UNCHANGED <<database, snapshot, written, alone, cache>>
      BY <2>4 DEF Learns
    <3> HIDE DEF h
    <3>4. asked' \subseteq Configs /\ asked \subseteq asked' /\ h.doc \in AskedDocs'
      BY <2>4, <3>1, <3>2 DEF AskedDocs, Docs
    <3>5. hand'[p] = h /\ \A q \in Ops \ {p} : hand'[q] = hand[q]
      BY <1>0, <3>3 DEF Procs
    <3>6. \A q \in Ops : HandOK(q)'
      BY <2>2, <3>3, <3>4, <3>5, HandLearns DEF Reading
    <3> QED
      BY <1>0, <1>3, <2>1, <3>2, <3>3, <3>4, <3>6, LearnsKeeps, ServedWasAsked
  <2> QED
    BY <2>1, <2>3, <2>4
<1>9. CASE MaxVersion(p)
  <2>1. PICK ok \in BOOLEAN, top \in {0} \cup {v.n : v \in versions} :
          Counted(ok) /\ Learns(p, [hand[p] EXCEPT !.num = IF ok THEN top ELSE 0], Rest(p))
          /\ UNCHANGED <<cache, asked>>
    BY <1>9 DEF MaxVersion
  <2>2. top \in Nat /\ Head(todo[p]) = "max"
    BY <1>0, <1>9 DEF MaxVersion, TypeOK, Versions
  <2> DEFINE h == [hand[p] EXCEPT !.num = IF ok THEN top ELSE 0]
  <2>3. h \in Hand /\ h.doc = hand[p].doc /\ h.rows = hand[p].rows
    BY <1>0, <2>2 DEF Hand
  <2>4. Learns(p, h, Rest(p))
    BY <2>1
  <2> HIDE DEF h
  <2> QED
    BY <1>0, <1>1, <1>3, <2>1, <2>2, <2>3, <2>4 DEF Reading
<1>a. CASE ReadVersion(p)
  <2>1. PICK ok \in BOOLEAN :
          /\ Counted(ok)
          /\ \/ \E v \in versions : /\ Learns(p, [hand[p] EXCEPT !.doc = v.doc], Rest(p))
                                    /\ UNCHANGED <<cache, asked>>
             \/ Ends(p, "rejected")
    BY <1>a DEF ReadVersion
  <2>2. CASE Ends(p, "rejected")
    BY <1>2, <1>3, <2>1, <2>2
  <2>3. ASSUME NEW v \in versions, Learns(p, [hand[p] EXCEPT !.doc = v.doc], Rest(p)),
               UNCHANGED <<cache, asked>>
        PROVE  DataOK'
    <3> DEFINE h == [hand[p] EXCEPT !.doc = v.doc]
    <3>1. h \in Hand /\ h.doc \in AskedDocs /\ h.rows = hand[p].rows
      BY <1>0 DEF Hand, SafeInv, Seen, AskedDocs, DocOrNone
    <3>2. Learns(p, h, Rest(p))
      BY <2>3
    <3> HIDE DEF h
    <3> QED
      BY <1>1, <1>3, <1>a, <2>1, <2>3, <3>1, <3>2 DEF Reading, ReadVersion
  <2> QED
    BY <2>1, <2>2, <2>3
<1>b. CASE Activate(p)
  <2>1. hand[p].doc \in AskedDocs /\ Head(todo[p]) = "activate"
    BY <1>b, InHand DEF Activate, Publishing, Reading
  <2> DEFINE h == [hand[p] EXCEPT !.doc.status = "active"]
  <2>2. h \in Hand /\ h.doc \in AskedDocs /\ h.rows = hand[p].rows
    BY <1>0, <2>1 DEF Hand, AskedDocs, Docs, Statuses, DocOrNone
  <2>3. Learns(p, h, Rest(p)) /\ UNCHANGED <<faults, cache, asked>>
    BY <1>b DEF Activate
  <2> HIDE DEF h
  <2> QED
    BY <1>1, <1>3, <2>1, <2>2, <2>3
<1>c. CASE RequestFails(p)
  BY <1>2, <1>3, <1>c DEF RequestFails
<1> QED
  BY <1>4, <1>5, <1>6, <1>7, <1>8, <1>9, <1>a, <1>b, <1>c

\* Writes.
LEMMA WritesKeep ==
  ASSUME SafeInv, NEW p \in Ops, Moves(p),
         \/ WriteDraft(p) \/ ClearDraft(p) \/ PutRow(p)
         \/ PutRows(p, "put_services", "services") \/ PutRows(p, "put_servers", "mcp_servers")
         \/ DropRows(p, "drop_services", "services") \/ DropRows(p, "drop_servers", "mcp_servers")
         \/ Unset(p) \/ Insert(p) \/ Flip(p) \/ Delete(p) \/ PurgeHistory(p)
         \/ PurgeRows(p, "purge_services", "services")
         \/ PurgeRows(p, "purge_servers", "mcp_servers")
         \/ PurgeConsents(p) \/ PurgeVersions(p) \/ PurgeRow(p)
  PROVE  DataOK'
<1> USE DEF At
<1>0. /\ p \in Procs /\ TypeOK /\ hand[p] \in Hand
      /\ row # None => row.cfg \in asked \cup {Blank}
      /\ tables \in [Tables -> SUBSET asked] /\ written \subseteq Docs
      /\ \A v \in versions : v \in Versions /\ v.doc \in AskedDocs \cap written
      /\ draft # None => draft.doc.menu = {draft.doc.cfg}
  BY HandIsTyped DEF Procs, SafeInv, Seen, TypeOK, VersionsWereLive
<1>1. CASE Refused(p, "rejected") \/ Refused(p, "failed")
  BY <1>0, <1>1, EndsKeeps DEF Refused, TypeOK
<1>2. ASSUME Applied(p), Head(todo[p]) \notin Reading \cup {"drop_servers"},
             row' \in Rows \cup {None}, row' # None => row'.cfg \in asked \cup {Blank},
             tables' \in [Tables -> SUBSET asked], consent' \in BOOLEAN,
             draft' \in Drafts \cup {None}, draft' # None => draft'.doc.menu = {draft'.doc.cfg},
             written' = written,
             versions' \in SUBSET Versions, \A v \in versions' : v.doc \in AskedDocs \cap written
      PROVE  DataOK'
  BY <1>0, <1>2, AppliedKeeps
<1>3. CASE WriteDraft(p)
  <2>1. hand[p].doc \in Docs /\ hand[p].doc.menu = {hand[p].doc.cfg} /\ Head(todo[p]) = "write_draft"
    BY <1>3, InHand DEF WriteDraft, Drafting
  <2>2. draft' \in Drafts /\ draft'.doc.menu = {draft'.doc.cfg}
    BY <1>3, <2>1 DEF WriteDraft, Drafts
  <2>3. row' \in Rows \cup {None} /\ (row' # None => row'.cfg \in asked \cup {Blank})
    BY <1>0, <1>3 DEF WriteDraft, Rows, Statuses, TypeOK
  <2> QED
    BY <1>0, <1>2, <1>3, <2>1, <2>2, <2>3 DEF WriteDraft, Reading, TypeOK
<1>4. CASE ClearDraft(p) \/ PurgeHistory(p)
  BY <1>0, <1>2, <1>4 DEF ClearDraft, PurgeHistory, Reading, TypeOK, database
<1>5. CASE PutRow(p)
  <2>1. hand[p].doc \in AskedDocs /\ Head(todo[p]) = "put_row"
    BY <1>5, InHand DEF PutRow, Publishing, Reading
  <2>2. CASE hand[p].doc.cfg \in Voiced /\ ~consent
    BY <1>1, <1>5, <2>2 DEF PutRow
  <2>3. CASE ~(hand[p].doc.cfg \in Voiced /\ ~consent)
    <3>1. row' \in Rows /\ row'.cfg \in asked
      BY <1>5, <2>1, <2>3 DEF PutRow, Rows, AskedDocs, Docs
    <3> QED
      BY <1>0, <1>2, <1>5, <2>1, <2>3, <3>1 DEF PutRow, Reading, TypeOK
  <2> QED
    BY <2>2, <2>3
<1>6. ASSUME NEW s \in {"put_services", "put_servers"}, NEW t \in Tables, PutRows(p, s, t)
      PROVE  DataOK'
  <2>1. hand[p].doc \in AskedDocs /\ Head(todo[p]) = s
    BY <1>6, InHand DEF PutRows, Publishing, Reading
  <2>2. CASE row = None /\ Listed(hand[p].doc, t) # {}
    BY <1>1, <1>6, <2>2 DEF PutRows
  <2>3. CASE ~(row = None /\ Listed(hand[p].doc, t) # {})
    <3>1. Listed(hand[p].doc, t) \subseteq asked
      BY <2>1 DEF AskedDocs, Listed
    <3>2. tables' \in [Tables -> SUBSET asked]
      BY <1>0, <1>6, <2>3, <3>1 DEF PutRows
    <3> QED
      BY <1>0, <1>2, <1>6, <2>1, <2>3, <3>2 DEF PutRows, Reading, TypeOK
  <2> QED
    BY <2>2, <2>3
<1>7. CASE DropRows(p, "drop_services", "services")
  <2>1. tables' \in [Tables -> SUBSET asked]
    BY <1>0, <1>7 DEF DropRows
  <2> QED
    BY <1>0, <1>2, <1>7, <2>1 DEF DropRows, Reading, TypeOK
<1>8. CASE DropRows(p, "drop_servers", "mcp_servers")
  <2>1. hand[p].doc \in AskedDocs /\ Head(todo[p]) = "drop_servers"
    BY <1>8, InHand DEF DropRows, Publishing, Reading
  <2>2. tables' \in [Tables -> SUBSET asked]
    BY <1>0, <1>8 DEF DropRows
  <2>3. /\ written \subseteq written' /\ written' \subseteq Docs
        /\ todo'[p] # Quiet => hand[p].doc \in written'
    BY <1>0, <1>8, <2>1 DEF DropRows, AskedDocs
  <2>4. Applied(p) /\ UNCHANGED <<row, draft, versions, consent>>
    BY <1>8 DEF DropRows
  <2> QED
    BY <1>0, <2>1, <2>2, <2>3, <2>4, AppliedKeeps DEF Reading, TypeOK
<1>9. CASE Unset(p) \/ Delete(p) \/ PurgeVersions(p)
  <2>1. versions' \in SUBSET Versions /\ \A v \in versions' : v.doc \in AskedDocs \cap written
    BY <1>0, <1>9 DEF Unset, Delete, PurgeVersions, Versions
  <2> QED
    BY <1>0, <1>2, <1>9, <2>1 DEF Unset, Delete, PurgeVersions, Reading, TypeOK
<1>a. CASE Insert(p)
  <2> DEFINE new == [id |-> p, n |-> hand[p].num + 1, doc |-> hand[p].doc, live |-> TRUE]
  <2>1. hand[p].doc \in AskedDocs /\ hand[p].doc \in written /\ Head(todo[p]) = "insert"
    BY <1>a, InHand DEF Insert, Publishing, Reading
  <2>2. CASE row = None \/ Live # {} \/ \E v \in versions : v.n = new.n
    BY <1>1, <1>a, <2>2 DEF Insert
  <2>3. CASE ~(row = None \/ Live # {} \/ \E v \in versions : v.n = new.n)
    <3>1. versions' = versions \cup {new} /\ Applied(p)
          /\ UNCHANGED <<row, tables, draft, consent, written>>
      BY <1>a, <2>3 DEF Insert
    <3>2. new \in Versions /\ new.doc = hand[p].doc
      BY <1>0, <2>1 DEF Versions, Hand, AskedDocs
    <3>3. versions' \in SUBSET Versions /\ \A v \in versions' : v.doc \in AskedDocs \cap written
      BY <1>0, <2>1, <3>1, <3>2
    <3> QED
      BY <1>0, <1>2, <2>1, <3>1, <3>3 DEF Reading, TypeOK
  <2> QED
    BY <2>2, <2>3
<1>b. CASE Flip(p)
  <2>1. CASE Refused(p, "failed")
    BY <1>1, <2>1
  <2>2. CASE versions' = {[v EXCEPT !.live = @ \/ v.id = hand[p].ver] : v \in versions}
             /\ Applied(p) /\ UNCHANGED <<row, tables, draft, consent, written>>
    <3>1. ASSUME NEW v \in versions
          PROVE  /\ [v EXCEPT !.live = @ \/ v.id = hand[p].ver] \in Versions
                 /\ [v EXCEPT !.live = @ \/ v.id = hand[p].ver].doc = v.doc
      BY <1>0 DEF Versions
    <3>2. versions' \in SUBSET Versions /\ \A v \in versions' : v.doc \in AskedDocs \cap written
      BY <1>0, <2>2, <3>1
    <3> QED
      BY <1>0, <1>2, <1>b, <2>2, <3>2 DEF Flip, Reading, TypeOK
  <2> QED
    BY <1>b, <2>1, <2>2 DEF Flip
<1>c. ASSUME NEW s \in {"purge_services", "purge_servers"}, NEW t \in Tables, PurgeRows(p, s, t)
      PROVE  DataOK'
  <2>1. tables' \in [Tables -> SUBSET asked]
    BY <1>0, <1>c DEF PurgeRows
  <2> QED
    BY <1>0, <1>2, <1>c, <2>1 DEF PurgeRows, Reading, TypeOK
<1>d. CASE PurgeConsents(p)
  BY <1>0, <1>2, <1>d DEF PurgeConsents, Reading, TypeOK
<1>e. CASE PurgeRow(p)
  <2>1. row' = None /\ draft' = None /\ tables' = [t \in Tables |-> {}] /\ versions' = {}
        /\ consent' = FALSE /\ Applied(p) /\ written' = written /\ Head(todo[p]) = "purge_row"
    BY <1>e DEF PurgeRow
  <2>2. tables' \in [Tables -> SUBSET asked]
    BY <2>1
  <2> QED
    BY <1>0, <1>2, <2>1, <2>2 DEF Reading
<1> QED
  BY <1>3, <1>4, <1>5, <1>6, <1>7, <1>8, <1>9, <1>a, <1>b, <1>c, <1>d, <1>e DEF Tables

\* The refresh.
LEMMA RefreshKeeps ==
  ASSUME SafeInv, NEW p \in Procs, Moves(p), Refreshing(p)
  PROVE  DataOK'
<1> USE DEF At
<1>1. TypeOK /\ hand[p] \in Hand /\ hand \in [Procs -> Hand]
  BY HandIsTyped DEF SafeInv
<1>2. ASSUME NEW h \in Hand, hand' = [hand EXCEPT ![p] = h], h.doc = hand[p].doc,
             h.rows \in AskedDocs \cup {None},
             UNCHANGED <<database, history>>, snapshot' \in AskedDocs \cup {None},
             cache' \in AskedDocs \cup {None}, faults' \in 0 .. MaxFaults,
             Head(todo[p]) \notin Reading \cup {"drop_servers"}
      PROVE  DataOK'
  <2>1. \A q \in Ops : hand'[q].doc = hand[q].doc
    BY <1>1, <1>2
  <2>2. \A q \in Ops : HandOK(q)'
    BY <1>2, <2>1, HandsKept DEF history
  <2> QED
    BY <1>1, <1>2, <2>2, LearnsKeeps DEF history, TypeOK
<1>3. CASE Clear(p)
  <2>1. hand' = [hand EXCEPT ![p] = hand[p]] /\ Head(todo[p]) = "clear" /\ cache' = None
        /\ UNCHANGED <<faults, database, snapshot, history>>
    BY <1>1, <1>3 DEF Clear
  <2> QED
    BY <1>1, <1>2, <2>1, ServedWasAsked DEF Reading, TypeOK
<1>4. CASE Fetch(p)
  <2>1. PICK ok \in BOOLEAN, h \in {[hand[p] EXCEPT !.rows = Stored], hand[p]},
             rest \in {Rest(p), Tail(Rest(p))} :
          Counted(ok) /\ Learns(p, h, rest) /\ UNCHANGED <<cache, asked>>
    BY <1>4 DEF Fetch
  <2>2. h \in Hand /\ h.doc = hand[p].doc /\ h.rows \in AskedDocs \cup {None}
    BY <1>1, ServedWasAsked DEF Hand, AskedDocs, DocOrNone
  <2> QED
    BY <1>1, <1>2, <1>4, <2>1, <2>2, CountedType, ServedWasAsked DEF Fetch, Learns, Reading, history
<1>5. CASE Install(p)
  <2> DEFINE h == [hand[p] EXCEPT !.rows = None]
  <2>1. h \in Hand /\ h.doc = hand[p].doc /\ h.rows = None
    BY <1>1 DEF Hand, DocOrNone
  <2>2. hand' = [hand EXCEPT ![p] = h] /\ Head(todo[p]) = "install" /\ snapshot' = hand[p].rows
        /\ UNCHANGED <<faults, database, cache, history>>
    BY <1>5 DEF Install
  <2> HIDE DEF h
  <2> QED
    BY <1>1, <1>2, <2>1, <2>2, ServedWasAsked DEF Reading, TypeOK
<1> QED
  BY <1>3, <1>4, <1>5 DEF Refreshing

\* An operation begins with a document it may publish, or will read one.
LEMMA HandsFit ==
  ASSUME SafeInv, NEW k \in Kinds, NEW h \in Hands(k)
  PROVE  /\ h \in Hand /\ h.rows = None
         /\ k = "draft" => h.doc \in Docs /\ h.doc.menu = {h.doc.cfg}
         /\ k = "status" => h.doc \in AskedDocs
         /\ k = "create" => h.doc \in Docs /\ h.doc.menu = {h.doc.cfg}
<1>0. Empty \in Hand /\ Empty.rows = None
  BY DEF Empty, Hand, DocOrNone
<1>1. \A c \in Configs, s \in Statuses : Whole(c, s) \in Docs /\ Whole(c, s).menu = {Whole(c, s).cfg}
  BY DEF Whole, Docs
<1>2. ASSUME NEW d \in Docs PROVE [Empty EXCEPT !.doc = d] \in Hand /\ [Empty EXCEPT !.doc = d].rows = None
                                  /\ [Empty EXCEPT !.doc = d].doc = d
  BY DEF Empty, Hand, DocOrNone
<1>3. CASE k \in {"create", "draft"}
  <2>1. PICK c \in Configs, s \in {"onboarding", "active"} : h = [Empty EXCEPT !.doc = Whole(c, s)]
    BY <1>3 DEF Hands
  <2> QED
    BY <1>1, <1>2, <1>3, <2>1 DEF Statuses
<1>4. CASE k \in {"switch", "delete"}
  <2>1. PICK v \in versions : h = [Empty EXCEPT !.ver = v.id]
    BY <1>4 DEF Hands
  <2>2. v.id \in Ops \cup {Origin}
    BY DEF SafeInv, TypeOK, Versions
  <2> QED
    BY <1>0, <1>4, <2>1, <2>2 DEF Hand, Empty
<1>5. CASE k = "status"
  <2>1. Served # None /\ \E s \in {"active", "archived"} : h = [Empty EXCEPT !.doc = [Served EXCEPT !.status = s]]
    BY <1>5 DEF Hands
  <2>2. \A s \in Statuses : [Served EXCEPT !.status = s] \in AskedDocs
    BY <2>1, ServedWasAsked DEF AskedDocs, Docs
  <2> QED
    BY <1>2, <1>5, <2>1, <2>2 DEF Statuses, AskedDocs
<1>6. CASE k \in {"purge", "discard", "deploy"}
  <2>1. h = Empty
    BY <1>6 DEF Hands
  <2> QED
    BY <1>0, <1>6, <2>1
<1> QED
  BY <1>3, <1>4, <1>5, <1>6 DEF Kinds

LEMMA BeginKeeps ==
  ASSUME SafeInv, NEW p \in Ops, NEW k \in Kinds, Begin(p, k)
  PROVE  SafeInv'
<1>1. PICK h \in Hands(k) :
        /\ hand' = [hand EXCEPT ![p] = h]
        /\ asked' = IF k = "create" THEN asked \cup {h.doc.cfg} ELSE asked
  BY DEF Begin
<1>2. /\ result[p] = "idle" /\ todo' = [todo EXCEPT ![p] = Program(k)]
      /\ kind' = [kind EXCEPT ![p] = k] /\ result' = [result EXCEPT ![p] = "running"]
      /\ cache' \in {cache, Served} /\ alone' \in [Ops -> BOOLEAN]
      /\ UNCHANGED <<faults, database, snapshot, written, wrote>>
  BY DEF Begin, SafeInv, TypeOK
<1>3. /\ h \in Hand /\ h.rows = None
      /\ k = "draft" => h.doc \in Docs /\ h.doc.menu = {h.doc.cfg}
      /\ k = "status" => h.doc \in AskedDocs
      /\ k = "create" => h.doc \in Docs /\ h.doc.menu = {h.doc.cfg}
  BY HandsFit
<1>4. Program(k) \in Seq(Steps) /\ Ordered(k, Program(k)) /\ Program(k) # <<>>
  BY ProgramsAreOrdered
<1>5. /\ p \in Procs /\ TypeOK
      /\ asked \subseteq asked' /\ asked' \subseteq Configs /\ AskedDocs \subseteq AskedDocs'
  BY <1>1, <1>3 DEF SafeInv, TypeOK, AskedDocs, Procs, Docs
<1>6. /\ k = "create" => h.doc \in AskedDocs'
      /\ k = "status" => h.doc \in AskedDocs'
  BY <1>1, <1>3, <1>5 DEF AskedDocs
<1>7. TypeOK'
  BY <1>1, <1>2, <1>3, <1>4, <1>5, ServedWasAsked DEF TypeOK, Hand, AskedDocs, DocOrNone, database
<1>8. Control'
  <2>1. ASSUME NEW q \in Procs PROVE Ordered(Kind(q), todo[q])'
    <3>1. /\ todo'[q] = IF q = p THEN Program(k) ELSE todo[q]
          /\ Kind(q)' = IF q = p THEN k ELSE Kind(q)
      BY <1>2, <1>5 DEF TypeOK, Kind, Procs
    <3> QED
      BY <1>4, <3>1
         DEF SafeInv, Control, Ordered, Each, Before, Rejecting, Publishes, Publishing, Drafting,
             Reading, Writing, Skipping, Skipped
  <2>2. p \notin wrote
    BY <1>2 DEF SafeInv, Control
  <2>3. ASSUME NEW q \in Ops PROVE Running(q)' <=> todo'[q] # Quiet
    BY <1>2, <1>4, <1>5 DEF SafeInv, Control, TypeOK, Running, Procs, Quiet
  <2>4. ASSUME NEW q \in Ops, q \in wrote'
        PROVE  result'[q] \notin {"idle", "rejected"} /\ \A s \in Rejecting(kind'[q]) : ~Ahead(q, s)'
    <3>1. q # p /\ q \in wrote
      BY <1>2, <2>2, <2>4
    <3>2. todo'[q] = todo[q] /\ result'[q] = result[q] /\ kind'[q] = kind[q]
      BY <1>2, <1>5, <3>1 DEF TypeOK, Procs
    <3> QED
      BY <3>1, <3>2 DEF SafeInv, Control, Ahead
  <2> QED
    BY <2>1, <2>3, <2>4 DEF Control
<1>9. ASSUME NEW q \in Ops PROVE HandOK(q)'
  <2>1. CASE q # p
    <3>1. todo'[q] = todo[q] /\ kind'[q] = kind[q] /\ hand'[q] = hand[q] /\ written' = written
      BY <1>1, <1>2, <1>5, <2>1 DEF TypeOK, Procs
    <3> QED
      BY <1>5, <3>1 DEF SafeInv, HandOK, Ahead
  <2>2. CASE q = p
    <3>1. todo'[q] = Program(k) /\ kind'[q] = k /\ hand'[q] = h
      BY <1>1, <1>2, <1>5, <2>2 DEF TypeOK, Procs
    <3>2. k \in {"deploy", "switch", "delete"} => Head(Program(k)) \in Reading
      BY Deploys, Switches DEF Program, Reading
    <3>3. k = "create" => Program(k)[6] = "drop_servers" /\ 6 \in 1 .. Len(Program(k))
      BY Creates
    <3>4. \A i \in 1 .. Len(Program(k)) : Program(k)[i] = "insert" => k \in {"deploy", "create"}
      BY <1>4 DEF Ordered, Each
    <3>5. Ahead(p, "insert")' /\ ~Ahead(p, "drop_servers")' => Head(Program(k)) \in Reading
      BY <2>2, <3>1, <3>2, <3>3, <3>4 DEF Ahead
    <3> QED
      BY <1>3, <1>6, <2>2, <3>1, <3>2, <3>5 DEF HandOK, Publishes
  <2> QED
    BY <2>1, <2>2
<1>a. Seen'
  <2>1. \A q \in Procs : hand'[q].rows \in AskedDocs' \cup {None}
    BY <1>1, <1>3, <1>5 DEF SafeInv, Seen, TypeOK
  <2>2. cache' \in AskedDocs' \cup {None} /\ snapshot' \in AskedDocs' \cup {None}
    BY <1>2, <1>5, ServedWasAsked
  <2> QED
    BY <1>2, <1>5, <2>1, <2>2 DEF SafeInv, Seen, database
<1> QED
  BY <1>2, <1>7, <1>8, <1>9, <1>a DEF SafeInv, VersionsWereLive, database

\* The steps that are no operation's.
LEMMA RestKeeps ==
  ASSUME SafeInv, \/ Turn \/ Expire \/ Tick \/ RecordConsent \/ UNCHANGED vars
  PROVE  SafeInv'
<1>1. CASE Turn \/ Expire \/ RecordConsent \/ UNCHANGED vars
  <2>1. /\ UNCHANGED <<row, tables, draft, versions, snapshot, todo, kind, result, faults, hand,
                       asked, written, wrote, alone>>
        /\ cache' \in {None, cache, Served} /\ consent' \in BOOLEAN
    BY <1>1 DEF Turn, Expire, RecordConsent, vars, database, memory, control, history, SafeInv, TypeOK
  <2>2. cache' \in AskedDocs \cup {None} /\ AskedDocs' = AskedDocs
    BY <2>1, ServedWasAsked DEF AskedDocs
  <2>3. TypeOK'
    BY <2>1, <2>2 DEF SafeInv, TypeOK, AskedDocs, DocOrNone
  <2>4. Control'
    BY <2>1 DEF SafeInv, Control, Ordered, Each, Before, Kind, Ahead, Running, Rejecting, Publishes,
                Publishing, Drafting, Reading, Writing, Skipping, Skipped
  <2>5. \A p \in Ops : HandOK(p)'
    BY <2>1, <2>2 DEF SafeInv, HandOK, Ahead, Publishes
  <2>6. Seen' /\ VersionsWereLive'
    BY <2>1, <2>2 DEF SafeInv, Seen, VersionsWereLive
  <2> QED
    BY <2>3, <2>4, <2>5, <2>6 DEF SafeInv
<1>2. CASE Tick
  <2>1. /\ UNCHANGED <<row, tables, draft, versions, consent, snapshot, cache, kind, result, faults,
                       hand, asked, written, wrote, alone>>
        /\ todo' = [todo EXCEPT ![Loop] = <<"fetch", "install">>]
    BY <1>2 DEF Tick, database, memory, history
  <2>2. ASSUME NEW s, s = <<"fetch", "install">> PROVE s \in Seq(Steps) /\ Ordered("status", s)
    <3>1. s \in Seq(Steps) /\ Len(s) = 2
      BY <2>2 DEF Steps
    <3>2. Each("status", s)
      BY <2>2 DEF Each, Drafting, Publishing, Publishes, Reading, Skipping, Skipped
    <3>3. Before("status", s)
      BY <2>2 DEF Before, Writing, Rejecting, Reading
    <3> QED
      BY <3>1, <3>2, <3>3 DEF Ordered
  <2>3. AskedDocs' = AskedDocs /\ \A p \in Ops : todo'[p] = todo[p]
    BY <2>1, NamesAssumption DEF AskedDocs, SafeInv, TypeOK, Procs
  <2>4. TypeOK'
    BY <2>1, <2>2 DEF SafeInv, TypeOK, Procs
  <2>5. Control'
    <3>1. ASSUME NEW q \in Procs PROVE Ordered(Kind(q), todo[q])'
      <4>1. Kind(q)' = Kind(q) /\ todo'[q] = IF q = Loop THEN <<"fetch", "install">> ELSE todo[q]
        BY <2>1 DEF Kind, SafeInv, TypeOK
      <4>2. Ordered(Kind(q), todo'[q])
        BY <2>2, <4>1, NamesAssumption DEF SafeInv, Control, Kind
      <4> QED
        BY <4>1, <4>2
           DEF Ordered, Each, Before, Rejecting, Publishes, Publishing, Drafting,
               Reading, Writing, Skipping, Skipped
    <3> QED
      BY <2>1, <2>3, <3>1 DEF SafeInv, Control, Ahead, Running, Rejecting
  <2>6. \A p \in Ops : HandOK(p)'
    BY <2>1, <2>3 DEF SafeInv, HandOK, Ahead, Publishes
  <2>7. Seen' /\ VersionsWereLive'
    BY <2>1, <2>3 DEF SafeInv, Seen, VersionsWereLive
  <2> QED
    BY <2>4, <2>5, <2>6, <2>7 DEF SafeInv
<1> QED
  BY <1>1, <1>2

LEMMA SafeInit == ASSUME Init PROVE SafeInv
<1>1. PICK c \in Configs, s \in {"active", "archived"} :
        /\ row \in {None, [cfg |-> c, status |-> s]}
        /\ tables = [t \in Tables |-> IF row = None THEN {} ELSE {c}]
        /\ versions = IF row = None THEN {}
                      ELSE {[id |-> Origin, n |-> 1, doc |-> Whole(c, s), live |-> TRUE]}
        /\ draft \in IF row = None THEN {None}
                     ELSE {None} \cup {[doc |-> Whole(d, s), stamp |-> Origin] : d \in Configs \ {c}}
        /\ consent \in BOOLEAN
        /\ snapshot = IF row = None THEN None ELSE Whole(c, s)
        /\ asked = IF row = None THEN {} ELSE {c}
        /\ written = IF row = None THEN {} ELSE {Whole(c, s)}
  BY DEF Init
<1>2. /\ cache \in {None, snapshot} /\ todo = [p \in Procs |-> Quiet]
      /\ kind = [p \in Ops |-> "draft"] /\ result = [p \in Ops |-> "idle"]
      /\ hand = [p \in Procs |-> Empty] /\ faults = 0 /\ wrote = {}
      /\ alone = [p \in Ops |-> TRUE]
  BY DEF Init
<1>3. \A d \in Configs : Whole(d, s) \in Docs /\ Whole(d, s).cfg = d /\ Whole(d, s).menu = {d}
  BY DEF Whole, Docs, Statuses
<1>4. Empty \in Hand /\ Empty.rows = None
  BY DEF Empty, Hand, DocOrNone
<1>5. /\ row \in Rows \cup {None}
      /\ row # None => row = [cfg |-> c, status |-> s]
      /\ draft \in Drafts \cup {None}
      /\ draft # None => draft.doc.menu = {draft.doc.cfg}
  BY <1>1, <1>3 DEF Rows, Statuses, Drafts
<1>6. versions \in SUBSET Versions /\ \A v \in versions : v.doc = Whole(c, s) /\ row # None
  BY <1>1, <1>3 DEF Versions
<1>7. TypeOK
  <2>1. Quiet \in Seq(Steps)
    BY DEF Quiet
  <2>2. tables \in [Tables -> SUBSET Configs] /\ snapshot \in DocOrNone /\ cache \in DocOrNone
        /\ asked \subseteq Configs /\ written \subseteq Docs
    BY <1>1, <1>2, <1>3 DEF DocOrNone
  <2>3. hand \in [Procs -> Hand] /\ todo \in [Procs -> Seq(Steps)]
    BY <1>2, <1>4, <2>1
  <2>4. /\ kind \in [Ops -> Kinds] /\ faults \in 0 .. MaxFaults /\ alone \in [Ops -> BOOLEAN]
        /\ result \in [Ops -> {"idle", "running", "ok", "rejected", "failed"}]
    BY <1>2, BoundsAssumption DEF Kinds
  <2> QED
    BY <1>1, <1>2, <1>5, <1>6, <2>2, <2>3, <2>4 DEF TypeOK, Hand
<1>8. Control /\ \A p \in Ops : HandOK(p)
  <2>1. \A p \in Procs : todo[p] = Quiet
    BY <1>2
  <2>2. \A k : Ordered(k, Quiet)
    BY DEF Quiet, Ordered, Each, Before
  <2> QED
    BY <1>2, <2>1, <2>2 DEF Control, HandOK, Running, Procs
<1>9. Seen
  <2>1. row # None => Whole(c, s) \in AskedDocs
    BY <1>1, <1>3 DEF AskedDocs
  <2>2. \A p \in Procs : hand[p].rows = None
    BY <1>2, <1>4
  <2>3. \A t \in Tables : tables[t] \subseteq asked
    BY <1>1
  <2>4. \A v \in versions : v.doc \in AskedDocs
    BY <1>6, <2>1
  <2>5. /\ row # None => row.cfg \in asked \cup {Blank}
        /\ snapshot \in AskedDocs \cup {None} /\ cache \in AskedDocs \cup {None}
    BY <1>1, <1>2, <1>5, <2>1
  <2> QED
    BY <1>5, <2>2, <2>3, <2>4, <2>5 DEF Seen
<1>a. VersionsWereLive
  BY <1>1, <1>6 DEF VersionsWereLive
<1> QED
  BY <1>7, <1>8, <1>9, <1>a DEF SafeInv

LEMMA SafeStep == ASSUME SafeInv, [Next]_vars PROVE SafeInv'
<1>1. ASSUME NEW p \in Procs, Moves(p), DataOK' PROVE SafeInv'
  <2>1. /\ todo' \in [Procs -> Seq(Steps)] /\ kind' \in [Ops -> Kinds] /\ wrote' \subseteq Ops
        /\ result' \in [Ops -> {"idle", "running", "ok", "rejected", "failed"}] /\ Control'
    BY <1>1, MovesControl DEF SafeInv
  <2> QED
    BY <1>1, <2>1 DEF SafeInv, DataOK, DataTypes, TypeOK, Hand
<1>2. CASE \E p \in Ops, k \in KindsUsed : Begin(p, k)
  BY <1>2, BeginKeeps, BoundsAssumption
<1>3. ASSUME NEW p \in Ops, Step(p) PROVE SafeInv'
  <2>1. Moves(p)
    BY <1>3, StepMoves DEF SafeInv
  <2>2. DataOK'
    BY <1>3, <2>1, ReadsKeep, WritesKeep DEF Step
  <2> QED
    BY <1>1, <2>1, <2>2 DEF Procs
<1>4. ASSUME NEW p \in Procs, Refreshing(p) PROVE SafeInv'
  BY <1>1, <1>4, RefreshMoves, RefreshKeeps DEF SafeInv
<1> QED
  BY <1>2, <1>3, <1>4, RestKeeps DEF Next

LEMMA Safe == Spec => []SafeInv
BY SafeInit, SafeStep, PTL DEF Spec

\* Every variable keeps its type, whatever overlaps and whatever fails.
THEOREM TypeCorrect == Spec => []TypeOK
<1>1. SafeInv => TypeOK
  BY DEF SafeInv
<1> QED
  BY <1>1, Safe, PTL

\* However many operations of the admin panel overlap, and whichever requests fail or lose
\* their answer, every version in the history (_insert_version) holds a configuration that
\* sync_tenant once wrote in full.
THEOREM VersionsWereOnceLive == Spec => []VersionsWereLive
<1>1. SafeInv => VersionsWereLive
  BY DEF SafeInv
<1> QED
  BY <1>1, Safe, PTL

\* An operation that ends in a conflict (save_draft's If-Match, the consent checks of
\* save_tenant and of the trigger, an absent draft or version, a tenant that exists
\* already) has changed nothing in the database.
THEOREM ConflictsLeaveNothing == Spec => []RejectedWroteNothing
<1>1. SafeInv => RejectedWroteNothing
  BY DEF SafeInv, Control, RejectedWroteNothing
<1> QED
  BY <1>1, Safe, PTL

\* What the tables, the history, the snapshot and the cache hold was asked to be published:
\* no draft gets there by itself, and nothing stale is written back that never was.
THEOREM OnlyTheAskedIsSeen == Spec => []OnlyAskedIsSeen
<1>1. SafeInv => OnlyAskedIsSeen
  BY DEF SafeInv, Seen, AskedDocs, OnlyAskedIsSeen
<1> QED
  BY <1>1, Safe, PTL

-----------------------------------------------------------------------------
(* An operation that nobody overlaps: what it has done so far.             *)

Synced == {"put_row", "put_services", "put_servers", "drop_services", "drop_servers"}
Publishers == {"deploy", "switch", "create", "status"}

\* The steps of each operation, and those among them that keep its promise.
Used(k) ==
  CASE k = "draft"   -> Drafting
    [] k = "discard" -> {"clear_draft"}
    [] k = "deploy"  -> Synced \cup {"read_draft", "current", "consent", "clear", "fetch", "install",
                                     "max", "unset", "insert", "clear_draft"}
    [] k = "switch"  -> Synced \cup {"read_version", "current", "consent", "clear", "fetch",
                                     "install", "unset", "flip"}
    [] k = "delete"  -> {"read_version", "delete"}
    [] k = "create"  -> Synced \cup {"absent", "activate", "insert", "clear", "fetch", "install"}
    [] k = "status"  -> Synced \cup {"clear", "fetch", "install"}
    [] k = "purge"   -> {"purge_history", "purge_services", "purge_servers", "purge_consents",
                         "purge_versions", "purge_row", "clear", "fetch", "install"}
Promised(k) ==
  CASE k = "draft"   -> {"write_draft"}
    [] k = "discard" -> {"clear_draft"}
    [] k = "deploy"  -> Synced \cup {"insert", "clear_draft"}
    [] k = "switch"  -> Synced \cup {"flip"}
    [] k = "delete"  -> {"delete"}
    [] k = "create"  -> Synced \cup {"insert"}
    [] k = "status"  -> Synced
    [] k = "purge"   -> {"purge_row"}

\* A step that changes the document comes before all of them, and what is unset
\* before the version that is live.
Learning == Reading \cup {"activate", "base"}
Shaped(k, s) ==
  \A i \in 1 .. Len(s) :
    /\ s[i] \in Used(k)
    /\ s[i] \in Learning => \A x \in Promised(k) : \E j \in i + 1 .. Len(s) : s[j] = x
    /\ s[i] = "unset" => \A x \in Promised(k) \cap {"insert", "flip"} :
                            \E j \in i + 1 .. Len(s) : s[j] = x

Shape == \A p \in Procs : Shaped(Kind(p), todo[p])

\* The part of its promise whose step is over: in the tables, the history, the draft.
InTables(p) ==
  kind[p] \in Publishers =>
    /\ ~Ahead(p, "put_row") => row = [cfg |-> hand[p].doc.cfg, status |-> hand[p].doc.status]
    /\ ~Ahead(p, "put_services") => hand[p].doc.menu \subseteq tables["services"]
    /\ ~Ahead(p, "put_servers") => {hand[p].doc.cfg} \subseteq tables["mcp_servers"]
    /\ ~Ahead(p, "drop_services") => tables["services"] \subseteq hand[p].doc.menu
    /\ ~Ahead(p, "drop_servers") => tables["mcp_servers"] \subseteq {hand[p].doc.cfg}

InHistory(p) ==
  /\ kind[p] \in {"deploy", "create"} /\ ~Ahead(p, "insert") =>
       \E v \in versions : v.live /\ v.id = p /\ v.doc = hand[p].doc
  /\ kind[p] = "switch" /\ ~Ahead(p, "read_version") => \E v \in versions : v.id = hand[p].ver
  /\ kind[p] = "switch" /\ ~Ahead(p, "flip") => \E v \in versions : v.live /\ v.id = hand[p].ver
  /\ kind[p] = "delete" /\ ~Ahead(p, "delete") => \A v \in versions : v.id # hand[p].ver

InDraft(p) ==
  /\ kind[p] \in {"deploy", "discard"} /\ ~Ahead(p, "clear_draft") => draft = None
  /\ kind[p] = "draft" /\ ~Ahead(p, "write_draft") => draft = [doc |-> hand[p].doc, stamp |-> p]

Gone(p) ==
  kind[p] = "purge" /\ ~Ahead(p, "purge_row") =>
    /\ row = None /\ versions = {} /\ ~consent /\ draft = None
    /\ \A t \in Tables : tables[t] = {}

Progress(p) == InTables(p) /\ InHistory(p) /\ InDraft(p) /\ Gone(p)

AloneInv ==
  /\ SafeInv /\ Shape
  /\ \A p \in Ops : alone[p] /\ Running(p) =>
       Progress(p) /\ \A q \in Ops \ {p} : ~Running(q)

LEMMA NotEmpty == ASSUME NEW s, Len(s) >= 1 PROVE s # <<>>
OBVIOUS

LEMMA TailShaped ==
  ASSUME NEW k, NEW s \in Seq(Steps), s # <<>>, Shaped(k, s)
  PROVE  Shaped(k, Tail(s))
<1>1. /\ Len(s) \in Nat /\ Len(Tail(s)) = Len(s) - 1
      /\ \A i \in 1 .. Len(Tail(s)) : Tail(s)[i] = s[i + 1]
  BY HeadTailProperties, LenProperties
<1> DEFINE t == Tail(s)
<1> HIDE DEF t
<1>2. ASSUME NEW i \in 1 .. Len(t), NEW x, \E j \in (i + 1) + 1 .. Len(s) : s[j] = x
      PROVE  \E j \in i + 1 .. Len(t) : t[j] = x
  <2>1. PICK j \in (i + 1) + 1 .. Len(s) : s[j] = x
    BY <1>2
  <2>2. j - 1 \in i + 1 .. Len(t) /\ t[j - 1] = s[j]
    BY <1>1 DEF t
  <2> QED
    BY <2>1, <2>2
<1>3. ASSUME NEW i \in 1 .. Len(t)
      PROVE  /\ t[i] \in Used(k)
             /\ t[i] \in Learning => \A x \in Promised(k) : \E j \in i + 1 .. Len(t) : t[j] = x
             /\ t[i] = "unset" => \A x \in Promised(k) \cap {"insert", "flip"} :
                                     \E j \in i + 1 .. Len(t) : t[j] = x
  <2>1. i + 1 \in 1 .. Len(s) /\ t[i] = s[i + 1]
    BY <1>1 DEF t
  <2> QED
    BY <1>2, <2>1 DEF Shaped
<1> QED
  BY <1>3 DEF t, Shaped

LEMMA ProgramsAreShaped ==
  ASSUME NEW k \in Kinds
  PROVE  /\ Shaped(k, Program(k))
         /\ \A x \in Promised(k) : \E j \in 1 .. Len(Program(k)) : Program(k)[j] = x
         /\ k = "switch" => \E j \in 1 .. Len(Program(k)) : Program(k)[j] = "read_version"
<1> DEFINE Goal(s, h) ==
             /\ Shaped(h, s)
             /\ \A x \in Promised(h) : \E j \in 1 .. Len(s) : s[j] = x
             /\ h = "switch" => \E j \in 1 .. Len(s) : s[j] = "read_version"
<1> USE DEF Shaped, Used, Promised, Synced, Learning, Reading, Drafting
<1>1. ASSUME NEW s, s = <<"open", "base", "match", "write_draft">> PROVE Goal(s, "draft")
  BY <1>1
<1>2. ASSUME NEW s, s = <<"clear_draft">> PROVE Goal(s, "discard")
  BY <1>2
<1>3. ASSUME NEW s, s = <<"read_draft", "current", "consent", "put_row", "put_services",
                          "put_servers", "drop_services", "drop_servers", "clear", "fetch",
                          "install", "max", "unset", "insert", "clear_draft">>
      PROVE  Goal(s, "deploy")
  BY <1>3
<1>4. ASSUME NEW s, s = <<"read_version", "current", "consent", "put_row", "put_services",
                          "put_servers", "drop_services", "drop_servers", "clear", "fetch",
                          "install", "unset", "flip">>
      PROVE  Goal(s, "switch")
  BY <1>4
<1>5. ASSUME NEW s, s = <<"read_version", "delete">> PROVE Goal(s, "delete")
  BY <1>5
<1>6. ASSUME NEW s, s = <<"absent", "put_row", "put_services", "put_servers", "drop_services",
                          "drop_servers", "activate", "put_row", "put_services", "put_servers",
                          "drop_services", "drop_servers", "insert", "clear", "fetch", "install">>
      PROVE  Goal(s, "create")
  BY <1>6
<1>7. ASSUME NEW s, s = <<"put_row", "put_services", "put_servers", "drop_services",
                          "drop_servers", "clear", "fetch", "install">>
      PROVE  Goal(s, "status")
  BY <1>7
<1>8. ASSUME NEW s, s = <<"purge_history", "purge_services", "purge_servers", "purge_consents",
                          "purge_versions", "purge_row", "clear", "fetch", "install">>
      PROVE  Goal(s, "purge")
  BY <1>8
<1> HIDE DEF Goal
<1>9. Goal(Program(k), k)
  <2>1. CASE k \in {"draft", "discard", "delete"}
    BY <1>1, <1>2, <1>5, <2>1 DEF Program
  <2>2. CASE k = "deploy"
    BY <1>3, <2>2, Deploys
  <2>3. CASE k = "switch"
    BY <1>4, <2>3, Switches
  <2>4. CASE k = "create"
    BY <1>6, <2>4, Creates
  <2>5. CASE k = "status"
    BY <1>7, <2>5, StatusChanges
  <2>6. CASE k = "purge"
    BY <1>8, <2>6, Purges
  <2> QED
    BY <2>1, <2>2, <2>3, <2>4, <2>5, <2>6 DEF Kinds
<1> QED
  BY <1>9 DEF Goal

\* A step that does not end the operation in a failure passes only its own step, or one
\* that no promise rests on.
LEMMA Onward ==
  ASSUME SafeInv, Shape, NEW p \in Ops, Moves(p), result'[p] \in {"running", "ok"}
  PROVE  /\ Head(todo[p]) \in Used(kind[p]) /\ kind'[p] = kind[p] /\ kind[p] \in Kinds
         /\ \A s : Ahead(p, s) => s = Head(todo[p]) \/ s \in Skipped \/ Ahead(p, s)'
         /\ Head(todo[p]) \in Learning => \A x \in Promised(kind[p]) : Ahead(p, x)'
         /\ Head(todo[p]) = "unset" =>
              \A x \in Promised(kind[p]) \cap {"insert", "flip"} : Ahead(p, x)'
<1>1. PICK r \in Successors(p) :
         /\ todo' = [todo EXCEPT ![p] = r]
         /\ r # Quiet => UNCHANGED result
         /\ r = Quiet => \E why \in {"ok", "rejected", "failed"} :
              /\ result' = [result EXCEPT ![p] = why]
              /\ why = "ok" => r \in Onwards(p)
  BY DEF Moves
<1>2. p \in Procs /\ todo[p] # Quiet /\ kind' = kind /\ TypeOK /\ Control /\ kind[p] \in Kinds
  BY DEF Procs, Moves, SafeInv, TypeOK
<1>3. r \in Onwards(p) /\ todo'[p] = r
  BY <1>1, <1>2 DEF TypeOK, Successors
<1> DEFINE t == todo[p]
<1>4. t \in Seq(Steps) /\ t # <<>> /\ Ordered(kind[p], t) /\ Shaped(kind[p], t)
      /\ Len(t) \in Nat /\ Len(t) >= 1 /\ Head(t) = t[1]
  BY <1>2 DEF TypeOK, Control, Quiet, Shape, Kind
<1>5. /\ Tail(t) \in Seq(Steps) /\ Len(Tail(t)) = Len(t) - 1
      /\ \A i \in 1 .. Len(Tail(t)) : Tail(t)[i] = t[i + 1]
  BY <1>4, HeadTailProperties
<1>6. Head(t) \in Skipping => Len(t) >= 2 /\ t[2] \in Skipped
  BY <1>4 DEF Ordered, Each
<1> HIDE DEF t
<1>7. \A j \in 2 .. Len(t) : t[j] \in Skipped \/ \E i \in 1 .. Len(r) : r[i] = t[j]
  <2>1. CASE r = Tail(t)
    <3>1. ASSUME NEW j \in 2 .. Len(t) PROVE \E i \in 1 .. Len(r) : r[i] = t[j]
      <4>1. PICK i \in 1 .. Len(r) : i + 1 = j
        BY <1>4, <1>5, <2>1
      <4> QED
        BY <1>5, <2>1, <4>1
    <3> QED
      BY <3>1
  <2>2. CASE Head(t) \in Skipping /\ r = Tail(Tail(t))
    <3>0. Len(t) >= 2 /\ t[2] \in Skipped /\ Len(Tail(t)) >= 1
      BY <1>4, <1>5, <1>6, <2>2
    <3>1. Tail(t) # <<>> /\ Len(t) >= 2 /\ t[2] \in Skipped
      BY <3>0, NotEmpty
    <3>2. Len(r) = Len(Tail(t)) - 1 /\ \A i \in 1 .. Len(r) : r[i] = Tail(t)[i + 1]
      BY <1>5, <2>2, <3>1, HeadTailProperties
    <3>3. ASSUME NEW j \in 2 .. Len(t), j # 2 PROVE \E i \in 1 .. Len(r) : r[i] = t[j]
      <4>1. PICK i \in 1 .. Len(r) : (i + 1) + 1 = j
        BY <1>4, <1>5, <3>1, <3>2, <3>3
      <4>2. r[i] = Tail(t)[i + 1] /\ i + 1 \in 1 .. Len(Tail(t))
        BY <1>4, <1>5, <3>2, <4>1
      <4> QED
        BY <1>5, <4>1, <4>2
    <3> QED
      BY <3>1, <3>3
  <2> QED
    BY <1>3, <2>1, <2>2 DEF Onwards, Rest, t
<1>8. \A s : Ahead(p, s) => s = Head(t) \/ s \in Skipped \/ Ahead(p, s)'
  <2>1. \A s : Ahead(p, s) <=> \E j \in 1 .. Len(t) : t[j] = s
    BY DEF Ahead, t
  <2>2. \A s : Ahead(p, s)' <=> \E i \in 1 .. Len(r) : r[i] = s
    BY <1>3 DEF Ahead
  <2>3. \A j \in 1 .. Len(t) : j = 1 \/ j \in 2 .. Len(t)
    BY <1>4
  <2> QED
    BY <1>4, <1>7, <2>1, <2>2, <2>3
<1>9. ASSUME NEW x \in Promised(kind[p]), \E j \in 1 + 1 .. Len(t) : t[j] = x PROVE Ahead(p, x)'
  <2>1. x \notin Skipped
    BY <1>2 DEF Promised, Synced, Skipped, Kinds
  <2>2. PICK i \in 1 .. Len(r) : r[i] = x
    BY <1>7, <1>9, <2>1
  <2> QED
    BY <1>3, <2>2 DEF Ahead
<1>a. /\ t[1] \in Used(kind[p])
      /\ t[1] \in Learning => \A x \in Promised(kind[p]) : \E j \in 1 + 1 .. Len(t) : t[j] = x
      /\ t[1] = "unset" => \A x \in Promised(kind[p]) \cap {"insert", "flip"} :
                              \E j \in 1 + 1 .. Len(t) : t[j] = x
  BY <1>4 DEF Shaped
<1> QED
  BY <1>2, <1>4, <1>8, <1>9, <1>a DEF t

LEMMA MovesShape ==
  ASSUME SafeInv, Shape, NEW p \in Procs, Moves(p)
  PROVE  Shape'
<1>1. PICK r \in Successors(p) : todo' = [todo EXCEPT ![p] = r]
  BY DEF Moves
<1>2. todo[p] # Quiet /\ kind' = kind /\ TypeOK /\ Control
  BY DEF Moves, SafeInv
<1> DEFINE t == todo[p]
<1>3. t \in Seq(Steps) /\ t # <<>> /\ Shaped(Kind(p), t) /\ Ordered(Kind(p), t)
      /\ Len(t) \in Nat /\ Len(t) >= 1 /\ Head(t) = t[1]
  BY <1>2 DEF TypeOK, Control, Quiet, Shape
<1>4. Tail(t) \in Seq(Steps) /\ Len(Tail(t)) = Len(t) - 1 /\ Shaped(Kind(p), Tail(t))
  BY <1>3, TailShaped, HeadTailProperties
<1>5. Head(t) \in Skipping => Shaped(Kind(p), Tail(Tail(t)))
  <2>1. Head(t) \in Skipping => Len(t) >= 2
    BY <1>3 DEF Ordered, Each
  <2> HIDE DEF t
  <2>2. Head(t) \in Skipping => Len(Tail(t)) >= 1
    BY <1>3, <1>4, <2>1
  <2>3. Head(t) \in Skipping => Tail(t) # <<>>
    BY <2>2, NotEmpty
  <2> QED
    BY <1>4, <2>3, TailShaped
<1>6. Shaped(Kind(p), Quiet)
  BY DEF Shaped, Quiet
<1>7. Shaped(Kind(p), r)
  BY <1>4, <1>5, <1>6 DEF Successors, Onwards, Rest
<1>8. ASSUME NEW q \in Procs PROVE Shaped(Kind(q), todo[q])'
  <2>1. Kind(q)' = Kind(q) /\ todo'[q] = IF q = p THEN r ELSE todo[q]
    BY <1>1, <1>2 DEF Kind, TypeOK
  <2>2. Shaped(Kind(q), todo'[q])
    BY <1>7, <2>1 DEF Shape
  <2> QED
    BY <2>1, <2>2 DEF Shaped, Used, Promised, Synced, Learning, Reading, Drafting
<1> QED
  BY <1>8 DEF Shape

\* A step no promise rests on.
LEMMA IdleProgress ==
  ASSUME SafeInv, Shape, NEW p \in Ops, Moves(p), result'[p] \in {"running", "ok"}, Progress(p),
         Head(todo[p]) \notin Promised(kind[p]) \cup {"read_version"}, UNCHANGED database,
         hand'[p].doc = hand[p].doc, hand'[p].ver = hand[p].ver
  PROVE  Progress(p)'
<1>1. \A s \in Promised(kind[p]) \cup {"read_version"} : ~Ahead(p, s)' => ~Ahead(p, s)
  <2>1. \A s \in Promised(kind[p]) \cup {"read_version"} : s \notin Skipped
    BY DEF Promised, Synced, Skipped, SafeInv, TypeOK, Kinds
  <2> QED
    BY <2>1, Onward
<1>2. kind'[p] = kind[p] /\ kind[p] \in Kinds
  BY Onward
<1>3. /\ kind[p] \in Publishers => Synced \subseteq Promised(kind[p])
      /\ kind[p] \in {"deploy", "create"} => "insert" \in Promised(kind[p])
      /\ kind[p] = "switch" => "flip" \in Promised(kind[p])
      /\ kind[p] = "delete" => "delete" \in Promised(kind[p])
      /\ kind[p] \in {"deploy", "discard"} => "clear_draft" \in Promised(kind[p])
      /\ kind[p] = "draft" => "write_draft" \in Promised(kind[p])
      /\ kind[p] = "purge" => "purge_row" \in Promised(kind[p])
  BY DEF Promised, Publishers
<1>4. InTables(p)'
  BY <1>1, <1>2, <1>3 DEF Progress, InTables, Synced, Publishers, database
<1>5. InHistory(p)'
  BY <1>1, <1>2, <1>3 DEF Progress, InHistory, database
<1>6. InDraft(p)'
  BY <1>1, <1>2, <1>3 DEF Progress, InDraft, database
<1>7. Gone(p)'
  BY <1>1, <1>2, <1>3 DEF Progress, Gone, database
<1> QED
  BY <1>4, <1>5, <1>6, <1>7 DEF Progress

\* A step that changes the document in hand: everything promised is still to come.
LEMMA LearningProgress ==
  ASSUME SafeInv, Shape, NEW p \in Ops, Moves(p), result'[p] \in {"running", "ok"},
         Head(todo[p]) \in Learning,
         kind[p] = "switch" => \E v \in versions' : v.id = hand'[p].ver
  PROVE  Progress(p)'
<1>1. kind'[p] = kind[p] /\ kind[p] \in Kinds /\ \A x \in Promised(kind[p]) : Ahead(p, x)'
  BY Onward
<1>2. /\ kind[p] \in Publishers => \A x \in Synced : Ahead(p, x)'
      /\ kind[p] \in {"deploy", "create"} => Ahead(p, "insert")'
      /\ kind[p] = "switch" => Ahead(p, "flip")'
      /\ kind[p] = "delete" => Ahead(p, "delete")'
      /\ kind[p] \in {"deploy", "discard"} => Ahead(p, "clear_draft")'
      /\ kind[p] = "draft" => Ahead(p, "write_draft")'
      /\ kind[p] = "purge" => Ahead(p, "purge_row")'
  BY <1>1 DEF Promised, Publishers
<1>3. InTables(p)'
  BY <1>1, <1>2 DEF InTables, Synced, Publishers
<1>4. InHistory(p)'
  BY <1>1, <1>2 DEF InHistory
<1>5. InDraft(p)' /\ Gone(p)'
  BY <1>1, <1>2 DEF InDraft, Gone
<1> QED
  BY <1>3, <1>4, <1>5 DEF Progress

LEMMA ReadsProgress ==
  ASSUME SafeInv, Shape, NEW p \in Ops, Moves(p), result'[p] \in {"running", "ok"}, Progress(p),
         \/ Open(p) \/ Base(p) \/ Match(p) \/ ReadDraft(p) \/ Current(p) \/ Consent(p)
         \/ MaxVersion(p) \/ ReadVersion(p) \/ Absent(p) \/ Activate(p) \/ PurgeHistory(p)
         \/ RequestFails(p) \/ Refreshing(p)
  PROVE  Progress(p)'
<1> USE DEF At
<1>0. p \in Procs /\ TypeOK /\ hand[p] \in Hand /\ hand \in [Procs -> Hand]
      /\ Head(todo[p]) \in Used(kind[p]) /\ kind[p] \in Kinds
  BY HandIsTyped, Onward DEF Procs, SafeInv
<1>1. ASSUME NEW why \in {"rejected", "failed"}, Ends(p, why) PROVE FALSE
  BY <1>0, <1>1 DEF Ends, Stop, TypeOK
<1>2. ASSUME NEW h \in Hand, NEW rest, Learns(p, h, rest)
      PROVE  hand'[p] = h /\ UNCHANGED database
  BY <1>0, <1>2 DEF Learns
<1>3. CASE Base(p)
  <2>1. Head(todo[p]) \in Learning /\ kind[p] # "switch"
    BY <1>0, <1>3 DEF Base, Learning, Used, Synced
  <2> QED
    BY <2>1, LearningProgress
<1>4. CASE ReadDraft(p)
  <2>1. Head(todo[p]) \in Learning /\ kind[p] # "switch"
    BY <1>0, <1>4 DEF ReadDraft, Learning, Reading, Used, Synced
  <2> QED
    BY <2>1, LearningProgress
<1>5. CASE Activate(p)
  <2>1. Head(todo[p]) \in Learning /\ kind[p] # "switch"
    BY <1>0, <1>5 DEF Activate, Learning, Used, Synced
  <2> QED
    BY <2>1, LearningProgress
<1>6. CASE ReadVersion(p)
  <2>1. PICK v \in versions : v.id = hand[p].ver /\ Learns(p, [hand[p] EXCEPT !.doc = v.doc], Rest(p))
    BY <1>1, <1>6 DEF ReadVersion
  <2>2. hand'[p].ver = hand[p].ver /\ UNCHANGED versions
    BY <1>0, <2>1 DEF Learns, database, Hand
  <2> QED
    BY <1>6, <2>1, <2>2, LearningProgress DEF ReadVersion, Learning, Reading
<1>7. CASE RequestFails(p)
  BY <1>1, <1>7 DEF RequestFails
<1>8. ASSUME UNCHANGED database, hand'[p].doc = hand[p].doc, hand'[p].ver = hand[p].ver,
             Head(todo[p]) \in {"open", "match", "current", "consent", "max", "absent",
                                "purge_history", "clear", "fetch", "install"}
      PROVE  Progress(p)'
  <2>1. Head(todo[p]) \notin Promised(kind[p]) \cup {"read_version"}
    BY <1>0, <1>8 DEF Promised, Synced, Kinds
  <2> QED
    BY <1>8, <2>1, IdleProgress
<1>9. CASE Open(p) \/ MaxVersion(p)
  <2>1. UNCHANGED database /\ hand'[p].doc = hand[p].doc /\ hand'[p].ver = hand[p].ver
    BY <1>0, <1>9 DEF Open, MaxVersion, Learns, Hand
  <2> QED
    BY <1>8, <1>9, <2>1 DEF Open, MaxVersion
<1>a. CASE Match(p) \/ Consent(p) \/ Absent(p) \/ Current(p)
  <2>1. PICK rest \in {Rest(p), Tail(Rest(p))} : Learns(p, hand[p], rest)
    BY <1>1, <1>a DEF Match, Consent, Absent, Current
  <2>2. UNCHANGED database /\ hand'[p] = hand[p]
    BY <1>0, <2>1 DEF Learns
  <2> QED
    BY <1>8, <1>a, <2>2 DEF Match, Consent, Absent, Current
<1>b. CASE PurgeHistory(p)
  BY <1>8, <1>b DEF PurgeHistory, Applied
<1>c. CASE Refreshing(p)
  <2>1. UNCHANGED database /\ hand'[p].doc = hand[p].doc /\ hand'[p].ver = hand[p].ver
    BY <1>0, <1>c DEF Refreshing, Clear, Fetch, Install, Learns, Hand
  <2> QED
    BY <1>8, <1>c, <2>1 DEF Refreshing, Clear, Fetch, Install
<1> QED
  BY <1>3, <1>4, <1>5, <1>6, <1>7, <1>9, <1>a, <1>b, <1>c

LEMMA WritesProgress ==
  ASSUME SafeInv, Shape, NEW p \in Ops, Moves(p), result'[p] \in {"running", "ok"}, Progress(p),
         \/ WriteDraft(p) \/ ClearDraft(p) \/ PutRow(p)
         \/ PutRows(p, "put_services", "services") \/ PutRows(p, "put_servers", "mcp_servers")
         \/ DropRows(p, "drop_services", "services") \/ DropRows(p, "drop_servers", "mcp_servers")
         \/ Unset(p) \/ Insert(p) \/ Flip(p) \/ Delete(p)
         \/ PurgeRows(p, "purge_services", "services")
         \/ PurgeRows(p, "purge_servers", "mcp_servers")
         \/ PurgeConsents(p) \/ PurgeVersions(p) \/ PurgeRow(p)
  PROVE  Progress(p)'
<1> USE DEF At
<1>0. /\ p \in Procs /\ TypeOK /\ kind[p] \in Kinds /\ kind'[p] = kind[p]
      /\ Head(todo[p]) \in Used(kind[p])
      /\ \A s : Ahead(p, s) => s = Head(todo[p]) \/ s \in Skipped \/ Ahead(p, s)'
      /\ InTables(p) /\ InHistory(p) /\ InDraft(p) /\ Gone(p)
  BY Onward DEF Procs, SafeInv, Progress
<1>1. ASSUME NEW why \in {"rejected", "failed"}, Refused(p, why) PROVE FALSE
  BY <1>0, <1>1 DEF Refused, Ends, Stop, TypeOK
<1>2. hand'[p] = hand[p]
  BY <1>0, <1>1 DEF WriteDraft, ClearDraft, PutRow, PutRows, DropRows, Unset, Insert, Flip, Delete,
                    PurgeRows, PurgeConsents, PurgeVersions, PurgeRow, Applied
<1>3. /\ ~Ahead(p, "put_row")' => ~Ahead(p, "put_row") \/ Head(todo[p]) = "put_row"
      /\ ~Ahead(p, "put_services")' => ~Ahead(p, "put_services") \/ Head(todo[p]) = "put_services"
      /\ ~Ahead(p, "put_servers")' => ~Ahead(p, "put_servers") \/ Head(todo[p]) = "put_servers"
      /\ ~Ahead(p, "drop_services")' => ~Ahead(p, "drop_services") \/ Head(todo[p]) = "drop_services"
      /\ ~Ahead(p, "drop_servers")' => ~Ahead(p, "drop_servers") \/ Head(todo[p]) = "drop_servers"
      /\ ~Ahead(p, "insert")' => ~Ahead(p, "insert") \/ Head(todo[p]) = "insert"
      /\ ~Ahead(p, "flip")' => ~Ahead(p, "flip") \/ Head(todo[p]) = "flip"
      /\ ~Ahead(p, "delete")' => ~Ahead(p, "delete") \/ Head(todo[p]) = "delete"
      /\ ~Ahead(p, "read_version")' => ~Ahead(p, "read_version") \/ Head(todo[p]) = "read_version"
      /\ ~Ahead(p, "clear_draft")' => ~Ahead(p, "clear_draft") \/ Head(todo[p]) = "clear_draft"
      /\ ~Ahead(p, "write_draft")' => ~Ahead(p, "write_draft") \/ Head(todo[p]) = "write_draft"
      /\ ~Ahead(p, "purge_row")' => ~Ahead(p, "purge_row") \/ Head(todo[p]) = "purge_row"
  BY <1>0 DEF Skipped
\* A promise is kept by its own step, and no other step of the operation undoes it.
<1>4. CASE WriteDraft(p)
  <2>1. kind[p] = "draft" /\ Head(todo[p]) = "write_draft"
        /\ draft' = [doc |-> hand[p].doc, stamp |-> p]
    BY <1>0, <1>4 DEF WriteDraft, Used, Synced, Kinds
  <2> QED
    BY <1>0, <1>2, <2>1 DEF Progress, InTables, InHistory, InDraft, Gone, Publishers
<1>5. CASE ClearDraft(p)
  <2>1. /\ kind[p] \in {"deploy", "discard"} /\ Head(todo[p]) = "clear_draft" /\ draft' = None
        /\ UNCHANGED <<row, tables, versions, consent>>
    BY <1>0, <1>5 DEF ClearDraft, Used, Synced, Kinds, Drafting
  <2>2. InTables(p)'
    BY <1>0, <1>2, <1>3, <2>1 DEF InTables
  <2>3. InHistory(p)'
    BY <1>0, <1>2, <1>3, <2>1 DEF InHistory
  <2> QED
    BY <1>0, <2>1, <2>2, <2>3 DEF Progress, InDraft, Gone
<1>6. CASE \/ PutRow(p)
           \/ PutRows(p, "put_services", "services") \/ PutRows(p, "put_servers", "mcp_servers")
           \/ DropRows(p, "drop_services", "services")
           \/ DropRows(p, "drop_servers", "mcp_servers")
  <2>1. /\ kind[p] \in Publishers /\ Head(todo[p]) \in Synced
        /\ UNCHANGED <<draft, versions, consent>>
    BY <1>0, <1>1, <1>6 DEF PutRow, PutRows, DropRows, Used, Synced, Kinds, Drafting, Publishers
  <2>2. InTables(p)'
    <3>1. CASE PutRow(p)
      <4>1. Head(todo[p]) = "put_row" /\ UNCHANGED tables
            /\ row' = [cfg |-> hand[p].doc.cfg, status |-> hand[p].doc.status]
        BY <1>1, <3>1 DEF PutRow
      <4> QED
        BY <1>0, <1>2, <1>3, <4>1 DEF InTables
    <3>2. CASE PutRows(p, "put_services", "services")
      <4>1. /\ Head(todo[p]) = "put_services" /\ UNCHANGED row
            /\ tables'["services"] = tables["services"] \cup hand[p].doc.menu
            /\ tables'["mcp_servers"] = tables["mcp_servers"]
        BY <1>0, <1>1, <3>2 DEF PutRows, Listed, TypeOK, Tables
      <4> QED
        BY <1>0, <1>2, <1>3, <4>1 DEF InTables
    <3>3. CASE PutRows(p, "put_servers", "mcp_servers")
      <4>1. /\ Head(todo[p]) = "put_servers" /\ UNCHANGED row
            /\ tables'["mcp_servers"] = tables["mcp_servers"] \cup {hand[p].doc.cfg}
            /\ tables'["services"] = tables["services"]
        BY <1>0, <1>1, <3>3 DEF PutRows, Listed, TypeOK, Tables
      <4> QED
        BY <1>0, <1>2, <1>3, <4>1 DEF InTables
    <3>4. CASE DropRows(p, "drop_services", "services")
      <4>1. /\ Head(todo[p]) = "drop_services" /\ UNCHANGED row
            /\ tables'["services"] = tables["services"] \cap hand[p].doc.menu
            /\ tables'["mcp_servers"] = tables["mcp_servers"]
        BY <1>0, <1>1, <3>4 DEF DropRows, Listed, TypeOK, Tables
      <4> QED
        BY <1>0, <1>2, <1>3, <4>1 DEF InTables
    <3>5. CASE DropRows(p, "drop_servers", "mcp_servers")
      <4>1. /\ Head(todo[p]) = "drop_servers" /\ UNCHANGED row
            /\ tables'["mcp_servers"] = tables["mcp_servers"] \cap {hand[p].doc.cfg}
            /\ tables'["services"] = tables["services"]
        BY <1>0, <1>1, <3>5 DEF DropRows, Listed, TypeOK, Tables
      <4> QED
        BY <1>0, <1>2, <1>3, <4>1 DEF InTables
    <3> QED
      BY <1>6, <3>1, <3>2, <3>3, <3>4, <3>5
  <2>3. InHistory(p)'
    BY <1>0, <1>2, <1>3, <2>1 DEF InHistory, Synced
  <2>4. InDraft(p)' /\ Gone(p)'
    BY <1>0, <1>2, <1>3, <2>1 DEF InDraft, Gone, Synced, Publishers
  <2> QED
    BY <2>2, <2>3, <2>4 DEF Progress
<1>7. CASE Unset(p)
  <2>1. /\ kind[p] \in {"deploy", "switch"} /\ Head(todo[p]) = "unset"
        /\ versions' = {[v EXCEPT !.live = FALSE] : v \in versions}
        /\ UNCHANGED <<row, tables, draft, consent>>
    BY <1>0, <1>7 DEF Unset, Used, Synced, Kinds, Drafting
  <2>2. \A x \in Promised(kind[p]) \cap {"insert", "flip"} : Ahead(p, x)'
    BY <2>1, Onward
  <2>3. /\ kind[p] = "deploy" => Ahead(p, "insert")'
        /\ kind[p] = "switch" => Ahead(p, "flip")'
    BY <2>2 DEF Promised
  <2>4. ASSUME NEW v \in versions PROVE \E w \in versions' : w.id = v.id
    <3>1. [v EXCEPT !.live = FALSE] \in versions' /\ [v EXCEPT !.live = FALSE].id = v.id
      BY <1>0, <2>1 DEF TypeOK, Versions
    <3> QED
      BY <3>1
  <2>5. InHistory(p)'
    <3>1. kind[p] = "switch" /\ ~Ahead(p, "read_version")' => \E v \in versions' : v.id = hand'[p].ver
      <4>1. SUFFICES ASSUME kind[p] = "switch", ~Ahead(p, "read_version")
                     PROVE  \E v \in versions' : v.id = hand[p].ver
        BY <1>2, <1>3, <2>1
      <4>2. PICK v \in versions : v.id = hand[p].ver
        BY <1>0, <4>1 DEF InHistory
      <4> QED
        BY <2>4, <4>2
    <3> QED
      BY <1>0, <2>1, <2>3, <3>1 DEF InHistory
  <2>6. InTables(p)'
    BY <1>0, <1>2, <1>3, <2>1 DEF InTables
  <2>7. InDraft(p)' /\ Gone(p)'
    BY <1>0, <1>2, <1>3, <2>1 DEF InDraft, Gone
  <2> QED
    BY <2>5, <2>6, <2>7 DEF Progress
<1>8. CASE Insert(p)
  <2>1. /\ kind[p] \in {"deploy", "create"} /\ Head(todo[p]) = "insert"
        /\ versions' = versions \cup
             {[id |-> p, n |-> hand[p].num + 1, doc |-> hand[p].doc, live |-> TRUE]}
        /\ UNCHANGED <<row, tables, draft, consent>>
    BY <1>0, <1>1, <1>8 DEF Insert, Used, Synced, Kinds, Drafting
  <2>2. \E v \in versions' : v.live /\ v.id = p /\ v.doc = hand[p].doc
    <3> DEFINE w == [id |-> p, n |-> hand[p].num + 1, doc |-> hand[p].doc, live |-> TRUE]
    <3>1. w \in versions'
      BY <2>1
    <3>2. w.live /\ w.id = p /\ w.doc = hand[p].doc
      OBVIOUS
    <3> QED
      BY <3>1, <3>2
  <2>3. InTables(p)'
    BY <1>0, <1>2, <1>3, <2>1 DEF InTables
  <2>4. InHistory(p)'
    BY <1>0, <1>2, <2>1, <2>2 DEF InHistory
  <2>5. InDraft(p)' /\ Gone(p)'
    BY <1>0, <1>2, <1>3, <2>1 DEF InDraft, Gone
  <2> QED
    BY <2>3, <2>4, <2>5 DEF Progress
<1>9. CASE Flip(p)
  <2>1. /\ kind[p] = "switch" /\ Head(todo[p]) = "flip"
        /\ versions' = {[v EXCEPT !.live = @ \/ v.id = hand[p].ver] : v \in versions}
        /\ UNCHANGED <<row, tables, draft, consent>>
    BY <1>0, <1>1, <1>9 DEF Flip, Used, Synced, Kinds, Drafting
  <2>2. ~Ahead(p, "read_version")
    <3>1. Each(kind[p], todo[p]) /\ Len(todo[p]) >= 1 /\ Head(todo[p]) = todo[p][1]
      <4>1. todo[p] \in Seq(Steps) /\ todo[p] # <<>>
        BY <1>0, <1>9 DEF TypeOK, Flip, Quiet
      <4>2. Ordered(kind[p], todo[p])
        BY <1>0 DEF SafeInv, Control, Kind
      <4> QED
        BY <4>1, <4>2 DEF Ordered
    <3> QED
      BY <2>1, <3>1 DEF Ahead, Each, Reading
  <2>3. PICK v \in versions : v.id = hand[p].ver
    BY <1>0, <2>1, <2>2 DEF InHistory
  <2> DEFINE w == [v EXCEPT !.live = @ \/ v.id = hand[p].ver]
  <2>4. w \in versions' /\ w.live = TRUE /\ w.id = hand[p].ver
    BY <1>0, <2>1, <2>3 DEF TypeOK, Versions
  <2> HIDE DEF w
  <2>5. InHistory(p)'
    BY <1>0, <1>2, <2>1, <2>4 DEF InHistory
  <2>6. InTables(p)'
    BY <1>0, <1>2, <1>3, <2>1 DEF InTables
  <2>7. InDraft(p)' /\ Gone(p)'
    BY <1>0, <1>2, <1>3, <2>1 DEF InDraft, Gone
  <2> QED
    BY <2>5, <2>6, <2>7 DEF Progress
<1>a. CASE Delete(p)
  <2>1. kind[p] = "delete" /\ versions' = {v \in versions : v.id # hand[p].ver}
    BY <1>0, <1>a DEF Delete, Used, Synced, Kinds, Drafting
  <2> QED
    BY <1>0, <1>2, <2>1 DEF Progress, InTables, InHistory, InDraft, Gone, Publishers
<1>b. CASE \/ PurgeRows(p, "purge_services", "services")
           \/ PurgeRows(p, "purge_servers", "mcp_servers")
           \/ PurgeConsents(p) \/ PurgeVersions(p) \/ PurgeRow(p)
  <2>1. kind[p] = "purge"
    BY <1>0, <1>b
       DEF PurgeRows, PurgeConsents, PurgeVersions, PurgeRow, Used, Synced, Kinds, Drafting
  <2>2. Gone(p)'
    <3>1. CASE PurgeRow(p)
      BY <3>1 DEF PurgeRow, Gone
    <3>2. CASE PurgeConsents(p) \/ PurgeVersions(p)
      BY <1>0, <1>3, <3>2 DEF PurgeConsents, PurgeVersions, Gone
    <3>3. CASE \/ PurgeRows(p, "purge_services", "services")
               \/ PurgeRows(p, "purge_servers", "mcp_servers")
      <4>1. UNCHANGED <<row, versions, consent, draft>>
            /\ ((\A t \in Tables : tables[t] = {}) => \A t \in Tables : tables'[t] = {})
        BY <1>0, <3>3 DEF PurgeRows, TypeOK
      <4>2. Head(todo[p]) # "purge_row"
        BY <3>3 DEF PurgeRows
      <4> QED
        BY <1>0, <1>3, <4>1, <4>2 DEF Gone
    <3> QED
      BY <1>b, <3>1, <3>2, <3>3
  <2> QED
    BY <1>0, <2>1, <2>2 DEF Progress, InTables, InHistory, InDraft, Publishers
<1> QED
  BY <1>4, <1>5, <1>6, <1>7, <1>8, <1>9, <1>a, <1>b

-----------------------------------------------------------------------------
(* An operation that nobody overlaps keeps its promise.                    *)

LEMMA PromiseKept ==
  ASSUME TypeOK, NEW p \in Ops, Progress(p), todo[p] = Quiet
  PROVE  Kept(p)
<1>1. \A s : ~Ahead(p, s)
  BY DEF Ahead, Quiet
<1>2. kind[p] \in Kinds /\ Tables = {"services", "mcp_servers"}
  BY DEF TypeOK, Tables
<1>3. ASSUME kind[p] \in Publishers PROVE Published(hand[p].doc)
  <2>1. row = [cfg |-> hand[p].doc.cfg, status |-> hand[p].doc.status]
    BY <1>1, <1>3 DEF Progress, InTables
  <2>2. tables["services"] = hand[p].doc.menu /\ tables["mcp_servers"] = {hand[p].doc.cfg}
    BY <1>1, <1>3 DEF Progress, InTables
  <2> QED
    BY <1>2, <2>1, <2>2 DEF Published, Listed
<1>4. ASSUME kind[p] \in {"deploy", "create"} PROVE \E v \in Live : v.id = p /\ v.doc = hand[p].doc
  <2>1. PICK v \in versions : v.live /\ v.id = p /\ v.doc = hand[p].doc
    BY <1>1, <1>4 DEF Progress, InHistory
  <2>2. v \in Live
    BY <2>1 DEF Live
  <2> QED
    BY <2>1, <2>2
<1>5. ASSUME kind[p] = "switch" PROVE \E v \in Live : v.id = hand[p].ver
  <2>1. PICK v \in versions : v.live /\ v.id = hand[p].ver
    BY <1>1, <1>5 DEF Progress, InHistory
  <2>2. v \in Live
    BY <2>1 DEF Live
  <2> QED
    BY <2>1, <2>2
<1>6. CASE kind[p] = "deploy"
  BY <1>1, <1>3, <1>4, <1>6 DEF Kept, Progress, InDraft, Publishers
<1>7. CASE kind[p] \in {"switch", "create", "status"}
  BY <1>3, <1>4, <1>5, <1>7 DEF Kept, Publishers
<1>8. CASE kind[p] \in {"draft", "discard", "delete", "purge"}
  BY <1>1, <1>8 DEF Kept, Progress, InHistory, InDraft, Gone
<1> QED
  BY <1>2, <1>6, <1>7, <1>8 DEF Kinds, Publishers

LEMMA PromiseKeptNext ==
  (\A p \in Ops : TypeOK /\ Progress(p) /\ todo[p] = Quiet => Kept(p))'
<1>1. \A p \in Ops : TypeOK /\ Progress(p) /\ todo[p] = Quiet => Kept(p)
  BY PromiseKept
<1> QED
  BY <1>1, PTL

\* Nobody else's step disturbs it.
LEMMA OthersProgress ==
  ASSUME SafeInv, Shape, NEW p \in Ops, Progress(p), todo[p] # Quiet,
         todo'[p] = todo[p], kind'[p] = kind[p], hand'[p] = hand[p],
         \/ UNCHANGED database
         \/ row # None /\ UNCHANGED <<row, tables, draft, versions>>
  PROVE  Progress(p)'
<1>1. \A s : Ahead(p, s)' <=> Ahead(p, s)
  BY DEF Ahead
<1>2. InTables(p)' /\ InHistory(p)' /\ InDraft(p)'
  BY <1>1 DEF Progress, InTables, InHistory, InDraft, Publishers, database
<1>3. Gone(p)'
  BY <1>1 DEF Progress, Gone, database
<1> QED
  BY <1>2, <1>3 DEF Progress

LEMMA AloneInit == ASSUME Init PROVE AloneInv
<1>1. todo = [p \in Procs |-> Quiet] /\ result = [p \in Ops |-> "idle"]
  BY DEF Init
<1>2. Shape
  BY <1>1 DEF Shape, Shaped, Quiet
<1> QED
  BY <1>1, <1>2, SafeInit DEF AloneInv, Running

\* An operation that begins has everything before it.
LEMMA BeginAlone ==
  ASSUME AloneInv, NEW p \in Ops, NEW k \in Kinds, Begin(p, k), SafeInv'
  PROVE  AloneInv'
<1>1. /\ result[p] = "idle" /\ todo' = [todo EXCEPT ![p] = Program(k)]
      /\ kind' = [kind EXCEPT ![p] = k] /\ result' = [result EXCEPT ![p] = "running"]
      /\ alone' = [q \in Ops |-> IF q = p THEN \A r \in Ops : ~Running(r)
                                 ELSE alone[q] /\ ~Running(q)]
  BY DEF Begin
<1>2. TypeOK /\ p \in Procs
  BY DEF AloneInv, SafeInv, Procs
<1>3. /\ Shaped(k, Program(k))
      /\ \A x \in Promised(k) : \E j \in 1 .. Len(Program(k)) : Program(k)[j] = x
      /\ k = "switch" => \E j \in 1 .. Len(Program(k)) : Program(k)[j] = "read_version"
  BY ProgramsAreShaped
<1>4. Shape'
  <2>1. ASSUME NEW q \in Procs PROVE Shaped(Kind(q), todo[q])'
    <3>1. /\ todo'[q] = IF q = p THEN Program(k) ELSE todo[q]
          /\ Kind(q)' = IF q = p THEN k ELSE Kind(q)
      BY <1>1, <1>2 DEF TypeOK, Kind, Procs
    <3>2. Shaped(Kind(q)', todo'[q])
      BY <1>3, <3>1 DEF AloneInv, Shape
    <3> QED
      BY <3>2 DEF Shaped, Used, Promised, Synced, Learning, Reading, Drafting
  <2> QED
    BY <2>1 DEF Shape
<1>5. Progress(p)'
  <2>1. kind'[p] = k /\ todo'[p] = Program(k)
    BY <1>1, <1>2 DEF TypeOK
  <2>2. /\ \A x \in Promised(k) : Ahead(p, x)'
        /\ k = "switch" => Ahead(p, "read_version")'
    BY <1>3, <2>1 DEF Ahead
  <2>3. /\ k \in Publishers => \A x \in Synced : Ahead(p, x)'
        /\ k \in {"deploy", "create"} => Ahead(p, "insert")'
        /\ k = "switch" => Ahead(p, "flip")'
        /\ k = "delete" => Ahead(p, "delete")'
        /\ k \in {"deploy", "discard"} => Ahead(p, "clear_draft")'
        /\ k = "draft" => Ahead(p, "write_draft")'
        /\ k = "purge" => Ahead(p, "purge_row")'
    BY <2>2 DEF Promised, Publishers
  <2>4. InTables(p)'
    BY <2>1, <2>3 DEF InTables, Synced, Publishers
  <2>5. InHistory(p)'
    BY <2>1, <2>2, <2>3 DEF InHistory
  <2>6. InDraft(p)' /\ Gone(p)'
    BY <2>1, <2>3 DEF InDraft, Gone
  <2> QED
    BY <2>4, <2>5, <2>6 DEF Progress
<1>6. ASSUME NEW q \in Ops, alone'[q], Running(q)'
      PROVE  Progress(q)' /\ \A r \in Ops \ {q} : ~Running(r)'
  <2>1. q = p
    BY <1>1, <1>2, <1>6 DEF TypeOK, Running
  <2>2. \A r \in Ops : ~Running(r)
    BY <1>1, <1>6, <2>1
  <2> QED
    BY <1>1, <1>2, <1>5, <2>1, <2>2 DEF TypeOK, Running
<1> QED
  BY <1>4, <1>6 DEF AloneInv

\* Where an operation goes while nobody else runs.
LEMMA GoesAlone ==
  ASSUME AloneInv, NEW p \in Procs, Moves(p), SafeInv', alone' = alone,
         p \in Ops => Step(p) \/ Refreshing(p),
         p \notin Ops => UNCHANGED database /\ \A q \in Ops : hand'[q] = hand[q]
  PROVE  /\ AloneInv'
         /\ \A q \in Ops : alone[q] /\ result[q] # "ok" /\ result'[q] = "ok" => Kept(q)'
<1>1. SafeInv /\ Shape /\ TypeOK /\ Control /\ todo[p] # Quiet
  BY DEF AloneInv, SafeInv, Moves
<1>2. Shape'
  BY <1>1, MovesShape
<1>3. /\ \A q \in Procs \ {p} : todo'[q] = todo[q]
      /\ \A q \in Ops \ {p} : result'[q] = result[q]
      /\ kind' = kind
  BY <1>1 DEF Moves, TypeOK
<1>4. ASSUME NEW q \in Ops, alone[q], Running(q), result'[q] \in {"running", "ok"}
      PROVE  Progress(q)'
  <2>1. Progress(q) /\ \A r \in Ops \ {q} : ~Running(r)
    BY <1>4 DEF AloneInv
  <2>2. p \in Ops => p = q
    BY <1>1, <2>1 DEF Control
  <2>3. CASE p \in Ops
    BY <1>1, <1>4, <2>1, <2>2, <2>3, ReadsProgress, WritesProgress DEF Step
  <2>4. CASE p \notin Ops
    <3>1. todo[q] # Quiet
      BY <1>1, <1>4 DEF Control
    <3> QED
      BY <1>1, <1>3, <2>1, <2>4, <3>1, OthersProgress DEF Procs
  <2> QED
    BY <2>3, <2>4
<1>5. \A q \in Ops : Running(q)' => Running(q)
  BY <1>1, <1>3 DEF Control, Running
<1>6. ASSUME NEW q \in Ops, alone[q], result[q] # "ok", result'[q] = "ok" PROVE Kept(q)'
  <2>1. q = p
    BY <1>3, <1>6
  <2>2. Running(q)
    BY <1>1, <2>1 DEF Control
  <2>3. Progress(q)'
    BY <1>4, <1>6, <2>2
  <2>4. todo'[q] = Quiet /\ TypeOK'
    BY <1>6 DEF SafeInv, Control, Running
  <2> QED
    BY <2>3, <2>4, PromiseKeptNext
<1>7. ASSUME NEW q \in Ops, alone'[q], Running(q)'
      PROVE  Progress(q)' /\ \A r \in Ops \ {q} : ~Running(r)'
  <2>1. alone[q] /\ Running(q) /\ result'[q] = "running"
    BY <1>5, <1>7 DEF Running
  <2> QED
    BY <1>4, <1>5, <2>1 DEF AloneInv
<1> QED
  BY <1>2, <1>6, <1>7 DEF AloneInv

LEMMA AloneStep ==
  ASSUME AloneInv, [Next]_vars
  PROVE  /\ AloneInv'
         /\ \A q \in Ops : alone'[q] /\ result[q] # "ok" /\ result'[q] = "ok" => Kept(q)'
<1>1. SafeInv /\ Shape /\ TypeOK /\ Control /\ SafeInv'
  BY SafeStep DEF AloneInv, SafeInv
<1>2. CASE \E p \in Ops, k \in KindsUsed : Begin(p, k)
  <2>1. PICK p \in Ops, k \in Kinds : Begin(p, k)
    BY <1>2, BoundsAssumption
  <2>2. \A q \in Ops : result'[q] = "ok" => result[q] = "ok"
    BY <1>1, <2>1 DEF Begin, TypeOK
  <2> QED
    BY <1>1, <2>1, <2>2, BeginAlone
<1>3. ASSUME NEW p \in Ops, Step(p)
      PROVE  /\ AloneInv'
             /\ \A q \in Ops : alone'[q] /\ result[q] # "ok" /\ result'[q] = "ok" => Kept(q)'
  <2>1. Moves(p) /\ p \in Procs
    BY <1>1, <1>3, StepMoves DEF Procs
  <2>2. alone' = alone
    BY <1>3
       DEF Step, Open, Base, Match, WriteDraft, ClearDraft, ReadDraft, Current, Consent, PutRow,
           PutRows, DropRows, MaxVersion, Unset, Insert, ReadVersion, Flip, Delete, Absent,
           Activate, PurgeHistory, PurgeRows, PurgeConsents, PurgeVersions, PurgeRow,
           RequestFails, Learns, Applied, Refused, Ends, history
  <2> QED
    BY <1>1, <1>3, <2>1, <2>2, GoesAlone
<1>4. ASSUME NEW p \in Procs, Refreshing(p)
      PROVE  /\ AloneInv'
             /\ \A q \in Ops : alone'[q] /\ result[q] # "ok" /\ result'[q] = "ok" => Kept(q)'
  <2>1. Moves(p)
    BY <1>1, <1>4, RefreshMoves
  <2>2. alone' = alone /\ UNCHANGED database /\ \A q \in Procs \ {p} : hand'[q] = hand[q]
    BY <1>1, <1>4 DEF Refreshing, Clear, Fetch, Install, Learns, history, TypeOK
  <2>3. p \notin Ops => \A q \in Ops : hand'[q] = hand[q]
    BY <2>2 DEF Procs
  <2> QED
    BY <1>1, <1>4, <2>1, <2>2, <2>3, GoesAlone
<1>5. CASE Turn \/ Expire \/ Tick \/ RecordConsent \/ UNCHANGED vars
  <2>1. /\ UNCHANGED <<kind, result, hand, alone>> /\ \A p \in Ops : todo'[p] = todo[p]
        /\ \/ UNCHANGED database
           \/ row # None /\ UNCHANGED <<row, tables, draft, versions>>
    BY <1>1, <1>5, NamesAssumption
       DEF Turn, Expire, Tick, RecordConsent, vars, database, memory, control, history, TypeOK, Procs
  <2>2. Shape'
    <3>1. ASSUME NEW p \in Procs PROVE Shaped(Kind(p), todo[p])'
      <4>1. Kind(p)' = Kind(p) /\ (p = Loop => Kind(p) = "status")
        BY <2>1, NamesAssumption DEF Kind
      <4>2. todo'[p] = todo[p] \/ (p = Loop /\ todo'[p] = <<"fetch", "install">>)
        BY <1>1, <1>5 DEF Turn, Expire, Tick, RecordConsent, vars, control, TypeOK
      <4>3. ASSUME NEW s, s = <<"fetch", "install">> PROVE Shaped("status", s)
        BY <4>3 DEF Shaped, Used, Learning, Reading
      <4>4. Shaped(Kind(p)', todo'[p])
        BY <1>1, <4>1, <4>2, <4>3 DEF Shape
      <4> QED
        BY <4>4 DEF Shaped, Used, Promised, Synced, Learning, Reading, Drafting
    <3> QED
      BY <3>1 DEF Shape
  <2>3. ASSUME NEW p \in Ops, alone'[p], Running(p)'
        PROVE  Progress(p)' /\ \A q \in Ops \ {p} : ~Running(q)'
    <3>1. alone[p] /\ Running(p) /\ todo[p] # Quiet
      BY <1>1, <2>1, <2>3 DEF Running, Control
    <3>2. Progress(p) /\ \A q \in Ops \ {p} : ~Running(q)'
      BY <2>1, <3>1 DEF AloneInv, Running
    <3> QED
      BY <1>1, <2>1, <3>1, <3>2, OthersProgress
  <2> QED
    BY <1>1, <2>1, <2>2, <2>3 DEF AloneInv
<1> QED
  BY <1>2, <1>3, <1>4, <1>5 DEF Next

\* An operation of the admin panel that no other overlapped and that reports success has
\* done, over all its requests, what it promises: the row, both child tables, the draft
\* and the history agree (deploy_tenant, switch_to_version, create_tenant,
\* set_tenant_status, save_draft, discard_draft, delete_version, purge_tenant).
THEOREM AlonePromises == Spec => AloneKeepsItsPromise
<1>1. Init => AloneInv
  BY AloneInit
<1>2. AloneInv /\ [Next]_vars => AloneInv'
  BY AloneStep
<1>3. AloneInv /\ [Next]_vars =>
        [\A p \in Ops : result[p] # "ok" /\ result'[p] = "ok" /\ alone'[p] => Kept(p)']_vars
  BY AloneStep
<1> QED
  BY <1>1, <1>2, <1>3, PTL DEF Spec, AloneKeepsItsPromise
=============================================================================
