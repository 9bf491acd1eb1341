------------------------ MODULE CalendarGrantProofs ------------------------
(***************************************************************************)
(* What is proved about CalendarGrant, for any replicas, calls,            *)
(* authorizations and failures.                                            *)
(*                                                                         *)
(* A refresh token can be rotated once: whoever rotates it knows it, and   *)
(* it is then the newest of its grant.  TokenInv therefore relates what is *)
(* Known - in the vault, in a cache, in a call's hands - to the chain: all *)
(* of it is as new as the chain at most, and older than a rotated token    *)
(* that is on its way to the vault.  Two calls can then never carry two    *)
(* tokens of one grant, and a fresh grant is unknown until it is put.      *)
(*                                                                         *)
(* OwedInv adds, for a call that has been alone from its start, what it    *)
(* may hold at each of its steps: at most one rejection, and after it a    *)
(* cache that agrees with the vault.                                       *)
(***************************************************************************)
EXTENDS CalendarGrant, SequenceTheorems, TLAPS

-----------------------------------------------------------------------------
(* The programs: every client is somewhere in one of them.                 *)

Serve == {<<"token", "connect">>,
          <<"read_refresh", "read_client", "post", "answer", "connect">>,
          <<"keep_refresh", "read_client", "post", "answer", "connect">>,
          <<"read_client", "post", "answer", "connect">>,
          <<"keep_client", "post", "answer", "connect">>,
          <<"post", "answer", "connect">>, <<"answer", "connect">>,
          <<"persist", "pop", "connect">>, <<"pop", "connect">>, <<"connect">>}
Look == {<<"read_refresh", "read_client">>, <<"keep_refresh", "read_client">>,
         <<"read_client">>, <<"keep_client">>}
Install == {<<"put_client", "put_refresh", "token", "connect">>,
            <<"put_refresh", "token", "connect">>}
Programs == {Quiet} \cup Serve \cup Look \cup Install

\* The program that loads the credentials and posts them.
Loading(rest) == Load \o <<"post", "answer">> \o rest

\* r is where a program that serves a call goes next, or one that need not.
To(r, s) == r \in Serve /\ Head(r) = s
Along(t, r, s) == r \in Programs \ {Quiet} /\ Head(r) = s /\ (t \in Serve => r \in Serve)

LEMMA ProgramsTyped == Programs \subseteq Seq(Steps) /\ Quiet \notin Serve
<1>1. Serve \subseteq Seq(Steps)
  BY DEF Serve, Steps
<1>2. Look \subseteq Seq(Steps) /\ Install \subseteq Seq(Steps) /\ Quiet \in Seq(Steps)
  BY DEF Look, Install, Steps, Quiet
<1>3. Quiet \notin Serve
  BY DEF Serve, Quiet
<1> QED
  BY <1>1, <1>2, <1>3 DEF Programs

LEMMA Concats ==
  /\ Loading(<<"connect">>) = <<"read_refresh", "read_client", "post", "answer", "connect">>
  /\ <<"keep_refresh">> \o <<"read_client", "post", "answer", "connect">>
       = <<"keep_refresh", "read_client", "post", "answer", "connect">>
  /\ <<"keep_refresh">> \o <<"read_client">> = <<"keep_refresh", "read_client">>
  /\ <<"keep_client">> \o <<"post", "answer", "connect">>
       = <<"keep_client", "post", "answer", "connect">>
  /\ <<"keep_client">> \o Quiet = <<"keep_client">>
  /\ <<"persist", "pop">> \o <<"connect">> = <<"persist", "pop", "connect">>
  /\ <<"put_client", "put_refresh">> \o Use = <<"put_client", "put_refresh", "token", "connect">>
<1>0. ASSUME NEW a \in Seq(Steps), NEW b \in Seq(Steps), NEW s \in Seq(Steps),
             Len(a \o b) = Len(s), \A i \in 1 .. Len(s) : (a \o b)[i] = s[i]
      PROVE  a \o b = s
  <2>1. a \o b \in Seq(Steps)
    BY ConcatProperties
  <2> QED
    BY <1>0, <2>1, SeqEqual
<1>1. Load \o <<"post", "answer">> \o <<"connect">>
        = <<"read_refresh", "read_client", "post", "answer", "connect">>
  <2>1. Load \o <<"post", "answer">> \in Seq(Steps)
    <3>1. Load \in Seq(Steps) /\ <<"post", "answer">> \in Seq(Steps)
      BY DEF Load, Steps
    <3> QED
      BY <3>1, ConcatProperties
  <2>2. <<"connect">> \in Seq(Steps)
    BY DEF Steps, Load
  <2>3. <<"read_refresh", "read_client", "post", "answer", "connect">> \in Seq(Steps)
    BY DEF Steps
  <2>4. Len(Load \o <<"post", "answer">> \o <<"connect">>) = 5
    BY DEF Load
  <2>5. \A i \in 1 .. 5 : (Load \o <<"post", "answer">> \o <<"connect">>)[i]
          = <<"read_refresh", "read_client", "post", "answer", "connect">>[i]
    BY DEF Load
  <2> QED
    BY <1>0, <2>1, <2>2, <2>3, <2>4, <2>5
<1>2. <<"keep_refresh">> \o <<"read_client", "post", "answer", "connect">>
        = <<"keep_refresh", "read_client", "post", "answer", "connect">>
  <2>1. <<"keep_refresh">> \in Seq(Steps)
    BY DEF Steps
  <2>2. <<"read_client", "post", "answer", "connect">> \in Seq(Steps)
    BY DEF Steps
  <2>3. <<"keep_refresh", "read_client", "post", "answer", "connect">> \in Seq(Steps)
    BY DEF Steps
  <2>4. Len(<<"keep_refresh">> \o <<"read_client", "post", "answer", "connect">>) = 5
    OBVIOUS
  <2>5. \A i \in 1 .. 5 : (<<"keep_refresh">> \o <<"read_client", "post", "answer", "connect">>)[i]
          = <<"keep_refresh", "read_client", "post", "answer", "connect">>[i]
    OBVIOUS
  <2> QED
    BY <1>0, <2>1, <2>2, <2>3, <2>4, <2>5
<1>3. <<"keep_refresh">> \o <<"read_client">>
        = <<"keep_refresh", "read_client">>
  <2>1. <<"keep_refresh">> \in Seq(Steps)
    BY DEF Steps
  <2>2. <<"read_client">> \in Seq(Steps)
    BY DEF Steps
  <2>3. <<"keep_refresh", "read_client">> \in Seq(Steps)
    BY DEF Steps
  <2>4. Len(<<"keep_refresh">> \o <<"read_client">>) = 2
    OBVIOUS
  <2>5. \A i \in 1 .. 2 : (<<"keep_refresh">> \o <<"read_client">>)[i]
          = <<"keep_refresh", "read_client">>[i]
    OBVIOUS
  <2> QED
    BY <1>0, <2>1, <2>2, <2>3, <2>4, <2>5
<1>4. <<"keep_client">> \o <<"post", "answer", "connect">>
        = <<"keep_client", "post", "answer", "connect">>
  <2>1. <<"keep_client">> \in Seq(Steps)
    BY DEF Steps
  <2>2. <<"post", "answer", "connect">> \in Seq(Steps)
    BY DEF Steps
  <2>3. <<"keep_client", "post", "answer", "connect">> \in Seq(Steps)
    BY DEF Steps
  <2>4. Len(<<"keep_client">> \o <<"post", "answer", "connect">>) = 4
    OBVIOUS
  <2>5. \A i \in 1 .. 4 : (<<"keep_client">> \o <<"post", "answer", "connect">>)[i]
          = <<"keep_client", "post", "answer", "connect">>[i]
    OBVIOUS
  <2> QED
    BY <1>0, <2>1, <2>2, <2>3, <2>4, <2>5
<1>5. <<"keep_client">> \o Quiet
        = <<"keep_client">>
  <2>1. <<"keep_client">> \in Seq(Steps)
    BY DEF Steps, Quiet
  <2>2. Quiet \in Seq(Steps)
    BY DEF Steps, Quiet
  <2>3. <<"keep_client">> \in Seq(Steps)
    BY DEF Steps
  <2>4. Len(<<"keep_client">> \o Quiet) = 1
    BY DEF Quiet
  <2>5. \A i \in 1 .. 1 : (<<"keep_client">> \o Quiet)[i]
          = <<"keep_client">>[i]
    BY DEF Quiet
  <2> QED
    BY <1>0, <2>1, <2>2, <2>3, <2>4, <2>5
<1>6. <<"persist", "pop">> \o <<"connect">>
        = <<"persist", "pop", "connect">>
  <2>1. <<"persist", "pop">> \in Seq(Steps)
    BY DEF Steps
  <2>2. <<"connect">> \in Seq(Steps)
    BY DEF Steps
  <2>3. <<"persist", "pop", "connect">> \in Seq(Steps)
    BY DEF Steps
  <2>4. Len(<<"persist", "pop">> \o <<"connect">>) = 3
    OBVIOUS
  <2>5. \A i \in 1 .. 3 : (<<"persist", "pop">> \o <<"connect">>)[i]
          = <<"persist", "pop", "connect">>[i]
    OBVIOUS
  <2> QED
    BY <1>0, <2>1, <2>2, <2>3, <2>4, <2>5
<1>7. <<"put_client", "put_refresh">> \o Use
        = <<"put_client", "put_refresh", "token", "connect">>
  <2>1. <<"put_client", "put_refresh">> \in Seq(Steps)
    BY DEF Steps, Use
  <2>2. Use \in Seq(Steps)
    BY DEF Steps, Use
  <2>3. <<"put_client", "put_refresh", "token", "connect">> \in Seq(Steps)
    BY DEF Steps
  <2>4. Len(<<"put_client", "put_refresh">> \o Use) = 4
    BY DEF Use
  <2>5. \A i \in 1 .. 4 : (<<"put_client", "put_refresh">> \o Use)[i]
          = <<"put_client", "put_refresh", "token", "connect">>[i]
    BY DEF Use
  <2> QED
    BY <1>0, <2>1, <2>2, <2>3, <2>4, <2>5
<1> QED
  BY <1>1, <1>2, <1>3, <1>4, <1>5, <1>6, <1>7 DEF Loading

\* Where each step leads.
LEMMA Flow ==
  ASSUME NEW t \in Programs, t # Quiet
  PROVE  /\ Head(t) = "token" => t \in Serve /\ To(Tail(t), "connect")
                                 /\ To(Loading(Tail(t)), "read_refresh")
         /\ Head(t) = "read_refresh" => /\ Along(t, Tail(t), "read_client")
                                        /\ Along(t, <<"keep_refresh">> \o Tail(t), "keep_refresh")
         /\ Head(t) = "keep_refresh" => Along(t, Tail(t), "read_client")
         /\ Head(t) = "read_client" => Along(t, <<"keep_client">> \o Tail(t), "keep_client")
         /\ Head(t) \in {"read_client", "keep_client"} =>
              IF t \in Serve THEN To(Tail(t), "post") ELSE Tail(t) = Quiet
         /\ Head(t) = "post" => t \in Serve /\ To(Tail(t), "answer")
         /\ Head(t) = "answer" => t \in Serve /\ To(<<"persist", "pop">> \o Tail(t), "persist")
                                  /\ To(Loading(Tail(t)), "read_refresh")
         /\ Head(t) = "persist" => t \in Serve /\ To(Tail(t), "pop") /\ To(Tail(Tail(t)), "connect")
         /\ Head(t) = "pop" => t \in Serve /\ To(Tail(t), "connect")
         /\ Head(t) = "connect" => t \in Serve
         /\ Head(t) = "put_client" => Tail(t) \in Install /\ Head(Tail(t)) = "put_refresh"
                                      /\ Tail(t) # Quiet
         /\ Head(t) = "put_refresh" => To(Tail(t), "token")
<1>1. CASE t = <<"token", "connect">>
  <2>1. Tail(t) = <<"connect">>
    BY <1>1
  <2> QED
    BY <1>1, <2>1, Concats DEF To, Serve
<1>2. CASE t = <<"read_refresh", "read_client", "post", "answer", "connect">>
  <2>1. Tail(t) = <<"read_client", "post", "answer", "connect">>
    BY <1>2
  <2> QED
    BY <1>2, <2>1, Concats DEF Along, Programs, Serve, Quiet
<1>3. CASE t = <<"keep_refresh", "read_client", "post", "answer", "connect">>
  <2>1. Tail(t) = <<"read_client", "post", "answer", "connect">>
    BY <1>3
  <2> QED
    BY <1>3, <2>1 DEF Along, Programs, Serve, Quiet
<1>4. CASE t = <<"read_client", "post", "answer", "connect">>
  <2>1. Tail(t) = <<"post", "answer", "connect">>
    BY <1>4
  <2> QED
    BY <1>4, <2>1, Concats DEF Along, To, Programs, Serve, Quiet
<1>5. CASE t = <<"keep_client", "post", "answer", "connect">>
  <2>1. Tail(t) = <<"post", "answer", "connect">>
    BY <1>5
  <2> QED
    BY <1>5, <2>1 DEF To, Serve
<1>6. CASE t = <<"post", "answer", "connect">>
  <2>1. Tail(t) = <<"answer", "connect">>
    BY <1>6
  <2> QED
    BY <1>6, <2>1 DEF To, Serve
<1>7. CASE t = <<"answer", "connect">>
  <2>1. Tail(t) = <<"connect">>
    BY <1>7
  <2> QED
    BY <1>7, <2>1, Concats DEF To, Serve
<1>8. CASE t = <<"persist", "pop", "connect">>
  <2>1. Tail(t) = <<"pop", "connect">> /\ Tail(<<"pop", "connect">>) = <<"connect">>
    BY <1>8
  <2> QED
    BY <1>8, <2>1 DEF To, Serve
<1>9. CASE t = <<"pop", "connect">>
  <2>1. Tail(t) = <<"connect">>
    BY <1>9
  <2> QED
    BY <1>9, <2>1 DEF To, Serve
<1>a. CASE t = <<"connect">>
  BY <1>a DEF Serve
<1>b. CASE t = <<"read_refresh", "read_client">>
  <2>1. Tail(t) = <<"read_client">> /\ t \notin Serve
    BY <1>b DEF Serve
  <2> QED
    BY <1>b, <2>1, Concats DEF Along, Programs, Look, Quiet
<1>c. CASE t = <<"keep_refresh", "read_client">>
  <2>1. Tail(t) = <<"read_client">> /\ t \notin Serve
    BY <1>c DEF Serve
  <2> QED
    BY <1>c, <2>1 DEF Along, Programs, Look, Quiet
<1>d. CASE t = <<"read_client">>
  <2>1. Tail(t) = Quiet /\ t \notin Serve
    BY <1>d DEF Serve, Quiet
  <2> QED
    BY <1>d, <2>1, Concats DEF Along, Programs, Look, Quiet
<1>e. CASE t = <<"keep_client">>
  <2>1. Tail(t) = Quiet /\ t \notin Serve
    BY <1>e DEF Serve, Quiet
  <2> QED
    BY <1>e, <2>1
<1>f. CASE t = <<"put_client", "put_refresh", "token", "connect">>
  <2>1. Tail(t) = <<"put_refresh", "token", "connect">>
    BY <1>f
  <2> QED
    BY <1>f, <2>1 DEF Install, Quiet
<1>g. CASE t = <<"put_refresh", "token", "connect">>
  <2>1. Tail(t) = <<"token", "connect">>
    BY <1>g
  <2> QED
    BY <1>g, <2>1 DEF To, Serve
<1> QED
  BY <1>1, <1>2, <1>3, <1>4, <1>5, <1>6, <1>7, <1>8, <1>9, <1>a, <1>b, <1>c, <1>d, <1>e, <1>f, <1>g
     DEF Programs, Serve, Look, Install

-----------------------------------------------------------------------------
(* The invariant.                                                          *)

Hand == [seen : Values, refresh : Values, client : Values, tried : Values,
         answer : Tokens \cup {Never}, access : Grants \cup {Never}, again : BOOLEAN]

\* Who has nothing to do has nothing in hand.
Places == \A p \in Clients : todo[p] \in Programs /\ (todo[p] = Quiet => hand[p] = Empty)

\* The refresh tokens somebody may still present or store, but for a new one the
\* script has not put in the vault yet.
Known == {v \in Tokens :
            \/ v = vault["refresh"]
            \/ \E r \in Processes : v \in secret[r]["refresh"]
            \/ \E p \in Clients : v = hand[p].tried
            \/ \E p \in Clients : v = hand[p].refresh /\ ~(p = Script /\ todo[p] \in Install)
            \/ \E p \in Clients : v = hand[p].seen /\ At(p, "keep_refresh")}

Possible == \A v \in Known : 1 <= v.n /\ v.n <= chain[v.grant]

\* A rotated token on its way to the vault is the newest of its grant, and there is no
\* other on its way: who could have posted the newest before would have had to know it.
Carried ==
  \A p \in Clients : hand[p].answer # Never =>
    /\ todo[p] # Quiet /\ Head(todo[p]) \in {"answer", "persist"}
    /\ 1 <= hand[p].answer.n /\ hand[p].answer.n = chain[hand[p].answer.grant]
    /\ \A v \in Known : v.grant = hand[p].answer.grant => v.n < hand[p].answer.n
    /\ \A q \in Clients : q # p /\ hand[q].answer # Never =>
         hand[q].answer.grant # hand[p].answer.grant

\* A new grant is the script's own until its token is in the vault.
Installing ==
  todo[Script] \in Install => \E g \in Grants :
    /\ hand[Script].refresh = Fresh(g) /\ hand[Script].client = Id(g) /\ chain[g] = 1
    /\ \A v \in Known : v.grant # g
    /\ \A p \in Clients : hand[p].answer # Never => hand[p].answer.grant # g

Kept ==
  ~lost /\ vault["refresh"] # Never =>
    \/ vault["refresh"].n = chain[vault["refresh"].grant]
    \/ \E p \in Clients : hand[p].answer # Never /\ hand[p].answer.grant = vault["refresh"].grant

TokenInv == TypeOK /\ Places /\ Possible /\ Carried /\ Installing /\ Kept

\* A call that is owed an answer runs alone, against a good grant; how far it has come.
Fits(v, g) == v # Never /\ v.grant = g
Memory(g) ==
  \A r \in Replicas : /\ access[r] \in {Never, g}
                      /\ \A k \in Keys : \A v \in secret[r][k] : Fits(v, g)
Stage(c, g, h, r) ==
  /\ IF h.answer = Never THEN vault["refresh"].n = chain[g] ELSE h.answer.grant = g
  /\ Head(r) \in {"connect", "persist", "pop"} => h.access = g /\ h.tried = Never
  /\ Head(r) = "persist" => h.answer # Never
  /\ Head(r) = "keep_refresh" => h.seen = vault["refresh"]
  /\ Head(r) = "keep_client" => h.seen = vault["client"]
  /\ Head(r) \in {"read_client", "keep_client", "post"} => Fits(h.refresh, g)
  /\ Head(r) = "post" => Fits(h.client, g)
  /\ Head(r) = "answer" /\ h.answer = Never =>
       h.tried = Never /\ h.refresh \notin {Never, vault["refresh"]}
  /\ h.tried # Never /\ h.answer = Never =>
       /\ Head(r) \in {"read_refresh", "keep_refresh", "read_client", "keep_client", "post"}
       /\ h.tried # vault["refresh"]
       /\ \A v \in secret[Host[c]]["refresh"] : v = vault["refresh"]
       /\ Head(r) \in {"read_client", "keep_client", "post"} => h.refresh = vault["refresh"]
Owed(c, g) ==
  /\ todo[c] \in Serve /\ \A q \in Clients \ {c} : todo[q] = Quiet
  /\ Fits(vault["client"], g) /\ Fits(vault["refresh"], g) /\ health[g] = "good"
  /\ Memory(g) /\ Stage(c, g, hand[c], todo[c])

OwedInv == TokenInv /\ \A c \in owed : \E g \in Grants : Owed(c, g)

-----------------------------------------------------------------------------
(* Types and places.                                                       *)

\* The type of all but the clients' own state.
Around ==
  /\ chain \in [Grants -> Nat]
  /\ health \in [Grants -> {"good", "refused", "revoked"}]
  /\ vault \in [Keys -> Values]
  /\ secret \in [Processes -> [Keys -> SUBSET Values]]
  /\ \A r \in Processes, k \in Keys : \A v, w \in secret[r][k] : v = w
  /\ access \in [Processes -> Grants \cup {Never}]
  /\ faults \in 0 .. MaxFaults /\ calls \in 0 .. MaxCalls
  /\ owed \subseteq Callers /\ lost \in BOOLEAN
  /\ settled \in Grants \cup {Never}

Past == Known \cup {Never}

LEMMA TypesSplit == TypeOK <=> /\ Around
                               /\ todo \in [Clients -> Seq(Steps)]
                               /\ hand \in [Clients -> Hand]
BY DEF TypeOK, Around, Hand

LEMMA EmptyTyped == Empty \in Hand /\ Empty.seen = Never /\ Empty.refresh = Never
                    /\ Empty.client = Never /\ Empty.tried = Never /\ Empty.answer = Never
                    /\ Empty.access = Never /\ Empty.again = FALSE
BY DEF Empty, Hand, Values

LEMMA HostTyped == ASSUME NEW p \in Clients PROVE Host[p] \in Processes
BY NamesAssumption DEF Host, Clients, Processes

LEMMA Moves ==
  ASSUME TypeOK, Places, NEW p \in Clients, NEW h \in Hand, NEW r \in Programs, Goes(p, h, r)
  PROVE  /\ todo' \in [Clients -> Seq(Steps)] /\ hand' \in [Clients -> Hand]
         /\ todo'[p] = r /\ hand'[p] = IF r = Quiet THEN Empty ELSE h
         /\ \A q \in Clients \ {p} : todo'[q] = todo[q] /\ hand'[q] = hand[q]
         /\ Places'
<1>1. todo \in [Clients -> Seq(Steps)] /\ hand \in [Clients -> Hand] /\ r \in Seq(Steps)
  BY TypesSplit, ProgramsTyped
<1>2. (IF r = Quiet THEN Empty ELSE h) \in Hand
  BY EmptyTyped
<1>3. /\ todo' = [todo EXCEPT ![p] = r]
      /\ hand' = [hand EXCEPT ![p] = IF r = Quiet THEN Empty ELSE h]
  BY DEF Goes
<1>4. /\ todo' \in [Clients -> Seq(Steps)] /\ hand' \in [Clients -> Hand]
      /\ todo'[p] = r /\ hand'[p] = IF r = Quiet THEN Empty ELSE h
      /\ \A q \in Clients \ {p} : todo'[q] = todo[q] /\ hand'[q] = hand[q]
  BY <1>1, <1>2, <1>3
<1>5. \A q \in Clients : todo'[q] \in Programs /\ (todo'[q] = Quiet => hand'[q] = Empty)
  BY <1>4 DEF Places
<1> QED
  BY <1>4, <1>5 DEF Places

\* What is known afterwards was known before.
LEMMA KnownStays ==
  ASSUME TypeOK, NEW p \in Clients, NEW h \in Hand, NEW r \in Programs,
         todo'[p] = r, hand'[p] = (IF r = Quiet THEN Empty ELSE h),
         \A q \in Clients \ {p} : todo'[q] = todo[q] /\ hand'[q] = hand[q],
         vault'["refresh"] \in Past,
         \A x \in Processes : secret'[x]["refresh"] \subseteq Past,
         h.tried \in Past,
         (p = Script /\ r \in Install) \/ h.refresh \in Past,
         r # Quiet /\ Head(r) = "keep_refresh" => h.seen \in Past
  PROVE  Known' \subseteq Known
<1> SUFFICES ASSUME NEW v \in Tokens, v \in Known' PROVE v \in Known
  BY DEF Known
<1>0. v # Never /\ \A w \in Past : v = w => v \in Known
  BY NeverAssumption DEF Past
<1>e. v \notin {Empty.tried, Empty.refresh, Empty.seen}
  BY <1>0, EmptyTyped
<1>1. \/ v = vault'["refresh"]
      \/ \E x \in Processes : v \in secret'[x]["refresh"]
      \/ \E q \in Clients : v = hand'[q].tried
      \/ \E q \in Clients : v = hand'[q].refresh /\ ~(q = Script /\ todo'[q] \in Install)
      \/ \E q \in Clients : v = hand'[q].seen /\ At(q, "keep_refresh")'
  BY DEF Known
<1>2. CASE v = vault'["refresh"]
  BY <1>0, <1>2
<1>3. CASE \E x \in Processes : v \in secret'[x]["refresh"]
  BY <1>0, <1>3
<1>4. CASE \E q \in Clients : v = hand'[q].tried
  <2>1. PICK q \in Clients : v = hand'[q].tried
    BY <1>4
  <2>2. CASE q = p
    BY <2>1, <2>2, <1>0, <1>e
  <2>3. CASE q # p
    <3>1. v = hand[q].tried
      BY <2>1, <2>3
    <3> QED
      BY <3>1 DEF Known
  <2> QED
    BY <2>2, <2>3
<1>5. CASE \E q \in Clients : v = hand'[q].refresh /\ ~(q = Script /\ todo'[q] \in Install)
  <2>1. PICK q \in Clients : v = hand'[q].refresh /\ ~(q = Script /\ todo'[q] \in Install)
    BY <1>5
  <2>2. CASE q = p
    BY <2>1, <2>2, <1>0, <1>e
  <2>3. CASE q # p
    <3>1. v = hand[q].refresh /\ ~(q = Script /\ todo[q] \in Install)
      BY <2>1, <2>3
    <3> QED
      BY <3>1 DEF Known
  <2> QED
    BY <2>2, <2>3
<1>6. CASE \E q \in Clients : v = hand'[q].seen /\ At(q, "keep_refresh")'
  <2>1. PICK q \in Clients : v = hand'[q].seen /\ todo'[q] # Quiet /\ Head(todo'[q]) = "keep_refresh"
    BY <1>6 DEF At, Quiet
  <2>2. CASE q = p
    BY <2>1, <2>2, <1>0, <1>e
  <2>3. CASE q # p
    <3>1. v = hand[q].seen /\ At(q, "keep_refresh")
      BY <2>1, <2>3 DEF At
    <3> QED
      BY <3>1 DEF Known
  <2> QED
    BY <2>2, <2>3
<1> QED
  BY <1>1, <1>2, <1>3, <1>4, <1>5, <1>6

\* A step that rotates, installs and stores nothing.
LEMMA Quietly ==
  ASSUME TokenInv, NEW p \in Clients, NEW h \in Hand, NEW r \in Programs, Goes(p, h, r),
         Around', chain' = chain, vault'["refresh"] = vault["refresh"], lost => lost',
         \A x \in Processes : secret'[x]["refresh"] \subseteq Past,
         h.tried \in Past,
         (p = Script /\ r \in Install) \/ h.refresh \in Past,
         r # Quiet /\ Head(r) = "keep_refresh" => h.seen \in Past,
         h.answer = hand[p].answer,
         h.answer # Never => r # Quiet /\ Head(r) \in {"answer", "persist"},
         p = Script /\ r \in Install => /\ todo[p] \in Install
                                        /\ h.refresh = hand[p].refresh
                                        /\ h.client = hand[p].client
  PROVE  TokenInv'
<1>0. TypeOK /\ Places /\ Possible /\ Carried /\ Installing /\ Kept
  BY DEF TokenInv
<1>1. /\ todo' \in [Clients -> Seq(Steps)] /\ hand' \in [Clients -> Hand]
      /\ todo'[p] = r /\ hand'[p] = (IF r = Quiet THEN Empty ELSE h)
      /\ \A q \in Clients \ {p} : todo'[q] = todo[q] /\ hand'[q] = hand[q]
      /\ Places'
  BY <1>0, Moves
<1>2. TypeOK'
  BY <1>1 DEF TypeOK, Around, Hand
<1>3. vault["refresh"] \in Past
  <2>1. vault["refresh"] \in Values
    BY <1>0 DEF TypeOK, Keys
  <2> QED
    BY <2>1 DEF Past, Known, Values
<1>4. Known' \subseteq Known
  BY <1>0, <1>1, <1>3, KnownStays
<1>5. \A q \in Clients : hand'[q].answer = hand[q].answer
  BY <1>1, EmptyTyped
<1>6. \A q \in Clients : hand'[q].answer # Never =>
                           todo'[q] # Quiet /\ Head(todo'[q]) \in {"answer", "persist"}
  BY <1>0, <1>1, <1>5, EmptyTyped DEF Carried
<1>7. Possible'
  BY <1>0, <1>4 DEF Possible
<1>8. Carried'
  <2>1. \A q \in Clients : hand'[q].answer # Never =>
          /\ todo'[q] # Quiet /\ Head(todo'[q]) \in {"answer", "persist"}
          /\ 1 <= hand'[q].answer.n /\ hand'[q].answer.n = chain'[hand'[q].answer.grant]
          /\ \A v \in Known' : v.grant = hand'[q].answer.grant => v.n < hand'[q].answer.n
          /\ \A o \in Clients : o # q /\ hand'[o].answer # Never =>
               hand'[o].answer.grant # hand'[q].answer.grant
    BY <1>0, <1>4, <1>5, <1>6 DEF Carried
  <2> QED
    BY <2>1 DEF Carried, Quiet
<1>9. Installing'
  <2> SUFFICES ASSUME todo'[Script] \in Install
               PROVE  \E g \in Grants :
                        /\ hand'[Script].refresh = Fresh(g) /\ hand'[Script].client = Id(g)
                        /\ chain'[g] = 1
                        /\ \A v \in Known' : v.grant # g
                        /\ \A q \in Clients : hand'[q].answer # Never => hand'[q].answer.grant # g
    BY DEF Installing, Install, Fresh, Id, Grants
  <2>1. Quiet \notin Install /\ Script \in Clients
    BY DEF Quiet, Install, Clients
  <2>2. /\ todo[Script] \in Install
        /\ hand'[Script].refresh = hand[Script].refresh
        /\ hand'[Script].client = hand[Script].client
    BY <1>1, <2>1
  <2> QED
    BY <1>0, <1>4, <1>5, <2>2 DEF Installing
<1>a. Kept'
  BY <1>0, <1>5 DEF Kept
<1> QED
  BY <1>1, <1>2, <1>7, <1>8, <1>9, <1>a DEF TokenInv

-----------------------------------------------------------------------------
(* The steps of a client.                                                  *)

\* What a client has in hand while it is nowhere near installing.
LEMMA InHand ==
  ASSUME TokenInv, NEW p \in Clients
  PROVE  /\ hand[p] \in Hand /\ hand[p].tried \in Past
         /\ hand[p].refresh \in Past \/ (p = Script /\ todo[p] \in Install)
         /\ At(p, "keep_refresh") => hand[p].seen \in Past
         /\ hand[p].answer # Never => Running(p) /\ Head(todo[p]) \in {"answer", "persist"}
         /\ vault["refresh"] \in Past
         /\ \A r \in Processes : secret[r]["refresh"] \subseteq Past
<1>1. TypeOK /\ Carried
  BY DEF TokenInv
<1>2. hand[p] \in Hand
  BY <1>1 DEF TypeOK, Hand
<1>3. hand[p].tried \in Values /\ hand[p].refresh \in Values /\ hand[p].seen \in Values
  BY <1>2 DEF Hand
<1>4. vault["refresh"] \in Values /\ \A r \in Processes : secret[r]["refresh"] \subseteq Values
  BY <1>1 DEF TypeOK, Keys
<1>5. hand[p].tried \in Past /\ vault["refresh"] \in Past
  BY <1>3, <1>4 DEF Past, Known, Values
<1>6. hand[p].refresh \in Past \/ (p = Script /\ todo[p] \in Install)
  BY <1>3 DEF Past, Known, Values
<1>7. At(p, "keep_refresh") => hand[p].seen \in Past
  BY <1>3 DEF Past, Known, Values
<1>8. \A r \in Processes : secret[r]["refresh"] \subseteq Past
  BY <1>4 DEF Past, Known, Values
<1> QED
  BY <1>1, <1>2, <1>5, <1>6, <1>7, <1>8 DEF Carried, Running

LEMMA Install2 == \A t \in Install : t # Quiet /\ Head(t) \in {"put_client", "put_refresh"}
BY DEF Install, Quiet

LEMMA NoInstall == \A t \in Serve : t \notin Install /\ t \in Programs /\ t # Quiet
<1>1. \A t \in Serve : Head(t) \notin {"put_client", "put_refresh"}
  BY DEF Serve
<1> QED
  BY <1>1, Install2, ProgramsTyped DEF Programs

LEMMA FaultTyped ==
  ASSUME TypeOK, Fault \/ Undisturbed
  PROVE  faults' \in 0 .. MaxFaults /\ owed' \subseteq Callers
<1>1. faults \in 0 .. MaxFaults /\ owed \subseteq Callers /\ MaxFaults \in Nat
  BY BoundsAssumption DEF TypeOK
<1> QED
  BY <1>1 DEF Fault, Undisturbed

LEMMA Raised == ASSUME NEW p, Raises(p) PROVE Goes(p, Empty, Quiet)
BY DEF Raises, Goes

\* Giving up.
LEMMA RaiseTokens ==
  ASSUME TokenInv, NEW p \in Clients, Raises(p), Around', chain' = chain,
         vault'["refresh"] = vault["refresh"], lost => lost', hand[p].answer = Never,
         \A r \in Processes : secret'[r]["refresh"] \subseteq Past
  PROVE  TokenInv'
<1>1. Goes(p, Empty, Quiet)
  BY Raised
<1>2. Never \in Past /\ Quiet \in Programs /\ Quiet \notin Install
  BY Install2 DEF Past, Programs
<1> QED
  BY <1>1, <1>2, EmptyTyped, Quietly

LEMMA ReadTokens ==
  ASSUME TokenInv, NEW p \in Clients, NEW k \in Keys, Read(p, k)
  PROVE  TokenInv'
<1>0. TypeOK /\ Places
  BY DEF TokenInv
<1>1. Running(p) /\ Head(todo[p]) = Reads[k] /\ todo[p] \in Programs
  BY <1>0 DEF Read, At, Running, Places
<1>2. UNCHANGED <<chain, health, vault, secret, access, calls, lost, settled>>
  BY DEF Read, servers
<1>3. Fault \/ Undisturbed
  BY DEF Read
<1>4. Around'
  BY <1>0, <1>2, <1>3, FaultTyped DEF TypeOK, Around
<1>5. hand[p].answer = Never
  BY <1>1, InHand DEF Reads, Keys
<1>6. Host[p] \in Processes
  BY HostTyped
<1>7. todo[p] \notin Install
  BY <1>1, Install2 DEF Reads, Keys
<1>8. hand[p] \in Hand /\ hand[p].tried \in Past /\ hand[p].refresh \in Past
      /\ vault["refresh"] \in Past /\ \A r \in Processes : secret[r]["refresh"] \subseteq Past
  BY <1>7, InHand
<1>9. CASE \E v \in secret[Host[p]][k] : Goes(p, [hand[p] EXCEPT ![k] = v], Rest(p))
  <2>1. PICK v \in secret[Host[p]][k] : Goes(p, [hand[p] EXCEPT ![k] = v], Rest(p))
    BY <1>9
  <2>2. v \in Values
    BY <1>0, <1>6 DEF TypeOK, Keys
  <2>3. CASE k = "refresh"
    <3> DEFINE h == [hand[p] EXCEPT !.refresh = v]
    <3>1. Goes(p, h, Rest(p)) /\ h \in Hand
      BY <1>8, <2>1, <2>2, <2>3 DEF Hand
    <3>2. h.tried = hand[p].tried /\ h.refresh = v /\ h.answer = hand[p].answer
      BY <1>8 DEF Hand
    <3>3. v \in Past
      BY <1>6, <1>8, <2>3
    <3>4. Rest(p) \in Programs /\ Head(Rest(p)) = "read_client" /\ Rest(p) # Quiet
      BY <1>1, <2>3, Flow DEF Reads, Rest, Running, Along
    <3>5. Rest(p) \notin Install
      BY <3>4, Install2
    <3> HIDE DEF h
    <3> QED
      BY <1>2, <1>4, <1>5, <1>8, <3>1, <3>2, <3>3, <3>4, <3>5, Quietly
  <2>4. CASE k = "client"
    <3> DEFINE h == [hand[p] EXCEPT !.client = v]
    <3>1. Goes(p, h, Rest(p)) /\ h \in Hand
      BY <1>8, <2>1, <2>2, <2>4 DEF Hand
    <3>2. h.tried = hand[p].tried /\ h.refresh = hand[p].refresh /\ h.answer = hand[p].answer
      BY <1>8 DEF Hand
    <3>4. Rest(p) = Quiet \/ (Rest(p) \in Serve /\ Head(Rest(p)) = "post")
      BY <1>1, <2>4, Flow DEF Reads, Rest, Running, To
    <3>5. Rest(p) \in Programs /\ Rest(p) \notin Install
      BY <3>4, Install2, NoInstall DEF Programs
    <3> HIDE DEF h
    <3> QED
      BY <1>2, <1>4, <1>5, <1>8, <3>1, <3>2, <3>4, <3>5, Quietly
  <2> QED
    BY <2>3, <2>4 DEF Keys
<1>a. CASE Goes(p, [hand[p] EXCEPT !.seen = vault[k]], <<Keeps[k]>> \o Rest(p))
  <2> DEFINE h == [hand[p] EXCEPT !.seen = vault[k]]
             r == <<Keeps[k]>> \o Rest(p)
  <2>1. Goes(p, h, r)
    BY <1>a
  <2>2. vault[k] \in Values
    BY <1>0 DEF TypeOK
  <2>3. h \in Hand
    BY <1>8, <2>2 DEF Hand
  <2>4. h.tried = hand[p].tried /\ h.refresh = hand[p].refresh /\ h.answer = hand[p].answer
        /\ h.seen = vault[k]
    BY <1>8 DEF Hand
  <2>5. r \in Programs /\ r # Quiet /\ Head(r) = Keeps[k]
    <3>1. CASE k = "refresh"
      <4>1. r = <<"keep_refresh">> \o Tail(todo[p])
        BY <3>1 DEF Keeps, Rest
      <4> HIDE DEF r
      <4> QED
        BY <1>1, <3>1, <4>1, Flow DEF Reads, Keeps, Running, Along
    <3>2. CASE k = "client"
      <4>1. r = <<"keep_client">> \o Tail(todo[p])
        BY <3>2 DEF Keeps, Rest
      <4> HIDE DEF r
      <4> QED
        BY <1>1, <3>2, <4>1, Flow DEF Reads, Keeps, Running, Along
    <3> QED
      BY <3>1, <3>2 DEF Keys
  <2> HIDE DEF r
  <2>6. r \notin Install
    BY <2>5, Install2 DEF Keeps, Keys
  <2>7. Head(r) = "keep_refresh" => k = "refresh"
    BY <2>5 DEF Keeps, Keys
  <2> HIDE DEF h
  <2> QED
    BY <1>2, <1>4, <1>5, <1>8, <2>1, <2>3, <2>4, <2>5, <2>6, <2>7, Quietly
<1>b. CASE Raises(p)
  BY <1>2, <1>4, <1>5, <1>8, <1>b, RaiseTokens
<1> QED
  BY <1>9, <1>a, <1>b DEF Read

LEMMA KeepTokens ==
  ASSUME TokenInv, NEW p \in Clients, NEW k \in Keys, Keep(p, k)
  PROVE  TokenInv'
<1>0. TypeOK /\ Places
  BY DEF TokenInv
<1>1. Running(p) /\ Head(todo[p]) = Keeps[k] /\ todo[p] \in Programs
  BY <1>0 DEF Keep, At, Running, Places
<1>2. UNCHANGED <<chain, health, vault, access, faults, calls, owed, lost, settled>>
  BY DEF Keep, servers, bounds, history
<1>5. hand[p].answer = Never
  BY <1>1, InHand DEF Keeps, Keys
<1>6. Host[p] \in Processes
  BY HostTyped
<1>7. todo[p] \notin Install
  BY <1>1, Install2 DEF Keeps, Keys
<1>8. hand[p] \in Hand /\ hand[p].tried \in Past /\ hand[p].refresh \in Past
      /\ vault["refresh"] \in Past /\ \A r \in Processes : secret[r]["refresh"] \subseteq Past
  BY <1>7, InHand
<1>9. hand[p].seen \in Values
  BY <1>8 DEF Hand
<1>a. secret \in [Processes -> [Keys -> SUBSET Values]]
      /\ \A r \in Processes, i \in Keys : \A v, w \in secret[r][i] : v = w
  BY <1>0 DEF TypeOK
<1>b. secret' = [secret EXCEPT ![Host[p]][k] = {hand[p].seen}]
  BY DEF Keep
<1>c. secret' \in [Processes -> [Keys -> SUBSET Values]]
  BY <1>6, <1>9, <1>a, <1>b
<1>d. \A r \in Processes, i \in Keys :
        secret'[r][i] = IF r = Host[p] /\ i = k THEN {hand[p].seen} ELSE secret[r][i]
  BY <1>6, <1>a, <1>b
<1>e. \A r \in Processes, i \in Keys : \A v, w \in secret'[r][i] : v = w
  BY <1>a, <1>d
<1>f. Around'
  BY <1>0, <1>2, <1>c, <1>e DEF TypeOK, Around
<1>g. k = "refresh" => hand[p].seen \in Past
  BY <1>1, InHand DEF Keeps, At, Running
<1>h. \A r \in Processes : secret'[r]["refresh"] \subseteq Past
  BY <1>8, <1>d, <1>g DEF Keys
<1> DEFINE h == [hand[p] EXCEPT ![k] = hand[p].seen, !.seen = Never]
<1>i. Goes(p, h, Rest(p))
  BY DEF Keep
<1>j. h \in Hand
  BY <1>8, <1>9 DEF Hand, Keys, Values
<1>k. h.tried = hand[p].tried /\ h.answer = hand[p].answer
      /\ h.refresh = (IF k = "refresh" THEN hand[p].seen ELSE hand[p].refresh)
      /\ h.seen = Never
  <2>1. CASE k = "refresh"
    BY <1>8, <2>1 DEF Hand
  <2>2. CASE k = "client"
    BY <1>8, <2>2 DEF Hand
  <2> QED
    BY <2>1, <2>2 DEF Keys
<1>l. Rest(p) \in Programs /\ Rest(p) \notin Install
      /\ (Rest(p) # Quiet => Head(Rest(p)) # "keep_refresh")
  <2>1. CASE k = "refresh"
    <3>1. Along(todo[p], Rest(p), "read_client")
      BY <1>1, <2>1, Flow DEF Keeps, Running, Rest
    <3> QED
      BY <3>1, Install2 DEF Along
  <2>2. CASE k = "client"
    <3>1. Rest(p) = Quiet \/ (Rest(p) \in Serve /\ Head(Rest(p)) = "post")
      BY <1>1, <2>2, Flow DEF Keeps, Rest, Running, To
    <3> QED
      BY <3>1, Install2, NoInstall DEF Programs
  <2> QED
    BY <2>1, <2>2 DEF Keys
<1> HIDE DEF h
<1>m. h.tried \in Past /\ h.refresh \in Past /\ h.answer = hand[p].answer /\ h.answer = Never
  BY <1>5, <1>8, <1>g, <1>k
<1>n. chain' = chain /\ vault'["refresh"] = vault["refresh"] /\ (lost => lost')
  BY <1>2
<1> QED
  BY <1>f, <1>h, <1>i, <1>j, <1>l, <1>m, <1>n, Quietly

LEMMA PopTokens ==
  ASSUME TokenInv, NEW p \in Clients, Pop(p)
  PROVE  TokenInv'
<1>0. TypeOK /\ Places
  BY DEF TokenInv
<1>1. Running(p) /\ Head(todo[p]) = "pop" /\ todo[p] \in Programs
  BY <1>0 DEF Pop, At, Running, Places
<1>2. UNCHANGED <<chain, health, vault, access, faults, calls, owed, lost, settled>>
  BY DEF Pop, servers, bounds, history
<1>3. To(Rest(p), "connect")
  BY <1>1, Flow DEF Rest, Running
<1>4. Host[p] \in Processes /\ todo[p] \notin Install
  BY <1>1, HostTyped, Install2
<1>5. hand[p] \in Hand /\ hand[p].tried \in Past /\ hand[p].refresh \in Past
      /\ \A r \in Processes : secret[r]["refresh"] \subseteq Past
  BY <1>4, InHand
<1>6. secret \in [Processes -> [Keys -> SUBSET Values]]
      /\ \A r \in Processes, i \in Keys : \A v, w \in secret[r][i] : v = w
  BY <1>0 DEF TypeOK
<1>7. secret' = [secret EXCEPT ![Host[p]]["refresh"] = {}]
  BY DEF Pop
<1>8. secret' \in [Processes -> [Keys -> SUBSET Values]]
      /\ \A r \in Processes, i \in Keys : secret'[r][i] \subseteq secret[r][i]
  BY <1>4, <1>6, <1>7 DEF Keys
<1>9. \A r \in Processes, i \in Keys : \A v, w \in secret'[r][i] : v = w
  BY <1>6, <1>8
<1>a. Around'
  BY <1>0, <1>2, <1>8, <1>9 DEF TypeOK, Around
<1>b. \A r \in Processes : secret'[r]["refresh"] \subseteq Past
  BY <1>5, <1>8 DEF Keys
<1>c. Goes(p, hand[p], Rest(p)) /\ hand[p].answer = Never
  BY <1>1, InHand DEF Pop
<1>d. Rest(p) \in Programs /\ Rest(p) \notin Install /\ Head(Rest(p)) = "connect"
  BY <1>3, NoInstall DEF To
<1>e. chain' = chain /\ vault'["refresh"] = vault["refresh"] /\ (lost => lost')
  BY <1>2
<1> QED
  BY <1>5, <1>a, <1>b, <1>c, <1>d, <1>e, Quietly

LEMMA TokenTokens ==
  ASSUME TokenInv, NEW p \in Clients, Token(p)
  PROVE  TokenInv'
<1>0. TypeOK /\ Places
  BY DEF TokenInv
<1>1. Running(p) /\ Head(todo[p]) = "token" /\ todo[p] \in Programs
  BY <1>0 DEF Token, At, Running, Places
<1>2. UNCHANGED <<chain, health, vault, secret, access, faults, calls, owed, lost, settled>>
  BY DEF Token, servers, bounds, history
<1>3. To(Rest(p), "connect") /\ To(Loading(Rest(p)), "read_refresh")
  BY <1>1, Flow DEF Rest, Running
<1>4. Host[p] \in Processes /\ todo[p] \notin Install
  BY <1>1, HostTyped, Install2
<1>5. hand[p] \in Hand /\ hand[p].tried \in Past /\ hand[p].refresh \in Past
      /\ \A r \in Processes : secret'[r]["refresh"] \subseteq Past
  BY <1>2, <1>4, InHand
<1>6. Around'
  BY <1>0, <1>2 DEF TypeOK, Around
<1>7. chain' = chain /\ vault'["refresh"] = vault["refresh"] /\ (lost => lost')
  BY <1>2
<1>8. hand[p].answer = Never
  BY <1>1, InHand
<1>9. CASE access[Host[p]] # Never /\ Goes(p, [hand[p] EXCEPT !.access = access[Host[p]]], Rest(p))
  <2> DEFINE h == [hand[p] EXCEPT !.access = access[Host[p]]]
  <2>1. access[Host[p]] \in Grants \cup {Never}
    BY <1>0, <1>4 DEF TypeOK
  <2>2. h \in Hand /\ h.tried = hand[p].tried /\ h.refresh = hand[p].refresh /\ h.answer = hand[p].answer
    BY <1>5, <2>1 DEF Hand
  <2>3. Goes(p, h, Rest(p))
    BY <1>9
  <2>4. Rest(p) \in Programs /\ Rest(p) \notin Install /\ Head(Rest(p)) = "connect"
    BY <1>3, NoInstall DEF To
  <2> HIDE DEF h
  <2> QED
    BY <1>5, <1>6, <1>7, <1>8, <2>2, <2>3, <2>4, Quietly
<1>a. CASE Goes(p, hand[p], Loading(Rest(p)))
  <2>1. Loading(Rest(p)) \in Programs /\ Loading(Rest(p)) \notin Install
        /\ Head(Loading(Rest(p))) = "read_refresh"
    BY <1>3, NoInstall DEF To
  <2> QED
    BY <1>5, <1>6, <1>7, <1>8, <1>a, <2>1, Quietly
<1> QED
  BY <1>9, <1>a DEF Token, Loading

LEMMA UnsentTokens ==
  ASSUME TokenInv, NEW p \in Clients, Unsent(p)
  PROVE  TokenInv'
<1>0. TypeOK
  BY DEF TokenInv
<1>1. Raises(p) /\ Running(p) /\ Head(todo[p]) = "post"
  BY DEF Unsent, At, Running
<1>2. UNCHANGED <<chain, health, vault, secret, access, calls, lost, settled>>
      /\ (Fault \/ Undisturbed)
  BY DEF Unsent, servers
<1>3. Around'
  BY <1>0, <1>2, FaultTyped DEF TypeOK, Around
<1>4. hand[p].answer = Never /\ \A r \in Processes : secret'[r]["refresh"] \subseteq Past
  BY <1>1, <1>2, InHand
<1> QED
  BY <1>1, <1>2, <1>3, <1>4, RaiseTokens

LEMMA GivesUpTokens ==
  ASSUME TokenInv, NEW p \in Clients, GivesUp(p)
  PROVE  TokenInv'
<1>0. TypeOK
  BY DEF TokenInv
<1>1. Raises(p) /\ hand[p].answer = Never
  BY DEF GivesUp
<1>2. UNCHANGED <<chain, health, vault, secret, access, faults, calls, owed, lost, settled>>
  BY DEF GivesUp, servers, bounds, history
<1>3. Around'
  BY <1>0, <1>2 DEF TypeOK, Around
<1>4. \A r \in Processes : secret'[r]["refresh"] \subseteq Past
  BY <1>2, InHand
<1> QED
  BY <1>1, <1>2, <1>3, <1>4, RaiseTokens

LEMMA RejectedTokens ==
  ASSUME TokenInv, NEW p \in Clients, Rejected(p)
  PROVE  TokenInv'
<1>0. TypeOK /\ Places
  BY DEF TokenInv
<1>1. Running(p) /\ Head(todo[p]) = "answer" /\ todo[p] \in Programs
      /\ hand[p].answer = Never
  BY <1>0 DEF Rejected, At, Running, Places
<1>2. UNCHANGED <<chain, health, vault, access, faults, calls, owed, lost, settled>>
  BY DEF Rejected, servers, bounds, history
<1>3. To(Loading(Rest(p)), "read_refresh")
  BY <1>1, Flow DEF Rest, Running
<1>4. Host[p] \in Processes /\ todo[p] \notin Install
  BY <1>1, HostTyped, Install2
<1>5. hand[p] \in Hand /\ hand[p].refresh \in Past
      /\ \A r \in Processes : secret[r]["refresh"] \subseteq Past
  BY <1>4, InHand
<1>6. secret \in [Processes -> [Keys -> SUBSET Values]]
      /\ \A r \in Processes, i \in Keys : \A v, w \in secret[r][i] : v = w
  BY <1>0 DEF TypeOK
<1>7. secret' = [secret EXCEPT ![Host[p]] = Forgotten]
  BY DEF Rejected
<1>8. secret' \in [Processes -> [Keys -> SUBSET Values]]
      /\ \A r \in Processes, i \in Keys : secret'[r][i] \subseteq secret[r][i]
  BY <1>4, <1>6, <1>7 DEF Forgotten
<1>9. \A r \in Processes, i \in Keys : \A v, w \in secret'[r][i] : v = w
  BY <1>6, <1>8
<1>a. Around'
  BY <1>0, <1>2, <1>8, <1>9 DEF TypeOK, Around
<1>b. \A r \in Processes : secret'[r]["refresh"] \subseteq Past
  BY <1>5, <1>8 DEF Keys
<1> DEFINE h == [Empty EXCEPT !.tried = hand[p].refresh, !.again = hand[p].again]
<1>c. Goes(p, h, Loading(Rest(p)))
  BY DEF Rejected, Loading
<1>d. h \in Hand /\ h.tried = hand[p].refresh /\ h.refresh = Never /\ h.answer = Never
  <2>1. hand[p].refresh \in Values /\ hand[p].again \in BOOLEAN
    BY <1>5 DEF Hand
  <2> QED
    BY <2>1, EmptyTyped DEF Hand
<1>e. Loading(Rest(p)) \in Programs /\ Loading(Rest(p)) \notin Install
      /\ Head(Loading(Rest(p))) = "read_refresh" /\ Never \in Past
  BY <1>3, NoInstall DEF To, Past
<1>f. chain' = chain /\ vault'["refresh"] = vault["refresh"] /\ (lost => lost')
  BY <1>2
<1> HIDE DEF h
<1> QED
  BY <1>1, <1>5, <1>a, <1>b, <1>c, <1>d, <1>e, <1>f, Quietly

LEMMA IssuedTokens ==
  ASSUME TokenInv, NEW p \in Clients, Issued(p)
  PROVE  TokenInv'
<1>0. TypeOK /\ Places
  BY DEF TokenInv
<1>1. Running(p) /\ Head(todo[p]) = "answer" /\ todo[p] \in Programs
      /\ hand[p].answer # Never
  BY <1>0 DEF Issued, At, Running, Places
<1>2. UNCHANGED <<chain, health, vault, secret, faults, calls, owed, lost, settled>>
  BY DEF Issued, servers, bounds, history
<1>3. To(<<"persist", "pop">> \o Rest(p), "persist")
  BY <1>1, Flow DEF Rest, Running
<1>4. Host[p] \in Processes /\ hand[p] \in Hand
      /\ \A r \in Processes : secret'[r]["refresh"] \subseteq Past
  BY <1>2, HostTyped, InHand
<1>5. hand[p].answer \in Tokens /\ hand[p].answer.grant \in Grants /\ hand[p].again \in BOOLEAN
  <2>1. hand[p].answer \in Tokens
    BY <1>1, <1>4 DEF Hand
  <2> QED
    BY <1>4, <2>1 DEF Hand, Tokens
<1>6. access' \in [Processes -> Grants \cup {Never}]
  BY <1>0, <1>4, <1>5 DEF Issued, TypeOK
<1>7. Around'
  BY <1>0, <1>2, <1>6 DEF TypeOK, Around
<1> DEFINE h == [Empty EXCEPT !.answer = hand[p].answer, !.again = hand[p].again,
                              !.access = hand[p].answer.grant]
           r == <<"persist", "pop">> \o Rest(p)
<1>c. Goes(p, h, r)
  BY DEF Issued
<1>d. h \in Hand /\ h.tried = Never /\ h.refresh = Never /\ h.answer = hand[p].answer
  BY <1>5, EmptyTyped DEF Hand
<1>e. r \in Programs /\ r \notin Install /\ r # Quiet /\ Head(r) = "persist" /\ Never \in Past
  BY <1>3, NoInstall DEF To, Past
<1>f. chain' = chain /\ vault'["refresh"] = vault["refresh"] /\ (lost => lost')
  BY <1>2
<1> HIDE DEF h, r
<1> QED
  BY <1>4, <1>7, <1>c, <1>d, <1>e, <1>f, Quietly

LEMMA ConnectTokens ==
  ASSUME TokenInv, NEW p \in Clients, Connect(p)
  PROVE  TokenInv'
<1>0. TypeOK /\ Places
  BY DEF TokenInv
<1>1. Running(p) /\ Head(todo[p]) = "connect"
  BY DEF Connect, At, Running
<1>2. UNCHANGED <<chain, health, vault, secret, calls, lost>>
  BY DEF Connect, servers
<1>3. hand[p].answer = Never /\ \A r \in Processes : secret'[r]["refresh"] \subseteq Past
  BY <1>1, <1>2, InHand
<1>4. Host[p] \in Processes /\ hand[p] \in Hand
  BY HostTyped, InHand
<1>5. access' \in [Processes -> Grants \cup {Never}]
  BY <1>0, <1>4 DEF Connect, TypeOK
<1>6. faults' \in 0 .. MaxFaults /\ owed' \subseteq Callers
  <2>1. CASE Fault \/ Undisturbed
    BY <1>0, <2>1, FaultTyped
  <2>2. CASE UNCHANGED faults /\ owed' = owed \ {p}
    BY <1>0, <2>2 DEF TypeOK
  <2> QED
    BY <2>1, <2>2 DEF Connect
<1>7. settled' \in Grants \cup {Never}
  BY <1>0, <1>4 DEF Connect, TypeOK, Hand
<1>8. Around'
  BY <1>0, <1>2, <1>5, <1>6, <1>7 DEF TypeOK, Around
<1>9. chain' = chain /\ vault'["refresh"] = vault["refresh"] /\ (lost => lost')
  BY <1>2
<1>a. CASE Raises(p)
  BY <1>3, <1>8, <1>9, <1>a, RaiseTokens
<1>b. CASE Goes(p, hand[p], Quiet)
  <2>1. Raises(p)
    BY <1>b DEF Goes, Raises
  <2> QED
    BY <1>3, <1>8, <1>9, <2>1, RaiseTokens
<1>c. CASE Goes(p, [Empty EXCEPT !.again = TRUE], Use)
  <2> DEFINE h == [Empty EXCEPT !.again = TRUE]
  <2>1. h \in Hand /\ h.tried = Never /\ h.refresh = Never /\ h.answer = Never
    BY EmptyTyped DEF Hand
  <2>2. Use \in Programs /\ Use \notin Install /\ Head(Use) = "token" /\ Never \in Past
    <3>1. Use \in Serve /\ Head(Use) = "token"
      BY DEF Use, Serve
    <3> QED
      BY <3>1, NoInstall DEF Past
  <2>3. Goes(p, h, Use)
    BY <1>c
  <2> HIDE DEF h
  <2> QED
    BY <1>3, <1>8, <1>9, <2>1, <2>2, <2>3, Quietly
<1> QED
  BY <1>a, <1>b, <1>c DEF Connect

LEMMA Rotated ==
  ASSUME NEW t \in Tokens
  PROVE  /\ [t EXCEPT !.n = @ + 1] = [grant |-> t.grant, n |-> t.n + 1]
         /\ [t EXCEPT !.n = @ + 1] \in Tokens
         /\ t.grant \in Grants /\ t.n \in Nat
BY DEF Tokens

\* A refresh token that was used is known, and was the newest.
LEMMA PostTokens ==
  ASSUME TokenInv, NEW p \in Clients, Post(p)
  PROVE  TokenInv'
<1>0. TypeOK /\ Places /\ Possible /\ Carried /\ Installing /\ Kept
  BY DEF TokenInv
<1> DEFINE t == hand[p].refresh
<1>1. Running(p) /\ Head(todo[p]) = "post" /\ todo[p] \in Programs /\ ~Barred(p)
  BY <1>0 DEF Post, At, Running, Places
<1>2. UNCHANGED <<health, vault, secret, access, calls, settled>>
  BY DEF Post
<1>3. Rest(p) \in Serve /\ Head(Rest(p)) = "answer"
  BY <1>1, Flow DEF Rest, Running, To
<1>4. Rest(p) \in Programs /\ Rest(p) \notin Install /\ Rest(p) # Quiet /\ todo[p] \notin Install
  BY <1>1, <1>3, NoInstall, Install2
<1>5. hand[p] \in Hand /\ hand[p].tried \in Past /\ t \in Past /\ hand[p].answer = Never
      /\ vault["refresh"] \in Past
      /\ \A r \in Processes : secret'[r]["refresh"] \subseteq Past
  BY <1>1, <1>2, <1>4, InHand
<1>6. t \in Known /\ t \in Tokens /\ t.grant \in Grants /\ t.n \in Nat
  <2>1. t # Never
    BY <1>1 DEF Barred
  <2>2. t \in Known
    BY <1>5, <2>1 DEF Past
  <2> HIDE DEF t
  <2>3. t \in Tokens
    BY <2>2 DEF Known
  <2> QED
    BY <2>2, <2>3 DEF Tokens
<1>7. CASE chain' = chain /\ Goes(p, hand[p], Rest(p)) /\ UNCHANGED lost /\ (Fault \/ Undisturbed)
  <2>1. Around'
    BY <1>0, <1>2, <1>7, FaultTyped DEF TypeOK, Around
  <2>2. chain' = chain /\ vault'["refresh"] = vault["refresh"] /\ (lost => lost')
    BY <1>2, <1>7
  <2> QED
    BY <1>3, <1>4, <1>5, <1>7, <2>1, <2>2, Quietly
<1>8. CASE /\ Accepted(t, hand[p].client) /\ chain' = [chain EXCEPT ![t.grant] = @ + 1]
           /\ \/ /\ Goes(p, [hand[p] EXCEPT !.answer = [t EXCEPT !.n = @ + 1]], Rest(p))
                 /\ Undisturbed /\ UNCHANGED lost
              \/ Goes(p, hand[p], Rest(p)) /\ Fault /\ lost' = TRUE
  <2> DEFINE g == t.grant
  <2>1. chain \in [Grants -> Nat] /\ todo \in [Clients -> Seq(Steps)] /\ hand \in [Clients -> Hand]
    BY <1>0, TypesSplit DEF Around
  <2>2. t.n = chain[g] /\ t = [grant |-> g, n |-> chain[g]]
    <3>1. t = [grant |-> hand[p].client.grant, n |-> chain[hand[p].client.grant]]
      BY <1>8 DEF Accepted
    <3> QED
      BY <3>1
  <2>3. chain' \in [Grants -> Nat] /\ chain'[g] = chain[g] + 1
        /\ \A x \in Grants : x # g => chain'[x] = chain[x]
    BY <1>6, <1>8, <2>1
  <2>4. (Fault \/ Undisturbed) /\ lost' \in BOOLEAN /\ (lost => lost')
    <3>1. lost \in BOOLEAN
      BY <1>0 DEF TypeOK
    <3>2. CASE Undisturbed /\ UNCHANGED lost
      BY <3>1, <3>2
    <3>3. CASE Fault /\ lost' = TRUE
      BY <3>3
    <3> QED
      BY <1>8, <3>2, <3>3
  <2>5. faults' \in 0 .. MaxFaults /\ owed' \subseteq Callers
    BY <1>0, <2>4, FaultTyped
  <2>6. Around'
    BY <1>0, <1>2, <2>3, <2>4, <2>5 DEF TypeOK, Around
  <2>7. [t EXCEPT !.n = @ + 1] = [grant |-> g, n |-> chain[g] + 1]
        /\ [t EXCEPT !.n = @ + 1] \in Tokens
    <3>1. t \in Tokens /\ t.n = chain[g]
      BY <1>6, <2>2
    <3> HIDE DEF t
    <3> QED
      BY <3>1, Rotated
  <2> DEFINE new == [grant |-> g, n |-> chain[g] + 1]
  <2>8. new \in Tokens /\ new.grant = g /\ new.n = chain[g] + 1
    BY <2>7
  <2>9. PICK h \in Hand : /\ Goes(p, h, Rest(p))
                          /\ h.tried = hand[p].tried /\ h.refresh = hand[p].refresh
                          /\ \/ h.answer = new
                             \/ h.answer = Never /\ lost'
    <3>1. CASE Goes(p, [hand[p] EXCEPT !.answer = [t EXCEPT !.n = @ + 1]], Rest(p))
      <4>1. [hand[p] EXCEPT !.answer = new] \in Hand
        BY <1>5, <2>8 DEF Hand
      <4>2. /\ [hand[p] EXCEPT !.answer = new].tried = hand[p].tried
            /\ [hand[p] EXCEPT !.answer = new].refresh = hand[p].refresh
            /\ [hand[p] EXCEPT !.answer = new].answer = new
        BY <1>5 DEF Hand
      <4>3. Goes(p, [hand[p] EXCEPT !.answer = new], Rest(p))
        BY <2>7, <3>1
      <4> HIDE DEF new
      <4> QED
        BY <4>1, <4>2, <4>3
    <3>2. CASE Goes(p, hand[p], Rest(p)) /\ lost' = TRUE
      BY <1>5, <3>2
    <3> QED
      BY <1>8, <3>1, <3>2
  <2>a. /\ todo' \in [Clients -> Seq(Steps)] /\ hand' \in [Clients -> Hand]
        /\ todo'[p] = Rest(p) /\ hand'[p] = h
        /\ \A q \in Clients \ {p} : todo'[q] = todo[q] /\ hand'[q] = hand[q]
        /\ Places'
    BY <1>0, <1>4, <2>9, Moves
  <2>b. TypeOK'
    BY <2>6, <2>a DEF TypeOK, Around, Hand
  <2>c. Known' \subseteq Known
    <3>1. vault'["refresh"] \in Past
      BY <1>2, <1>5
    <3> QED
      BY <1>0, <1>3, <1>4, <1>5, <2>9, <2>a, <3>1, KnownStays
  <2>d. \A v \in Known : v \in Tokens /\ v.grant \in Grants /\ v.n \in Nat
    BY DEF Known, Tokens
  <2>e. Possible'
    <3>1. \A v \in Known : 1 <= v.n /\ v.n <= chain'[v.grant]
      <4>1. \A x \in Grants : chain[x] \in Nat /\ chain'[x] \in Nat /\ chain[x] <= chain'[x]
        <5> TAKE x \in Grants
        <5>1. chain[x] \in Nat /\ chain'[x] \in Nat
          BY <2>1, <2>3
        <5>2. chain'[x] = chain[x] + 1 \/ chain'[x] = chain[x]
          BY <2>3
        <5> QED
          BY <5>1, <5>2
      <4>2. \A v \in Known : 1 <= v.n /\ v.n <= chain[v.grant]
        BY <1>0 DEF Possible
      <4> QED
        BY <2>d, <4>1, <4>2
    <3> QED
      BY <2>c, <3>1 DEF Possible
  <2>f. \A q \in Clients : hand[q].answer # Never => hand[q].answer.grant # g
    <3> SUFFICES ASSUME NEW q \in Clients, hand[q].answer # Never, hand[q].answer.grant = g
                 PROVE  FALSE
      OBVIOUS
    <3>1. /\ hand[q].answer.n = chain[hand[q].answer.grant]
          /\ \A v \in Known : v.grant = hand[q].answer.grant => v.n < hand[q].answer.n
      BY <1>0 DEF Carried
    <3>2. t \in Known /\ t.grant = g /\ t.n = chain[g] /\ chain[g] \in Nat
      BY <1>6, <2>1, <2>2
    <3> HIDE DEF t, g
    <3>3. t.n < hand[q].answer.n /\ hand[q].answer.n = t.n
      BY <3>1, <3>2
    <3> QED
      BY <3>2, <3>3
  <2>i. \A q \in Clients : q # p /\ hand'[q].answer # Never =>
          /\ hand[q].answer # Never /\ hand'[q].answer = hand[q].answer
          /\ hand[q].answer.grant # g /\ hand[q].answer.grant \in Grants
    <3>1. \A q \in Clients : hand[q].answer # Never => hand[q].answer.grant \in Grants
      BY <2>1 DEF Hand, Tokens
    <3> QED
      BY <2>a, <2>f, <3>1
  <2>j. Carried'
    <3>1. ASSUME NEW q \in Clients, hand'[q].answer # Never
          PROVE  /\ todo'[q] # Quiet /\ Head(todo'[q]) \in {"answer", "persist"}
                 /\ 1 <= hand'[q].answer.n /\ hand'[q].answer.n = chain'[hand'[q].answer.grant]
                 /\ \A v \in Known' : v.grant = hand'[q].answer.grant => v.n < hand'[q].answer.n
                 /\ \A o \in Clients : o # q /\ hand'[o].answer # Never =>
                      hand'[o].answer.grant # hand'[q].answer.grant
      <4>1. CASE q = p
        <5>1. h.answer = new
          BY <2>9, <2>a, <3>1, <4>1
        <5>2. \A v \in Known' : v.grant = g => v.n < chain[g] + 1
          BY <1>0, <1>6, <2>1, <2>c, <2>d DEF Possible
        <5>3. 1 <= chain[g] + 1
          BY <1>6, <2>1
        <5> HIDE DEF new, g
        <5> QED
          BY <1>3, <1>4, <2>3, <2>8, <2>a, <2>i, <4>1, <5>1, <5>2, <5>3
      <4>2. CASE q # p
        <5>1. hand'[q].answer = hand[q].answer /\ hand[q].answer # Never
              /\ hand[q].answer.grant # g /\ hand[q].answer.grant \in Grants
          BY <2>i, <3>1, <4>2
        <5>2. hand'[p].answer # Never => hand'[p].answer.grant = g
          BY <2>8, <2>9, <2>a
        <5>3. todo'[q] = todo[q]
          BY <2>a, <4>2
        <5>4. /\ todo[q] # Quiet /\ Head(todo[q]) \in {"answer", "persist"}
              /\ 1 <= hand[q].answer.n /\ hand[q].answer.n = chain[hand[q].answer.grant]
              /\ \A v \in Known : v.grant = hand[q].answer.grant => v.n < hand[q].answer.n
              /\ \A o \in Clients : o # q /\ hand[o].answer # Never =>
                      hand[o].answer.grant # hand[q].answer.grant
          BY <1>0, <5>1 DEF Carried
        <5> HIDE DEF new, g
        <5> QED
          BY <2>3, <2>c, <2>i, <5>1, <5>2, <5>3, <5>4
      <4> QED
        BY <4>1, <4>2
    <3> QED
      BY <3>1 DEF Carried, Quiet
  <2>k. Installing'
    <3> SUFFICES ASSUME todo'[Script] \in Install
                 PROVE  \E x \in Grants :
                          /\ hand'[Script].refresh = Fresh(x) /\ hand'[Script].client = Id(x)
                          /\ chain'[x] = 1
                          /\ \A v \in Known' : v.grant # x
                          /\ \A q \in Clients : hand'[q].answer # Never => hand'[q].answer.grant # x
      BY DEF Installing, Install, Fresh, Id, Grants
    <3>1. Script # p /\ Script \in Clients
      BY <1>4, <2>a DEF Clients
    <3>2. todo[Script] \in Install /\ hand'[Script] = hand[Script]
      BY <2>a, <3>1
    <3>3. PICK x \in Grants :
            /\ hand[Script].refresh = Fresh(x) /\ hand[Script].client = Id(x) /\ chain[x] = 1
            /\ \A v \in Known : v.grant # x
            /\ \A q \in Clients : hand[q].answer # Never => hand[q].answer.grant # x
      BY <1>0, <3>2 DEF Installing
    <3>4. x # g
      BY <1>6, <3>3
    <3>5. \A q \in Clients : hand'[q].answer # Never => hand'[q].answer.grant # x
      BY <2>8, <2>9, <2>a, <2>i, <3>3, <3>4
    <3> HIDE DEF g
    <3> QED
      BY <2>3, <2>c, <3>2, <3>3, <3>4, <3>5
  <2>l. Kept'
    <3> SUFFICES ASSUME ~lost', vault'["refresh"] # Never
                 PROVE  \/ vault'["refresh"].n = chain'[vault'["refresh"].grant]
                        \/ \E q \in Clients : /\ hand'[q].answer # Never
                                              /\ hand'[q].answer.grant = vault'["refresh"].grant
      BY DEF Kept, Keys
    <3>1. vault' = vault /\ ~lost /\ hand'[p].answer = new
      BY <1>2, <2>4, <2>9, <2>a
    <3>2. new # Never
      BY <2>8, NeverAssumption
    <3>3. CASE vault["refresh"].grant = g
      <4> HIDE DEF new, g
      <4> QED
        BY <2>8, <3>1, <3>2, <3>3
    <3>4. CASE vault["refresh"].grant # g
      <4>1. vault["refresh"].grant \in Grants
        BY <1>0, <3>1 DEF TypeOK, Keys, Values, Tokens
      <4>2. CASE vault["refresh"].n = chain[vault["refresh"].grant]
        BY <2>3, <3>1, <3>4, <4>1, <4>2
      <4>3. CASE \E q \in Clients : /\ hand[q].answer # Never
                                    /\ hand[q].answer.grant = vault["refresh"].grant
        <5>1. PICK q \in Clients : /\ hand[q].answer # Never
                                   /\ hand[q].answer.grant = vault["refresh"].grant
          BY <4>3
        <5>2. q # p
          BY <1>5, <5>1
        <5>3. hand'[q] = hand[q]
          BY <2>a, <5>2
        <5> QED
          BY <3>1, <5>1, <5>3
      <4> QED
        BY <1>0, <3>1, <4>2, <4>3 DEF Kept
    <3> QED
      BY <3>3, <3>4
  <2> QED
    BY <2>a, <2>b, <2>e, <2>j, <2>k, <2>l DEF TokenInv
<1> QED
  BY <1>7, <1>8 DEF Post

\* What was on its way is in the vault, or may be lost.
LEMMA PersistTokens ==
  ASSUME TokenInv, NEW p \in Clients, Persist(p)
  PROVE  TokenInv'
<1>0. TypeOK /\ Places /\ Possible /\ Carried /\ Installing /\ Kept
  BY DEF TokenInv
<1>1. Running(p) /\ Head(todo[p]) = "persist" /\ todo[p] \in Programs
  BY <1>0 DEF Persist, At, Running, Places
<1>2. UNCHANGED <<chain, health, secret, access, calls, settled>>
  BY DEF Persist, servers
<1>3. hand[p] \in Hand /\ hand[p].tried \in Past /\ hand[p].refresh \in Past
      /\ \A r \in Processes : secret[r]["refresh"] \subseteq Past
  BY <1>1, Install2, InHand
<1> DEFINE h == [hand[p] EXCEPT !.answer = Never]
           a == hand[p].answer
<1>4. PICK applied \in BOOLEAN, ok \in BOOLEAN :
        /\ ok => applied
        /\ vault' = IF applied THEN [vault EXCEPT !["refresh"] = a] ELSE vault
        /\ Goes(p, h, IF ok THEN Rest(p) ELSE Tail(Rest(p)))
        /\ IF ok THEN Undisturbed ELSE Fault
        /\ lost' = (lost \/ ~applied)
  BY DEF Persist
<1>5. Rest(p) \in Serve /\ Tail(Rest(p)) \in Serve
      /\ Head(Rest(p)) = "pop" /\ Head(Tail(Rest(p))) = "connect"
  BY <1>1, Flow DEF Rest, Running, To
<1>6. PICK r \in Programs : /\ Goes(p, h, r) /\ r \notin Install /\ r # Quiet
                            /\ Head(r) \in {"pop", "connect"}
  BY <1>4, <1>5, NoInstall
<1>7. h \in Hand /\ h.tried = hand[p].tried /\ h.refresh = hand[p].refresh /\ h.answer = Never
  BY <1>3 DEF Hand
<1> HIDE DEF h
<1>8. /\ todo' \in [Clients -> Seq(Steps)] /\ hand' \in [Clients -> Hand]
      /\ todo'[p] = r /\ hand'[p] = h
      /\ \A q \in Clients \ {p} : todo'[q] = todo[q] /\ hand'[q] = hand[q]
      /\ Places'
  BY <1>0, <1>6, <1>7, Moves
<1>9. a \in Tokens \cup {Never} /\ a \in Values
  BY <1>3 DEF Hand, Values
<1> HIDE DEF a
<1>a. vault' \in [Keys -> Values]
      /\ vault'["refresh"] = IF applied THEN a ELSE vault["refresh"]
  BY <1>0, <1>4, <1>9 DEF TypeOK, Keys
<1>b. Fault \/ Undisturbed
  BY <1>4
<1>c. lost' \in BOOLEAN
  BY <1>4
<1>d. TypeOK'
  <2>1. faults' \in 0 .. MaxFaults /\ owed' \subseteq Callers
    BY <1>0, <1>b, FaultTyped
  <2>2. Around'
    BY <1>0, <1>2, <1>a, <1>c, <2>1 DEF TypeOK, Around
  <2> QED
    BY <1>8, <2>2 DEF TypeOK, Around, Hand
<1>e. \A q \in Clients : hand'[q].answer # Never =>
         /\ q # p /\ hand'[q] = hand[q] /\ todo'[q] = todo[q] /\ hand[q].answer # Never
         /\ a # Never => hand[q].answer.grant # a.grant
  BY <1>0, <1>7, <1>8 DEF Carried, a
\* Nothing is known afterwards but what was, and what was stored.
<1>f. \A v \in Known' : v \in Known \/ (v = a /\ a # Never)
  <2> SUFFICES ASSUME NEW v \in Tokens, v \in Known', v \notin Known, v # a
               PROVE  FALSE
    BY NeverAssumption DEF Known
  <2>1. v # Never /\ v \notin Past
    BY NeverAssumption DEF Past
  <2>2. v # vault'["refresh"]
    <3>1. vault["refresh"] \in Past
      BY InHand
    <3> QED
      BY <1>a, <2>1, <3>1
  <2>3. \A x \in Processes : v \notin secret'[x]["refresh"]
    BY <1>2, <1>3, <2>1
  <2>4. \A q \in Clients : v # hand'[q].tried
    <3> TAKE q \in Clients
    <3>1. hand[q].tried \in Past
      BY InHand
    <3> QED
      BY <1>7, <1>8, <2>1, <3>1
  <2>5. \A q \in Clients : v = hand'[q].refresh => q = Script /\ todo'[q] \in Install
    <3> TAKE q \in Clients
    <3>1. hand[q].refresh \in Past \/ (q = Script /\ todo[q] \in Install)
      BY InHand
    <3> QED
      BY <1>3, <1>7, <1>8, <2>1, <3>1
  <2>6. \A q \in Clients : v = hand'[q].seen => ~(todo'[q] # Quiet /\ Head(todo'[q]) = "keep_refresh")
    <3> TAKE q \in Clients
    <3>1. At(q, "keep_refresh") => hand[q].seen \in Past
      BY InHand
    <3> QED
      BY <1>6, <1>8, <2>1, <3>1 DEF At
  <2>7. \/ v = vault'["refresh"]
        \/ \E x \in Processes : v \in secret'[x]["refresh"]
        \/ \E q \in Clients : v = hand'[q].tried
        \/ \E q \in Clients : v = hand'[q].refresh /\ ~(q = Script /\ todo'[q] \in Install)
        \/ \E q \in Clients : v = hand'[q].seen /\ At(q, "keep_refresh")'
    BY DEF Known
  <2> QED
    BY <2>2, <2>3, <2>4, <2>5, <2>6, <2>7 DEF At, Quiet
<1>g. a # Never => 1 <= a.n /\ a.n = chain[a.grant] /\ a.grant \in Grants /\ a.n \in Nat
  <2>1. a # Never => 1 <= a.n /\ a.n = chain[a.grant]
    BY <1>0 DEF Carried, a
  <2> QED
    BY <1>9, <2>1 DEF Tokens
<1>h. Possible'
  <2>1. \A v \in Known' : 1 <= v.n /\ v.n <= chain[v.grant]
    <3> TAKE v \in Known'
    <3>1. CASE v \in Known
      BY <1>0, <3>1 DEF Possible
    <3>2. CASE v = a /\ a # Never
      BY <1>g, <3>2
    <3> QED
      BY <1>f, <3>1, <3>2
  <2> QED
    BY <1>2, <2>1 DEF Possible
<1>i. Carried'
  <2>1. ASSUME NEW q \in Clients, hand'[q].answer # Never
        PROVE  /\ todo'[q] # Quiet /\ Head(todo'[q]) \in {"answer", "persist"}
               /\ 1 <= hand'[q].answer.n /\ hand'[q].answer.n = chain'[hand'[q].answer.grant]
               /\ \A v \in Known' : v.grant = hand'[q].answer.grant => v.n < hand'[q].answer.n
               /\ \A o \in Clients : o # q /\ hand'[o].answer # Never =>
                    hand'[o].answer.grant # hand'[q].answer.grant
    BY <1>0, <1>2, <1>e, <1>f, <2>1 DEF Carried
  <2> QED
    BY <2>1 DEF Carried, Quiet
<1>j. Installing'
  <2> SUFFICES ASSUME todo'[Script] \in Install
               PROVE  \E x \in Grants :
                        /\ hand'[Script].refresh = Fresh(x) /\ hand'[Script].client = Id(x)
                        /\ chain'[x] = 1
                        /\ \A v \in Known' : v.grant # x
                        /\ \A q \in Clients : hand'[q].answer # Never => hand'[q].answer.grant # x
    BY DEF Installing, Install, Fresh, Id, Grants
  <2>1. Script # p /\ Script \in Clients
    BY <1>6, <1>8 DEF Clients
  <2>2. todo[Script] \in Install /\ hand'[Script] = hand[Script]
    BY <1>8, <2>1
  <2>3. PICK x \in Grants :
          /\ hand[Script].refresh = Fresh(x) /\ hand[Script].client = Id(x) /\ chain[x] = 1
          /\ \A v \in Known : v.grant # x
          /\ \A q \in Clients : hand[q].answer # Never => hand[q].answer.grant # x
    BY <1>0, <2>2 DEF Installing
  <2>4. a # Never => a.grant # x
    BY <2>3 DEF a
  <2>5. \A v \in Known' : v.grant # x
    BY <1>f, <2>3, <2>4
  <2>6. \A q \in Clients : hand'[q].answer # Never => hand'[q].answer.grant # x
    BY <1>e, <2>3
  <2> QED
    BY <1>2, <2>2, <2>3, <2>5, <2>6
<1>k. Kept'
  <2> SUFFICES ASSUME ~lost', vault'["refresh"] # Never
               PROVE  vault'["refresh"].n = chain'[vault'["refresh"].grant]
    BY DEF Kept, Keys
  <2>1. applied
    BY <1>4
  <2>2. vault'["refresh"] = a
    BY <1>a, <2>1
  <2> QED
    BY <1>2, <1>g, <2>2
<1> QED
  BY <1>8, <1>d, <1>h, <1>i, <1>j, <1>k DEF TokenInv

-----------------------------------------------------------------------------
(* The script, the calls and the provider.                                 *)

\* A grant nobody has a token of.
LEMMA AuthorizeTokens ==
  ASSUME TokenInv, NEW g \in Grants, Authorize(g)
  PROVE  TokenInv'
<1>0. TypeOK /\ Places /\ Possible /\ Carried /\ Installing /\ Kept
  BY DEF TokenInv
<1>1. todo[Script] = Quiet /\ chain[g] = 0 /\ Script \in Clients /\ Desk \in Processes
  BY DEF Authorize, Running, Clients, Processes
<1> DEFINE h == [Empty EXCEPT !.client = Id(g), !.refresh = Fresh(g)]
           r == <<"put_client", "put_refresh">> \o Use
<1>2. h \in Hand /\ h.tried = Never /\ h.answer = Never /\ h.refresh = Fresh(g) /\ h.client = Id(g)
  <2>1. Id(g) \in Values /\ Fresh(g) \in Values
    BY DEF Id, Fresh, Values, Tokens
  <2> QED
    BY <2>1, EmptyTyped DEF Hand
<1>3. r \in Install /\ r \in Programs /\ r # Quiet /\ Head(r) = "put_client"
  <2>1. r = <<"put_client", "put_refresh", "token", "connect">>
    BY Concats
  <2> HIDE DEF r
  <2> QED
    BY <2>1 DEF Install, Programs, Quiet
<1>4. Goes(Script, h, r)
  BY <1>3 DEF Authorize, Goes
<1> HIDE DEF h, r
<1>5. /\ todo' \in [Clients -> Seq(Steps)] /\ hand' \in [Clients -> Hand]
      /\ todo'[Script] = r /\ hand'[Script] = h
      /\ \A q \in Clients \ {Script} : todo'[q] = todo[q] /\ hand'[q] = hand[q]
      /\ Places'
  BY <1>0, <1>1, <1>2, <1>3, <1>4, Moves
<1>6. /\ chain' \in [Grants -> Nat] /\ chain'[g] = 1
      /\ \A x \in Grants : chain[x] \in Nat /\ (x # g => chain'[x] = chain[x])
  BY <1>0 DEF Authorize, TypeOK
<1>7. UNCHANGED <<health, vault, faults, calls, lost>> /\ owed' = {} /\ settled' = Never
  BY DEF Authorize, bounds
<1>8. secret' \in [Processes -> [Keys -> SUBSET Values]]
      /\ \A x \in Processes, i \in Keys : secret'[x][i] \subseteq secret[x][i]
  BY <1>0, <1>1 DEF Authorize, TypeOK, Forgotten
<1>9. \A x \in Processes, i \in Keys : \A v, w \in secret'[x][i] : v = w
  BY <1>0, <1>8 DEF TypeOK
<1>a. access' \in [Processes -> Grants \cup {Never}]
  BY <1>0, <1>1 DEF Authorize, TypeOK
<1>b. TypeOK'
  <2>1. Around'
    BY <1>0, <1>6, <1>7, <1>8, <1>9, <1>a DEF TypeOK, Around
  <2> QED
    BY <1>5, <2>1 DEF TypeOK, Around, Hand
<1>c. Known' \subseteq Known
  <2>1. Never \in Past /\ vault'["refresh"] \in Past
        /\ \A x \in Processes : secret'[x]["refresh"] \subseteq Past
    BY <1>1, <1>7, <1>8, InHand DEF Past, Keys
  <2> QED
    BY <1>0, <1>1, <1>2, <1>3, <1>5, <2>1, KnownStays
<1>d. \A v \in Known : v.grant # g /\ v.grant \in Grants
  BY <1>0, <1>1 DEF Known, Tokens, Possible
<1>e. \A q \in Clients : hand[q].answer # Never =>
        hand[q].answer.grant # g /\ hand[q].answer.grant \in Grants
  BY <1>0, <1>1 DEF Carried, TypeOK, Tokens
<1>f. hand[Script].answer = Never
  BY <1>1, InHand DEF Running
<1>g. \A q \in Clients : hand'[q].answer # Never <=> hand[q].answer # Never
  BY <1>2, <1>5, <1>f
<1>h. \A q \in Clients : hand[q].answer # Never =>
        q # Script /\ hand'[q] = hand[q] /\ todo'[q] = todo[q]
  BY <1>5, <1>f
<1>i. Possible'
  BY <1>0, <1>6, <1>c, <1>d DEF Possible
<1>j. Carried'
  <2>1. ASSUME NEW q \in Clients, hand'[q].answer # Never
        PROVE  /\ todo'[q] # Quiet /\ Head(todo'[q]) \in {"answer", "persist"}
               /\ 1 <= hand'[q].answer.n /\ hand'[q].answer.n = chain'[hand'[q].answer.grant]
               /\ \A v \in Known' : v.grant = hand'[q].answer.grant => v.n < hand'[q].answer.n
               /\ \A o \in Clients : o # q /\ hand'[o].answer # Never =>
                    hand'[o].answer.grant # hand'[q].answer.grant
    BY <1>0, <1>6, <1>c, <1>e, <1>g, <1>h, <2>1 DEF Carried
  <2> QED
    BY <2>1 DEF Carried, Quiet
<1>k. Installing'
  <2>1. /\ hand'[Script].refresh = Fresh(g) /\ hand'[Script].client = Id(g) /\ chain'[g] = 1
        /\ \A v \in Known' : v.grant # g
        /\ \A q \in Clients : hand'[q].answer # Never => hand'[q].answer.grant # g
    BY <1>2, <1>5, <1>6, <1>c, <1>d, <1>e, <1>g, <1>h
  <2> QED
    BY <2>1 DEF Installing, Fresh, Id, Grants
<1>l. Kept'
  <2> SUFFICES ASSUME ~lost', vault'["refresh"] # Never
               PROVE  \/ vault'["refresh"].n = chain'[vault'["refresh"].grant]
                      \/ \E q \in Clients : /\ hand'[q].answer # Never
                                            /\ hand'[q].answer.grant = vault'["refresh"].grant
    BY DEF Kept, Keys
  <2>1. vault["refresh"] # Never /\ ~lost
    BY <1>7
  <2>2. vault["refresh"] \in Past
    BY <1>1, InHand
  <2>3. vault["refresh"].grant # g /\ vault["refresh"].grant \in Grants
    BY <1>d, <2>1, <2>2 DEF Past
  <2>4. \/ vault["refresh"].n = chain[vault["refresh"].grant]
        \/ \E q \in Clients : /\ hand[q].answer # Never
                              /\ hand[q].answer.grant = vault["refresh"].grant
    BY <1>0, <2>1 DEF Kept
  <2> QED
    BY <1>6, <1>7, <1>h, <2>3, <2>4
<1> QED
  BY <1>5, <1>b, <1>i, <1>j, <1>k, <1>l DEF TokenInv

LEMMA BeginTokens ==
  ASSUME TokenInv, NEW c \in Callers, NEW program \in {Use, Badge}, Begin(c, program)
  PROVE  TokenInv'
<1>0. TypeOK /\ Places
  BY DEF TokenInv
<1>1. c \in Clients /\ c # Script /\ todo[c] = Quiet /\ hand[c] = Empty
  BY <1>0, NamesAssumption DEF Clients, Begin, Running, Places
<1>2. program \in Programs /\ program # Quiet /\ Head(program) \in {"token", "read_refresh"}
  BY DEF Use, Badge, Load, Programs, Serve, Look, Quiet
<1>3. Goes(c, Empty, program)
  <2>1. hand \in [Clients -> Hand]
    BY <1>0, TypesSplit
  <2>2. hand = [hand EXCEPT ![c] = Empty]
    BY <1>1, <2>1
  <2> QED
    BY <1>2, <2>2 DEF Goes, Begin
<1>4. UNCHANGED <<chain, health, vault, secret, access, faults, lost, settled>>
  BY DEF Begin, servers
<1>5. calls' \in 0 .. MaxCalls /\ owed' \subseteq Callers
  <2>1. calls \in 0 .. MaxCalls /\ MaxCalls \in Nat /\ calls < MaxCalls /\ calls' = calls + 1
    BY <1>0, BoundsAssumption DEF Begin, TypeOK
  <2>2. owed' \in {{c}, {}}
    BY DEF Begin
  <2> QED
    BY <2>1, <2>2
<1>6. Around'
  BY <1>0, <1>4, <1>5 DEF TypeOK, Around
<1>7. Never \in Past /\ \A x \in Processes : secret'[x]["refresh"] \subseteq Past
  BY <1>1, <1>4, InHand DEF Past
<1>8. chain' = chain /\ vault'["refresh"] = vault["refresh"] /\ (lost => lost')
  BY <1>4
<1> QED
  BY <1>1, <1>2, <1>3, <1>6, <1>7, <1>8, EmptyTyped, Quietly

LEMMA SpoilsTokens ==
  ASSUME TokenInv, NEW g \in Grants, Spoils(g)
  PROVE  TokenInv'
<1>0. TypeOK /\ Places /\ Possible /\ Carried /\ Installing /\ Kept
  BY DEF TokenInv
<1>1. UNCHANGED <<chain, vault, secret, access, todo, hand, calls, lost>> /\ Fault
  BY DEF Spoils
<1>2. health' \in [Grants -> {"good", "refused", "revoked"}] /\ settled' \in Grants \cup {Never}
  BY <1>0 DEF Spoils, TypeOK
<1>3. TypeOK'
  BY <1>0, <1>1, <1>2, FaultTyped DEF TypeOK
<1>4. Known' = Known
  BY <1>1 DEF Known, At, Quiet, Install, Keys
<1> QED
  BY <1>0, <1>1, <1>3, <1>4 DEF TokenInv, Places, Programs, Serve, Look, Install, Quiet, Empty,
     Possible, Carried, Installing, Kept, Fresh, Id

\* The client id first: the token is still the script's own.
LEMMA PutClientTokens ==
  ASSUME TokenInv, Put("client")
  PROVE  TokenInv'
<1>0. TypeOK /\ Places
  BY DEF TokenInv
<1>1. Script \in Clients /\ Running(Script) /\ Head(todo[Script]) = "put_client"
      /\ todo[Script] \in Programs
  BY <1>0 DEF Put, At, Running, Places, Puts, Clients
<1>2. UNCHANGED <<chain, health, secret, access, calls, lost, settled>> /\ (Fault \/ Undisturbed)
  BY DEF Put, servers
<1>3. hand[Script] \in Hand /\ hand[Script].tried \in Past /\ hand[Script].answer = Never
      /\ \A x \in Processes : secret'[x]["refresh"] \subseteq Past
  BY <1>1, <1>2, InHand
<1>4. vault' \in [Keys -> Values] /\ vault'["refresh"] = vault["refresh"]
  <2>1. hand[Script]["client"] \in Values
    BY <1>3 DEF Hand
  <2> QED
    BY <1>0, <2>1 DEF Put, TypeOK, Keys
<1>5. Around'
  BY <1>0, <1>2, <1>4, FaultTyped DEF TypeOK, Around
<1>6. Tail(todo[Script]) \in Install /\ Head(Tail(todo[Script])) = "put_refresh"
      /\ Tail(todo[Script]) # Quiet /\ todo[Script] \in Install
  <2>1. todo[Script] \in Install
    BY <1>1 DEF Programs, Serve, Look, Running
  <2> QED
    BY <1>1, <2>1, Flow DEF Running
<1>7. CASE Raises(Script)
  BY <1>1, <1>2, <1>3, <1>4, <1>5, <1>7, RaiseTokens
<1>8. CASE Goes(Script, hand[Script], Rest(Script))
  <2>1. Rest(Script) \in Programs /\ Rest(Script) \in Install /\ Head(Rest(Script)) = "put_refresh"
    BY <1>6 DEF Rest, Programs
  <2> QED
    BY <1>1, <1>2, <1>3, <1>4, <1>5, <1>6, <1>8, <2>1, Quietly
<1> QED
  BY <1>7, <1>8 DEF Put

\* Then the token, which from here on anybody may read.
LEMMA PutRefreshTokens ==
  ASSUME TokenInv, Put("refresh")
  PROVE  TokenInv'
<1>0. TypeOK /\ Places /\ Possible /\ Carried /\ Installing /\ Kept
  BY DEF TokenInv
<1>1. Script \in Clients /\ Running(Script) /\ Head(todo[Script]) = "put_refresh"
      /\ todo[Script] \in Programs
  BY <1>0 DEF Put, At, Running, Places, Puts, Clients
<1>2. UNCHANGED <<chain, health, secret, access, calls, lost, settled>> /\ (Fault \/ Undisturbed)
  BY DEF Put, servers
<1>3. hand[Script] \in Hand /\ hand[Script].tried \in Past /\ hand[Script].answer = Never
      /\ vault["refresh"] \in Past
      /\ \A x \in Processes : secret'[x]["refresh"] \subseteq Past
  BY <1>1, <1>2, InHand
<1>4. todo[Script] \in Install
  BY <1>1 DEF Programs, Serve, Look, Running
<1>5. PICK g \in Grants :
        /\ hand[Script].refresh = Fresh(g) /\ hand[Script].client = Id(g) /\ chain[g] = 1
        /\ \A v \in Known : v.grant # g
        /\ \A q \in Clients : hand[q].answer # Never => hand[q].answer.grant # g
  BY <1>0, <1>4 DEF Installing
<1>6. Fresh(g) \in Tokens /\ Fresh(g).grant = g /\ Fresh(g).n = 1
  BY DEF Fresh, Tokens
<1>7. vault' \in [Keys -> Values] /\ vault'["refresh"] \in {vault["refresh"], Fresh(g)}
  <2>1. vault \in [Keys -> Values] /\ Fresh(g) \in Values
    BY <1>0, <1>6 DEF TypeOK, Values
  <2>2. CASE vault' = [vault EXCEPT !["refresh"] = hand[Script]["refresh"]]
    <3>1. vault' = [vault EXCEPT !["refresh"] = Fresh(g)]
      BY <1>5, <2>2
    <3> QED
      BY <2>1, <3>1 DEF Keys
  <2>3. CASE vault' = vault
    BY <2>1, <2>3
  <2> QED
    BY <2>2, <2>3 DEF Put
<1>8. Around'
  BY <1>0, <1>2, <1>7, FaultTyped DEF TypeOK, Around
<1>9. CASE vault'["refresh"] = vault["refresh"] /\ Raises(Script)
  BY <1>1, <1>2, <1>3, <1>8, <1>9, RaiseTokens
<1>a. CASE vault'["refresh"] = Fresh(g)
  <2>1. Rest(Script) \in Serve /\ Head(Rest(Script)) = "token"
    BY <1>1, Flow DEF Rest, Running, To
  <2>2. PICK h \in Hand, r \in Programs :
          /\ Goes(Script, h, r) /\ r \notin Install
          /\ (r # Quiet => h = hand[Script] /\ Head(r) = "token")
    <3>1. CASE Goes(Script, hand[Script], Rest(Script))
      BY <1>3, <2>1, <3>1, NoInstall
    <3>2. CASE Raises(Script)
      <4>1. Goes(Script, Empty, Quiet) /\ Quiet \notin Install /\ Quiet \in Programs
        BY <3>2, Raised, Install2 DEF Programs
      <4> QED
        BY <4>1, EmptyTyped
    <3> QED
      BY <3>1, <3>2 DEF Put
  <2>3. /\ todo' \in [Clients -> Seq(Steps)] /\ hand' \in [Clients -> Hand]
        /\ todo'[Script] = r /\ hand'[Script] = (IF r = Quiet THEN Empty ELSE h)
        /\ \A q \in Clients \ {Script} : todo'[q] = todo[q] /\ hand'[q] = hand[q]
        /\ Places'
    BY <1>0, <1>1, <2>2, Moves
  <2>4. hand'[Script] \in {Empty, hand[Script]}
        /\ ~(todo'[Script] # Quiet /\ Head(todo'[Script]) = "keep_refresh")
    BY <2>2, <2>3
  <2>5. TypeOK'
    BY <1>8, <2>3 DEF TypeOK, Around, Hand
  <2>6. \A v \in Known' : v \in Known \/ v = Fresh(g)
    <3> SUFFICES ASSUME NEW v \in Tokens, v \in Known', v \notin Known, v # Fresh(g)
                 PROVE  FALSE
      BY DEF Known
    <3>1. v # Never /\ v \notin Past /\ v \notin {Empty.tried, Empty.refresh, Empty.seen}
      BY EmptyTyped, NeverAssumption DEF Past
    <3>2. v # vault'["refresh"]
      BY <1>a
    <3>3. \A x \in Processes : v \notin secret'[x]["refresh"]
      BY <1>3, <3>1
    <3>4. \A q \in Clients : v # hand'[q].tried
      <4> TAKE q \in Clients
      <4>1. hand[q].tried \in Past
        BY InHand
      <4> QED
        BY <2>3, <2>4, <3>1, <4>1
    <3>5. \A q \in Clients : v # hand'[q].refresh
      <4> TAKE q \in Clients
      <4>1. hand[q].refresh \in Past \/ q = Script
        BY InHand
      <4> QED
        BY <1>5, <2>3, <2>4, <3>1, <4>1
    <3>6. \A q \in Clients : v = hand'[q].seen => ~(todo'[q] # Quiet /\ Head(todo'[q]) = "keep_refresh")
      <4> TAKE q \in Clients
      <4>1. At(q, "keep_refresh") => hand[q].seen \in Past
        BY InHand
      <4> QED
        BY <2>3, <2>4, <3>1, <4>1 DEF At
    <3>7. \/ v = vault'["refresh"]
          \/ \E x \in Processes : v \in secret'[x]["refresh"]
          \/ \E q \in Clients : v = hand'[q].tried
          \/ \E q \in Clients : v = hand'[q].refresh /\ ~(q = Script /\ todo'[q] \in Install)
          \/ \E q \in Clients : v = hand'[q].seen /\ At(q, "keep_refresh")'
      BY DEF Known
    <3> QED
      BY <3>2, <3>3, <3>4, <3>5, <3>6, <3>7 DEF At, Quiet
  <2>7. \A q \in Clients : hand'[q].answer # Never =>
           q # Script /\ hand'[q] = hand[q] /\ todo'[q] = todo[q] /\ hand[q].answer # Never
    BY <1>3, <2>3, <2>4, EmptyTyped
  <2>8. Possible'
    <3>1. \A v \in Known' : 1 <= v.n /\ v.n <= chain[v.grant]
      BY <1>0, <1>5, <1>6, <2>6 DEF Possible
    <3> QED
      BY <1>2, <3>1 DEF Possible
  <2>9. Carried'
    <3>1. ASSUME NEW q \in Clients, hand'[q].answer # Never
          PROVE  /\ todo'[q] # Quiet /\ Head(todo'[q]) \in {"answer", "persist"}
                 /\ 1 <= hand'[q].answer.n /\ hand'[q].answer.n = chain'[hand'[q].answer.grant]
                 /\ \A v \in Known' : v.grant = hand'[q].answer.grant => v.n < hand'[q].answer.n
                 /\ \A o \in Clients : o # q /\ hand'[o].answer # Never =>
                      hand'[o].answer.grant # hand'[q].answer.grant
      BY <1>0, <1>2, <1>5, <1>6, <2>6, <2>7, <3>1 DEF Carried
    <3> QED
      BY <3>1 DEF Carried, Quiet
  <2>a. Installing'
    <3>1. todo'[Script] \notin Install
      BY <2>2, <2>3
    <3> QED
      BY <3>1 DEF Installing, Install
  <2>b. Kept'
    <3>1. vault'["refresh"].n = chain'[vault'["refresh"].grant]
      BY <1>2, <1>5, <1>6, <1>a
    <3> QED
      BY <3>1 DEF Kept, Keys
  <2> QED
    BY <2>3, <2>5, <2>8, <2>9, <2>a, <2>b DEF TokenInv
<1> QED
  <2>1. CASE Raises(Script) /\ vault' = vault
    BY <1>9, <2>1
  <2>2. CASE vault' = [vault EXCEPT !["refresh"] = hand[Script]["refresh"]]
    <3>1. vault'["refresh"] = Fresh(g)
      BY <1>0, <1>5, <2>2 DEF TypeOK, Keys
    <3> QED
      BY <1>a, <3>1
  <2> QED
    BY <2>1, <2>2 DEF Put

-----------------------------------------------------------------------------
(* The tokens, always.                                                     *)

LEMMA StepTokens ==
  ASSUME TokenInv, NEW p \in Clients, Step(p)
  PROVE  TokenInv'
BY ReadTokens, KeepTokens, PersistTokens, PopTokens, TokenTokens, UnsentTokens, PostTokens,
   IssuedTokens, RejectedTokens, GivesUpTokens, ConnectTokens DEF Step

LEMMA TokensInitially == Init => TokenInv
<1> SUFFICES ASSUME Init PROVE TokenInv
  OBVIOUS
<1>1. /\ chain = [g \in Grants |-> IF g <= Given THEN 1 ELSE 0]
      /\ hand = [p \in Clients |-> Empty] /\ todo = [p \in Clients |-> Quiet]
      /\ secret = [r \in Processes |-> Forgotten]
  BY DEF Init
<1>2. 1 \in Grants
  BY BoundsAssumption DEF Grants
<1>3. Fresh(1) \in Tokens /\ Fresh(1).n = 1 /\ Fresh(1).grant = 1 /\ Id(1) \in Tokens
  BY <1>2 DEF Fresh, Id, Tokens
<1>4. vault \in [Keys -> Values]
      /\ (vault["refresh"] # Never => Given = 1 /\ vault["refresh"] = Fresh(1))
  BY <1>3 DEF Init, Keys, Values
<1>5. Quiet \in Seq(Steps) /\ Quiet \in Programs /\ Quiet \notin Install
  BY ProgramsTyped, Install2 DEF Programs
<1>6. TypeOK
  <2>1. chain \in [Grants -> Nat]
    BY <1>1, BoundsAssumption
  <2>2. secret \in [Processes -> [Keys -> SUBSET Values]]
        /\ \A r \in Processes, k \in Keys : secret[r][k] = {}
    BY <1>1 DEF Forgotten
  <2>3. /\ health \in [Grants -> {"good", "refused", "revoked"}]
        /\ access \in [Processes -> Grants \cup {Never}]
    BY DEF Init
  <2>4. faults \in 0 .. MaxFaults /\ calls \in 0 .. MaxCalls
    BY BoundsAssumption DEF Init
  <2>5. owed \subseteq Callers /\ lost \in BOOLEAN
    BY DEF Init
  <2>6. settled \in Grants \cup {Never}
    BY <1>2 DEF Init
  <2>7. Around
    BY <1>4, <2>1, <2>2, <2>3, <2>4, <2>5, <2>6 DEF Around
  <2> QED
    BY <1>1, <1>5, <2>7, EmptyTyped, TypesSplit
<1>7. Known \subseteq {Fresh(1)} /\ (Known # {} => Given = 1)
  <2>1. \A r \in Processes : secret[r]["refresh"] = {}
    BY <1>1 DEF Forgotten, Keys
  <2>2. \A p \in Clients : hand[p] = Empty
    BY <1>1
  <2>3. \A v \in Tokens : v # Never
    BY NeverAssumption
  <2> QED
    BY <1>4, <2>1, <2>2, <2>3, EmptyTyped DEF Known
<1>8. Given = 1 => chain[1] = 1
  BY <1>1, <1>2
<1>9. Possible
  BY <1>3, <1>7, <1>8 DEF Possible
<1>a. Places /\ Carried /\ Installing
  <2>1. \A p \in Clients : hand[p].answer = Never /\ todo[p] = Quiet /\ hand[p] = Empty
    BY <1>1, EmptyTyped
  <2>2. Script \in Clients
    BY DEF Clients
  <2> QED
    BY <1>5, <2>1, <2>2 DEF Places, Carried, Installing
<1>b. Kept
  BY <1>3, <1>4, <1>8 DEF Kept
<1> QED
  BY <1>6, <1>9, <1>a, <1>b DEF TokenInv

LEMMA NextTokens == TokenInv /\ [Next]_vars => TokenInv'
<1> SUFFICES ASSUME TokenInv, [Next]_vars PROVE TokenInv'
  OBVIOUS
<1>1. CASE UNCHANGED vars
  <2>1. UNCHANGED <<chain, health, vault, secret, access, todo, hand, faults, calls, owed, lost, settled>>
    BY <1>1 DEF vars, servers, bounds, history
  <2>2. Known' = Known
    BY <2>1 DEF Known, At, Quiet, Install, Keys
  <2>3. TypeOK'
    BY <2>1 DEF TokenInv, TypeOK
  <2>4. Places' /\ Possible'
    BY <2>1, <2>2 DEF TokenInv, Places, Programs, Serve, Look, Install, Quiet, Empty, Possible
  <2>5. Carried' /\ Installing' /\ Kept'
    BY <2>1, <2>2 DEF TokenInv, Carried, Installing, Kept, Install, Quiet, Fresh, Id, Keys
  <2> QED
    BY <2>3, <2>4, <2>5 DEF TokenInv
<1>2. CASE \E p \in Clients : Step(p)
  BY <1>2, StepTokens
<1>3. CASE \E c \in Callers, program \in {Use, Badge} : Begin(c, program)
  BY <1>3, BeginTokens
<1>4. CASE \E g \in Grants : Authorize(g) \/ Spoils(g)
  BY <1>4, AuthorizeTokens, SpoilsTokens
<1>5. CASE \E k \in Keys : Put(k)
  BY <1>5, PutClientTokens, PutRefreshTokens DEF Keys
<1> QED
  BY <1>1, <1>2, <1>3, <1>4, <1>5 DEF Next

LEMMA TokensAlways == Spec => []TokenInv
BY TokensInitially, NextTokens, PTL DEF Spec

\* Every variable has its type throughout, whatever the number of replicas, calls,
\* authorizations and failures.
THEOREM TypeCorrect == Spec => []TypeOK
<1>1. TokenInv => TypeOK
  BY DEF TokenInv
<1> QED
  BY <1>1, TokensAlways, PTL

\* access_token_for keeps what it is given: while no request has failed, the vault
\* has the newest refresh token of its grant, or some call holds the newest one and
\* has still to store it.
THEOREM RotationsAreKept == Spec => []NoRotationLost
<1>1. TokenInv => NoRotationLost
  <2> SUFFICES ASSUME TokenInv, ~lost, vault["refresh"] # Never,
                      vault["refresh"].n # chain[vault["refresh"].grant]
               PROVE  \E p \in Clients : Carries(p, vault["refresh"].grant)
    BY DEF NoRotationLost
  <2>1. PICK p \in Clients : hand[p].answer # Never /\ hand[p].answer.grant = vault["refresh"].grant
    BY DEF TokenInv, Kept
  <2>2. todo[p] # Quiet /\ Head(todo[p]) \in {"answer", "persist"} /\ todo[p] \in Seq(Steps)
    BY <2>1 DEF TokenInv, Carried, TypeOK
  <2>3. 1 \in 1 .. Len(todo[p]) /\ todo[p][1] = Head(todo[p])
    BY <2>2 DEF Quiet
  <2> QED
    BY <2>1, <2>2, <2>3 DEF Carries
<1> QED
  BY <1>1, TokensAlways, PTL

-----------------------------------------------------------------------------
(* The call that runs alone.                                               *)

LEMMA Alone ==
  ASSUME OwedInv, NEW c \in Callers, NEW g \in Grants, Owed(c, g)
  PROVE  /\ c \in Clients /\ c # Script /\ Host[c] \in Replicas /\ Host[c] \in Processes
         /\ todo[c] \in Serve /\ todo[c] \in Programs /\ Running(c) /\ hand[c] \in Hand
         /\ Stage(c, g, hand[c], todo[c]) /\ Memory(g) /\ health[g] = "good"
         /\ Fits(vault["client"], g) /\ Fits(vault["refresh"], g)
         /\ vault["refresh"] \in Tokens /\ vault["client"] \in Tokens
         /\ secret \in [Processes -> [Keys -> SUBSET Values]]
         /\ access \in [Processes -> Grants \cup {Never}]
         /\ chain \in [Grants -> Nat]
         /\ (hand[c].answer # Never => /\ Head(todo[c]) \in {"answer", "persist"}
                                       /\ hand[c].answer \in Tokens
                                       /\ hand[c].answer.n = chain[hand[c].answer.grant])
<1>1. c \in Clients /\ c # Script /\ Host[c] \in Replicas /\ Host[c] \in Processes
  BY NamesAssumption DEF Clients, Host, Processes
<1>2. TypeOK /\ Carried
  BY DEF OwedInv, TokenInv
<1>3. todo[c] \in Serve /\ Stage(c, g, hand[c], todo[c]) /\ Memory(g) /\ health[g] = "good"
      /\ Fits(vault["client"], g) /\ Fits(vault["refresh"], g)
  BY DEF Owed
<1>4. todo[c] \in Programs /\ Running(c)
  BY <1>3, NoInstall DEF Running
<1>5. hand[c] \in Hand
  BY <1>1, <1>2 DEF TypeOK, Hand
<1>6. vault["refresh"] \in Tokens /\ vault["client"] \in Tokens
  BY <1>2, <1>3 DEF TypeOK, Keys, Values, Fits
<1>7. hand[c].answer # Never => /\ Head(todo[c]) \in {"answer", "persist"}
                                /\ hand[c].answer \in Tokens
                                /\ hand[c].answer.n = chain[hand[c].answer.grant]
  BY <1>1, <1>2, <1>5 DEF Carried, Hand
<1>8. /\ secret \in [Processes -> [Keys -> SUBSET Values]]
      /\ access \in [Processes -> Grants \cup {Never}]
      /\ chain \in [Grants -> Nat]
  BY <1>2 DEF TypeOK
<1> QED
  BY <1>1, <1>3, <1>4, <1>5, <1>6, <1>7, <1>8

\* It goes on to the next stage.
LEMMA Follow ==
  ASSUME OwedInv, NEW c \in Callers, NEW g \in Grants, Owed(c, g),
         NEW h \in Hand, NEW r \in Serve, Goes(c, h, r),
         Stage(c, g, h, r)', Memory(g)', health' = health, vault'["client"] = vault["client"],
         Fits(vault'["refresh"], g)
  PROVE  Owed(c, g)'
<1>1. c \in Clients /\ TypeOK /\ Places /\ r \in Programs /\ r # Quiet
  BY Alone, NoInstall DEF OwedInv, TokenInv
<1>2. /\ todo'[c] = r /\ hand'[c] = h
      /\ \A q \in Clients \ {c} : todo'[q] = todo[q]
  BY <1>1, Moves
<1>3. r \in Serve /\ \A q \in Clients \ {c} : todo'[q] = <<>>
  BY <1>2 DEF Owed, Quiet
<1>4. Fits(vault'["client"], g) /\ health'[g] = "good"
  BY DEF Owed
<1>5. Stage(c, g, hand[c], todo[c])'
  BY <1>2 DEF Stage, Fits, Keys, Host, Clients
<1>6. todo'[c] \in Serve
  BY <1>2
<1> QED
  BY <1>2, <1>3, <1>4, <1>5, <1>6 DEF Owed, Serve, Quiet, Fits, Keys

LEMMA ReadOwed ==
  ASSUME OwedInv, NEW c \in Callers, NEW g \in Grants, Owed(c, g),
         NEW k \in Keys, Read(c, k), c \in owed'
  PROVE  Owed(c, g)'
<1>0. /\ c \in Clients /\ Host[c] \in Replicas /\ Host[c] \in Processes
      /\ todo[c] \in Serve /\ todo[c] \in Programs /\ Running(c) /\ hand[c] \in Hand
      /\ Stage(c, g, hand[c], todo[c]) /\ Memory(g)
      /\ Fits(vault["client"], g) /\ Fits(vault["refresh"], g)
      /\ vault["refresh"] \in Tokens /\ vault["client"] \in Tokens
      /\ (hand[c].answer # Never => Head(todo[c]) \in {"answer", "persist"})
      /\ secret \in [Processes -> [Keys -> SUBSET Values]]
  BY Alone
<1>1. Head(todo[c]) = Reads[k]
  BY DEF Read, At
<1>2. UNCHANGED <<chain, health, vault, secret, access>>
  BY DEF Read, servers
<1>3. Memory(g)'
  BY <1>0, <1>2 DEF Memory, Fits, Keys
<1>4. hand[c].answer = Never
  BY <1>0, <1>1 DEF Reads, Keys
<1>5. ~Fault
  BY DEF Fault
<1>6. CASE \E v \in secret[Host[c]][k] : Goes(c, [hand[c] EXCEPT ![k] = v], Rest(c))
  <2>1. PICK v \in secret[Host[c]][k] : Goes(c, [hand[c] EXCEPT ![k] = v], Rest(c))
    BY <1>6
  <2>2. v \in Values /\ Fits(v, g)
    BY <1>0 DEF Memory
  <2>3. CASE k = "refresh"
    <3>1. PICK h \in Hand : h = [hand[c] EXCEPT !.refresh = v]
      BY <1>0, <2>2 DEF Hand
    <3>2. PICK r \in Serve : r = Rest(c) /\ Head(r) = "read_client"
      BY <1>0, <1>1, <2>3, Flow DEF Reads, Running, Rest, Along
    <3>3. Goes(c, h, r)
      BY <2>1, <2>3, <3>1, <3>2
    <3>4. h.refresh = v /\ h.tried = hand[c].tried /\ h.answer = hand[c].answer
      BY <1>0, <3>1 DEF Hand
    <3>5. Stage(c, g, h, r)'
      BY <1>0, <1>1, <1>2, <1>4, <2>2, <2>3, <3>2, <3>4 DEF Stage, Fits, Keys, Host
    <3> QED
      BY <1>0, <1>2, <1>3, <3>3, <3>5, Follow
  <2>4. CASE k = "client"
    <3>1. PICK h \in Hand : h = [hand[c] EXCEPT !.client = v]
      BY <1>0, <2>2 DEF Hand
    <3>2. PICK r \in Serve : r = Rest(c) /\ Head(r) = "post"
      BY <1>0, <1>1, <2>4, Flow DEF Reads, Running, Rest, To
    <3>3. Goes(c, h, r)
      BY <2>1, <2>4, <3>1, <3>2
    <3>4. h.client = v /\ h.refresh = hand[c].refresh /\ h.tried = hand[c].tried
          /\ h.answer = hand[c].answer
      BY <1>0, <3>1 DEF Hand
    <3>5. Stage(c, g, h, r)'
      BY <1>0, <1>1, <1>2, <1>4, <2>2, <2>4, <3>2, <3>4 DEF Stage, Fits, Keys, Host, Reads
    <3> QED
      BY <1>0, <1>2, <1>3, <3>3, <3>5, Follow
  <2> QED
    BY <2>3, <2>4 DEF Keys
<1>7. CASE Goes(c, [hand[c] EXCEPT !.seen = vault[k]], <<Keeps[k]>> \o Rest(c))
  <2>1. vault[k] \in Values
    BY <1>0 DEF Keys, Values
  <2>2. PICK h \in Hand : h = [hand[c] EXCEPT !.seen = vault[k]]
    BY <1>0, <2>1 DEF Hand
  <2>3. PICK r \in Serve : r = <<Keeps[k]>> \o Rest(c) /\ Head(r) = Keeps[k]
    <3>1. CASE k = "refresh"
      BY <1>0, <1>1, <3>1, Flow DEF Reads, Keeps, Running, Rest, Along
    <3>2. CASE k = "client"
      BY <1>0, <1>1, <3>2, Flow DEF Reads, Keeps, Running, Rest, Along
    <3> QED
      BY <3>1, <3>2 DEF Keys
  <2>4. Goes(c, h, r)
    BY <1>7, <2>2, <2>3
  <2>5. h.seen = vault[k] /\ h.refresh = hand[c].refresh /\ h.tried = hand[c].tried
        /\ h.answer = hand[c].answer
    BY <1>0, <2>2 DEF Hand
  <2>6. Stage(c, g, h, r)'
    <3>1. CASE k = "refresh"
      BY <1>0, <1>1, <1>2, <1>4, <2>3, <2>5, <3>1 DEF Stage, Fits, Keys, Host, Keeps, Reads
    <3>2. CASE k = "client"
      BY <1>0, <1>1, <1>2, <1>4, <2>3, <2>5, <3>2 DEF Stage, Fits, Keys, Host, Keeps, Reads
    <3> QED
      BY <3>1, <3>2 DEF Keys
  <2> QED
    BY <1>0, <1>2, <1>3, <2>4, <2>6, Follow
<1> QED
  BY <1>5, <1>6, <1>7 DEF Read

LEMMA KeepOwed ==
  ASSUME OwedInv, NEW c \in Callers, NEW g \in Grants, Owed(c, g),
         NEW k \in Keys, Keep(c, k), c \in owed'
  PROVE  Owed(c, g)'
<1>0. /\ c \in Clients /\ c # Script /\ Host[c] \in Replicas /\ Host[c] \in Processes
      /\ todo[c] \in Serve /\ todo[c] \in Programs /\ Running(c) /\ hand[c] \in Hand
      /\ Stage(c, g, hand[c], todo[c]) /\ Memory(g) /\ health[g] = "good"
      /\ Fits(vault["client"], g) /\ Fits(vault["refresh"], g)
      /\ vault["refresh"] \in Tokens /\ vault["client"] \in Tokens
      /\ secret \in [Processes -> [Keys -> SUBSET Values]]
      /\ access \in [Processes -> Grants \cup {Never}]
      /\ chain \in [Grants -> Nat]
      /\ (hand[c].answer # Never => /\ Head(todo[c]) \in {"answer", "persist"}
                                    /\ hand[c].answer \in Tokens
                                    /\ hand[c].answer.n = chain[hand[c].answer.grant])
  BY Alone
<1>1. Head(todo[c]) = Keeps[k]
  BY DEF Keep, At
<1>2. UNCHANGED <<chain, health, vault, access>>
  BY DEF Keep, servers
<1>3. hand[c].answer = Never
  BY <1>0, <1>1 DEF Keeps, Keys
<1>4. hand[c].seen = vault[k] /\ Fits(vault[k], g) /\ vault[k] \in Values
  BY <1>0, <1>1 DEF Stage, Keeps, Keys, Values
<1>5. secret' = [secret EXCEPT ![Host[c]][k] = {vault[k]}]
  BY <1>4 DEF Keep
<1>6. \A x \in Processes, i \in Keys :
        secret'[x][i] = IF x = Host[c] /\ i = k THEN {vault[k]} ELSE secret[x][i]
  BY <1>0, <1>5
<1>7. Memory(g)'
  <2>1. \A x \in Replicas : /\ access'[x] \in {Never, g}
                            /\ \A i \in Keys : \A v \in secret'[x][i] : Fits(v, g)
    BY <1>0, <1>2, <1>4, <1>6 DEF Memory, Processes
  <2> QED
    BY <2>1 DEF Memory, Fits, Keys
<1>8. CASE k = "refresh"
  <2>1. PICK h \in Hand : h = [hand[c] EXCEPT !.refresh = vault[k], !.seen = Never]
    BY <1>0, <1>4 DEF Hand, Values
  <2>2. PICK r \in Serve : r = Rest(c) /\ Head(r) = "read_client"
    BY <1>0, <1>1, <1>8, Flow DEF Keeps, Running, Rest, Along
  <2>3. Goes(c, h, r)
    BY <1>4, <1>8, <2>1, <2>2 DEF Keep
  <2>4. h.refresh = vault["refresh"] /\ h.tried = hand[c].tried /\ h.answer = hand[c].answer
    BY <1>0, <1>8, <2>1 DEF Hand
  <2>5. \A v \in secret'[Host[c]]["refresh"] : v = vault["refresh"]
    BY <1>0, <1>6, <1>8 DEF Keys
  <2>6. Stage(c, g, h, r)'
    BY <1>0, <1>1, <1>2, <1>3, <1>8, <2>2, <2>4, <2>5 DEF Stage, Fits, Keys, Host, Keeps
  <2> QED
    BY <1>0, <1>2, <1>7, <2>3, <2>6, Follow
<1>9. CASE k = "client"
  <2>1. PICK h \in Hand : h = [hand[c] EXCEPT !.client = vault[k], !.seen = Never]
    BY <1>0, <1>4 DEF Hand, Values
  <2>2. PICK r \in Serve : r = Rest(c) /\ Head(r) = "post"
    BY <1>0, <1>1, <1>9, Flow DEF Keeps, Running, Rest, To
  <2>3. Goes(c, h, r)
    BY <1>4, <1>9, <2>1, <2>2 DEF Keep
  <2>4. h.client = vault["client"] /\ h.refresh = hand[c].refresh /\ h.tried = hand[c].tried
        /\ h.answer = hand[c].answer
    BY <1>0, <1>9, <2>1 DEF Hand
  <2>5. secret'[Host[c]]["refresh"] = secret[Host[c]]["refresh"]
    BY <1>0, <1>6, <1>9 DEF Keys
  <2>6. Stage(c, g, h, r)'
    BY <1>0, <1>1, <1>2, <1>3, <1>9, <2>2, <2>4, <2>5 DEF Stage, Fits, Keys, Host, Keeps
  <2> QED
    BY <1>0, <1>2, <1>7, <2>3, <2>6, Follow
<1> QED
  BY <1>8, <1>9 DEF Keys

LEMMA PersistOwed ==
  ASSUME OwedInv, NEW c \in Callers, NEW g \in Grants, Owed(c, g),
         Persist(c), c \in owed'
  PROVE  Owed(c, g)'
<1>0. /\ c \in Clients /\ c # Script /\ Host[c] \in Replicas /\ Host[c] \in Processes
      /\ todo[c] \in Serve /\ todo[c] \in Programs /\ Running(c) /\ hand[c] \in Hand
      /\ Stage(c, g, hand[c], todo[c]) /\ Memory(g) /\ health[g] = "good"
      /\ Fits(vault["client"], g) /\ Fits(vault["refresh"], g)
      /\ vault["refresh"] \in Tokens /\ vault["client"] \in Tokens
      /\ secret \in [Processes -> [Keys -> SUBSET Values]]
      /\ access \in [Processes -> Grants \cup {Never}]
      /\ chain \in [Grants -> Nat]
      /\ (hand[c].answer # Never => /\ Head(todo[c]) \in {"answer", "persist"}
                                    /\ hand[c].answer \in Tokens
                                    /\ hand[c].answer.n = chain[hand[c].answer.grant])
  BY Alone
<1>1. Head(todo[c]) = "persist"
  BY DEF Persist, At
<1>2. UNCHANGED <<chain, health, secret, access>>
  BY DEF Persist, servers
<1>3. hand[c].answer \in Tokens /\ hand[c].answer # Never /\ hand[c].answer.grant = g
      /\ hand[c].answer.n = chain[g] /\ hand[c].access = g /\ hand[c].tried = Never
  BY <1>0, <1>1 DEF Stage
<1>4. /\ vault' = [vault EXCEPT !["refresh"] = hand[c].answer]
      /\ Goes(c, [hand[c] EXCEPT !.answer = Never], Rest(c))
  <2>1. ~Fault
    BY DEF Fault
  <2> QED
    BY <2>1 DEF Persist
<1>5. vault'["refresh"] = hand[c].answer /\ vault'["client"] = vault["client"]
  <2>1. vault \in [Keys -> Values]
    BY DEF OwedInv, TokenInv, TypeOK
  <2> QED
    BY <1>4, <2>1 DEF Keys
<1>6. Memory(g)'
  BY <1>0, <1>2 DEF Memory, Fits, Keys
<1>7. PICK h \in Hand : h = [hand[c] EXCEPT !.answer = Never]
  BY <1>0 DEF Hand
<1>8. PICK r \in Serve : r = Rest(c) /\ Head(r) = "pop"
  BY <1>0, <1>1, Flow DEF Running, Rest, To
<1>9. h.access = g /\ h.tried = Never /\ h.answer = Never
  BY <1>0, <1>3, <1>7 DEF Hand
<1>a. Stage(c, g, h, r)'
  BY <1>2, <1>3, <1>5, <1>8, <1>9 DEF Stage, Fits, Keys, Host
<1> QED
  BY <1>0, <1>2, <1>3, <1>4, <1>5, <1>6, <1>7, <1>8, <1>a, Follow DEF Fits

LEMMA PopOwed ==
  ASSUME OwedInv, NEW c \in Callers, NEW g \in Grants, Owed(c, g),
         Pop(c), c \in owed'
  PROVE  Owed(c, g)'
<1>0. /\ c \in Clients /\ c # Script /\ Host[c] \in Replicas /\ Host[c] \in Processes
      /\ todo[c] \in Serve /\ todo[c] \in Programs /\ Running(c) /\ hand[c] \in Hand
      /\ Stage(c, g, hand[c], todo[c]) /\ Memory(g) /\ health[g] = "good"
      /\ Fits(vault["client"], g) /\ Fits(vault["refresh"], g)
      /\ vault["refresh"] \in Tokens /\ vault["client"] \in Tokens
      /\ secret \in [Processes -> [Keys -> SUBSET Values]]
      /\ access \in [Processes -> Grants \cup {Never}]
      /\ chain \in [Grants -> Nat]
      /\ (hand[c].answer # Never => /\ Head(todo[c]) \in {"answer", "persist"}
                                    /\ hand[c].answer \in Tokens
                                    /\ hand[c].answer.n = chain[hand[c].answer.grant])
  BY Alone
<1>1. Head(todo[c]) = "pop"
  BY DEF Pop, At
<1>2. UNCHANGED <<chain, health, vault, access>>
  BY DEF Pop, servers
<1>3. \A x \in Processes, i \in Keys : secret'[x][i] \subseteq secret[x][i]
  BY <1>0 DEF Pop, Keys
<1>4. Memory(g)'
  <2>1. \A x \in Replicas : /\ access'[x] \in {Never, g}
                            /\ \A i \in Keys : \A v \in secret'[x][i] : Fits(v, g)
    BY <1>0, <1>2, <1>3 DEF Memory, Processes
  <2> QED
    BY <2>1 DEF Memory, Fits, Keys
<1>5. hand[c].answer = Never /\ hand[c].access = g /\ hand[c].tried = Never
  BY <1>0, <1>1 DEF Stage
<1>6. PICK h \in Hand : h = hand[c]
  BY <1>0
<1>7. PICK r \in Serve : r = Rest(c) /\ Head(r) = "connect"
  BY <1>0, <1>1, Flow DEF Running, Rest, To
<1>8. Goes(c, h, r)
  BY <1>6, <1>7 DEF Pop
<1>9. Stage(c, g, h, r)'
  BY <1>0, <1>2, <1>5, <1>6, <1>7 DEF Stage, Fits, Keys, Host
<1> QED
  BY <1>0, <1>2, <1>4, <1>8, <1>9, Follow

LEMMA TokenOwed ==
  ASSUME OwedInv, NEW c \in Callers, NEW g \in Grants, Owed(c, g),
         Token(c), c \in owed'
  PROVE  Owed(c, g)'
<1>0. /\ c \in Clients /\ c # Script /\ Host[c] \in Replicas /\ Host[c] \in Processes
      /\ todo[c] \in Serve /\ todo[c] \in Programs /\ Running(c) /\ hand[c] \in Hand
      /\ Stage(c, g, hand[c], todo[c]) /\ Memory(g) /\ health[g] = "good"
      /\ Fits(vault["client"], g) /\ Fits(vault["refresh"], g)
      /\ vault["refresh"] \in Tokens /\ vault["client"] \in Tokens
      /\ secret \in [Processes -> [Keys -> SUBSET Values]]
      /\ access \in [Processes -> Grants \cup {Never}]
      /\ chain \in [Grants -> Nat]
      /\ (hand[c].answer # Never => /\ Head(todo[c]) \in {"answer", "persist"}
                                    /\ hand[c].answer \in Tokens
                                    /\ hand[c].answer.n = chain[hand[c].answer.grant])
  BY Alone
<1>1. Head(todo[c]) = "token"
  BY DEF Token, At
<1>2. UNCHANGED <<chain, health, vault, secret, access>>
  BY DEF Token, servers
<1>3. Memory(g)'
  BY <1>0, <1>2 DEF Memory, Fits, Keys
<1>4. hand[c].answer = Never /\ hand[c].tried = Never
  BY <1>0, <1>1 DEF Stage
<1>5. CASE access[Host[c]] # Never /\ Goes(c, [hand[c] EXCEPT !.access = access[Host[c]]], Rest(c))
  <2>1. access[Host[c]] = g
    BY <1>0, <1>5 DEF Memory
  <2>2. PICK h \in Hand : h = [hand[c] EXCEPT !.access = g]
    BY <1>0 DEF Hand
  <2>3. PICK r \in Serve : r = Rest(c) /\ Head(r) = "connect"
    BY <1>0, <1>1, Flow DEF Running, Rest, To
  <2>4. Goes(c, h, r)
    BY <1>5, <2>1, <2>2, <2>3
  <2>5. h.access = g /\ h.tried = Never /\ h.answer = Never
    BY <1>0, <1>4, <2>2 DEF Hand
  <2>6. Stage(c, g, h, r)'
    BY <1>0, <1>2, <1>4, <2>3, <2>5 DEF Stage, Fits, Keys, Host
  <2> QED
    BY <1>0, <1>2, <1>3, <2>4, <2>6, Follow
<1>6. CASE Goes(c, hand[c], Loading(Rest(c)))
  <2>1. PICK h \in Hand : h = hand[c]
    BY <1>0
  <2>2. PICK r \in Serve : r = Loading(Rest(c)) /\ Head(r) = "read_refresh"
    BY <1>0, <1>1, Flow DEF Running, Rest, To
  <2>3. Goes(c, h, r)
    BY <1>6, <2>1, <2>2
  <2>4. Stage(c, g, h, r)'
    BY <1>0, <1>2, <1>4, <2>1, <2>2 DEF Stage, Fits, Keys, Host
  <2> QED
    BY <1>0, <1>2, <1>3, <2>3, <2>4, Follow
<1> QED
  BY <1>5, <1>6 DEF Token, Loading

LEMMA UnsentOwed ==
  ASSUME OwedInv, NEW c \in Callers, NEW g \in Grants, Owed(c, g),
         Unsent(c), c \in owed'
  PROVE  Owed(c, g)'
<1>0. /\ c \in Clients /\ c # Script /\ Host[c] \in Replicas /\ Host[c] \in Processes
      /\ todo[c] \in Serve /\ todo[c] \in Programs /\ Running(c) /\ hand[c] \in Hand
      /\ Stage(c, g, hand[c], todo[c]) /\ Memory(g) /\ health[g] = "good"
      /\ Fits(vault["client"], g) /\ Fits(vault["refresh"], g)
      /\ vault["refresh"] \in Tokens /\ vault["client"] \in Tokens
      /\ secret \in [Processes -> [Keys -> SUBSET Values]]
      /\ access \in [Processes -> Grants \cup {Never}]
      /\ chain \in [Grants -> Nat]
      /\ (hand[c].answer # Never => /\ Head(todo[c]) \in {"answer", "persist"}
                                    /\ hand[c].answer \in Tokens
                                    /\ hand[c].answer.n = chain[hand[c].answer.grant])
  BY Alone
<1>1. Head(todo[c]) = "post"
  BY DEF Unsent, At
<1>2. ~Fault
  BY DEF Fault
<1>3. Barred(c)
  BY <1>2 DEF Unsent
<1> QED
  BY <1>0, <1>1, <1>3 DEF Stage, Fits, Barred

LEMMA PostOwed ==
  ASSUME OwedInv, NEW c \in Callers, NEW g \in Grants, Owed(c, g),
         Post(c), c \in owed'
  PROVE  Owed(c, g)'
<1>0. /\ c \in Clients /\ c # Script /\ Host[c] \in Replicas /\ Host[c] \in Processes
      /\ todo[c] \in Serve /\ todo[c] \in Programs /\ Running(c) /\ hand[c] \in Hand
      /\ Stage(c, g, hand[c], todo[c]) /\ Memory(g) /\ health[g] = "good"
      /\ Fits(vault["client"], g) /\ Fits(vault["refresh"], g)
      /\ vault["refresh"] \in Tokens /\ vault["client"] \in Tokens
      /\ secret \in [Processes -> [Keys -> SUBSET Values]]
      /\ access \in [Processes -> Grants \cup {Never}]
      /\ chain \in [Grants -> Nat]
      /\ (hand[c].answer # Never => /\ Head(todo[c]) \in {"answer", "persist"}
                                    /\ hand[c].answer \in Tokens
                                    /\ hand[c].answer.n = chain[hand[c].answer.grant])
  BY Alone
<1>1. Head(todo[c]) = "post" /\ ~Barred(c)
  BY DEF Post, At
<1>2. UNCHANGED <<health, vault, secret, access>> /\ ~Fault
  BY DEF Post, Fault
<1>3. Memory(g)'
  BY <1>0, <1>2 DEF Memory, Fits, Keys
<1>4. hand[c].answer = Never /\ Fits(hand[c].refresh, g) /\ Fits(hand[c].client, g)
      /\ vault["refresh"].n = chain[g]
  BY <1>0, <1>1 DEF Stage
<1>5. PICK t \in Tokens : t = hand[c].refresh /\ t # Never /\ t.grant = g
  BY <1>0, <1>4 DEF Hand, Values, Fits
<1>6. PICK r \in Serve : r = Rest(c) /\ Head(r) = "answer"
  BY <1>0, <1>1, Flow DEF Running, Rest, To
<1>7. CASE /\ chain' = [chain EXCEPT ![g] = @ + 1]
           /\ Goes(c, [hand[c] EXCEPT !.answer = [t EXCEPT !.n = @ + 1]], Rest(c))
  <2>1. PICK a \in Tokens : a = [t EXCEPT !.n = @ + 1] /\ a.grant = g /\ a # Never
    <3>1. /\ [t EXCEPT !.n = @ + 1] = [grant |-> t.grant, n |-> t.n + 1]
          /\ [t EXCEPT !.n = @ + 1] \in Tokens
      BY Rotated
    <3>2. [grant |-> t.grant, n |-> t.n + 1].grant = g
      BY <1>5
    <3>3. [t EXCEPT !.n = @ + 1] # Never
      BY <3>1, NeverAssumption
    <3> QED
      BY <3>1, <3>2, <3>3
  <2>2. PICK h \in Hand : h = [hand[c] EXCEPT !.answer = a]
    BY <1>0, <2>1 DEF Hand
  <2>3. Goes(c, h, r)
    BY <1>6, <1>7, <2>1, <2>2
  <2>4. h.answer = a
    BY <1>0, <2>2 DEF Hand
  <2>5. Stage(c, g, h, r)'
    BY <1>6, <2>1, <2>4 DEF Stage, Fits, Keys, Host
  <2> QED
    BY <1>0, <1>2, <1>3, <2>3, <2>5, Follow
<1>8. CASE ~Accepted(t, hand[c].client) /\ chain' = chain /\ Goes(c, hand[c], Rest(c))
  <2>1. t # [grant |-> g, n |-> chain[g]]
    BY <1>0, <1>4, <1>8 DEF Accepted, Fits
  <2>2. vault["refresh"] = [grant |-> g, n |-> chain[g]]
    BY <1>0, <1>4 DEF Fits, Tokens
  <2>3. t # vault["refresh"]
    BY <2>1, <2>2
  <2>4. hand[c].tried = Never
    BY <1>0, <1>1, <1>4, <1>5, <2>3 DEF Stage
  <2>5. PICK h \in Hand : h = hand[c]
    BY <1>0
  <2>6. Goes(c, h, r)
    BY <1>6, <1>8, <2>5
  <2>7. Stage(c, g, h, r)'
    BY <1>2, <1>4, <1>5, <1>6, <1>8, <2>3, <2>4, <2>5 DEF Stage, Fits, Keys, Host
  <2> QED
    BY <1>0, <1>2, <1>3, <2>6, <2>7, Follow
<1> QED
  BY <1>2, <1>5, <1>7, <1>8 DEF Post

LEMMA IssuedOwed ==
  ASSUME OwedInv, NEW c \in Callers, NEW g \in Grants, Owed(c, g),
         Issued(c), c \in owed'
  PROVE  Owed(c, g)'
<1>0. /\ c \in Clients /\ c # Script /\ Host[c] \in Replicas /\ Host[c] \in Processes
      /\ todo[c] \in Serve /\ todo[c] \in Programs /\ Running(c) /\ hand[c] \in Hand
      /\ Stage(c, g, hand[c], todo[c]) /\ Memory(g) /\ health[g] = "good"
      /\ Fits(vault["client"], g) /\ Fits(vault["refresh"], g)
      /\ vault["refresh"] \in Tokens /\ vault["client"] \in Tokens
      /\ secret \in [Processes -> [Keys -> SUBSET Values]]
      /\ access \in [Processes -> Grants \cup {Never}]
      /\ chain \in [Grants -> Nat]
      /\ (hand[c].answer # Never => /\ Head(todo[c]) \in {"answer", "persist"}
                                    /\ hand[c].answer \in Tokens
                                    /\ hand[c].answer.n = chain[hand[c].answer.grant])
  BY Alone
<1>1. Head(todo[c]) = "answer" /\ hand[c].answer # Never
  BY DEF Issued, At
<1>2. UNCHANGED <<chain, health, vault, secret>>
  BY DEF Issued, servers
<1>3. PICK a \in Tokens : a = hand[c].answer /\ a # Never /\ a.grant = g
  BY <1>0, <1>1 DEF Stage
<1>4. Memory(g)'
  <2>1. access' = [access EXCEPT ![Host[c]] = g]
    BY <1>3 DEF Issued
  <2>2. \A x \in Replicas : access'[x] \in {Never, g}
    BY <1>0, <2>1 DEF Memory, Processes
  <2> QED
    BY <1>0, <1>2, <2>2 DEF Memory, Fits, Keys
<1>5. hand[c].again \in BOOLEAN
  BY <1>0 DEF Hand
<1>6. PICK h \in Hand : h = [Empty EXCEPT !.answer = a, !.again = hand[c].again, !.access = g]
  BY <1>5, EmptyTyped DEF Hand
<1>7. PICK r \in Serve : r = <<"persist", "pop">> \o Rest(c) /\ Head(r) = "persist"
  BY <1>0, <1>1, Flow DEF Running, Rest, To
<1>8. Goes(c, h, r)
  BY <1>3, <1>6, <1>7 DEF Issued
<1>9. h.answer = a /\ h.access = g /\ h.tried = Never
  BY <1>6, EmptyTyped DEF Hand
<1>a. Stage(c, g, h, r)'
  BY <1>3, <1>7, <1>9 DEF Stage, Fits, Keys, Host
<1> QED
  BY <1>0, <1>2, <1>4, <1>8, <1>a, Follow

LEMMA RejectedOwed ==
  ASSUME OwedInv, NEW c \in Callers, NEW g \in Grants, Owed(c, g),
         Rejected(c), c \in owed'
  PROVE  Owed(c, g)'
<1>0. /\ c \in Clients /\ c # Script /\ Host[c] \in Replicas /\ Host[c] \in Processes
      /\ todo[c] \in Serve /\ todo[c] \in Programs /\ Running(c) /\ hand[c] \in Hand
      /\ Stage(c, g, hand[c], todo[c]) /\ Memory(g) /\ health[g] = "good"
      /\ Fits(vault["client"], g) /\ Fits(vault["refresh"], g)
      /\ vault["refresh"] \in Tokens /\ vault["client"] \in Tokens
      /\ secret \in [Processes -> [Keys -> SUBSET Values]]
      /\ access \in [Processes -> Grants \cup {Never}]
      /\ chain \in [Grants -> Nat]
      /\ (hand[c].answer # Never => /\ Head(todo[c]) \in {"answer", "persist"}
                                    /\ hand[c].answer \in Tokens
                                    /\ hand[c].answer.n = chain[hand[c].answer.grant])
  BY Alone
<1>1. Head(todo[c]) = "answer" /\ hand[c].answer = Never
  BY DEF Rejected, At
<1>2. UNCHANGED <<chain, health, vault, access>>
  BY DEF Rejected, servers
<1>3. \A x \in Processes, i \in Keys :
        secret'[x][i] = IF x = Host[c] THEN {} ELSE secret[x][i]
  BY <1>0 DEF Rejected, Forgotten
<1>4. Memory(g)'
  <2>1. \A x \in Replicas : /\ access'[x] \in {Never, g}
                            /\ \A i \in Keys : \A v \in secret'[x][i] : Fits(v, g)
    BY <1>0, <1>2, <1>3 DEF Memory, Processes
  <2> QED
    BY <2>1 DEF Memory, Fits, Keys
<1>5. hand[c].again \in BOOLEAN /\ hand[c].refresh \in Values
      /\ hand[c].refresh # vault["refresh"]
  BY <1>0, <1>1 DEF Hand, Stage
<1>6. PICK h \in Hand : h = [Empty EXCEPT !.tried = hand[c].refresh, !.again = hand[c].again]
  BY <1>5, EmptyTyped DEF Hand
<1>7. PICK r \in Serve : r = Loading(Rest(c)) /\ Head(r) = "read_refresh"
  BY <1>0, <1>1, Flow DEF Running, Rest, To
<1>8. Goes(c, h, r)
  BY <1>6, <1>7 DEF Rejected, Loading
<1>9. h.answer = Never /\ h.tried # vault["refresh"]
  BY <1>5, <1>6, EmptyTyped DEF Hand
<1>a. secret'[Host[c]]["refresh"] = {}
  BY <1>0, <1>3 DEF Keys
<1>b. Stage(c, g, h, r)'
  BY <1>0, <1>1, <1>2, <1>7, <1>9, <1>a DEF Stage, Fits, Keys, Host
<1> QED
  BY <1>0, <1>2, <1>4, <1>8, <1>b, Follow

LEMMA EndsOwed ==
  ASSUME OwedInv, NEW c \in Callers, NEW g \in Grants, Owed(c, g),
         GivesUp(c) \/ Connect(c), c \in owed'
  PROVE  Owed(c, g)'
<1>0. /\ c \in Clients /\ c # Script /\ Host[c] \in Replicas /\ Host[c] \in Processes
      /\ todo[c] \in Serve /\ todo[c] \in Programs /\ Running(c) /\ hand[c] \in Hand
      /\ Stage(c, g, hand[c], todo[c]) /\ Memory(g) /\ health[g] = "good"
      /\ Fits(vault["client"], g) /\ Fits(vault["refresh"], g)
      /\ vault["refresh"] \in Tokens /\ vault["client"] \in Tokens
      /\ secret \in [Processes -> [Keys -> SUBSET Values]]
      /\ access \in [Processes -> Grants \cup {Never}]
      /\ chain \in [Grants -> Nat]
      /\ (hand[c].answer # Never => /\ Head(todo[c]) \in {"answer", "persist"}
                                    /\ hand[c].answer \in Tokens
                                    /\ hand[c].answer.n = chain[hand[c].answer.grant])
  BY Alone
<1>1. ~GivesUp(c)
  BY <1>0 DEF GivesUp, At, Stage
<1>2. Head(todo[c]) = "connect" /\ ~Fault
  BY <1>1 DEF Connect, At, Fault
<1>3. health[hand[c].access] = "good"
  BY <1>0, <1>2 DEF Stage
<1> QED
  BY <1>1, <1>2, <1>3 DEF Connect

LEMMA StepOwed ==
  ASSUME OwedInv, NEW c \in Callers, NEW g \in Grants, Owed(c, g), Step(c), c \in owed'
  PROVE  Owed(c, g)'
BY ReadOwed, KeepOwed, PersistOwed, PopOwed, TokenOwed, UnsentOwed, PostOwed, IssuedOwed,
   RejectedOwed, EndsOwed DEF Step

LEMMA BeginOwed ==
  ASSUME OwedInv, NEW c \in Callers, NEW program \in {Use, Badge}, Begin(c, program),
         NEW d \in owed'
  PROVE  \E g \in Grants : Owed(d, g)'
<1>0. TypeOK /\ Places
  BY DEF OwedInv, TokenInv
<1>1. /\ d = c /\ program = Use /\ Usable /\ OneGrant /\ \A p \in Clients : ~Running(p)
  BY DEF Begin
<1>2. c \in Clients
  BY DEF Clients
<1>3. vault["refresh"] \in Tokens /\ vault["client"] \in Tokens
  BY <1>0, <1>1 DEF Usable, TypeOK, Keys, Values
<1>4. PICK g \in Grants : g = vault["client"].grant
  BY <1>3 DEF Tokens
<1>5. /\ Fits(vault["client"], g) /\ Fits(vault["refresh"], g) /\ health[g] = "good"
      /\ vault["refresh"].n = chain[g]
  BY <1>1, <1>4 DEF Usable, Fits
<1>6. Memory(g)
  BY <1>1, <1>4 DEF OneGrant, Memory, Fits
<1>7. UNCHANGED <<chain, health, vault, secret, access, hand>>
  BY DEF Begin, servers
<1>8. hand[c] = Empty
  BY <1>0, <1>1, <1>2 DEF Places, Running
<1>9. Use \in Serve /\ Head(Use) = "token"
  BY DEF Use, Serve
<1>a. todo' = [todo EXCEPT ![c] = Use] /\ todo \in [Clients -> Seq(Steps)]
  BY <1>0, <1>1 DEF Begin, TypeOK
<1>b. todo'[c] = Use /\ \A q \in Clients \ {c} : todo'[q] = <<>>
  BY <1>1, <1>2, <1>a DEF Running, Quiet
<1>c. Memory(g)'
  BY <1>6, <1>7 DEF Memory, Fits, Keys
<1>d. Stage(c, g, hand[c], todo[c])'
  BY <1>5, <1>7, <1>8, <1>9, <1>b, EmptyTyped DEF Stage, Fits, Keys, Host
<1>e. Owed(c, g)'
  BY <1>5, <1>7, <1>9, <1>b, <1>c, <1>d DEF Owed, Serve, Quiet, Fits, Keys
<1> QED
  BY <1>1, <1>e

\* Whoever else takes a step, nobody is owed anything.
LEMMA NobodyElse ==
  ASSUME OwedInv, NEW c \in owed, NEW p \in Clients, Running(p)
  PROVE  p = c
BY DEF OwedInv, Owed, Running

LEMMA NextOwed == OwedInv /\ [Next]_vars => OwedInv'
<1> SUFFICES ASSUME OwedInv, [Next]_vars, NEW d \in owed' PROVE \E g \in Grants : Owed(d, g)'
  BY NextTokens DEF OwedInv, Grants
<1>0. owed \subseteq Callers /\ \A c \in owed : \E g \in Grants : Owed(c, g)
  BY DEF OwedInv, TokenInv, TypeOK
<1>1. CASE UNCHANGED vars
  <2>1. UNCHANGED <<chain, health, vault, secret, access, todo, hand, owed>>
    BY <1>1 DEF vars, servers, history
  <2>2. PICK g \in Grants : Owed(d, g)
    BY <1>0, <2>1
  <2>3. Memory(g)' /\ Stage(d, g, hand[d], todo[d])'
    BY <2>1, <2>2 DEF Owed, Memory, Stage, Fits, Keys, Host
  <2> QED
    BY <2>1, <2>2, <2>3 DEF Owed, Serve, Quiet, Fits, Keys
<1>2. CASE \E p \in Clients : Step(p)
  <2>1. PICK p \in Clients : Step(p)
    BY <1>2
  <2>2. Running(p)
    BY <2>1 DEF Step, Read, Keep, Persist, Pop, Token, Unsent, Post, Issued, Rejected, GivesUp,
       Connect, At, Running
  <2>3. owed' \subseteq owed
    BY <2>1 DEF Step, Read, Keep, Persist, Pop, Token, Unsent, Post, Issued, Rejected, GivesUp,
       Connect, Fault, Undisturbed, history, bounds
  <2>4. d = p /\ d \in Callers
    BY <1>0, <2>2, <2>3, NobodyElse
  <2>5. PICK g \in Grants : Owed(d, g)
    BY <1>0, <2>3
  <2> QED
    BY <2>1, <2>4, <2>5, StepOwed
<1>3. CASE \E c \in Callers, program \in {Use, Badge} : Begin(c, program)
  BY <1>3, BeginOwed
<1>4. CASE \E g \in Grants : Authorize(g) \/ Spoils(g)
  <2>1. owed' = {}
    BY <1>4 DEF Authorize, Spoils, Fault
  <2> QED
    BY <2>1
<1>5. CASE \E k \in Keys : Put(k)
  <2>1. Script \in Clients /\ Running(Script) /\ owed' \subseteq owed
    BY <1>5 DEF Put, At, Running, Clients, Fault, Undisturbed
  <2>2. d = Script
    BY <2>1, NobodyElse
  <2> QED
    BY <1>0, <2>1, <2>2, NamesAssumption
<1> QED
  BY <1>1, <1>2, <1>3, <1>4, <1>5 DEF Next

\* A call that overlaps no other, meets no failure and finds a usable grant in the
\* vault is served, whatever its replica's caches still hold of that grant: it never
\* stops before the calendar has accepted its access token.
THEOREM LoneCallsAreServed == Spec => []LoneCallIsServed
<1>1. Init => OwedInv
  BY TokensInitially DEF Init, OwedInv
<1>2. OwedInv => LoneCallIsServed
  BY NoInstall DEF OwedInv, Owed, LoneCallIsServed, Running
<1> QED
  BY <1>1, <1>2, NextOwed, PTL DEF Spec

=============================================================================
