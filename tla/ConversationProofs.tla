-------------------------- MODULE ConversationProofs --------------------------
(***************************************************************************)
(* What a conversation keeps, for any number of turns, hops, calls and     *)
(* faults and any length of prompt: turns may overlap, break at any node,  *)
(* be left by the visitor at any moment, and the process may restart.      *)
(***************************************************************************)
EXTENDS Conversation, FiniteSetTheorems, SequenceTheorems, WellFoundedInduction, TLAPS

\* What a turn leaves in its queue.
Queues == {<<>>, <<"end">>, <<"final", "end">>, <<"error", "end">>}

\* The messages from the question on are the turn's own.
Own(t, msgs) ==
  \E k \in 1 .. Len(msgs) : msgs[k] = Human(t) /\ \A i \in k .. Len(msgs) : msgs[i].turn = t

IsReply(t, m) == m \in Messages /\ m.role = "ai" /\ m.turn = t /\ m.gives = "none"

Working == {"check", "reason", "reasoned", "tools"}

\* How far a turn has come.
Stage(t) ==
  /\ pc[t] = "idle" <=> client[t] = "none"
  /\ out[t] \in Queues
  /\ Live(t) \/ pc[t] = "idle" => out[t] = <<>> /\ got[t] = <<>>
  /\ pc[t] \in Working => Own(t, mem[t].msgs)
  /\ pc[t] = "reasoned" => IsReply(t, draft[t])
  /\ pc[t] = "tools" => IsReply(t, Last(mem[t].msgs)) /\ Last(mem[t].msgs).calls > 0

Core == TypeOK /\ \A t \in Turns : Stage(t)

-----------------------------------------------------------------------------
(* Messages and sequences of them. *)

LEMMA MessagesAreTyped ==
  ASSUME NEW t \in Turns
  PROVE  /\ Human(t) \in Messages /\ Human(t).role = "human" /\ Human(t).turn = t
         /\ Human(t).calls = 0 /\ Human(t).gives = "none"
         /\ \A n \in 0 .. MaxCalls, s \in BOOLEAN :
              /\ IsReply(t, Ai(t, n, s)) /\ Ai(t, n, s).calls = n /\ Ai(t, n, s).spoke = s
         /\ \A g \in Gives : /\ Tool(t, g) \in Messages /\ Tool(t, g).role = "tool"
                             /\ Tool(t, g).turn = t /\ Tool(t, g).calls = 0
                             /\ Tool(t, g).gives = g
BY BoundsAssumption DEF Turns, Messages, Human, Ai, Tool, Gives, Chat, IsReply

LEMMA NoReplyIsAMessage == NoReply \in Messages
BY BoundsAssumption DEF NoReply, Ai, Messages

\* The least of some numbers, by the well-foundedness of inclusion.
LEMMA LeastOf ==
  ASSUME NEW S, S \subseteq Nat, S # {}
  PROVE  \E i \in S : \A j \in S : i <= j
<1> DEFINE R == StrictSubsetOrdering(Nat)
           Below == {0 .. i : i \in S}
<1>1. IsWellFoundedOn(R, FiniteSubsetsOf(Nat))
  BY FS_StrictSubsetOrderingWellFounded
<1>2. Below \subseteq FiniteSubsetsOf(Nat) /\ Below # {}
  <2>1. \A i \in S : IsFiniteSet(0 .. i) /\ 0 .. i \subseteq Nat
    BY FS_Interval
  <2> QED
    BY <2>1 DEF FiniteSubsetsOf
<1>3. PICK x \in Below : \A y \in Below : <<y, x>> \notin R
  <2> HIDE DEF R, Below
  <2> QED
    BY <1>1, <1>2, WFMin
<1>4. PICK i \in S : x = 0 .. i
  OBVIOUS
<1>5. ASSUME NEW j \in S, j < i PROVE FALSE
  <2>1. 0 .. j \subseteq 0 .. i /\ i \in 0 .. i /\ i \notin 0 .. j
    BY <1>5
  <2>2. <<0 .. j, x>> \in R
    BY <1>4, <2>1 DEF StrictSubsetOrdering
  <2> QED
    BY <1>3, <2>2
<1> QED
  BY <1>5

LEMMA CallsAreNumbers == \A m \in Messages : m.calls \in Nat
BY BoundsAssumption DEF Messages

LEMMA ElementsAre ==
  ASSUME NEW S, NEW s \in Seq(S)
  PROVE  Len(s) \in Nat /\ \A i \in 1 .. Len(s) : s[i] \in S
OBVIOUS

LEMMA FrontIs ==
  ASSUME NEW S, NEW s \in Seq(S), s # <<>>
  PROVE  /\ Front(s) \in Seq(S) /\ Len(s) > 0 /\ Len(Front(s)) = Len(s) - 1
         /\ \A i \in 1 .. Len(s) - 1 : Front(s)[i] = s[i]
         /\ Last(s) = s[Len(s)] /\ Last(s) \in S
BY DEF Front, Last

\* Of two sequences one after the other.
LEMMA Joined ==
  ASSUME NEW S, NEW a \in Seq(S), NEW b \in Seq(S)
  PROVE  /\ a \o b \in Seq(S) /\ Len(a) \in Nat /\ Len(b) \in Nat
         /\ Len(a \o b) = Len(a) + Len(b)
         /\ \A i \in 1 .. Len(a) : (a \o b)[i] = a[i]
         /\ \A i \in Len(a) + 1 .. Len(a) + Len(b) : (a \o b)[i] = b[i - Len(a)]
OBVIOUS

LEMMA PrefixOfJoined ==
  ASSUME NEW S, NEW a \in Seq(S), NEW b \in Seq(S)
  PROVE  IsPrefix(a, a \o b)
<1>1. /\ a \o b \in Seq(S) /\ Len(a) \in Nat /\ Len(b) \in Nat /\ Len(a \o b) = Len(a) + Len(b)
      /\ \A i \in 1 .. Len(a) : (a \o b)[i] = a[i]
  BY Joined
<1>2. Len(SubSeq(a, 1, Len(a))) = Len(a) /\ Len(SubSeq(a \o b, 1, Len(a))) = Len(a)
  BY <1>1
<1>3. \A i \in 1 .. Len(a) : SubSeq(a, 1, Len(a))[i] = a[i] /\ SubSeq(a \o b, 1, Len(a))[i] = (a \o b)[i]
  BY <1>1
<1>4. SubSeq(a, 1, Len(a)) = SubSeq(a \o b, 1, Len(a))
  BY <1>1, <1>2, <1>3
<1> QED
  BY <1>1, <1>4 DEF IsPrefix

LEMMA OwnGrows ==
  ASSUME NEW t \in Turns, NEW a \in Seq(Messages), NEW b \in Seq(Messages), Own(t, a),
         \A i \in 1 .. Len(b) : b[i].turn = t
  PROVE  Own(t, a \o b)
<1>1. PICK k \in 1 .. Len(a) : a[k] = Human(t) /\ \A i \in k .. Len(a) : a[i].turn = t
  BY DEF Own
<1>2. /\ Len(a) \in Nat /\ Len(b) \in Nat /\ Len(a \o b) = Len(a) + Len(b)
      /\ \A i \in 1 .. Len(a) : (a \o b)[i] = a[i]
      /\ \A i \in Len(a) + 1 .. Len(a) + Len(b) : (a \o b)[i] = b[i - Len(a)]
  BY Joined
<1>3. ASSUME NEW i \in k .. Len(a \o b) PROVE (a \o b)[i].turn = t
  <2>1. CASE i <= Len(a)
    BY <1>1, <1>2, <2>1
  <2>2. CASE i > Len(a)
    BY <1>2, <2>2
  <2> QED
    BY <1>2, <2>1, <2>2
<1> QED
  BY <1>1, <1>2, <1>3 DEF Own

LEMMA OwnBegins ==
  ASSUME NEW t \in Turns, NEW a \in Seq(Messages)
  PROVE  Own(t, a \o <<Human(t)>>)
<1>1. /\ <<Human(t)>> \in Seq(Messages) /\ Len(<<Human(t)>>) = 1 /\ <<Human(t)>>[1] = Human(t)
      /\ Human(t).turn = t
  BY MessagesAreTyped
<1>2. Len(a) \in Nat /\ Len(a \o <<Human(t)>>) = Len(a) + 1 /\ (a \o <<Human(t)>>)[Len(a) + 1] = Human(t)
  BY <1>1
<1> QED
  BY <1>1, <1>2 DEF Own

LEMMA LastOfJoined ==
  ASSUME NEW S, NEW a \in Seq(S), NEW m \in S
  PROVE  /\ Append(a, m) = a \o <<m>> /\ a \o <<m>> \in Seq(S)
         /\ Last(a \o <<m>>) = m /\ Front(a \o <<m>>) = a
<1>1. /\ <<m>> \in Seq(S) /\ a \o <<m>> \in Seq(S) /\ Len(a) \in Nat /\ Len(a \o <<m>>) = Len(a) + 1
      /\ \A i \in 1 .. Len(a) : (a \o <<m>>)[i] = a[i]
      /\ (a \o <<m>>)[Len(a) + 1] = m
  OBVIOUS
<1>2. Last(a \o <<m>>) = m
  BY <1>1 DEF Last
<1>3. Append(a, m) = a \o <<m>>
  OBVIOUS
<1>4. Front(a \o <<m>>) = a
  <2> DEFINE f == SubSeq(a \o <<m>>, 1, Len(a))
  <2>1. f \in Seq(S) /\ Len(f) = Len(a) /\ \A i \in 1 .. Len(a) : f[i] = (a \o <<m>>)[i]
    BY <1>1
  <2>2. f = a
    BY <1>1, <2>1
  <2> QED
    BY <1>1, <2>2 DEF Front
<1> QED
  BY <1>1, <1>2, <1>3, <1>4

-----------------------------------------------------------------------------
(* Calls and their results. *)

\* What was only said: no calls and no results.
Plain(s) == \A i \in 1 .. Len(s) : s[i].calls = 0 /\ s[i].role # "tool"

LEMMA PairedThenPlain ==
  ASSUME NEW a \in Seq(Messages), NEW b \in Seq(Messages), Paired(a), Plain(b)
  PROVE  Paired(a \o b)
<1> DEFINE s == a \o b
<1>1. /\ s \in Seq(Messages) /\ Len(a) \in Nat /\ Len(b) \in Nat /\ Len(s) = Len(a) + Len(b)
      /\ \A i \in 1 .. Len(a) : s[i] = a[i]
      /\ \A i \in Len(a) + 1 .. Len(a) + Len(b) : s[i] = b[i - Len(a)]
  BY Joined
<1> HIDE DEF s
<1>2. \A i \in Len(a) + 1 .. Len(s) : s[i].calls = 0 /\ s[i].role # "tool"
  BY <1>1 DEF Plain
<1>3. \A i \in 1 .. Len(a) : a[i].calls \in Nat
  BY ElementsAre, CallsAreNumbers
<1>4. ASSUME NEW i \in 1 .. Len(s), s[i].calls > 0
      PROVE  i + s[i].calls <= Len(s) /\ \A j \in i + 1 .. i + s[i].calls : s[j].role = "tool"
  <2>1. i \in 1 .. Len(a)
    BY <1>1, <1>2, <1>4
  <2>2. i + a[i].calls <= Len(a) /\ \A j \in i + 1 .. i + a[i].calls : a[j].role = "tool"
    BY <1>1, <1>4, <2>1 DEF Paired
  <2>3. s[i].calls = a[i].calls /\ a[i].calls \in Nat
    BY <1>1, <1>3, <2>1
  <2>4. \A j \in i + 1 .. i + a[i].calls : j \in 1 .. Len(a) /\ s[j] = a[j] /\ a[j].role = "tool"
    BY <1>1, <2>1, <2>2, <2>3
  <2>5. i + a[i].calls <= Len(s)
    BY <1>1, <2>2, <2>3
  <2>6. \A j \in i + 1 .. i + a[i].calls : s[j].role = "tool"
    BY <2>4
  <2> QED
    BY <2>3, <2>5, <2>6
<1>5. ASSUME NEW i \in 1 .. Len(s), s[i].role = "tool"
      PROVE  \E j \in 1 .. i - 1 : s[j].calls >= i - j /\ \A k \in j + 1 .. i : s[k].role = "tool"
  <2>1. i \in 1 .. Len(a)
    BY <1>1, <1>2, <1>5
  <2>2. PICK j \in 1 .. i - 1 : a[j].calls >= i - j /\ \A k \in j + 1 .. i : a[k].role = "tool"
    BY <1>1, <1>5, <2>1 DEF Paired
  <2>3. j \in 1 .. Len(a) /\ s[j] = a[j]
    BY <1>1, <2>1
  <2>4. \A k \in j + 1 .. i : k \in 1 .. Len(a) /\ s[k] = a[k] /\ a[k].role = "tool"
    BY <1>1, <2>1, <2>2
  <2> QED
    BY <2>2, <2>3, <2>4
<1>6. Paired(s)
  BY <1>4, <1>5 DEF Paired
<1> QED
  BY <1>6 DEF s

LEMMA PlainJoined ==
  ASSUME NEW a \in Seq(Messages), NEW b \in Seq(Messages)
  PROVE  a \o b \in Seq(Messages) /\ (Plain(a) /\ Plain(b) => Plain(a \o b))
<1> SUFFICES ASSUME Plain(a), Plain(b) PROVE Plain(a \o b)
  BY ConcatProperties
<1>1. /\ Len(a) \in Nat /\ Len(b) \in Nat /\ Len(a \o b) = Len(a) + Len(b)
      /\ \A i \in 1 .. Len(a) : (a \o b)[i] = a[i]
      /\ \A i \in Len(a) + 1 .. Len(a) + Len(b) : (a \o b)[i] = b[i - Len(a)]
  BY Joined
<1>2. ASSUME NEW i \in 1 .. Len(a \o b) PROVE (a \o b)[i].calls = 0 /\ (a \o b)[i].role # "tool"
  <2>1. CASE i <= Len(a)
    BY <1>1, <2>1 DEF Plain
  <2>2. CASE i > Len(a)
    <3>1. i - Len(a) \in 1 .. Len(b) /\ (a \o b)[i] = b[i - Len(a)]
      BY <1>1, <2>2
    <3> QED
      BY <3>1 DEF Plain
  <2> QED
    BY <1>1, <2>1, <2>2
<1> QED
  BY <1>2 DEF Plain

LEMMA PlainSequences ==
  ASSUME NEW t \in Turns
  PROVE  /\ <<Human(t)>> \in Seq(Messages) /\ Plain(<<Human(t)>>)
         /\ \A s \in BOOLEAN : <<Ai(t, 0, s)>> \in Seq(Messages) /\ Plain(<<Ai(t, 0, s)>>)
<1>1. 0 \in 0 .. MaxCalls
  BY BoundsAssumption
<1>2. <<Human(t)>> \in Seq(Messages) /\ Plain(<<Human(t)>>)
  BY MessagesAreTyped DEF Plain
<1>3. \A s \in BOOLEAN : <<Ai(t, 0, s)>> \in Seq(Messages) /\ Plain(<<Ai(t, 0, s)>>)
  <2> SUFFICES ASSUME NEW s \in BOOLEAN PROVE <<Ai(t, 0, s)>> \in Seq(Messages) /\ Plain(<<Ai(t, 0, s)>>)
    OBVIOUS
  <2>1. Ai(t, 0, s) \in Messages /\ Ai(t, 0, s).calls = 0 /\ Ai(t, 0, s).role = "ai"
    BY <1>1, MessagesAreTyped DEF IsReply
  <2> QED
    BY <2>1 DEF Plain
<1> QED
  BY <1>2, <1>3

\* A reply with calls, once all of them have been answered.
LEMMA PairedThenAnswered ==
  ASSUME NEW a \in Seq(Messages), a # <<>>, NEW r \in Seq(Messages),
         Paired(Front(a)), Last(a).role = "ai", Last(a).calls = Len(r), Len(r) > 0,
         \A i \in 1 .. Len(r) : r[i].role = "tool" /\ r[i].calls = 0
  PROVE  Paired(a \o r)
<1> DEFINE s == a \o r
           f == Front(a)
           n == Len(a)
<1>1. /\ s \in Seq(Messages) /\ n \in Nat /\ n > 0 /\ Len(r) \in Nat /\ Len(s) = n + Len(r)
      /\ \A i \in 1 .. n : s[i] = a[i]
      /\ \A i \in n + 1 .. n + Len(r) : s[i] = r[i - n]
  BY Joined
<1>2. Len(f) = n - 1 /\ \A i \in 1 .. n - 1 : f[i] = a[i]
  BY FrontIs
<1>3. a[n] = Last(a)
  BY DEF Last
<1> HIDE DEF s, f, n
<1>4. \A i \in n + 1 .. Len(s) : s[i].role = "tool" /\ s[i].calls = 0
  <2>1. \A i \in n + 1 .. Len(s) : s[i] = r[i - n] /\ i - n \in 1 .. Len(r)
    BY <1>1
  <2> QED
    BY <2>1
<1>5. \A i \in 1 .. n - 1 : s[i] = f[i] /\ s[i].calls \in Nat
  BY <1>1, <1>2, ElementsAre, CallsAreNumbers
<1>6. s[n].calls = Len(r) /\ s[n].role = "ai"
  <2>1. s[n] = a[n]
    BY <1>1, SMTT(30)
  <2>2. s[n] = Last(a)
    BY <1>3, <2>1
  <2> QED
    BY <2>2
<1>7. ASSUME NEW i \in 1 .. Len(s), s[i].calls > 0
      PROVE  i + s[i].calls <= Len(s) /\ \A j \in i + 1 .. i + s[i].calls : s[j].role = "tool"
  <2>1. CASE i = n
    BY <1>1, <1>4, <1>6, <2>1
  <2>2. CASE i \in 1 .. n - 1
    <3>1. i + f[i].calls <= n - 1 /\ \A j \in i + 1 .. i + f[i].calls : f[j].role = "tool"
      BY <1>2, <1>5, <1>7, <2>2 DEF Paired, f
    <3>2. s[i].calls = f[i].calls /\ f[i].calls \in Nat
      BY <1>5, <2>2
    <3>3. \A j \in i + 1 .. i + f[i].calls : j \in 1 .. n - 1 /\ s[j] = f[j] /\ f[j].role = "tool"
      BY <1>1, <1>5, <2>2, <3>1, <3>2
    <3>4. i + f[i].calls <= Len(s)
      BY <1>1, <3>1, <3>2
    <3>5. \A j \in i + 1 .. i + f[i].calls : s[j].role = "tool"
      BY <3>3
    <3> QED
      BY <3>2, <3>4, <3>5
  <2> QED
    BY <1>1, <1>4, <1>7, <2>1, <2>2
<1>8. ASSUME NEW i \in 1 .. Len(s), s[i].role = "tool"
      PROVE  \E j \in 1 .. i - 1 : s[j].calls >= i - j /\ \A k \in j + 1 .. i : s[k].role = "tool"
  <2>1. CASE i > n
    <3>1. n \in 1 .. i - 1 /\ s[n].calls >= i - n /\ \A k \in n + 1 .. i : s[k].role = "tool"
      BY <1>1, <1>4, <1>6, <2>1
    <3> QED
      BY <3>1
  <2>2. CASE i \in 1 .. n - 1
    <3>1. PICK j \in 1 .. i - 1 : f[j].calls >= i - j /\ \A k \in j + 1 .. i : f[k].role = "tool"
      BY <1>2, <1>5, <1>8, <2>2 DEF Paired, f
    <3>2. j \in 1 .. n - 1 /\ s[j] = f[j]
      BY <1>1, <1>5, <2>2
    <3>3. \A k \in j + 1 .. i : k \in 1 .. n - 1 /\ s[k] = f[k] /\ f[k].role = "tool"
      BY <1>1, <1>5, <2>2, <3>1
    <3> QED
      BY <3>1, <3>2, <3>3
  <2> QED
    BY <1>1, <1>6, <1>8, <2>1, <2>2
<1>9. Paired(s)
  BY <1>7, <1>8 DEF Paired
<1> QED
  BY <1>9 DEF s

\* The prompt is what has been said from a question of the visitor's on.
LEMMA RecentIs ==
  ASSUME NEW s \in Seq(Messages), Len(s) > Limit
  PROVE  \/ /\ Recent(s) = <<>>
            /\ \A i \in Len(s) - Limit + 1 .. Len(s) : s[i].role # "human"
         \/ \E b \in Len(s) - Limit + 1 .. Len(s) :
              /\ s[b].role = "human"
              /\ \A i \in Len(s) - Limit + 1 .. b - 1 : s[i].role # "human"
              /\ Recent(s) = SubSeq(s, b, Len(s))
<1> DEFINE d == Len(s) - Limit
           tail == LastLimit(s)
           humans == {i \in 1 .. Limit : tail[i].role = "human"}
<1>1. Limit \in Nat /\ Limit > 0 /\ Len(s) \in Nat /\ d \in Nat /\ d > 0
  BY BoundsAssumption
<1>2. tail \in Seq(Messages) /\ Len(tail) = Limit /\ \A i \in 1 .. Limit : tail[i] = s[d + i]
  BY <1>1 DEF LastLimit
<1>3. Recent(s) = IF humans = {} THEN <<>>
                  ELSE SubSeq(tail, CHOOSE i \in humans : \A j \in humans : i <= j, Limit)
  BY <1>1 DEF Recent
<1>4. CASE humans = {}
  <2>1. \A i \in d + 1 .. Len(s) : i - d \in 1 .. Limit /\ tail[i - d] = s[i]
    BY <1>1, <1>2
  <2>2. \A i \in d + 1 .. Len(s) : s[i].role # "human"
    BY <1>4, <2>1
  <2> QED
    BY <1>3, <1>4, <2>2
<1>5. CASE humans # {}
  <2>1. \E i \in humans : \A j \in humans : i <= j
    <3>1. humans \subseteq Nat /\ humans # {}
      BY <1>1, <1>5
    <3> QED
      BY <3>1, LeastOf
  <2>2. PICK c \in humans : /\ \A j \in humans : c <= j
                            /\ Recent(s) = SubSeq(tail, c, Limit)
    BY <1>3, <1>5, <2>1
  <2>3. c \in 1 .. Limit /\ tail[c] = s[d + c] /\ s[d + c].role = "human"
    BY <1>2
  <2> DEFINE b == d + c
  <2>4. b \in d + 1 .. Len(s) /\ s[b].role = "human"
    BY <1>1, <2>3
  <2>5. ASSUME NEW i \in d + 1 .. b - 1 PROVE s[i].role # "human"
    <3>1. i - d \in 1 .. Limit /\ i - d < c /\ tail[i - d] = s[i]
      BY <1>1, <1>2, <2>3
    <3>2. i - d \notin humans
      BY <1>1, <2>2, <2>3, <3>1
    <3> QED
      BY <3>1, <3>2
  <2>6. SubSeq(tail, c, Limit) = SubSeq(s, b, Len(s))
    <3> DEFINE x == SubSeq(tail, c, Limit)
               y == SubSeq(s, b, Len(s))
    <3>1. x \in Seq(Messages) /\ Len(x) = Limit - c + 1
          /\ \A i \in 1 .. Limit - c + 1 : x[i] = tail[c + i - 1]
      BY <1>1, <1>2, <2>3, SMTT(30)
    <3>2. y \in Seq(Messages) /\ Len(y) = Limit - c + 1
          /\ \A i \in 1 .. Limit - c + 1 : y[i] = s[d + c + i - 1]
      BY <1>1, <2>3, SMTT(30)
    <3>3. ASSUME NEW i \in 1 .. Limit - c + 1 PROVE x[i] = y[i]
      <4>1. c + i - 1 \in 1 .. Limit /\ d + (c + i - 1) = d + c + i - 1
        BY <1>1, <2>3
      <4>2. tail[c + i - 1] = s[d + c + i - 1]
        BY <1>2, <4>1
      <4> QED
        BY <3>1, <3>2, <4>2
    <3> HIDE DEF x, y
    <3>4. x = y
      BY <3>1, <3>2, <3>3
    <3> QED
      BY <3>4 DEF x, y
  <2> QED
    BY <2>2, <2>4, <2>5, <2>6
<1> QED
  BY <1>4, <1>5

\* _recent: "a naive cut can orphan a ToolMessage from the AIMessage that requested
\* it"; this one is before a question, and no result reaches over one.
LEMMA RecentIsPaired ==
  ASSUME NEW s \in Seq(Messages), Paired(s)
  PROVE  Paired(Recent(s))
<1>1. CASE Len(s) <= Limit
  BY <1>1 DEF Recent
<1>2. CASE Recent(s) = <<>>
  BY <1>2 DEF Paired
<1>3. CASE \E b \in Len(s) - Limit + 1 .. Len(s) :
             s[b].role = "human" /\ Recent(s) = SubSeq(s, b, Len(s)) /\ Len(s) > Limit
  <2>1. PICK b \in Len(s) - Limit + 1 .. Len(s) :
             s[b].role = "human" /\ Recent(s) = SubSeq(s, b, Len(s)) /\ Len(s) > Limit
    BY <1>3
  <2> DEFINE r == Recent(s)
             n == Len(s) - b + 1
  <2>2. Len(s) \in Nat /\ Limit \in Nat /\ b \in 1 .. Len(s) /\ n \in Nat
    BY <2>1, BoundsAssumption
  <2>3. Len(r) = n /\ \A i \in 1 .. n : r[i] = s[b + i - 1] /\ b + i - 1 \in 1 .. Len(s)
    BY <2>1, <2>2
  <2> HIDE DEF r
  <2>4. ASSUME NEW i \in 1 .. Len(r), r[i].calls > 0
        PROVE  i + r[i].calls <= Len(r) /\ \A j \in i + 1 .. i + r[i].calls : r[j].role = "tool"
    <3> DEFINE x == b + i - 1
    <3>1. r[i] = s[x] /\ x \in 1 .. Len(s) /\ s[x].calls \in Nat
      BY <2>3, <2>4, ElementsAre, CallsAreNumbers
    <3> HIDE DEF x
    <3>2. x + s[x].calls <= Len(s) /\ \A j \in x + 1 .. x + s[x].calls : s[j].role = "tool"
      BY <2>4, <3>1 DEF Paired
    <3>3. i + s[x].calls <= n
      BY <2>2, <2>3, <3>1, <3>2, SMTT(30) DEF x
    <3>4. ASSUME NEW j \in i + 1 .. i + s[x].calls PROVE r[j].role = "tool"
      <4>1. j \in 1 .. n /\ b + j - 1 \in x + 1 .. x + s[x].calls
        BY <2>2, <2>3, <3>1, <3>3, SMTT(30) DEF x
      <4>2. r[j] = s[b + j - 1]
        BY <2>3, <4>1
      <4> QED
        BY <3>2, <4>1, <4>2
    <3> QED
      BY <2>3, <3>1, <3>3, <3>4
  <2>5. ASSUME NEW i \in 1 .. Len(r), r[i].role = "tool"
        PROVE  \E j \in 1 .. i - 1 : r[j].calls >= i - j /\ \A k \in j + 1 .. i : r[k].role = "tool"
    <3> DEFINE x == b + i - 1
    <3>1. r[i] = s[x] /\ x \in 1 .. Len(s)
      BY <2>3
    <3>2. PICK y \in 1 .. x - 1 : s[y].calls >= x - y /\ \A k \in y + 1 .. x : s[k].role = "tool"
      <4> HIDE DEF x
      <4> QED
        BY <2>5, <3>1 DEF Paired
    <3>3. y >= b
      <4>1. b <= x
        BY <2>2, <2>3
      <4>2. b \notin y + 1 .. x
        BY <2>1, <3>2
      <4> QED
        BY <2>2, <4>1, <4>2
    <3> DEFINE j == y - b + 1
    <3>4. j \in 1 .. i - 1 /\ i - j = x - y /\ b + j - 1 = y /\ j \in 1 .. n
      BY <2>2, <2>3, <3>2, <3>3
    <3>5. r[j] = s[y]
      BY <2>3, <3>4
    <3>6. ASSUME NEW k \in j + 1 .. i PROVE r[k].role = "tool"
      <4>1. k \in 1 .. n /\ b + k - 1 \in y + 1 .. x
        BY <2>2, <2>3, <3>2, <3>3
      <4>2. r[k] = s[b + k - 1]
        BY <2>3, <4>1
      <4> QED
        BY <3>2, <4>1, <4>2
    <3> HIDE DEF j
    <3>7. r[j].calls >= i - j
      BY <3>2, <3>4, <3>5
    <3> QED
      BY <3>4, <3>6, <3>7
  <2>6. Paired(r)
    BY <2>4, <2>5 DEF Paired
  <2> QED
    BY <2>6 DEF r
<1>4. Len(s) \in Nat /\ Limit \in Nat
  BY BoundsAssumption
<1> QED
  BY <1>1, <1>2, <1>3, <1>4, RecentIs

\* The question is in the prompt as long as the turn's own messages are no more than
\* the prompt holds.
LEMMA QuestionIsRecent ==
  ASSUME NEW t \in Turns, NEW s \in Seq(Messages), Own(t, s),
         Cardinality({i \in 1 .. Len(s) : s[i].turn = t}) <= Limit
  PROVE  Contains(Recent(s), Human(t))
<1> DEFINE own == {i \in 1 .. Len(s) : s[i].turn = t}
<1>1. PICK k \in 1 .. Len(s) : s[k] = Human(t) /\ \A i \in k .. Len(s) : s[i].turn = t
  BY DEF Own
<1>2. Len(s) \in Nat /\ Limit \in Nat /\ Limit > 0
  BY BoundsAssumption
<1>3. Len(s) - k + 1 <= Limit
  <2>1. /\ IsFiniteSet(k .. Len(s)) /\ Cardinality(k .. Len(s)) = Len(s) - k + 1
        /\ IsFiniteSet(1 .. Len(s))
    BY <1>2, FS_Interval
  <2>2. k .. Len(s) \subseteq own /\ own \subseteq 1 .. Len(s)
    BY <1>1, <1>2
  <2>3. IsFiniteSet(own)
    BY <2>1, <2>2, FS_Subset
  <2>4. Cardinality(k .. Len(s)) <= Cardinality(own)
    BY <2>2, <2>3, FS_Subset
  <2>5. Cardinality(own) \in Nat
    BY <2>3, FS_CardinalityType
  <2> QED
    BY <1>2, <2>1, <2>4, <2>5
<1>4. CASE Len(s) <= Limit
  BY <1>1, <1>4 DEF Recent, Contains
<1>5. CASE Len(s) > Limit
  <2>1. k \in Len(s) - Limit + 1 .. Len(s) /\ s[k].role = "human"
    BY <1>1, <1>2, <1>3, MessagesAreTyped
  <2>2. PICK b \in Len(s) - Limit + 1 .. Len(s) :
              /\ \A i \in Len(s) - Limit + 1 .. b - 1 : s[i].role # "human"
              /\ Recent(s) = SubSeq(s, b, Len(s))
    BY <1>5, <2>1, RecentIs
  <2>3. b <= k
    BY <1>2, <2>1, <2>2
  <2> DEFINE r == SubSeq(s, b, Len(s))
  <2>4. Len(r) = Len(s) - b + 1 /\ \A i \in 1 .. Len(r) : r[i] = s[b + i - 1]
    BY <1>2, <1>5, <2>2
  <2>5. k - b + 1 \in 1 .. Len(r) /\ r[k - b + 1] = Human(t)
    <3>1. k - b + 1 \in 1 .. Len(r) /\ b + (k - b + 1) - 1 = k
      BY <1>2, <2>1, <2>2, <2>3, <2>4
    <3> QED
      BY <1>1, <2>4, <3>1
  <2> QED
    BY <2>2, <2>5 DEF Contains
<1> QED
  BY <1>2, <1>4, <1>5

-----------------------------------------------------------------------------
(* Types, and how far a turn has come.  A turn's step leaves the stage of the *)
(* others as it is.                                                          *)

Stages == {"idle", "cold", "resolve", "check", "reason", "reasoned", "tools", "final", "over"}

\* What of the variables a turn has of its own.
Untouched(u) == /\ pc'[u] = pc[u] /\ mem'[u] = mem[u] /\ draft'[u] = draft[u]
                /\ out'[u] = out[u] /\ got'[u] = got[u] /\ client'[u] = client[u]

LEMMA StageStays ==
  ASSUME NEW u, Stage(u), Untouched(u)
  PROVE  Stage(u)'
BY DEF Stage, Untouched, Live

\* A turn that is over has its last words in the queue.
LEMMA OverStage ==
  ASSUME NEW t, pc'[t] = "over", out'[t] \in Queues, client'[t] # "none"
  PROVE  Stage(t)'
BY DEF Stage, Live, Working

LEMMA PairIs == \A a, b : <<a>> \o <<b>> = <<a, b>>
<1> SUFFICES ASSUME NEW a, NEW b PROVE <<a>> \o <<b>> = <<a, b>>
  OBVIOUS
<1> PICK S : S = {a, b}
  OBVIOUS
<1>1. <<a>> \o <<b>> \in Seq(S) /\ <<a, b>> \in Seq(S)
  OBVIOUS
<1>2. Len(<<a>> \o <<b>>) = 2 /\ Len(<<a, b>>) = 2
  OBVIOUS
<1>3. \A i \in 1 .. 2 : (<<a>> \o <<b>>)[i] = <<a, b>>[i]
  OBVIOUS
<1>4. \A i \in 1 .. Len(<<a>> \o <<b>>) : (<<a>> \o <<b>>)[i] = <<a, b>>[i]
  BY <1>2, <1>3, Zenon
<1>5. Len(<<a>> \o <<b>>) = Len(<<a, b>>)
  BY <1>2
<1> QED
  BY <1>1, <1>4, <1>5, SeqEqual, Zenon

LEMMA QueuesAreSequences ==
  /\ Queues \subseteq Seq({"final", "error", "end"})
  /\ \A q \in Queues : q # <<>> => /\ Tail(q) \in Queues
                                   /\ Front(q) \in Seq({"final", "error"})
                                   /\ Head(q) # "end" => Head(q) \in {"final", "error"}
                                   /\ q = <<"end">> \/ Head(q) # "end"
  /\ <<>> \o <<>> \o <<"end">> = <<"end">>
  /\ <<>> \o <<"final">> \o <<"end">> = <<"final", "end">>
  /\ <<>> \o <<"error">> \o <<"end">> = <<"error", "end">>
<1>1. Queues \subseteq Seq({"final", "error", "end"})
  BY DEF Queues
<1>2. ASSUME NEW q \in Queues, q # <<>>
      PROVE  /\ Tail(q) \in Queues /\ Front(q) \in Seq({"final", "error"})
             /\ Head(q) # "end" => Head(q) \in {"final", "error"}
             /\ q = <<"end">> \/ Head(q) # "end"
  <2>1. CASE q = <<"end">>
    <3>1. Tail(q) = <<>> /\ SubSeq(q, 1, Len(q) - 1) = <<>>
      BY <2>1
    <3> QED
      BY <2>1, <3>1 DEF Queues, Front
  <2>2. CASE q = <<"final", "end">>
    <3>1. Tail(q) = <<"end">> /\ Head(q) = "final"
      BY <2>2
    <3>2. q = <<"final">> \o <<"end">> /\ <<"final">> \in Seq({"final", "error", "end"})
      BY <2>2
    <3>3. Front(<<"final">> \o <<"end">>) = <<"final">>
      BY <3>2, LastOfJoined, "end" \in {"final", "error", "end"}
    <3>4. Front(q) \in Seq({"final", "error"})
      BY <3>2, <3>3
    <3> QED
      BY <3>1, <3>4 DEF Queues
  <2>3. CASE q = <<"error", "end">>
    <3>1. Tail(q) = <<"end">> /\ Head(q) = "error"
      BY <2>3
    <3>2. q = <<"error">> \o <<"end">> /\ <<"error">> \in Seq({"final", "error", "end"})
      BY <2>3
    <3>3. Front(<<"error">> \o <<"end">>) = <<"error">>
      BY <3>2, LastOfJoined, "end" \in {"final", "error", "end"}
    <3>4. Front(q) \in Seq({"final", "error"})
      BY <3>2, <3>3
    <3> QED
      BY <3>1, <3>4 DEF Queues
  <2> QED
    BY <1>2, <2>1, <2>2, <2>3 DEF Queues
<1>3. <<>> \o <<>> = <<>> /\ <<>> \o <<"final">> = <<"final">> /\ <<>> \o <<"error">> = <<"error">>
  OBVIOUS
<1>4. <<>> \o <<"end">> = <<"end">>
  OBVIOUS
<1>5. <<"final">> \o <<"end">> = <<"final", "end">>
  BY PairIs
<1>6. <<"error">> \o <<"end">> = <<"error", "end">>
  BY PairIs
<1> QED
  BY <1>1, <1>2, <1>3, <1>4, <1>5, <1>6, Zenon

LEMMA BlankIsTyped == Blank \in [msgs : Seq(Messages), emergency : BOOLEAN]
BY DEF Blank

\* A turn that stops: its queue was empty.
LEMMA StopsKeeps ==
  ASSUME NEW t \in Turns, Core, Live(t), NEW last \in {<<>>, <<"final">>, <<"error">>},
         Stops(t, last), UNCHANGED <<got, client>>
  PROVE  /\ pc' \in [Turns -> Stages]
         /\ mem' \in [Turns -> [msgs : Seq(Messages), emergency : BOOLEAN]]
         /\ \A u \in Turns : mem'[u] # Blank => InGraph(u)'
         /\ draft' \in [Turns -> Messages]
         /\ out' \in [Turns -> Seq({"final", "error", "end"})]
         /\ seed' = seed
         /\ \A u \in Turns : Stage(u)'
<1>1. out[t] = <<>> /\ \A u \in Turns : Stage(u)
  BY DEF Core, Stage
<1>2. PICK q \in Queues : q = out[t] \o last \o <<"end">>
  <2>1. out[t] \o last \o <<"end">> = <<>> \o last \o <<"end">>
    BY <1>1
  <2> QED
    BY <2>1, QueuesAreSequences DEF Queues
<1>3. /\ pc' = [pc EXCEPT ![t] = "over"] /\ mem' = [mem EXCEPT ![t] = Blank]
      /\ draft' = [draft EXCEPT ![t] = NoReply] /\ out' = [out EXCEPT ![t] = q] /\ seed' = seed
  BY <1>2 DEF Stops, Jump
<1>4. pc'[t] = "over" /\ out'[t] = q /\ client'[t] # "none"
  BY <1>3 DEF Core, TypeOK, Stage, Live
<1>5. \A u \in Turns : u # t => Untouched(u) /\ (InGraph(u) => InGraph(u)') /\ mem'[u] = mem[u]
  BY <1>3 DEF Core, TypeOK, Untouched, InGraph
<1>6. \A u \in Turns : Stage(u)'
  BY <1>1, <1>4, <1>5, OverStage, StageStays
<1>7. \A u \in Turns : mem'[u] # Blank => InGraph(u)'
  BY <1>3, <1>5 DEF Core, TypeOK
<1> QED
  BY <1>3, <1>6, <1>7, NoReplyIsAMessage, BlankIsTyped, QueuesAreSequences
     DEF Core, TypeOK, Stages

LEMMA FaultsCount == Fault /\ faults \in 0 .. MaxFaults => faults' \in 0 .. MaxFaults
BY BoundsAssumption DEF Fault

LEMMA UnresolvedKeepsCore ==
  ASSUME Core, NEW t \in Turns, Unresolved(t)
  PROVE  Core'
<1>1. Live(t) /\ Stops(t, <<>>) /\ UNCHANGED <<got, client>>
  BY DEF Unresolved, Live, wire, Core, TypeOK
<1> QED
  BY <1>1, StopsKeeps, FaultsCount
     DEF Unresolved, Core, TypeOK, Stages, visit, checkpoint, transcript, history

LEMMA BreaksKeepsCore ==
  ASSUME Core, NEW t \in Turns, Breaks(t)
  PROVE  Core'
<1>1. Live(t) /\ Stops(t, <<"error">>) /\ UNCHANGED <<got, client>>
  BY DEF Breaks, Live
<1> QED
  BY <1>1, StopsKeeps, FaultsCount
     DEF Breaks, Core, TypeOK, Stages, visit, checkpoint, transcript, history

LEMMA FinalKeepsCore ==
  ASSUME Core, NEW t \in Turns, Final(t)
  PROVE  Core'
<1>1. Live(t) /\ Stops(t, <<"final">>) /\ UNCHANGED <<got, client>>
  BY DEF Final, Live
<1> QED
  BY <1>1, StopsKeeps
     DEF Final, Core, TypeOK, Stages, visit, checkpoint, transcript, history

\* A step of one turn: what has to be said of it.
LEMMA OneTurn ==
  ASSUME NEW t \in Turns, Core, Stage(t)', mem'[t] # Blank => InGraph(t)',
         \A u \in Turns \ {t} : Untouched(u)
  PROVE  (\A u \in Turns : Stage(u)') /\ \A u \in Turns : mem'[u] # Blank => InGraph(u)'
<1>1. ASSUME NEW u \in Turns \ {t} PROVE Stage(u)' /\ (mem'[u] # Blank => InGraph(u)')
  <2>1. Stage(u) /\ (mem[u] # Blank => InGraph(u)) /\ Untouched(u)
    BY DEF Core, TypeOK
  <2>2. Stage(u)'
    BY <2>1, StageStays
  <2> QED
    BY <2>1, <2>2 DEF Untouched, InGraph
<1> QED
  BY <1>1

LEMMA SaidIsTyped ==
  ASSUME Core, NEW t \in Turns
  PROVE  /\ Said(t) \in Seq(Messages)
         /\ (\A u \in Turns : Plain(prior[u])) => Plain(Said(t))
<1>1. CASE t = 1
  BY <1>1 DEF Said, Plain
<1>2. CASE t # 1
  <2> DEFINE u == t - 1
             heard == IF spoke[u] THEN <<Ai(u, 0, TRUE)>> ELSE <<>>
  <2>1. u \in Turns
    BY <1>2, BoundsAssumption DEF Turns
  <2>2. prior[u] \in Seq(Messages) /\ <<Human(u)>> \in Seq(Messages) /\ Plain(<<Human(u)>>)
    BY <2>1, PlainSequences DEF Core, TypeOK
  <2>3. heard \in Seq(Messages) /\ Plain(heard)
    <3>1. <<>> \in Seq(Messages) /\ Plain(<<>>)
      BY DEF Plain
    <3> QED
      BY <2>1, <3>1, PlainSequences
  <2> HIDE DEF heard
  <2>4. /\ prior[u] \o <<Human(u)>> \in Seq(Messages)
        /\ Plain(prior[u]) => Plain(prior[u] \o <<Human(u)>>)
    BY <2>2, PlainJoined
  <2>5. /\ (prior[u] \o <<Human(u)>>) \o heard \in Seq(Messages)
        /\ Plain(prior[u]) => Plain((prior[u] \o <<Human(u)>>) \o heard)
    BY <2>3, <2>4, PlainJoined
  <2>6. Said(t) = (prior[u] \o <<Human(u)>>) \o heard
    BY <1>2 DEF Said, heard
  <2> QED
    BY <2>1, <2>5, <2>6
<1> QED
  BY <1>1, <1>2

LEMMA BeginKeepsCore ==
  ASSUME Core, NEW t \in Turns, Begin(t)
  PROVE  Core'
<1>1. Said(t) \in Seq(Messages) /\ <<>> \in Seq(Messages)
  BY SaidIsTyped
<1>2. prior' \in [Turns -> Seq(Messages)]
  BY <1>1 DEF Begin, Core, TypeOK
<1>3. writes' \in [Turns -> SUBSET Roles]
  BY DEF Begin, Core, TypeOK, Roles
<1>4. pc' \in [Turns -> Stages] /\ pc'[t] \in {"cold", "resolve"}
  BY DEF Begin, Core, TypeOK, Jump, Stages
<1>5. pc[t] = "idle" /\ out[t] = <<>> /\ got[t] = <<>> /\ out[t] \in Queues
  BY DEF Core, Stage, Begin
<1>9. client'[t] = "waiting"
  BY DEF Begin, Core, TypeOK
<1>6. Stage(t)'
  BY <1>4, <1>5, <1>9 DEF Begin, Stage, Working
<1>7. mem'[t] = Blank
  BY <1>5 DEF Begin, Core, TypeOK, InGraph
<1>8. \A u \in Turns \ {t} : Untouched(u)
  BY DEF Begin, Core, TypeOK, Jump, Untouched
<1> QED
  BY <1>2, <1>3, <1>4, <1>6, <1>7, <1>8, OneTurn
     DEF Begin, Core, TypeOK, Stages, checkpoint

LEMMA ColdKeepsCore ==
  ASSUME Core, NEW t \in Turns, Cold(t)
  PROVE  Core'
<1>1. pc' \in [Turns -> Stages] /\ pc'[t] = "resolve" /\ pc[t] = "cold"
  BY DEF Cold, Core, TypeOK, Jump, Stages
<1>2. seed' \in [Turns -> BOOLEAN] /\ faults' \in 0 .. MaxFaults
  BY FaultsCount DEF Cold, Core, TypeOK
<1>3. out[t] = <<>> /\ got[t] = <<>> /\ out[t] \in Queues /\ client[t] # "none"
  BY <1>1 DEF Core, Stage, Live
<1>4. Stage(t)'
  BY <1>1, <1>3 DEF Cold, Stage, Working, wire
<1>5. mem'[t] = Blank
  BY <1>1 DEF Cold, Core, TypeOK, InGraph
<1>6. \A u \in Turns \ {t} : Untouched(u)
  BY DEF Cold, Core, TypeOK, Jump, Untouched, wire
<1> QED
  BY <1>1, <1>2, <1>4, <1>5, <1>6, OneTurn
     DEF Cold, Core, TypeOK, Stages, visit, checkpoint, wire, transcript, history

LEMMA ScriptedKeepsCore ==
  ASSUME Core, NEW t \in Turns, Scripted(t)
  PROVE  Core'
<1>1. pc' \in [Turns -> Stages] /\ pc'[t] = "final" /\ pc[t] = "resolve"
  BY DEF Scripted, Core, TypeOK, Jump, Stages
<1>2. thread' \in Seq(Messages) /\ faults' \in 0 .. MaxFaults /\ dangled' \in BOOLEAN
  <2>1. Human(t) \in Messages /\ Ai(t, 0, TRUE) \in Messages
    <3>1. 0 \in 0 .. MaxCalls
      BY BoundsAssumption
    <3> QED
      BY <3>1, MessagesAreTyped DEF IsReply
  <2>5. \A x, y \in Messages : <<x, y>> \in Seq(Messages)
    OBVIOUS
  <2>2. <<Human(t), Ai(t, 0, TRUE)>> \in Seq(Messages)
    BY <2>1, <2>5
  <2>3. (dangled \/ ~Paired(thread)) \in BOOLEAN
    BY DEF Core, TypeOK
  <2>4. thread \o <<Human(t), Ai(t, 0, TRUE)>> \in Seq(Messages)
    BY <2>2, ConcatProperties DEF Core, TypeOK
  <2> QED
    BY <2>3, <2>4, FaultsCount DEF Scripted, Core, TypeOK
<1>3. out[t] = <<>> /\ got[t] = <<>> /\ out[t] \in Queues /\ client[t] # "none"
  BY <1>1 DEF Core, Stage, Live
<1>4. Stage(t)'
  BY <1>1, <1>3 DEF Scripted, Stage, Working, wire
<1>5. mem'[t] = Blank
  BY <1>1 DEF Scripted, Core, TypeOK, InGraph
<1>6. \A u \in Turns \ {t} : Untouched(u)
  BY DEF Scripted, Core, TypeOK, Jump, Untouched, wire
<1>7. spoke' \in [Turns -> BOOLEAN]
  BY DEF Scripted, Core, TypeOK
<1> QED
  BY <1>1, <1>2, <1>4, <1>5, <1>6, <1>7, OneTurn
     DEF Scripted, Core, TypeOK, Stages, visit, wire, transcript

\* Start, Check, Reasoned and Tools: the run's messages become the thread.
LEMMA StartedMessages ==
  ASSUME Core, NEW t \in Turns
  PROVE  LET given == IF seed[t] THEN prior[t] ELSE <<>>
         IN  /\ given \in Seq(Messages) /\ thread \o given \in Seq(Messages)
             /\ thread \o given \o <<Human(t)>> \in Seq(Messages)
             /\ Own(t, thread \o given \o <<Human(t)>>)
<1> DEFINE given == IF seed[t] THEN prior[t] ELSE <<>>
<1>1. given \in Seq(Messages)
  BY DEF Core, TypeOK
<1> HIDE DEF given
<1>2. thread \o given \in Seq(Messages)
  BY <1>1, ConcatProperties DEF Core, TypeOK
<1>3. (thread \o given) \o <<Human(t)>> \in Seq(Messages)
  BY <1>2, PlainSequences, ConcatProperties
<1>4. Own(t, (thread \o given) \o <<Human(t)>>)
  BY <1>2, OwnBegins
<1> QED
  BY <1>1, <1>2, <1>3, <1>4 DEF given

LEMMA SavesKeeps ==
  ASSUME Core, NEW t \in Turns, NEW msgs \in Seq(Messages), NEW flag \in BOOLEAN,
         Saves(t, msgs, flag)
  PROVE  /\ mem' \in [Turns -> [msgs : Seq(Messages), emergency : BOOLEAN]]
         /\ mem'[t].msgs = msgs /\ thread' = msgs /\ emergency' = flag
         /\ \A u \in Turns \ {t} : mem'[u] = mem[u]
BY DEF Saves, Core, TypeOK

LEMMA StartKeepsCore ==
  ASSUME Core, NEW t \in Turns, Start(t)
  PROVE  Core'
<1>1. PICK msgs : msgs = thread \o (IF seed[t] THEN prior[t] ELSE <<>>) \o <<Human(t)>>
  OBVIOUS
<1>2. msgs \in Seq(Messages) /\ Own(t, msgs)
  BY <1>1, StartedMessages
<1>3. Saves(t, msgs, emergency) /\ emergency \in BOOLEAN
  BY <1>1 DEF Start, Core, TypeOK
<1>4. /\ mem' \in [Turns -> [msgs : Seq(Messages), emergency : BOOLEAN]]
      /\ mem'[t].msgs = msgs /\ thread' = msgs /\ emergency' = emergency
      /\ \A u \in Turns \ {t} : mem'[u] = mem[u]
  BY <1>2, <1>3, SavesKeeps
<1>5. pc' \in [Turns -> Stages] /\ pc'[t] = "check" /\ pc[t] = "resolve"
  BY DEF Start, Core, TypeOK, Jump, Stages
<1>6. out[t] = <<>> /\ got[t] = <<>> /\ out[t] \in Queues /\ client[t] # "none"
  BY <1>5 DEF Core, Stage, Live
<1>7. Stage(t)'
  BY <1>2, <1>4, <1>5, <1>6 DEF Start, Stage, Working, wire
<1>8. \A u \in Turns \ {t} : Untouched(u)
  BY <1>4 DEF Start, Core, TypeOK, Jump, Untouched, wire
<1>9. seed' \in [Turns -> BOOLEAN] /\ dangled' \in BOOLEAN
  BY DEF Start, Core, TypeOK, Paired
<1>10. InGraph(t)'
  BY <1>5 DEF InGraph
<1>11. (\A u \in Turns : Stage(u)') /\ \A u \in Turns : mem'[u] # Blank => InGraph(u)'
  BY <1>7, <1>8, <1>10, OneTurn
<1> QED
  BY <1>2, <1>4, <1>5, <1>9, <1>11
     DEF Start, Core, TypeOK, Stages, visit, wire, transcript

LEMMA CheckKeepsCore ==
  ASSUME Core, NEW t \in Turns, Check(t)
  PROVE  Core'
<1>1. PICK urgent \in BOOLEAN : Saves(t, mem[t].msgs, mem[t].emergency \/ urgent)
  BY DEF Check
<1>2. mem[t].msgs \in Seq(Messages) /\ (mem[t].emergency \/ urgent) \in BOOLEAN
  BY DEF Core, TypeOK
<1>4. /\ mem' \in [Turns -> [msgs : Seq(Messages), emergency : BOOLEAN]]
      /\ mem'[t].msgs = mem[t].msgs /\ thread' = mem[t].msgs /\ emergency' \in BOOLEAN
      /\ \A u \in Turns \ {t} : mem'[u] = mem[u]
  BY <1>1, <1>2, SavesKeeps
<1>5. pc' \in [Turns -> Stages] /\ pc'[t] = "reason" /\ pc[t] = "check"
  BY DEF Check, Core, TypeOK, Jump, Stages
<1>6. out[t] = <<>> /\ got[t] = <<>> /\ out[t] \in Queues /\ client[t] # "none" /\ Own(t, mem[t].msgs)
  BY <1>5 DEF Core, Stage, Live, Working
<1>7. Stage(t)'
  BY <1>2, <1>4, <1>5, <1>6 DEF Check, Stage, Working, wire
<1>8. \A u \in Turns \ {t} : Untouched(u)
  BY <1>4 DEF Check, Core, TypeOK, Jump, Untouched, wire
<1>10. InGraph(t)'
  BY <1>5 DEF InGraph
<1>11. (\A u \in Turns : Stage(u)') /\ \A u \in Turns : mem'[u] # Blank => InGraph(u)'
  BY <1>7, <1>8, <1>10, OneTurn
<1> QED
  BY <1>2, <1>4, <1>5, <1>11
     DEF Check, Core, TypeOK, Stages, visit, wire, transcript, history

LEMMA ReplyKeepsCore ==
  ASSUME Core, NEW t \in Turns, Reply(t)
  PROVE  Core'
<1>1. PICK n \in 0 .. MaxCalls, s \in BOOLEAN :
        draft' = [draft EXCEPT ![t] = Ai(t, n, s)] /\ spoke' = [spoke EXCEPT ![t] = @ \/ s]
  BY DEF Reply
<1>2. IsReply(t, Ai(t, n, s))
  BY MessagesAreTyped
<1>3. /\ draft' \in [Turns -> Messages] /\ IsReply(t, draft'[t]) /\ spoke' \in [Turns -> BOOLEAN]
      /\ \A u \in Turns \ {t} : draft'[u] = draft[u]
  BY <1>1, <1>2 DEF Core, TypeOK, IsReply
<1>5. pc' \in [Turns -> Stages] /\ pc'[t] = "reasoned" /\ pc[t] = "reason"
  BY DEF Reply, Core, TypeOK, Jump, Stages
<1>6. out[t] = <<>> /\ got[t] = <<>> /\ out[t] \in Queues /\ client[t] # "none" /\ Own(t, mem[t].msgs)
  BY <1>5 DEF Core, Stage, Live, Working
<1>7. Stage(t)'
  BY <1>3, <1>5, <1>6 DEF Reply, Stage, Working, wire
<1>8. \A u \in Turns \ {t} : Untouched(u)
  BY <1>3 DEF Reply, Core, TypeOK, Jump, Untouched, wire
<1>10. InGraph(t)'
  BY <1>5 DEF InGraph
<1>11. (\A u \in Turns : Stage(u)') /\ \A u \in Turns : mem'[u] # Blank => InGraph(u)'
  BY <1>7, <1>8, <1>10, OneTurn
<1> QED
  BY <1>3, <1>5, <1>11
     DEF Reply, Core, TypeOK, Stages, visit, checkpoint, wire, transcript, history

LEMMA ReasonedMessages ==
  ASSUME Core, NEW t \in Turns, pc[t] = "reasoned"
  PROVE  /\ IsReply(t, draft[t]) /\ mem[t].msgs \in Seq(Messages)
         /\ Append(mem[t].msgs, draft[t]) = mem[t].msgs \o <<draft[t]>>
         /\ mem[t].msgs \o <<draft[t]>> \in Seq(Messages)
         /\ Own(t, mem[t].msgs \o <<draft[t]>>)
         /\ Last(mem[t].msgs \o <<draft[t]>>) = draft[t]
         /\ Front(mem[t].msgs \o <<draft[t]>>) = mem[t].msgs
<1>1. IsReply(t, draft[t]) /\ mem[t].msgs \in Seq(Messages) /\ Own(t, mem[t].msgs)
  BY DEF Core, Stage, TypeOK, Working
<1>2. draft[t] \in Messages /\ draft[t].turn = t
  BY <1>1 DEF IsReply
<1>3. <<draft[t]>> \in Seq(Messages) /\ \A i \in 1 .. Len(<<draft[t]>>) : <<draft[t]>>[i].turn = t
  BY <1>2
<1>4. Own(t, mem[t].msgs \o <<draft[t]>>)
  BY <1>1, <1>3, OwnGrows
<1> QED
  BY <1>1, <1>2, <1>4, LastOfJoined

LEMMA ReasonedKeepsCore ==
  ASSUME Core, NEW t \in Turns, Reasoned(t)
  PROVE  Core'
<1>1. PICK msgs : msgs = mem[t].msgs \o <<draft[t]>>
  OBVIOUS
<1>0. pc[t] = "reasoned"
  BY DEF Reasoned
<1>2. /\ msgs \in Seq(Messages) /\ Own(t, msgs) /\ Last(msgs) = draft[t] /\ IsReply(t, draft[t])
      /\ msgs = Append(mem[t].msgs, draft[t])
  BY <1>0, <1>1, ReasonedMessages
<1>3. Saves(t, msgs, mem[t].emergency) /\ mem[t].emergency \in BOOLEAN
  BY <1>2 DEF Reasoned, Core, TypeOK
<1>4. /\ mem' \in [Turns -> [msgs : Seq(Messages), emergency : BOOLEAN]]
      /\ mem'[t].msgs = msgs /\ thread' = msgs /\ emergency' \in BOOLEAN
      /\ \A u \in Turns \ {t} : mem'[u] = mem[u]
  BY <1>2, <1>3, SavesKeeps
<1>5. pc' \in [Turns -> Stages] /\ pc'[t] = IF draft[t].calls > 0 THEN "tools" ELSE "final"
  BY DEF Reasoned, Core, TypeOK, Jump, Stages
<1>6. out[t] = <<>> /\ got[t] = <<>> /\ out[t] \in Queues /\ client[t] # "none"
  BY <1>0 DEF Core, Stage, Live
<1>7. Stage(t)'
  BY <1>2, <1>4, <1>5, <1>6 DEF Reasoned, Stage, Working, wire
<1>8. \A u \in Turns \ {t} : Untouched(u)
  BY <1>4 DEF Reasoned, Core, TypeOK, Jump, Untouched, wire
<1>9. draft' \in [Turns -> Messages]
  BY NoReplyIsAMessage DEF Reasoned, Core, TypeOK
<1>12. spoke' \in [Turns -> BOOLEAN]
  BY DEF Reasoned, Core, TypeOK
<1>10. InGraph(t)'
  BY <1>5 DEF InGraph
<1>11. (\A u \in Turns : Stage(u)') /\ \A u \in Turns : mem'[u] # Blank => InGraph(u)'
  BY <1>7, <1>8, <1>10, OneTurn
<1> QED
  BY <1>2, <1>4, <1>5, <1>9, <1>11, <1>12
     DEF Reasoned, Core, TypeOK, Stages, visit, wire, transcript, history

LEMMA ToolsMessages ==
  ASSUME Core, NEW t \in Turns, pc[t] = "tools", NEW g \in Answers(Last(mem[t].msgs).calls)
  PROVE  LET a == mem[t].msgs
             r == [i \in DOMAIN g |-> Tool(t, g[i])]
         IN  /\ a \in Seq(Messages) /\ a # <<>> /\ Len(a) \in Nat /\ a[Len(a)] = Last(a)
             /\ r \in Seq(Messages) /\ Len(r) = Last(a).calls /\ Len(r) > 0
             /\ \A i \in 1 .. Len(r) : r[i] = Tool(t, g[i]) /\ g[i] \in Gives
             /\ a \o r \in Seq(Messages) /\ Own(t, a \o r)
             /\ IsReply(t, Last(a))
<1> DEFINE a == mem[t].msgs
           r == [i \in DOMAIN g |-> Tool(t, g[i])]
           n == Last(a).calls
<1>1. a \in Seq(Messages) /\ Own(t, a) /\ IsReply(t, Last(a)) /\ n > 0
  BY DEF Core, TypeOK, Stage, Working
<1>2. a # <<>> /\ Len(a) \in Nat /\ a[Len(a)] = Last(a)
  BY <1>1 DEF Own, Last
<1>3. n \in Nat
  BY <1>1, CallsAreNumbers DEF IsReply
<1>4. g \in [1 .. n -> Gives]
  BY DEF Answers
<1> HIDE DEF n, a
<1>5. \A i \in 1 .. n : g[i] \in Gives /\ r[i] = Tool(t, g[i])
  BY <1>4
<1>6. \A i \in 1 .. n : Tool(t, g[i]) \in Messages /\ Tool(t, g[i]).turn = t
  <2>1. \A x \in Gives : Tool(t, x) \in Messages /\ Tool(t, x).turn = t
    BY MessagesAreTyped
  <2> QED
    BY <1>5, <2>1
<1>7. r \in [1 .. n -> Messages]
  BY <1>4, <1>6
<1> HIDE DEF r
<1>8. r \in Seq(Messages) /\ Len(r) = n
  BY <1>3, <1>7
<1>9. \A i \in 1 .. Len(r) : r[i].turn = t
  BY <1>5, <1>6, <1>8
<1>10. a \o r \in Seq(Messages) /\ Own(t, a \o r)
  BY <1>1, <1>8, <1>9, OwnGrows, ConcatProperties
<1> QED
  BY <1>1, <1>2, <1>5, <1>8, <1>10 DEF n, a, r

\* What a step of Tools does, once the answers are known.
LEMMA ToolsSteps ==
  ASSUME Core, NEW t \in Turns, Tools(t)
  PROVE  \E g \in Answers(Last(mem[t].msgs).calls), msgs \in Seq(Messages) :
           /\ msgs = mem[t].msgs \o [i \in DOMAIN g |-> Tool(t, g[i])]
           /\ thread' = msgs /\ emergency' \in BOOLEAN /\ spoke' \in [Turns -> BOOLEAN]
           /\ \A u \in Turns \ {t} : spoke'[u] = spoke[u]
           /\ \/ Stops(t, <<"error">>)
              \/ /\ mem' = [mem EXCEPT ![t].msgs = msgs]
                 /\ pc' = [pc EXCEPT ![t] = AfterTools(msgs)]
                 /\ UNCHANGED <<seed, draft, out>>
<1>1. PICK g \in Answers(Last(mem[t].msgs).calls) :
       LET msgs == mem[t].msgs \o [i \in DOMAIN g |-> Tool(t, g[i])]
           next == AfterTools(msgs)
           last == Hops(msgs, t) >= MaxHops - 1
       IN /\ thread' = msgs
          /\ emergency' = mem[t].emergency
          /\ spoke' = [spoke EXCEPT ![t] = @ \/ "flow" \in Given(msgs)]
          /\ \/ last /\ Stops(t, <<"error">>)
             \/ /\ ~(last /\ next = "reason")
                /\ mem' = [mem EXCEPT ![t].msgs = msgs]
                /\ Jump(t, next)
                /\ UNCHANGED <<seed, draft, out>>
  BY DEF Tools
<1>2. PICK msgs : msgs = mem[t].msgs \o [i \in DOMAIN g |-> Tool(t, g[i])]
  OBVIOUS
<1>3. msgs \in Seq(Messages)
  BY <1>2, ToolsMessages DEF Tools
<1>4. /\ thread' = msgs /\ emergency' = mem[t].emergency
      /\ spoke' = [spoke EXCEPT ![t] = @ \/ "flow" \in Given(msgs)]
      /\ \/ Stops(t, <<"error">>)
         \/ /\ mem' = [mem EXCEPT ![t].msgs = msgs]
            /\ Jump(t, AfterTools(msgs))
            /\ UNCHANGED <<seed, draft, out>>
  BY <1>1, <1>2
<1>5. emergency' \in BOOLEAN /\ spoke' \in [Turns -> BOOLEAN]
      /\ \A u \in Turns \ {t} : spoke'[u] = spoke[u]
  BY <1>4 DEF Core, TypeOK
<1> QED
  BY <1>2, <1>3, <1>4, <1>5 DEF Jump

LEMMA ToolsKeepsCore ==
  ASSUME Core, NEW t \in Turns, Tools(t)
  PROVE  Core'
<1>1. PICK g \in Answers(Last(mem[t].msgs).calls), msgs \in Seq(Messages) :
           /\ msgs = mem[t].msgs \o [i \in DOMAIN g |-> Tool(t, g[i])]
           /\ thread' = msgs /\ emergency' \in BOOLEAN /\ spoke' \in [Turns -> BOOLEAN]
           /\ \A u \in Turns \ {t} : spoke'[u] = spoke[u]
           /\ \/ Stops(t, <<"error">>)
              \/ /\ mem' = [mem EXCEPT ![t].msgs = msgs]
                 /\ pc' = [pc EXCEPT ![t] = AfterTools(msgs)]
                 /\ UNCHANGED <<seed, draft, out>>
  BY ToolsSteps
<1>2. pc[t] = "tools" /\ Own(t, msgs)
  <2>1. pc[t] = "tools"
    BY DEF Tools
  <2>2. Own(t, mem[t].msgs \o [i \in DOMAIN g |-> Tool(t, g[i])])
    BY <2>1, ToolsMessages, ZenonT(30)
  <2> QED
    BY <1>1, <2>1, <2>2
<1>3. Live(t) /\ UNCHANGED <<got, client>>
  BY <1>2 DEF Tools, Live
<1>4. CASE Stops(t, <<"error">>)
  BY <1>1, <1>3, <1>4, StopsKeeps DEF Tools, Core, TypeOK, Stages, visit, transcript, history
<1>5. CASE /\ mem' = [mem EXCEPT ![t].msgs = msgs]
           /\ pc' = [pc EXCEPT ![t] = AfterTools(msgs)]
           /\ UNCHANGED <<seed, draft, out>>
  <2>1. pc' \in [Turns -> Stages] /\ pc'[t] \in {"final", "reason"}
    BY <1>5 DEF Core, TypeOK, Stages, AfterTools
  <2>2. /\ mem' \in [Turns -> [msgs : Seq(Messages), emergency : BOOLEAN]]
        /\ mem'[t].msgs = msgs /\ \A u \in Turns \ {t} : mem'[u] = mem[u]
    BY <1>5 DEF Core, TypeOK
  <2>3. out[t] = <<>> /\ got[t] = <<>> /\ out[t] \in Queues /\ client[t] # "none"
    BY <1>2 DEF Core, Stage, Live
  <2>4. Stage(t)'
    BY <1>2, <1>3, <1>5, <2>1, <2>2, <2>3 DEF Stage, Working
  <2>5. \A u \in Turns \ {t} : Untouched(u)
    BY <1>3, <1>5, <2>2 DEF Core, TypeOK, Untouched
  <2>6. InGraph(t)'
    BY <2>1 DEF InGraph
  <2>7. (\A u \in Turns : Stage(u)') /\ \A u \in Turns : mem'[u] # Blank => InGraph(u)'
    BY <2>4, <2>5, <2>6, OneTurn
  <2> QED
    BY <1>1, <1>3, <1>5, <2>1, <2>2, <2>7
       DEF Tools, Core, TypeOK, Stages, visit, transcript, history
<1> QED
  BY <1>1, <1>4, <1>5

\* A turn's step leaves what the others have alone.
LEMMA OthersStay ==
  ASSUME Core, NEW t \in Turns, Begin(t) \/ Works(t) \/ Delivers(t) \/ Leave(t) \/ Notice(t)
  PROVE  \A u \in Turns \ {t} : pc'[u] = pc[u] /\ mem'[u] = mem[u] /\ seed'[u] = seed[u]
<1>1. CASE Begin(t)
  BY <1>1 DEF Begin, Jump, Core, TypeOK
<1>2. CASE Unresolved(t) \/ Breaks(t) \/ Final(t) \/ Notice(t)
  BY <1>2 DEF Unresolved, Breaks, Final, Notice, Stops, Jump, Core, TypeOK
<1>3. CASE Cold(t)
  BY <1>3 DEF Cold, Jump, Core, TypeOK
<1>4. CASE Scripted(t) \/ Reply(t)
  BY <1>4 DEF Scripted, Reply, Jump, Core, TypeOK
<1>5. CASE Start(t) \/ Check(t) \/ Reasoned(t)
  BY <1>5 DEF Start, Check, Reasoned, Saves, Jump, Core, TypeOK
<1>6. CASE Tools(t)
  <2>1. PICK msgs \in Seq(Messages) :
           \/ Stops(t, <<"error">>)
           \/ /\ mem' = [mem EXCEPT ![t].msgs = msgs]
              /\ pc' = [pc EXCEPT ![t] = AfterTools(msgs)]
              /\ UNCHANGED <<seed, draft, out>>
    BY <1>6, ToolsSteps
  <2> QED
    BY <2>1 DEF Stops, Jump, Core, TypeOK
<1>7. CASE Delivers(t) \/ Leave(t)
  BY <1>7 DEF Delivers, Forward, Close, HangUp, Writes, Leave, run
<1> QED
  BY <1>1, <1>2, <1>3, <1>4, <1>5, <1>6, <1>7 DEF Works

\* Delivery leaves the run alone.
LEMMA ForwardKeepsCore ==
  ASSUME Core, NEW t \in Turns, Forward(t)
  PROVE  Core'
<1>1. out[t] \in Queues /\ out[t] # <<>> /\ Head(out[t]) \in {"final", "error"} /\ Tail(out[t]) \in Queues
  BY QueuesAreSequences DEF Core, Stage, Forward
<1>2. /\ out' = [out EXCEPT ![t] = Tail(out[t])] /\ got' = [got EXCEPT ![t] = Append(got[t], Head(out[t]))]
  BY DEF Forward
<1>3. got' \in [Turns -> Seq({"final", "error"})] /\ out' \in [Turns -> Seq({"final", "error", "end"})]
  BY <1>1, <1>2, QueuesAreSequences DEF Core, TypeOK
<1>4. writes' \in [Turns -> SUBSET Roles]
  BY DEF Forward, Core, TypeOK, Roles
<1>5. ~Live(t) /\ pc[t] # "idle" /\ pc' = pc /\ mem' = mem /\ draft' = draft /\ client' = client
  BY <1>1 DEF Core, Stage, Forward, run
<1>6. out'[t] \in Queues
  BY <1>1, <1>2 DEF Core, TypeOK
<1>7. Stage(t)'
  BY <1>5, <1>6 DEF Core, Stage, Live, Working
<1>8. \A u \in Turns \ {t} : Untouched(u)
  BY <1>2, <1>5 DEF Core, TypeOK, Untouched
<1>9. mem'[t] # Blank => InGraph(t)'
  BY <1>5 DEF Core, TypeOK, InGraph
<1>10. (\A u \in Turns : Stage(u)') /\ \A u \in Turns : mem'[u] # Blank => InGraph(u)'
  BY <1>7, <1>8, <1>9, OneTurn
<1> QED
  BY <1>3, <1>4, <1>5, <1>10 DEF Forward, Core, TypeOK, visit, checkpoint, run, history

\* The queue is emptied, by the sentinel, at once by telephone, or for nobody.
LEMMA DrainedKeepsCore ==
  ASSUME Core, NEW t \in Turns, out[t] # <<>>, out' = [out EXCEPT ![t] = <<>>],
         UNCHANGED <<pc, mem, draft>>,
         client' = [client EXCEPT ![t] = "closed"], \A u \in Turns \ {t} : got'[u] = got[u]
  PROVE  /\ out' \in [Turns -> Seq({"final", "error", "end"})]
         /\ client' \in [Turns -> {"none", "waiting", "gone", "closed"}]
         /\ (\A u \in Turns : Stage(u)') /\ \A u \in Turns : mem'[u] # Blank => InGraph(u)'
<1>1. ~Live(t) /\ pc[t] # "idle" /\ out'[t] = <<>> /\ client'[t] = "closed"
  BY DEF Core, Stage, TypeOK
<1>2. Stage(t)'
  BY <1>1 DEF Core, Stage, Live, Working, Queues
<1>3. \A u \in Turns \ {t} : Untouched(u)
  BY DEF Core, TypeOK, Untouched
<1>4. mem'[t] # Blank => InGraph(t)'
  BY DEF Core, TypeOK, InGraph
<1>5. (\A u \in Turns : Stage(u)') /\ \A u \in Turns : mem'[u] # Blank => InGraph(u)'
  BY <1>2, <1>3, <1>4, OneTurn
<1> QED
  BY <1>5 DEF Core, TypeOK

LEMMA CloseKeepsCore ==
  ASSUME Core, NEW t \in Turns, Close(t)
  PROVE  Core'
<1>1. out[t] # <<>> /\ UNCHANGED got
  BY DEF Close
<1> QED
  BY <1>1, DrainedKeepsCore
     DEF Close, Core, TypeOK, visit, checkpoint, run, transcript, history

LEMMA HangUpKeepsCore ==
  ASSUME Core, NEW t \in Turns, HangUp(t)
  PROVE  Core'
<1>1. Front(out[t]) \in Seq({"final", "error"})
  BY QueuesAreSequences DEF HangUp, Core, Stage
<1>2. got' \in [Turns -> Seq({"final", "error"})] /\ spoke' \in [Turns -> BOOLEAN]
      /\ \A u \in Turns \ {t} : got'[u] = got[u]
  BY <1>1 DEF HangUp, Core, TypeOK
<1> QED
  BY <1>2, DrainedKeepsCore
     DEF HangUp, Core, TypeOK, visit, checkpoint, run, transcript, history

LEMMA WritesKeepsCore ==
  ASSUME Core, NEW t \in Turns, NEW role, Writes(t, role)
  PROVE  Core'
<1>1. role \in Roles
  BY DEF Writes, Core, TypeOK
<1>2. writes' \in [Turns -> SUBSET Roles] /\ recorded' \subseteq Turns \X Roles /\ faults' \in 0 .. MaxFaults
  BY <1>1, FaultsCount DEF Writes, Core, TypeOK
<1>3. \A u \in Turns : Untouched(u)
  BY DEF Writes, Untouched, run, wire
<1>4. \A u \in Turns : Stage(u)'
  BY <1>3, StageStays DEF Core
<1> QED
  BY <1>2, <1>4 DEF Writes, Core, TypeOK, visit, checkpoint, run, wire, history, InGraph

LEMMA LeaveKeepsCore ==
  ASSUME Core, NEW t \in Turns, Leave(t)
  PROVE  Core'
<1>1. client' \in [Turns -> {"none", "waiting", "gone", "closed"}] /\ writes' \in [Turns -> SUBSET Roles]
      /\ client[t] # "none" /\ client'[t] # "none"
  BY DEF Leave, Core, TypeOK
<1>2. \A u \in Turns \ {t} : Untouched(u)
  BY DEF Leave, Untouched, run, Core, TypeOK
<1>3. UNCHANGED <<pc, mem, draft, out, got>>
  BY DEF Leave, run
<1>4. Stage(t)'
  BY <1>1, <1>3 DEF Core, Stage, Live
<1>5. mem'[t] # Blank => InGraph(t)'
  BY <1>3 DEF Core, TypeOK, InGraph
<1>6. (\A u \in Turns : Stage(u)') /\ \A u \in Turns : mem'[u] # Blank => InGraph(u)'
  BY <1>2, <1>4, <1>5, OneTurn
<1> QED
  BY <1>1, <1>3, <1>6 DEF Leave, Core, TypeOK, visit, checkpoint, run, history

LEMMA NoticeKeepsCore ==
  ASSUME Core, NEW t \in Turns, Notice(t)
  PROVE  Core'
<1>1. /\ pc' \in [Turns -> Stages] /\ pc'[t] = "over" /\ out'[t] = <<>> /\ mem'[t] = Blank
      /\ client'[t] # "none" /\ <<>> \in Queues
  BY DEF Notice, Core, TypeOK, Jump, Stages, Queues
<1>2. mem' \in [Turns -> [msgs : Seq(Messages), emergency : BOOLEAN]]
  BY BlankIsTyped DEF Notice, Core, TypeOK
<1>3. draft' \in [Turns -> Messages]
  BY NoReplyIsAMessage DEF Notice, Core, TypeOK
<1>4. out' \in [Turns -> Seq({"final", "error", "end"})]
  BY DEF Notice, Core, TypeOK
<1>5. \A u \in Turns \ {t} : Untouched(u)
  BY DEF Notice, Untouched, Jump, Core, TypeOK
<1>6. Stage(t)'
  BY <1>1, OverStage
<1>7. (\A u \in Turns : Stage(u)') /\ \A u \in Turns : mem'[u] # Blank => InGraph(u)'
  BY <1>1, <1>5, <1>6, OneTurn
<1> QED
  BY <1>1, <1>2, <1>3, <1>4, <1>7
     DEF Notice, Core, TypeOK, Stages, visit, checkpoint, transcript, history

LEMMA RestartKeepsCore ==
  ASSUME Core, Restart
  PROVE  Core'
<1>1. /\ pc' \in [Turns -> Stages] /\ mem' \in [Turns -> [msgs : Seq(Messages), emergency : BOOLEAN]]
      /\ \A u \in Turns : mem'[u] = Blank
  BY BlankIsTyped DEF Restart, Core, TypeOK, Stages
<1>2. draft' \in [Turns -> Messages] /\ faults' \in 0 .. MaxFaults
  BY NoReplyIsAMessage, FaultsCount DEF Restart, Core, TypeOK
<1>3. /\ out' \in [Turns -> Seq({"final", "error", "end"})] /\ seed' \in [Turns -> BOOLEAN]
      /\ writes' \in [Turns -> SUBSET Roles]
      /\ client' \in [Turns -> {"none", "waiting", "gone", "closed"}]
  BY DEF Restart, Core, TypeOK
<1>4. thread' \in Seq(Messages) /\ emergency' \in BOOLEAN
  <2>1. CASE UNCHANGED checkpoint
    BY <2>1 DEF Core, TypeOK, checkpoint
  <2>2. CASE thread' = <<>> /\ emergency' = FALSE
    <3>1. <<>> \in Seq(Messages)
      OBVIOUS
    <3> QED
      BY <2>2, <3>1, Zenon
  <2> QED
    BY <2>1, <2>2 DEF Restart
<1>5. ASSUME NEW u \in Turns PROVE Stage(u)'
  <2>1. Stage(u)
    BY DEF Core
  <2>2. /\ out'[u] = <<>> /\ got'[u] = got[u]
        /\ pc'[u] = IF pc[u] = "idle" THEN "idle" ELSE "over"
        /\ client'[u] = IF client[u] = "waiting" THEN "gone" ELSE client[u]
    BY DEF Restart
  <2> QED
    BY <2>1, <2>2 DEF Stage, Live, Working, Queues
<1> QED
  BY <1>1, <1>2, <1>3, <1>4, <1>5 DEF Restart, Core, TypeOK, Stages, visit, history

LEMMA CoreInductive ==
  ASSUME Core, [Next]_vars
  PROVE  Core'
<1>1. ASSUME NEW t \in Turns, Begin(t) \/ Works(t) \/ Delivers(t) \/ Leave(t) \/ Notice(t)
      PROVE  Core'
  BY <1>1, BeginKeepsCore, UnresolvedKeepsCore, BreaksKeepsCore, FinalKeepsCore, ColdKeepsCore,
     ScriptedKeepsCore, StartKeepsCore, CheckKeepsCore, ReplyKeepsCore, ReasonedKeepsCore,
     ToolsKeepsCore, ForwardKeepsCore, CloseKeepsCore, HangUpKeepsCore, WritesKeepsCore,
     LeaveKeepsCore, NoticeKeepsCore, Zenon DEF Works, Delivers
<1>2. CASE UNCHANGED vars
  <2>1. \A u \in Turns : Untouched(u)
    BY <1>2 DEF vars, run, wire, Untouched
  <2>2. \A u \in Turns : Stage(u)'
    BY <2>1, StageStays DEF Core
  <2> QED
    BY <1>2, <2>2 DEF Core, TypeOK, vars, visit, checkpoint, run, wire, transcript, history, InGraph
<1> QED
  BY <1>1, <1>2, RestartKeepsCore DEF Next

LEMMA CoreInitially == Init => Core
<1> SUFFICES ASSUME Init PROVE Core
  OBVIOUS
<1>1. <<>> \in Queues /\ <<>> \in Seq(Messages) /\ <<>> \in Seq({"final", "error", "end"})
      /\ <<>> \in Seq({"final", "error"})
  BY DEF Queues
<1>2. \A t \in Turns : Stage(t)
  BY <1>1 DEF Init, Stage, Live, Working
<1>3. mem \in [Turns -> [msgs : Seq(Messages), emergency : BOOLEAN]] /\ draft \in [Turns -> Messages]
      /\ \A t \in Turns : mem[t] = Blank
  BY BlankIsTyped, NoReplyIsAMessage DEF Init
<1>4. pc \in [Turns -> Stages] /\ faults \in 0 .. MaxFaults
  BY BoundsAssumption DEF Init, Stages
<1> QED
  BY <1>1, <1>2, <1>3, <1>4 DEF Init, Core, TypeOK, Stages, Roles

LEMMA CoreAlways == Spec => []Core
BY CoreInitially, CoreInductive, PTL DEF Spec

\* Every variable has its type, and a turn that is over holds nothing of its run.
THEOREM TypeCorrect == Spec => []TypeOK
<1>1. Core => TypeOK
  BY DEF Core
<1> QED
  BY <1>1, CoreAlways, PTL

-----------------------------------------------------------------------------
(* The prompt. *)

\* As long as no turn was cut off between its calls and their results, what a
\* turn works on has all of both.
Matched(t) ==
  /\ Plain(prior[t])
  /\ ~dangled => /\ pc[t] \in {"check", "reason", "reasoned"} => Paired(mem[t].msgs)
                 /\ pc[t] = "tools" => Paired(Front(mem[t].msgs))

AllMatched == \A t \in Turns : Matched(t)

\* Where nothing is added to what a turn works on.
LEMMA QuietMatched ==
  ASSUME Core, AllMatched, NEW t \in Turns,
         \/ Unresolved(t) \/ Breaks(t) \/ Final(t) \/ Cold(t) \/ Scripted(t)
         \/ Delivers(t) \/ Leave(t) \/ Notice(t)
  PROVE  AllMatched'
<1>1. UNCHANGED prior /\ (dangled => dangled')
  <2>1. CASE Scripted(t)
    <3>1. UNCHANGED prior
      BY <2>1 DEF Scripted, visit
    <3>2. dangled' = (dangled \/ ~Paired(thread)) \/ dangled' = dangled
      BY <2>1, Zenon DEF Scripted
    <3> QED
      BY <3>1, <3>2 DEF Core, TypeOK, Paired
  <2>2. CASE Delivers(t)
    BY <2>2 DEF Delivers, Forward, Close, HangUp, Writes, visit, history
  <2>3. CASE ~Scripted(t) /\ ~Delivers(t)
    BY <2>3 DEF Unresolved, Breaks, Final, Cold, Leave, Notice, visit, history
  <2> QED
    BY <2>1, <2>2, <2>3
<1>2. \/ UNCHANGED <<pc, mem>>
      \/ \E x \in {"resolve", "final", "over"} :
           pc' = [pc EXCEPT ![t] = x] /\ mem' \in {mem, [mem EXCEPT ![t] = Blank]}
  <2>1. CASE Unresolved(t) \/ Breaks(t) \/ Final(t) \/ Notice(t)
    BY <2>1 DEF Unresolved, Breaks, Final, Notice, Stops, Jump
  <2>2. CASE Cold(t)
    BY <2>2 DEF Cold, Jump
  <2>3. CASE Scripted(t)
    BY <2>3 DEF Scripted, Jump
  <2>4. CASE Delivers(t) \/ Leave(t)
    BY <2>4 DEF Delivers, Forward, Close, HangUp, Writes, Leave, run
  <2> QED
    BY <2>1, <2>2, <2>3, <2>4
<1>3. /\ \A u \in Turns \ {t} : pc'[u] = pc[u] /\ mem'[u] = mem[u]
      /\ (pc'[t] = pc[t] /\ mem'[t] = mem[t]) \/ pc'[t] \notin Working
  <2>1. pc \in [Turns -> Stages] /\ mem \in [Turns -> [msgs : Seq(Messages), emergency : BOOLEAN]]
    BY DEF Core, TypeOK, Stages
  <2> QED
    BY <1>2, <2>1 DEF Working
<1>4. \A u \in Turns : Matched(u)'
  BY <1>1, <1>3 DEF AllMatched, Matched, Working
<1> QED
  BY <1>4 DEF AllMatched

\* The steps that read or add messages.  A turn's own stay what the others saw.
LEMMA MatchedOthers ==
  ASSUME Core, AllMatched, NEW t \in Turns, Matched(t)',
         dangled => dangled',
         \A u \in Turns \ {t} : pc'[u] = pc[u] /\ mem'[u] = mem[u] /\ prior'[u] = prior[u]
  PROVE  AllMatched'
BY DEF AllMatched, Matched

LEMMA BeginMatched ==
  ASSUME Core, AllMatched, NEW t \in Turns, Begin(t)
  PROVE  AllMatched'
<1>1. Plain(Said(t)) /\ Plain(<<>>)
  BY SaidIsTyped DEF AllMatched, Matched, Plain
<1>2. Plain(prior[t])'
  BY <1>1 DEF Begin, Core, TypeOK
<1>3. pc'[t] \notin Working
  BY DEF Begin, Jump, Core, TypeOK, Working
<1>4. Matched(t)'
  BY <1>2, <1>3 DEF Matched, Working
<1>5. \A u \in Turns \ {t} : pc'[u] = pc[u] /\ mem'[u] = mem[u] /\ prior'[u] = prior[u]
  BY DEF Begin, Jump, Core, TypeOK
<1> QED
  BY <1>4, <1>5, MatchedOthers DEF Begin

LEMMA StartMatched ==
  ASSUME Core, AllMatched, NEW t \in Turns, Start(t)
  PROVE  AllMatched'
<1> DEFINE given == IF seed[t] THEN prior[t] ELSE <<>>
<1>1. PICK msgs : msgs = thread \o given \o <<Human(t)>>
  OBVIOUS
<1>2. msgs \in Seq(Messages) /\ Saves(t, msgs, emergency) /\ emergency \in BOOLEAN
  BY <1>1, StartedMessages DEF Start, Core, TypeOK
<1>3. mem'[t].msgs = msgs /\ \A u \in Turns \ {t} : mem'[u] = mem[u]
  BY <1>2, SavesKeeps
<1>4. Paired(thread) => Paired(msgs)
  <2>1. given \in Seq(Messages) /\ Plain(given) /\ thread \in Seq(Messages)
        /\ thread \o given \in Seq(Messages)
    BY StartedMessages DEF AllMatched, Matched, Plain, Core, TypeOK
  <2> HIDE DEF given
  <2>2. <<Human(t)>> \in Seq(Messages) /\ Plain(<<Human(t)>>)
    BY PlainSequences
  <2>3. Paired(thread) => Paired(thread \o given)
    BY <2>1, PairedThenPlain
  <2>4. Paired(thread \o given) => Paired((thread \o given) \o <<Human(t)>>)
    BY <2>1, <2>2, PairedThenPlain
  <2> QED
    BY <1>1, <2>3, <2>4
<1>5. pc'[t] = "check" /\ prior' = prior /\ (~dangled' => Paired(thread)) /\ (dangled => dangled')
  BY DEF Start, Jump, Core, TypeOK, visit
<1>6. Matched(t)'
  BY <1>3, <1>4, <1>5 DEF AllMatched, Matched
<1>7. \A u \in Turns \ {t} : pc'[u] = pc[u] /\ prior'[u] = prior[u]
  BY <1>5 DEF Start, Jump, Core, TypeOK
<1> QED
  BY <1>3, <1>5, <1>6, <1>7, MatchedOthers

LEMMA CheckMatched ==
  ASSUME Core, AllMatched, NEW t \in Turns, Check(t) \/ Reply(t)
  PROVE  AllMatched'
<1>1. mem'[t].msgs = mem[t].msgs /\ \A u \in Turns \ {t} : mem'[u] = mem[u]
  <2>1. CASE Check(t)
    <3>1. PICK urgent \in BOOLEAN : Saves(t, mem[t].msgs, mem[t].emergency \/ urgent)
      BY <2>1 DEF Check
    <3>2. mem[t].msgs \in Seq(Messages) /\ (mem[t].emergency \/ urgent) \in BOOLEAN
      BY DEF Core, TypeOK
    <3> QED
      BY <3>1, <3>2, SavesKeeps
  <2>2. CASE Reply(t)
    BY <2>2 DEF Reply
  <2> QED
    BY <2>1, <2>2
<1>2. /\ pc[t] \in {"check", "reason"} /\ pc'[t] \in {"reason", "reasoned"}
      /\ \A u \in Turns \ {t} : pc'[u] = pc[u]
      /\ UNCHANGED <<prior, dangled>>
  BY DEF Check, Reply, Jump, Core, TypeOK, visit, history
<1>3. Matched(t)'
  BY <1>1, <1>2 DEF AllMatched, Matched
<1> QED
  BY <1>1, <1>2, <1>3, MatchedOthers

LEMMA ReasonedMatched ==
  ASSUME Core, AllMatched, NEW t \in Turns, Reasoned(t)
  PROVE  AllMatched'
<1>0. pc[t] = "reasoned"
  BY DEF Reasoned
<1>1. PICK msgs : msgs = mem[t].msgs \o <<draft[t]>>
  OBVIOUS
<1>2. /\ msgs \in Seq(Messages) /\ Front(msgs) = mem[t].msgs
      /\ msgs = Append(mem[t].msgs, draft[t])
  BY <1>0, <1>1, ReasonedMessages
<1>3. Saves(t, msgs, mem[t].emergency) /\ mem[t].emergency \in BOOLEAN
  BY <1>2 DEF Reasoned, Core, TypeOK
<1>4. mem'[t].msgs = msgs /\ \A u \in Turns \ {t} : mem'[u] = mem[u]
  BY <1>2, <1>3, SavesKeeps
<1>5. /\ pc'[t] \in {"tools", "final"} /\ UNCHANGED <<prior, dangled>>
      /\ \A u \in Turns \ {t} : pc'[u] = pc[u]
  BY DEF Reasoned, Jump, Core, TypeOK, visit, history
<1>6. Matched(t)'
  BY <1>0, <1>2, <1>4, <1>5 DEF AllMatched, Matched
<1> QED
  BY <1>4, <1>5, <1>6, MatchedOthers

LEMMA ToolsMatched ==
  ASSUME Core, AllMatched, NEW t \in Turns, Tools(t)
  PROVE  AllMatched'
<1>0. pc[t] = "tools" /\ UNCHANGED <<prior, dangled>>
  BY DEF Tools, visit, history
<1>1. PICK g \in Answers(Last(mem[t].msgs).calls), msgs \in Seq(Messages) :
           /\ msgs = mem[t].msgs \o [i \in DOMAIN g |-> Tool(t, g[i])]
           /\ thread' = msgs /\ emergency' \in BOOLEAN /\ spoke' \in [Turns -> BOOLEAN]
           /\ \A u \in Turns \ {t} : spoke'[u] = spoke[u]
           /\ \/ Stops(t, <<"error">>)
              \/ /\ mem' = [mem EXCEPT ![t].msgs = msgs]
                 /\ pc' = [pc EXCEPT ![t] = AfterTools(msgs)]
                 /\ UNCHANGED <<seed, draft, out>>
  BY ToolsSteps
<1>2. ASSUME ~dangled PROVE Paired(msgs)
  <2> DEFINE a == mem[t].msgs
             r == [i \in DOMAIN g |-> Tool(t, g[i])]
  <2>1. /\ a \in Seq(Messages) /\ a # <<>> /\ r \in Seq(Messages)
        /\ Len(r) = Last(a).calls /\ Len(r) > 0
        /\ \A i \in 1 .. Len(r) : r[i] = Tool(t, g[i]) /\ g[i] \in Gives
        /\ IsReply(t, Last(a))
    BY <1>0, ToolsMessages
  <2>2. Paired(Front(a))
    BY <1>0, <1>2 DEF AllMatched, Matched
  <2> HIDE DEF a, r
  <2>3. \A i \in 1 .. Len(r) : r[i].role = "tool" /\ r[i].calls = 0
    BY <2>1, MessagesAreTyped
  <2>4. Paired(a \o r)
    BY <2>1, <2>2, <2>3, PairedThenAnswered DEF IsReply
  <2> QED
    BY <1>1, <2>4 DEF a, r
<1>3. CASE Stops(t, <<"error">>)
  <2>1. pc'[t] = "over" /\ \A u \in Turns \ {t} : pc'[u] = pc[u] /\ mem'[u] = mem[u]
    BY <1>3 DEF Stops, Jump, Core, TypeOK
  <2>2. Matched(t)'
    BY <1>0, <2>1 DEF AllMatched, Matched
  <2> QED
    BY <1>0, <2>1, <2>2, MatchedOthers
<1>4. CASE /\ mem' = [mem EXCEPT ![t].msgs = msgs]
           /\ pc' = [pc EXCEPT ![t] = AfterTools(msgs)]
  <2>1. /\ mem'[t].msgs = msgs /\ pc'[t] \in {"final", "reason"}
        /\ \A u \in Turns \ {t} : pc'[u] = pc[u] /\ mem'[u] = mem[u]
    BY <1>4 DEF Core, TypeOK, AfterTools
  <2>2. Matched(t)'
    BY <1>0, <1>2, <2>1 DEF AllMatched, Matched
  <2> QED
    BY <1>0, <2>1, <2>2, MatchedOthers
<1> QED
  BY <1>1, <1>3, <1>4

LEMMA RestartMatched ==
  ASSUME Core, AllMatched, Restart
  PROVE  AllMatched'
<1>1. UNCHANGED <<prior, dangled>> /\ \A u \in Turns : pc'[u] \in {"idle", "over"}
  BY DEF Restart, visit, history
<1> QED
  BY <1>1 DEF AllMatched, Matched

LEMMA MatchedAlways == Spec => []AllMatched
<1>1. Init => AllMatched
  BY DEF Init, AllMatched, Matched, Plain
<1>2. Core /\ AllMatched /\ [Next]_vars => AllMatched'
  <2> SUFFICES ASSUME Core, AllMatched, [Next]_vars PROVE AllMatched'
    OBVIOUS
  <2>1. ASSUME NEW t \in Turns, Begin(t) \/ Works(t) \/ Delivers(t) \/ Leave(t) \/ Notice(t)
        PROVE  AllMatched'
    BY <2>1, QuietMatched, BeginMatched, StartMatched, CheckMatched, ReasonedMatched,
       ToolsMatched, Zenon DEF Works
  <2>2. CASE UNCHANGED vars
    BY <2>2 DEF AllMatched, Matched, vars, visit, run, history
  <2> QED
    BY <2>1, <2>2, RestartMatched DEF Next
<1> QED
  BY <1>1, <1>2, CoreAlways, PTL DEF Spec

\* reason.py: what the model is sent is a tail of the conversation in which calls and
\* results match and the question is there, for any length of conversation and prompt,
\* as long as no turn was cut off between its calls and their results and the turn's own
\* messages fit.
THEOREM PromptsAreSound == Spec => []PromptIsSound
<1>1. Core /\ AllMatched => PromptIsSound
  <2> SUFFICES ASSUME Core, AllMatched, NEW t \in Turns, pc[t] = "reason"
               PROVE  LET msgs == mem[t].msgs
                          own == {i \in 1 .. Len(msgs) : msgs[i].turn = t}
                          prompt == Recent(msgs)
                      IN  /\ ~dangled => Paired(prompt)
                          /\ Cardinality(own) <= Limit => Contains(prompt, Human(t))
    BY DEF PromptIsSound
  <2>1. mem[t].msgs \in Seq(Messages) /\ Own(t, mem[t].msgs)
    BY DEF Core, TypeOK, Stage, Working
  <2>2. ~dangled => Paired(mem[t].msgs)
    BY DEF AllMatched, Matched
  <2> QED
    BY <2>1, <2>2, RecentIsPaired, QuestionIsRecent
<1> QED
  BY <1>1, CoreAlways, MatchedAlways, PTL

-----------------------------------------------------------------------------
(* What tools found out is told. *)

Told(t) ==
  pc[t] = "final" =>
    LET msgs == mem[t].msgs
    IN \A i \in 1 .. Len(msgs) : msgs[i].turn = t /\ msgs[i].gives = "plain" =>
         \E j \in 1 .. Len(msgs) : \/ j > i /\ msgs[j].role = "ai"
                                   \/ msgs[j].turn = t /\ msgs[j].gives = "flow"

\* A turn that ends on a reply of the model's.
LEMMA ReasonedTold ==
  ASSUME Core, NEW t \in Turns, Reasoned(t)
  PROVE  Told(t)'
<1>0. pc[t] = "reasoned"
  BY DEF Reasoned
<1>1. PICK msgs : msgs = mem[t].msgs \o <<draft[t]>>
  OBVIOUS
<1>2. /\ msgs \in Seq(Messages) /\ Last(msgs) = draft[t] /\ IsReply(t, draft[t])
      /\ msgs = Append(mem[t].msgs, draft[t]) /\ Own(t, msgs)
  BY <1>0, <1>1, ReasonedMessages
<1>3. Saves(t, msgs, mem[t].emergency) /\ mem[t].emergency \in BOOLEAN
  BY <1>2 DEF Reasoned, Core, TypeOK
<1>4. mem'[t].msgs = msgs
  BY <1>2, <1>3, SavesKeeps
<1>5. Len(msgs) \in 1 .. Len(msgs) /\ msgs[Len(msgs)].role = "ai" /\ msgs[Len(msgs)].gives = "none"
  BY <1>2 DEF Own, Last, IsReply
<1>6. ASSUME NEW i \in 1 .. Len(msgs), msgs[i].gives = "plain"
      PROVE  \E j \in 1 .. Len(msgs) : j > i /\ msgs[j].role = "ai"
  BY <1>5, <1>6
<1> QED
  BY <1>4, <1>6 DEF Told

\* A turn that ends on what tools gave: a flow took over, or there were only buttons.
LEMMA ToolsTold ==
  ASSUME Core, NEW t \in Turns, Tools(t)
  PROVE  Told(t)'
<1>0. pc[t] = "tools"
  BY DEF Tools
<1>1. PICK g \in Answers(Last(mem[t].msgs).calls), msgs \in Seq(Messages) :
           /\ msgs = mem[t].msgs \o [i \in DOMAIN g |-> Tool(t, g[i])]
           /\ thread' = msgs /\ emergency' \in BOOLEAN /\ spoke' \in [Turns -> BOOLEAN]
           /\ \A u \in Turns \ {t} : spoke'[u] = spoke[u]
           /\ \/ Stops(t, <<"error">>)
              \/ /\ mem' = [mem EXCEPT ![t].msgs = msgs]
                 /\ pc' = [pc EXCEPT ![t] = AfterTools(msgs)]
                 /\ UNCHANGED <<seed, draft, out>>
  BY ToolsSteps
<1>2. CASE Stops(t, <<"error">>)
  BY <1>2 DEF Stops, Jump, Core, TypeOK, Told
<1>3. CASE /\ mem' = [mem EXCEPT ![t].msgs = msgs]
           /\ pc' = [pc EXCEPT ![t] = AfterTools(msgs)]
  <2>1. mem'[t].msgs = msgs /\ pc'[t] = AfterTools(msgs)
    BY <1>3 DEF Core, TypeOK
  <2> DEFINE a == mem[t].msgs
             r == [i \in DOMAIN g |-> Tool(t, g[i])]
             n == Len(a)
  <2>2. /\ a \in Seq(Messages) /\ a # <<>> /\ n \in Nat /\ a[n] = Last(a)
        /\ r \in Seq(Messages) /\ Len(r) > 0
        /\ \A i \in 1 .. Len(r) : r[i] = Tool(t, g[i]) /\ g[i] \in Gives
        /\ IsReply(t, Last(a))
    BY <1>0, ToolsMessages
  <2> HIDE DEF a, r
  <2>3. msgs = a \o r
    BY <1>1 DEF a, r
  <2>4. /\ Len(r) \in Nat /\ Len(msgs) = n + Len(r)
        /\ \A i \in 1 .. n : msgs[i] = a[i]
        /\ \A i \in n + 1 .. n + Len(r) : msgs[i] = r[i - n]
    BY <2>2, <2>3, Joined
  <2>5. n \in 1 .. Len(msgs) /\ msgs[n].role = "ai" /\ msgs[n].gives = "none"
    BY <2>2, <2>4 DEF IsReply
  <2>6. \A j \in n + 1 .. Len(msgs) : msgs[j].role = "tool" /\ msgs[j].turn = t
    <3> SUFFICES ASSUME NEW j \in n + 1 .. Len(msgs) PROVE msgs[j].role = "tool" /\ msgs[j].turn = t
      OBVIOUS
    <3>1. j - n \in 1 .. Len(r) /\ msgs[j] = r[j - n]
      BY <2>2, <2>4
    <3> QED
      BY <2>2, <3>1, MessagesAreTyped
  <2>7. LastAi(msgs) = n
    <3>1. \A j \in n + 1 .. Len(msgs) : msgs[j].role # "ai"
      BY <2>6
    <3>2. ASSUME NEW i \in 1 .. Len(msgs), msgs[i].role = "ai",
                 \A j \in i + 1 .. Len(msgs) : msgs[j].role # "ai"
          PROVE  i = n
      <4>1. ~ (i < n)
        BY <2>5, <3>2
      <4>2. ~ (i > n)
        BY <2>2, <2>4, <3>1, <3>2
      <4> QED
        BY <2>2, <2>4, <4>1, <4>2
    <3> QED
      BY <2>5, <3>1, <3>2 DEF LastAi
  <2>8. ASSUME AfterTools(msgs) = "final", NEW i \in 1 .. Len(msgs), msgs[i].gives = "plain"
        PROVE  \E j \in 1 .. Len(msgs) : \/ j > i /\ msgs[j].role = "ai"
                                         \/ msgs[j].turn = t /\ msgs[j].gives = "flow"
    <3>1. CASE i < n
      BY <2>5, <3>1
    <3>2. CASE i > n
      <4>1. i \in n + 1 .. Len(msgs)
        BY <2>2, <2>4, <3>2
      <4>2. "plain" \in Given(msgs)
        BY <2>7, <2>8, <4>1 DEF Given
      <4>3. "flow" \in Given(msgs)
        BY <2>8, <4>2 DEF AfterTools
      <4>4. PICK j \in n + 1 .. Len(msgs) : msgs[j].gives = "flow"
        BY <2>7, <4>3 DEF Given
      <4>5. j \in 1 .. Len(msgs) /\ msgs[j].turn = t
        BY <2>2, <2>4, <2>6
      <4> QED
        BY <4>4, <4>5
    <3> QED
      BY <2>2, <2>4, <2>5, <2>8, <3>1, <3>2
  <2> QED
    BY <2>1, <2>8 DEF Told
<1> QED
  BY <1>1, <1>2, <1>3

\* Every other step of a turn leaves it away from its end, or its messages as they are.
LEMMA QuietTold ==
  ASSUME Core, NEW t \in Turns, Told(t),
         \/ Begin(t) \/ Unresolved(t) \/ Breaks(t) \/ Final(t) \/ Cold(t) \/ Scripted(t) \/ Start(t)
         \/ Check(t) \/ Reply(t) \/ Delivers(t) \/ Leave(t) \/ Notice(t)
  PROVE  Told(t)'
<1>1. CASE Delivers(t) \/ Leave(t)
  BY <1>1 DEF Delivers, Forward, Close, HangUp, Writes, Leave, run, Told
<1>2. CASE Scripted(t)
  <2>1. mem'[t] = Blank
    BY <1>2 DEF Scripted, Core, TypeOK, InGraph
  <2> QED
    BY <2>1 DEF Told, Blank
<1>3. CASE ~Delivers(t) /\ ~Leave(t) /\ ~Scripted(t)
  <2>1. pc'[t] # "final"
    BY <1>3 DEF Begin, Unresolved, Breaks, Final, Cold, Start, Check, Reply, Notice, Stops, Jump,
                Core, TypeOK
  <2> QED
    BY <2>1 DEF Told
<1> QED
  BY <1>1, <1>2, <1>3

\* graph.py: a turn ends with an answer to every plain result, unless a flow took
\* over, however often tools are called in between.
THEOREM WhatToolsFoundIsTold == Spec => []ResultsAreTold
<1> DEFINE Inv == \A t \in Turns : Told(t)
<1>1. Init => Inv
  BY DEF Init, Told
<1>2. Core /\ Inv /\ [Next]_vars => Inv'
  <2> SUFFICES ASSUME Core, Inv, [Next]_vars PROVE Inv'
    OBVIOUS
  <2>1. ASSUME NEW t \in Turns, Begin(t) \/ Works(t) \/ Delivers(t) \/ Leave(t) \/ Notice(t)
        PROVE  Inv'
    <3>1. Told(t)'
      BY <2>1, QuietTold, ReasonedTold, ToolsTold, Zenon DEF Works
    <3>2. \A u \in Turns \ {t} : pc'[u] = pc[u] /\ mem'[u] = mem[u]
      BY <2>1, OthersStay
    <3> QED
      BY <3>1, <3>2 DEF Told
  <2>2. CASE Restart
    BY <2>2 DEF Restart, Told
  <2>3. CASE UNCHANGED vars
    BY <2>3 DEF vars, run, Told
  <2> QED
    BY <2>1, <2>2, <2>3 DEF Next
<1>3. Inv => ResultsAreTold
  BY DEF Told, ResultsAreTold
<1> QED
  BY <1>1, <1>2, <1>3, CoreAlways, PTL DEF Spec

-----------------------------------------------------------------------------
(* The transcript. *)

\* What has been said to the visitor is written down, or is being.
Written(t) ==
  channel = "widget" /\ faults = 0 /\ client[t] \in {"waiting", "closed"} =>
    /\ "user" \in writes[t] \/ <<t, "user">> \in recorded
    /\ got[t] = <<"final">> /\ spoke[t] => "assistant" \in writes[t] \/ <<t, "assistant">> \in recorded
    /\ client[t] = "closed" => writes[t] = {}

\* A step of another turn writes nothing of this one.
Unwritten(u) == /\ client'[u] = client[u] /\ writes'[u] = writes[u] /\ got'[u] = got[u]
                /\ spoke'[u] = spoke[u] /\ recorded \subseteq recorded'

LEMMA WrittenStays ==
  ASSUME NEW u, Written(u), Unwritten(u), channel' = channel, faults' = 0 => faults = 0
  PROVE  Written(u)'
BY DEF Written, Unwritten

\* No fault is forgotten.
LEMMA FaultsStay ==
  ASSUME Core, [Next]_vars
  PROVE  /\ channel' = channel /\ (faults' = 0 => faults = 0) /\ recorded \subseteq recorded'
<1>0. faults \in Nat
  BY BoundsAssumption DEF Core, TypeOK
<1>1. ASSUME NEW t \in Turns, Begin(t) \/ Works(t) \/ Delivers(t) \/ Leave(t) \/ Notice(t)
      PROVE  channel' = channel /\ (UNCHANGED faults \/ Fault) /\ recorded \subseteq recorded'
  <2>1. CASE Begin(t) \/ Leave(t) \/ Notice(t)
    BY <2>1 DEF Begin, Leave, Notice, visit, transcript
  <2>2. CASE Unresolved(t) \/ Breaks(t) \/ Final(t) \/ Cold(t) \/ Scripted(t)
    BY <2>2 DEF Unresolved, Breaks, Final, Cold, Scripted, visit, transcript
  <2>3. CASE Start(t) \/ Check(t) \/ Reply(t) \/ Reasoned(t) \/ Tools(t)
    BY <2>3 DEF Start, Check, Reply, Reasoned, Tools, visit, transcript
  <2>4. CASE Delivers(t)
    BY <2>4 DEF Delivers, Forward, Close, HangUp, Writes, visit, transcript
  <2> QED
    BY <1>1, <2>1, <2>2, <2>3, <2>4 DEF Works
<1>2. CASE Restart
  BY <1>0, <1>2 DEF Restart, Fault, visit
<1>3. CASE UNCHANGED vars
  BY <1>3 DEF vars, visit, transcript
<1> QED
  BY <1>0, <1>1, <1>2, <1>3 DEF Next, Fault

\* A turn that still runs has said nothing final, and a step of its run writes nothing.
LEMMA WorksWritten ==
  ASSUME Core, NEW t \in Turns, Written(t), Works(t), channel' = channel, faults' = 0 => faults = 0
  PROVE  Written(t)'
<1>1. Live(t)
  BY DEF Works, Unresolved, Breaks, Final, Cold, Scripted, Start, Check, Reply, Reasoned, Tools, Live
<1>2. got[t] = <<>>
  BY <1>1 DEF Core, Stage
<1>3. UNCHANGED <<client, writes, recorded, got>>
  <2>1. CASE Unresolved(t) \/ Breaks(t) \/ Final(t) \/ Cold(t) \/ Scripted(t)
    BY <2>1 DEF Unresolved, Breaks, Final, Cold, Scripted, wire, transcript
  <2>2. CASE Start(t) \/ Check(t) \/ Reply(t) \/ Reasoned(t) \/ Tools(t)
    BY <2>2 DEF Start, Check, Reply, Reasoned, Tools, wire, transcript
  <2> QED
    BY <2>1, <2>2 DEF Works
<1> QED
  BY <1>2, <1>3 DEF Written

LEMMA DeliversWritten ==
  ASSUME Core, NEW t \in Turns, Written(t), Delivers(t), channel' = channel, faults' = 0 => faults = 0
  PROVE  Written(t)'
<1>1. CASE Forward(t)
  <2>1. client'[t] = "waiting" /\ client[t] = "waiting" /\ UNCHANGED <<spoke, recorded>>
    BY <1>1 DEF Forward
  <2>2. got[t] \in Seq({"final", "error"}) /\ got'[t] = Append(got[t], Head(out[t]))
    BY <1>1 DEF Forward, Core, TypeOK
  <2>3. writes[t] \subseteq writes'[t]
    BY <1>1 DEF Forward, Core, TypeOK
  <2>4. ASSUME got'[t] = <<"final">> PROVE Head(out[t]) = "final"
    BY <2>2, <2>4
  <2>5. channel = "widget" /\ Head(out[t]) = "final" /\ spoke[t] => "assistant" \in writes'[t]
    BY <1>1 DEF Forward, Core, TypeOK
  <2> QED
    BY <2>1, <2>3, <2>4, <2>5 DEF Written
<1>2. CASE Close(t)
  <2>1. writes[t] = {} /\ client[t] = "waiting" /\ UNCHANGED <<spoke, recorded, got, writes>>
    BY <1>2 DEF Close, transcript
  <2> QED
    BY <2>1 DEF Written
<1>3. CASE HangUp(t)
  BY <1>3 DEF HangUp, Written
<1>4. ASSUME NEW role \in Roles, Writes(t, role) PROVE Written(t)'
  <2>1. role \in writes[t] /\ UNCHANGED <<client, spoke, got>> /\ writes'[t] = writes[t] \ {role}
    BY <1>4 DEF Writes, wire, Core, TypeOK
  <2>2. CASE recorded' = recorded \cup {<<t, role>>}
    BY <2>1, <2>2 DEF Written
  <2>3. CASE Fault
    <3>1. faults' # 0
      BY <2>3, BoundsAssumption DEF Fault, Core, TypeOK
    <3> QED
      BY <3>1 DEF Written
  <2> QED
    BY <1>4, <2>2, <2>3 DEF Writes
<1> QED
  BY <1>1, <1>2, <1>3, <1>4 DEF Delivers

LEMMA VisitorWritten ==
  ASSUME Core, NEW t \in Turns, Written(t), Begin(t) \/ Leave(t) \/ Notice(t),
         channel' = channel, faults' = 0 => faults = 0
  PROVE  Written(t)'
<1>1. CASE Begin(t)
  <2>1. got'[t] = <<>> /\ client'[t] = "waiting"
    BY <1>1 DEF Begin, Core, TypeOK, Stage
  <2>2. channel = "widget" => writes'[t] = {"user"}
    BY <1>1 DEF Begin, Core, TypeOK
  <2> QED
    BY <2>1, <2>2 DEF Written
<1>2. CASE Leave(t)
  <2>1. client'[t] = "gone"
    BY <1>2 DEF Leave, Core, TypeOK
  <2> QED
    BY <2>1 DEF Written
<1>3. CASE Notice(t)
  <2>1. client'[t] = "gone"
    BY <1>3 DEF Notice, Core, TypeOK
  <2> QED
    BY <2>1 DEF Written
<1> QED
  BY <1>1, <1>2, <1>3

LEMMA OthersUnwritten ==
  ASSUME Core, NEW t \in Turns, Begin(t) \/ Works(t) \/ Delivers(t) \/ Leave(t) \/ Notice(t)
  PROVE  \A u \in Turns \ {t} : Unwritten(u)
<1>1. CASE Begin(t) \/ Leave(t) \/ Notice(t)
  BY <1>1 DEF Begin, Leave, Notice, transcript, Unwritten, Core, TypeOK
<1>2. CASE Unresolved(t) \/ Breaks(t) \/ Final(t) \/ Cold(t) \/ Scripted(t)
  BY <1>2 DEF Unresolved, Breaks, Final, Cold, Scripted, wire, transcript, Unwritten, Core, TypeOK
<1>3. CASE Start(t) \/ Check(t) \/ Reply(t) \/ Reasoned(t)
  BY <1>3 DEF Start, Check, Reply, Reasoned, wire, transcript, Unwritten, Core, TypeOK
<1>4. CASE Tools(t)
  <2>1. \A u \in Turns \ {t} : spoke'[u] = spoke[u]
    BY <1>4, ToolsSteps
  <2> QED
    BY <1>4, <2>1 DEF Tools, transcript, Unwritten
<1>5. CASE Forward(t) \/ Close(t) \/ HangUp(t)
  BY <1>5 DEF Forward, Close, HangUp, transcript, Unwritten, Core, TypeOK
<1>6. ASSUME NEW role \in Roles, Writes(t, role) PROVE \A u \in Turns \ {t} : Unwritten(u)
  BY <1>6 DEF Writes, wire, Unwritten, Core, TypeOK
<1> QED
  BY <1>1, <1>2, <1>3, <1>4, <1>5, <1>6 DEF Works, Delivers

\* chat.py: a visitor who has [DONE] finds the question, and the answer if it had
\* words, in the transcript, unless a write failed.
THEOREM TranscriptIsWhole == Spec => []Recorded
<1> DEFINE Inv == \A t \in Turns : Written(t)
<1>1. Init => Inv
  BY DEF Init, Written
<1>2. Core /\ Inv /\ [Next]_vars => Inv'
  <2> SUFFICES ASSUME Core, Inv, [Next]_vars PROVE Inv'
    OBVIOUS
  <2>0. channel' = channel /\ (faults' = 0 => faults = 0)
    BY FaultsStay
  <2>1. ASSUME NEW t \in Turns, Begin(t) \/ Works(t) \/ Delivers(t) \/ Leave(t) \/ Notice(t)
        PROVE  Inv'
    <3>1. Written(t)'
      BY <2>0, <2>1, WorksWritten, DeliversWritten, VisitorWritten
    <3>2. \A u \in Turns \ {t} : Unwritten(u)
      BY <2>1, OthersUnwritten
    <3> QED
      BY <2>0, <3>1, <3>2, WrittenStays
  <2>2. CASE Restart
    <3>1. faults' # 0
      BY <2>2, BoundsAssumption DEF Restart, Fault, Core, TypeOK
    <3> QED
      BY <3>1 DEF Written
  <2>3. CASE UNCHANGED vars
    BY <2>3 DEF vars, visit, wire, transcript, Written
  <2> QED
    BY <2>1, <2>2, <2>3 DEF Next
<1>3. Core /\ Inv => Recorded
  BY DEF Written, Recorded
<1> QED
  BY <1>1, <1>2, <1>3, CoreAlways, PTL DEF Spec

-----------------------------------------------------------------------------
(* The thread. *)

Unique(s) == \A i, j \in 1 .. Len(s) : s[i].role = "human" /\ s[i] = s[j] => i = j

Started == {u \in Turns : pc[u] \notin {"idle", "cold", "resolve"}}

\* What Vapi tells of the turns before this one, which have all begun.
Order(t) ==
  /\ \A u \in 1 .. t - 1 : pc[t] # "idle" => pc[u] # "idle"
  /\ pc[t] \in {"idle", "cold"} => ~seed[t]
  /\ Unique(prior[t]) /\ \A i \in 1 .. Len(prior[t]) : prior[t][i].turn \in 1 .. t - 1
  /\ pc[t] = "idle" => prior[t] = <<>>

Ordered == \A t \in Turns : Order(t)

\* Where turns do not overlap, one at most is alive, what it works on is the thread,
\* and the thread has only turns that have begun their run.
OneLive == \A t, u \in Turns : Live(t) /\ Live(u) => t = u
InThread == \A i \in 1 .. Len(thread) : thread[i].turn \in Started
Alone ==
  /\ OneLive /\ Unique(thread) /\ InThread
  /\ \A t \in Turns : /\ pc[t] \in Working => mem[t].msgs = thread
                      /\ pc[t] = "resolve" /\ seed[t] => thread = <<>>

LEMMA UniqueJoined ==
  ASSUME NEW a \in Seq(Messages), NEW b \in Seq(Messages), Unique(a), Unique(b),
         \A i \in 1 .. Len(a), j \in 1 .. Len(b) : b[j].role = "human" => a[i].turn # b[j].turn
  PROVE  Unique(a \o b)
<1> DEFINE s == a \o b
           n == Len(a)
<1>1. /\ n \in Nat /\ Len(b) \in Nat /\ Len(s) = n + Len(b)
      /\ \A i \in 1 .. n : s[i] = a[i]
      /\ \A i \in n + 1 .. n + Len(b) : s[i] = b[i - n]
  BY Joined
<1> HIDE DEF s, n
<1>2. ASSUME NEW i \in 1 .. Len(s), NEW j \in 1 .. Len(s), s[i].role = "human", s[i] = s[j]
      PROVE  i = j
  <2>1. CASE i <= n /\ j <= n
    <3>1. i \in 1 .. n /\ j \in 1 .. n /\ s[i] = a[i] /\ s[j] = a[j]
      BY <1>1, <2>1
    <3> QED
      BY <1>2, <3>1 DEF Unique, n
  <2>2. CASE i > n /\ j > n
    <3>1. i - n \in 1 .. Len(b) /\ j - n \in 1 .. Len(b) /\ s[i] = b[i - n] /\ s[j] = b[j - n]
      BY <1>1, <2>2
    <3>2. i - n = j - n
      BY <1>2, <3>1 DEF Unique
    <3> QED
      BY <1>1, <3>2
  <2>3. CASE i <= n /\ j > n
    <3>1. i \in 1 .. n /\ s[i] = a[i]
      BY <1>1, <2>3
    <3>2. j - n \in 1 .. Len(b) /\ s[j] = b[j - n]
      BY <1>1, <2>3
    <3> QED
      BY <1>2, <3>1, <3>2 DEF n
  <2>4. CASE i > n /\ j <= n
    <3>1. j \in 1 .. n /\ i - n \in 1 .. Len(b) /\ s[j] = a[j] /\ s[i] = b[i - n]
      BY <1>1, <2>4
    <3> QED
      BY <1>2, <3>1 DEF n
  <2> QED
    BY <1>1, <2>1, <2>2, <2>3, <2>4
<1>3. Unique(s)
  BY <1>2 DEF Unique
<1> QED
  BY <1>3 DEF s

\* Of a sequence to which another is added, element by element.
LEMMA EachOfJoined ==
  ASSUME NEW a \in Seq(Messages), NEW b \in Seq(Messages), NEW S,
         \A i \in 1 .. Len(a) : a[i].turn \in S, \A i \in 1 .. Len(b) : b[i].turn \in S
  PROVE  \A i \in 1 .. Len(a \o b) : (a \o b)[i].turn \in S
<1>1. /\ Len(a) \in Nat /\ Len(b) \in Nat /\ Len(a \o b) = Len(a) + Len(b)
      /\ \A i \in 1 .. Len(a) : (a \o b)[i] = a[i]
      /\ \A i \in Len(a) + 1 .. Len(a) + Len(b) : (a \o b)[i] = b[i - Len(a)]
  BY Joined
<1> SUFFICES ASSUME NEW i \in 1 .. Len(a \o b) PROVE (a \o b)[i].turn \in S
  OBVIOUS
<1>2. CASE i <= Len(a)
  BY <1>1, <1>2
<1>3. CASE i > Len(a)
  <2>1. i - Len(a) \in 1 .. Len(b) /\ (a \o b)[i] = b[i - Len(a)]
    BY <1>1, <1>3
  <2> QED
    BY <2>1
<1> QED
  BY <1>1, <1>2, <1>3

LEMMA SaidIsOrdered ==
  ASSUME Core, Ordered, NEW t \in Turns
  PROVE  Unique(Said(t)) /\ \A i \in 1 .. Len(Said(t)) : Said(t)[i].turn \in 1 .. t - 1
<1>1. CASE t = 1
  BY <1>1 DEF Said, Unique
<1>2. CASE t # 1
  <2> DEFINE u == t - 1
             p == prior[u]
             h == <<Human(u)>>
             heard == IF spoke[u] THEN <<Ai(u, 0, TRUE)>> ELSE <<>>
  <2>1. u \in Turns /\ u \in Nat /\ t \in Nat
    BY <1>2, BoundsAssumption DEF Turns
  <2>2. p \in Seq(Messages) /\ Unique(p) /\ \A i \in 1 .. Len(p) : p[i].turn \in 1 .. u - 1
    BY <2>1 DEF Core, TypeOK, Ordered, Order
  <2>3. h \in Seq(Messages) /\ Len(h) = 1 /\ h[1].turn = u /\ h[1].role = "human" /\ Unique(h)
    BY <2>1, MessagesAreTyped DEF Unique
  <2>4. /\ heard \in Seq(Messages) /\ \A i \in 1 .. Len(heard) : heard[i].turn = u /\ heard[i].role = "ai"
    <3>1. \A s \in BOOLEAN : IsReply(u, Ai(u, 0, s))
      BY <2>1, MessagesAreTyped, BoundsAssumption
    <3>2. Ai(u, 0, TRUE) \in Messages /\ Ai(u, 0, TRUE).turn = u /\ Ai(u, 0, TRUE).role = "ai"
      BY <3>1 DEF IsReply
    <3>6. \A m \in Messages : <<m>> \in Seq(Messages) /\ \A i \in 1 .. Len(<<m>>) : <<m>>[i] = m
      OBVIOUS
    <3>3. /\ <<Ai(u, 0, TRUE)>> \in Seq(Messages)
          /\ \A i \in 1 .. Len(<<Ai(u, 0, TRUE)>>) : <<Ai(u, 0, TRUE)>>[i] = Ai(u, 0, TRUE)
      BY <3>2, <3>6, Zenon
    <3>4. CASE spoke[u]
      BY <3>2, <3>3, <3>4
    <3>5. CASE ~spoke[u]
      BY <3>5
    <3> QED
      BY <3>4, <3>5
  <2>5. Unique(heard)
    BY <2>4 DEF Unique
  <2>6. Said(t) = (p \o h) \o heard
    BY <1>2 DEF Said
  <2> HIDE DEF p, h, heard
  <2>7. p \o h \in Seq(Messages) /\ Unique(p \o h)
    <3>1. \A i \in 1 .. Len(p), j \in 1 .. Len(h) : p[i].turn # h[j].turn
      BY <2>1, <2>2, <2>3
    <3> QED
      BY <2>2, <2>3, <3>1, UniqueJoined, ConcatProperties
  <2>8. Unique((p \o h) \o heard)
    BY <2>4, <2>5, <2>7, UniqueJoined
  <2>9. \A i \in 1 .. Len(p \o h) : (p \o h)[i].turn \in 1 .. t - 1
    <3>1. \A i \in 1 .. Len(p) : p[i].turn \in 1 .. t - 1
      BY <2>1, <2>2
    <3>2. \A i \in 1 .. Len(h) : h[i].turn \in 1 .. t - 1
      <4>1. \A i \in 1 .. Len(h) : h[i].turn = u
        BY <2>3
      <4>2. u \in 1 .. t - 1
        BY <1>2, <2>1, BoundsAssumption DEF Turns
      <4> QED
        BY <4>1, <4>2
    <3> QED
      BY <2>2, <2>3, <3>1, <3>2, EachOfJoined
  <2>10. \A i \in 1 .. Len(heard) : heard[i].turn \in 1 .. t - 1
    <3>1. u \in 1 .. t - 1
      BY <1>2, <2>1, BoundsAssumption DEF Turns
    <3> QED
      BY <2>4, <3>1
  <2>11. \A i \in 1 .. Len((p \o h) \o heard) : ((p \o h) \o heard)[i].turn \in 1 .. t - 1
    BY <2>4, <2>7, <2>9, <2>10, EachOfJoined
  <2> QED
    BY <2>6, <2>8, <2>11
<1> QED
  BY <1>1, <1>2

\* Turns begin in order.
LEMMA OrderedInductive ==
  ASSUME Core, Ordered, [Next]_vars
  PROVE  Ordered'
<1>0. Turns \subseteq Nat /\ \A t \in Turns : 1 .. t - 1 \subseteq Turns
  BY BoundsAssumption DEF Turns
<1>1. ASSUME NEW t \in Turns, Begin(t) PROVE Ordered'
  <2>1. /\ pc'[t] \in {"cold", "resolve"} /\ seed' = seed /\ ~seed[t]
        /\ \A u \in Turns \ {t} : pc'[u] = pc[u] /\ prior'[u] = prior[u]
        /\ prior'[t] \in {<<>>, Said(t)}
    BY <1>1 DEF Begin, Jump, Core, TypeOK, Ordered, Order, Stage
  <2>2. \A u \in 1 .. t - 1 : pc[u] # "idle"
    BY <1>0, <1>1 DEF Begin, Core, Stage
  <2>3. Unique(prior'[t]) /\ \A i \in 1 .. Len(prior'[t]) : prior'[t][i].turn \in 1 .. t - 1
    BY <2>1, SaidIsOrdered DEF Unique
  <2>4. Order(t)'
    BY <1>0, <2>1, <2>2, <2>3 DEF Order
  <2>5. ASSUME NEW u \in Turns \ {t} PROVE Order(u)'
    <3>1. Order(u)
      BY DEF Ordered
    <3>2. \A v \in 1 .. u - 1 : v \in Turns /\ (pc[v] # "idle" => pc'[v] # "idle")
      BY <1>0, <2>1
    <3> QED
      BY <2>1, <3>1, <3>2 DEF Order
  <2> QED
    BY <2>4, <2>5 DEF Ordered
<1>2. ASSUME NEW t \in Turns, Works(t) PROVE Ordered'
  <2>1. /\ prior' = prior /\ pc[t] # "idle" /\ pc'[t] \notin {"idle", "cold"}
        /\ \A u \in Turns \ {t} : pc'[u] = pc[u] /\ seed'[u] = seed[u]
    <3>1. \A u \in Turns \ {t} : pc'[u] = pc[u] /\ seed'[u] = seed[u]
      BY <1>2, OthersStay
    <3>2. CASE Unresolved(t) \/ Breaks(t) \/ Final(t) \/ Cold(t) \/ Scripted(t)
      BY <3>1, <3>2 DEF Unresolved, Breaks, Final, Cold, Scripted, Stops, Jump, visit, Core, TypeOK
    <3>3. CASE Start(t) \/ Check(t) \/ Reply(t) \/ Reasoned(t)
      BY <3>1, <3>3 DEF Start, Check, Reply, Reasoned, Jump, visit, Core, TypeOK
    <3>4. CASE Tools(t)
      <4>1. PICK msgs \in Seq(Messages) :
               Stops(t, <<"error">>) \/ pc' = [pc EXCEPT ![t] = AfterTools(msgs)]
        BY <3>4, ToolsSteps
      <4>2. pc'[t] \in {"over", "final", "reason"}
        BY <4>1 DEF Stops, Jump, AfterTools, Core, TypeOK
      <4> QED
        BY <3>1, <3>4, <4>2 DEF Tools, visit
    <3> QED
      BY <1>2, <3>2, <3>3, <3>4 DEF Works
  <2>2. ASSUME NEW u \in Turns PROVE Order(u)'
    <3>1. Order(u)
      BY DEF Ordered
    <3>2. \A v \in 1 .. u - 1 : v \in Turns /\ (pc[v] # "idle" => pc'[v] # "idle")
      BY <1>0, <2>1
    <3> QED
      BY <2>1, <3>1, <3>2 DEF Order
  <2> QED
    BY <2>2 DEF Ordered
<1>3. ASSUME NEW t \in Turns, Delivers(t) \/ Leave(t) PROVE Ordered'
  <2>1. UNCHANGED <<pc, seed, prior>>
    BY <1>3 DEF Delivers, Forward, Close, HangUp, Writes, Leave, run, visit
  <2> QED
    BY <2>1 DEF Ordered, Order, Unique
<1>4. ASSUME NEW t \in Turns, Notice(t) PROVE Ordered'
  <2>1. /\ UNCHANGED <<seed, prior>> /\ pc'[t] = "over" /\ \A u \in Turns \ {t} : pc'[u] = pc[u]
    BY <1>4 DEF Notice, Jump, visit, Core, TypeOK
  <2>2. pc[t] # "idle"
    BY <1>4 DEF Notice, Core, Stage
  <2>3. ASSUME NEW u \in Turns PROVE Order(u)'
    <3>1. Order(u)
      BY DEF Ordered
    <3>2. \A v \in 1 .. u - 1 : v \in Turns /\ (pc[v] # "idle" => pc'[v] # "idle")
      BY <1>0, <2>1
    <3> QED
      BY <2>1, <2>2, <3>1, <3>2 DEF Order
  <2> QED
    BY <2>3 DEF Ordered
<1>5. CASE Restart
  <2>1. /\ prior' = prior /\ \A u \in Turns : ~seed'[u] /\ (pc'[u] = "idle" <=> pc[u] = "idle")
    BY <1>5 DEF Restart, visit
  <2>2. ASSUME NEW u \in Turns PROVE Order(u)'
    <3>1. Order(u) /\ 1 .. u - 1 \subseteq Turns
      BY <1>0 DEF Ordered
    <3> QED
      BY <2>1, <3>1 DEF Order
  <2> QED
    BY <2>2 DEF Ordered
<1>6. CASE UNCHANGED vars
  BY <1>6 DEF vars, visit, run, Ordered, Order, Unique
<1> QED
  BY <1>1, <1>2, <1>3, <1>4, <1>5, <1>6 DEF Next

\* What a turn's step has to keep when no other is alive.
LEMMA AloneStep ==
  ASSUME Core, Alone, NEW t \in Turns, Live(t), pc'[t] \in Stages,
         \A u \in Turns \ {t} : pc'[u] = pc[u] /\ mem'[u] = mem[u] /\ seed'[u] = seed[u],
         pc'[t] \in Working => mem'[t].msgs = thread',
         pc'[t] = "resolve" /\ seed'[t] => thread' = <<>>,
         Unique(thread'), \A i \in 1 .. Len(thread') : thread'[i].turn \in Started'
  PROVE  Alone'
<1>1. \A u \in Turns \ {t} : ~Live(u)
  BY DEF Alone, OneLive
<1>2. \A u \in Turns \ {t} : pc'[u] \in {"idle", "over"}
  BY <1>1 DEF Live
<1>3. OneLive'
  BY <1>2 DEF OneLive, Live
<1>4. InThread'
  BY DEF InThread
<1>5. \A u \in Turns \ {t} : pc'[u] \notin Working /\ pc'[u] # "resolve"
  BY <1>2 DEF Working
<1> QED
  BY <1>3, <1>4, <1>5 DEF Alone

\* A turn that has begun its run stays one that has.
LEMMA StartedStays ==
  ASSUME Core, NEW t \in Turns, pc[t] \in {"idle", "cold", "resolve"} \/ pc'[t] \notin {"idle", "cold", "resolve"},
         \A u \in Turns \ {t} : pc'[u] = pc[u]
  PROVE  Started \subseteq Started'
BY DEF Started

\* Only the turn's own messages are added, in a run that has begun, and no question
\* but the turn's first.
LEMMA OwnAreUnique ==
  ASSUME NEW t \in Turns, NEW r \in Seq(Messages),
         \A i \in 1 .. Len(r) : r[i].turn = t /\ r[i].role # "human"
  PROVE  Unique(r)
BY DEF Unique

LEMMA ThreadGrows ==
  ASSUME Core, Alone, NEW r \in Seq(Messages), Unique(r), thread' = thread \o r,
         Started \subseteq Started', \A i \in 1 .. Len(r) : r[i].turn \in Started',
         \A i \in 1 .. Len(thread), j \in 1 .. Len(r) : r[j].role = "human" => thread[i].turn # r[j].turn
  PROVE  /\ Unique(thread') /\ \A i \in 1 .. Len(thread') : thread'[i].turn \in Started'
         /\ IsPrefix(thread, thread')
<1>1. thread \in Seq(Messages) /\ Unique(thread) /\ \A i \in 1 .. Len(thread) : thread[i].turn \in Started'
  BY DEF Core, TypeOK, Alone, InThread
<1>2. Unique(thread \o r)
  BY <1>1, UniqueJoined
<1>3. \A i \in 1 .. Len(thread \o r) : (thread \o r)[i].turn \in Started'
  BY <1>1, EachOfJoined
<1>4. IsPrefix(thread, thread \o r)
  BY <1>1, PrefixOfJoined
<1> QED
  BY <1>2, <1>3, <1>4

LEMMA PrefixOfItself ==
  ASSUME NEW S, NEW s \in Seq(S)
  PROVE  IsPrefix(s, s)
BY DEF IsPrefix

\* What each step makes of the thread.
Goes == IsPrefix(thread, thread') /\ Alone'

LEMMA StopsGoes ==
  ASSUME Core, Ordered, Alone, NEW t \in Turns,
         Unresolved(t) \/ Breaks(t) \/ Final(t) \/ Cold(t) \/ Reply(t)
  PROVE  Goes
<1>1. Live(t) /\ thread' = thread
  BY DEF Unresolved, Breaks, Final, Cold, Reply, Live, checkpoint
<1>2. \A u \in Turns \ {t} : pc'[u] = pc[u] /\ mem'[u] = mem[u] /\ seed'[u] = seed[u]
  BY OthersStay DEF Works
<1>3. \/ pc'[t] = "over"
      \/ pc[t] = "cold" /\ pc'[t] = "resolve" /\ (seed'[t] => thread = <<>>)
      \/ pc[t] = "reason" /\ pc'[t] = "reasoned" /\ mem'[t] = mem[t]
  BY DEF Ordered, Order, Unresolved, Breaks, Final, Cold, Reply, Stops, Jump, Core, TypeOK
<1>4. thread \in Seq(Messages)
  BY DEF Core, TypeOK
<1>5. Started \subseteq Started'
  BY <1>2, <1>3, StartedStays
<1>6. Unique(thread') /\ \A i \in 1 .. Len(thread') : thread'[i].turn \in Started'
  BY <1>1, <1>5 DEF Alone, InThread, Unique
<1>7. pc'[t] \in Working => mem'[t].msgs = thread'
  BY <1>1, <1>3 DEF Alone, Working
<1>8. pc'[t] = "resolve" /\ seed'[t] => thread' = <<>>
  BY <1>1, <1>3
<1> QED
  BY <1>1, <1>2, <1>3, <1>4, <1>6, <1>7, <1>8, AloneStep, PrefixOfItself DEF Goes, Stages

LEMMA ScriptedGoes ==
  ASSUME Core, Alone, NEW t \in Turns, Scripted(t)
  PROVE  Goes
<1> DEFINE r == <<Human(t), Ai(t, 0, TRUE)>>
<1>1. pc[t] = "resolve" /\ pc'[t] = "final" /\ Live(t)
  BY DEF Scripted, Jump, Live, Core, TypeOK
<1>2. \A u \in Turns \ {t} : pc'[u] = pc[u] /\ mem'[u] = mem[u] /\ seed'[u] = seed[u]
  BY OthersStay DEF Works
<1>3. Started \subseteq Started' /\ t \in Started' /\ t \notin Started
  BY <1>1, <1>2, StartedStays DEF Started
<1>4. thread \in Seq(Messages)
  BY DEF Core, TypeOK
<1>5. CASE thread' = thread
  <2>1. Unique(thread') /\ \A i \in 1 .. Len(thread') : thread'[i].turn \in Started'
    BY <1>3, <1>5 DEF Alone, InThread, Unique
  <2> QED
    BY <1>1, <1>2, <1>4, <1>5, <2>1, AloneStep, PrefixOfItself DEF Goes, Stages, Working
<1>6. CASE thread' = thread \o r
  <2>1. /\ Human(t) \in Messages /\ Human(t).turn = t /\ Human(t).role = "human"
        /\ Ai(t, 0, TRUE) \in Messages /\ Ai(t, 0, TRUE).turn = t /\ Ai(t, 0, TRUE).role = "ai"
    <3>1. \A s \in BOOLEAN : IsReply(t, Ai(t, 0, s))
      BY MessagesAreTyped, BoundsAssumption
    <3> QED
      BY <3>1, MessagesAreTyped DEF IsReply
  <2>2. \A x, y \in Messages : /\ <<x, y>> \in Seq(Messages) /\ Len(<<x, y>>) = 2
                               /\ <<x, y>>[1] = x /\ <<x, y>>[2] = y
    OBVIOUS
  <2>3. r \in Seq(Messages) /\ Len(r) = 2 /\ r[1] = Human(t) /\ r[2] = Ai(t, 0, TRUE)
    BY <2>1, <2>2, Zenon
  <2> HIDE DEF r
  <2>4. Unique(r) /\ \A i \in 1 .. Len(r) : r[i].turn = t
    <3>1. 1 .. Len(r) = {1, 2}
      BY <2>3
    <3>2. \A i \in {1, 2} : r[i].turn = t /\ (r[i].role = "human" => i = 1)
      BY <2>1, <2>3
    <3> QED
      BY <3>1, <3>2 DEF Unique
  <2>5. \A i \in 1 .. Len(thread), j \in 1 .. Len(r) : thread[i].turn # r[j].turn
    BY <1>3, <2>4 DEF Alone, InThread
  <2>6. /\ Unique(thread') /\ \A i \in 1 .. Len(thread') : thread'[i].turn \in Started'
        /\ IsPrefix(thread, thread')
    BY <1>3, <1>6, <2>3, <2>4, <2>5, ThreadGrows
  <2> QED
    BY <1>1, <1>2, <2>6, AloneStep DEF Goes, Stages, Working
<1> QED
  BY <1>5, <1>6 DEF Scripted

\* The question, and before it what Vapi tells of the turns before if there is nothing
\* of them in the thread.
LEMMA StartGoes ==
  ASSUME Core, Ordered, Alone, NEW t \in Turns, Start(t)
  PROVE  Goes
<1> DEFINE given == IF seed[t] THEN prior[t] ELSE <<>>
           h == <<Human(t)>>
<1>0. Turns \subseteq Nat /\ 1 .. t - 1 \subseteq Turns /\ t \notin 1 .. t - 1
  BY BoundsAssumption DEF Turns
<1>1. /\ pc[t] = "resolve" /\ pc'[t] = "check" /\ Live(t) /\ thread \in Seq(Messages)
  BY DEF Start, Jump, Live, Core, TypeOK
<1>2. \A u \in Turns \ {t} : pc'[u] = pc[u] /\ mem'[u] = mem[u] /\ seed'[u] = seed[u]
  BY OthersStay DEF Works
<1>3. Started \subseteq Started' /\ t \in Started' /\ t \notin Started
  BY <1>1, <1>2, StartedStays DEF Started
<1>4. PICK msgs : msgs = thread \o given \o h
  OBVIOUS
<1>5. msgs \in Seq(Messages) /\ Saves(t, msgs, emergency) /\ emergency \in BOOLEAN
  BY <1>4, StartedMessages DEF Start, Core, TypeOK
<1>6. mem'[t].msgs = msgs /\ thread' = msgs
  BY <1>5, SavesKeeps
<1>7. h \in Seq(Messages) /\ Len(h) = 1 /\ h[1].turn = t /\ h[1].role = "human" /\ Unique(h)
  BY MessagesAreTyped DEF Unique
<1>8. given \in Seq(Messages) /\ Unique(given) /\ \A i \in 1 .. Len(given) : given[i].turn \in 1 .. t - 1
  BY DEF Core, TypeOK, Ordered, Order, Unique
<1>9. 1 .. t - 1 \subseteq Started'
  <2> SUFFICES ASSUME NEW u \in 1 .. t - 1 PROVE u \in Started'
    OBVIOUS
  <2>1. u \in Turns \ {t} /\ pc[u] # "idle" /\ ~Live(u)
    BY <1>0, <1>1 DEF Ordered, Order, Alone, OneLive
  <2> QED
    BY <1>2, <2>1 DEF Started, Live
<1>10. given # <<>> => thread = <<>>
  BY <1>1 DEF Alone
<1> HIDE DEF given, h
<1>11. given \o h \in Seq(Messages) /\ Unique(given \o h)
  <2>1. \A i \in 1 .. Len(given), j \in 1 .. Len(h) : given[i].turn # h[j].turn
    BY <1>0, <1>7, <1>8
  <2> QED
    BY <1>7, <1>8, <2>1, UniqueJoined, ConcatProperties
<1>12. \A i \in 1 .. Len(given \o h) : (given \o h)[i].turn \in Started'
  <2>1. \A i \in 1 .. Len(given) : given[i].turn \in Started'
    BY <1>8, <1>9
  <2>2. \A i \in 1 .. Len(h) : h[i].turn \in Started'
    BY <1>3, <1>7
  <2> QED
    BY <1>7, <1>8, <2>1, <2>2, EachOfJoined
<1>13. msgs = thread \o (given \o h)
  BY <1>1, <1>4, <1>7, <1>8, ConcatAssociative
<1>14. \A i \in 1 .. Len(thread), j \in 1 .. Len(given \o h) : thread[i].turn # (given \o h)[j].turn
  <2>1. CASE thread = <<>>
    BY <2>1
  <2>2. CASE given = <<>>
    <3>1. given \o h = h
      BY <1>7, <2>2
    <3>2. \A i \in 1 .. Len(thread) : thread[i].turn # t
      BY <1>3 DEF Alone, InThread
    <3> QED
      BY <1>7, <3>1, <3>2, SMTT(30)
  <2> QED
    BY <1>10, <2>1, <2>2
<1>15. /\ Unique(thread') /\ \A i \in 1 .. Len(thread') : thread'[i].turn \in Started'
       /\ IsPrefix(thread, thread')
  BY <1>3, <1>6, <1>11, <1>12, <1>13, <1>14, ThreadGrows
<1> QED
  BY <1>1, <1>2, <1>6, <1>15, AloneStep DEF Goes, Stages

\* The run goes on from what is in the thread.
LEMMA CheckGoes ==
  ASSUME Core, Alone, NEW t \in Turns, Check(t)
  PROVE  Goes
<1>1. pc[t] = "check" /\ pc'[t] = "reason" /\ Live(t) /\ thread \in Seq(Messages)
  BY DEF Check, Jump, Live, Core, TypeOK
<1>2. \A u \in Turns \ {t} : pc'[u] = pc[u] /\ mem'[u] = mem[u] /\ seed'[u] = seed[u]
  BY OthersStay DEF Works
<1>3. Started \subseteq Started'
  BY <1>1, <1>2, StartedStays
<1>4. PICK urgent \in BOOLEAN : Saves(t, mem[t].msgs, mem[t].emergency \/ urgent)
  BY DEF Check
<1>5. mem[t].msgs \in Seq(Messages) /\ (mem[t].emergency \/ urgent) \in BOOLEAN
  BY DEF Core, TypeOK
<1>6. mem'[t].msgs = mem[t].msgs /\ thread' = mem[t].msgs
  BY <1>4, <1>5, SavesKeeps
<1>7. thread' = thread
  BY <1>1, <1>6 DEF Alone, Working
<1>8. Unique(thread') /\ \A i \in 1 .. Len(thread') : thread'[i].turn \in Started'
  BY <1>3, <1>7 DEF Alone, InThread, Unique
<1> QED
  BY <1>1, <1>2, <1>6, <1>7, <1>8, AloneStep, PrefixOfItself DEF Goes, Stages

\* A turn in its run adds messages of its own, none of them a question.
LEMMA RunGoes ==
  ASSUME Core, Alone, NEW t \in Turns, pc[t] \in Working, pc'[t] \in Stages \ {"idle", "cold", "resolve"},
         \A u \in Turns \ {t} : pc'[u] = pc[u] /\ mem'[u] = mem[u] /\ seed'[u] = seed[u],
         NEW r \in Seq(Messages), \A i \in 1 .. Len(r) : r[i].turn = t /\ r[i].role # "human",
         thread' = mem[t].msgs \o r, pc'[t] \in Working => mem'[t].msgs = thread'
  PROVE  Goes
<1>1. Live(t) /\ mem[t].msgs = thread
  BY DEF Live, Working, Alone
<1>2. Started \subseteq Started' /\ t \in Started'
  BY StartedStays DEF Started
<1>3. Unique(r)
  BY OwnAreUnique
<1>4. /\ Unique(thread') /\ \A i \in 1 .. Len(thread') : thread'[i].turn \in Started'
      /\ IsPrefix(thread, thread')
  BY <1>1, <1>2, <1>3, ThreadGrows
<1> QED
  BY <1>1, <1>4, AloneStep DEF Goes

LEMMA ReasonedGoes ==
  ASSUME Core, Alone, NEW t \in Turns, Reasoned(t)
  PROVE  Goes
<1> DEFINE r == <<draft[t]>>
<1>0. pc[t] = "reasoned" /\ pc'[t] \in {"tools", "final"}
  BY DEF Reasoned, Jump, Core, TypeOK
<1>1. PICK msgs : msgs = mem[t].msgs \o r
  OBVIOUS
<1>2. msgs \in Seq(Messages) /\ msgs = Append(mem[t].msgs, draft[t]) /\ IsReply(t, draft[t])
  BY <1>0, <1>1, ReasonedMessages
<1>3. Saves(t, msgs, mem[t].emergency) /\ mem[t].emergency \in BOOLEAN
  BY <1>2 DEF Reasoned, Core, TypeOK
<1>4. mem'[t].msgs = msgs /\ thread' = msgs
  BY <1>2, <1>3, SavesKeeps
<1>5. r \in Seq(Messages) /\ \A i \in 1 .. Len(r) : r[i].turn = t /\ r[i].role # "human"
  BY <1>2 DEF IsReply
<1>6. \A u \in Turns \ {t} : pc'[u] = pc[u] /\ mem'[u] = mem[u] /\ seed'[u] = seed[u]
  BY OthersStay DEF Works
<1> HIDE DEF r
<1> QED
  BY <1>0, <1>1, <1>4, <1>5, <1>6, RunGoes DEF Working, Stages

LEMMA ToolsGoes ==
  ASSUME Core, Alone, NEW t \in Turns, Tools(t)
  PROVE  Goes
<1>0. pc[t] = "tools"
  BY DEF Tools
<1>1. PICK g \in Answers(Last(mem[t].msgs).calls), msgs \in Seq(Messages) :
           /\ msgs = mem[t].msgs \o [i \in DOMAIN g |-> Tool(t, g[i])]
           /\ thread' = msgs /\ emergency' \in BOOLEAN /\ spoke' \in [Turns -> BOOLEAN]
           /\ \A u \in Turns \ {t} : spoke'[u] = spoke[u]
           /\ \/ Stops(t, <<"error">>)
              \/ /\ mem' = [mem EXCEPT ![t].msgs = msgs]
                 /\ pc' = [pc EXCEPT ![t] = AfterTools(msgs)]
                 /\ UNCHANGED <<seed, draft, out>>
  BY ToolsSteps
<1> DEFINE r == [i \in DOMAIN g |-> Tool(t, g[i])]
<1>2. r \in Seq(Messages) /\ \A i \in 1 .. Len(r) : r[i] = Tool(t, g[i]) /\ g[i] \in Gives
  BY <1>0, ToolsMessages
<1>3. thread' = mem[t].msgs \o r
  BY <1>1
<1> HIDE DEF r
<1>4. \A i \in 1 .. Len(r) : r[i].turn = t /\ r[i].role # "human"
  BY <1>2, MessagesAreTyped
<1>5. \A u \in Turns \ {t} : pc'[u] = pc[u] /\ mem'[u] = mem[u] /\ seed'[u] = seed[u]
  BY OthersStay DEF Works
<1>6. /\ pc'[t] \in {"over", "final", "reason"} /\ (pc'[t] \in Working => mem'[t].msgs = thread')
  <2>1. CASE Stops(t, <<"error">>)
    BY <2>1 DEF Stops, Jump, Core, TypeOK, Working
  <2>2. CASE mem' = [mem EXCEPT ![t].msgs = msgs] /\ pc' = [pc EXCEPT ![t] = AfterTools(msgs)]
    BY <1>1, <2>2 DEF AfterTools, Core, TypeOK
  <2> QED
    BY <1>1, <2>1, <2>2
<1> QED
  BY <1>0, <1>2, <1>3, <1>4, <1>5, <1>6, RunGoes DEF Working, Stages

\* Nothing of the run moves, a run is cut off, or another turn begins when none is alive.
LEMMA OutsideGoes ==
  ASSUME Core, Ordered, Alone, NEW t \in Turns, ~overlapped',
         Delivers(t) \/ Leave(t) \/ Notice(t) \/ Begin(t)
  PROVE  Goes
<1>0. thread \in Seq(Messages) /\ IsPrefix(thread, thread)
  BY PrefixOfItself DEF Core, TypeOK
<1>1. CASE Delivers(t) \/ Leave(t)
  <2>1. UNCHANGED <<thread, pc, mem, seed>>
    BY <1>1 DEF Delivers, Forward, Close, HangUp, Writes, Leave, run, checkpoint
  <2> QED
    BY <1>0, <2>1 DEF Goes, Alone, OneLive, Live, InThread, Started, Unique
<1>2. CASE Notice(t)
  <2>1. /\ UNCHANGED <<thread, seed>> /\ pc'[t] = "over"
        /\ \A u \in Turns \ {t} : pc'[u] = pc[u] /\ mem'[u] = mem[u]
    BY <1>2 DEF Notice, Jump, checkpoint, Core, TypeOK
  <2>2. Started \subseteq Started'
    BY <2>1, StartedStays
  <2> QED
    BY <1>0, <2>1, <2>2 DEF Goes, Alone, OneLive, Live, InThread, Unique, Working
<1>3. CASE Begin(t)
  <2>1. \A u \in Turns : ~Live(u)
    BY <1>3 DEF Begin
  <2>2. /\ UNCHANGED <<thread, seed, mem>> /\ pc'[t] \in {"cold", "resolve"} /\ pc[t] = "idle"
        /\ \A u \in Turns \ {t} : pc'[u] = pc[u]
    BY <1>3 DEF Begin, Jump, checkpoint, Core, TypeOK, Stage
  <2>3. ~seed[t]
    BY <2>2 DEF Ordered, Order
  <2>4. Started \subseteq Started'
    BY <2>2, StartedStays
  <2>5. OneLive'
    BY <2>1, <2>2 DEF OneLive, Live
  <2>6. \A u \in Turns : /\ pc'[u] \notin Working
                         /\ ~(pc'[u] = "resolve" /\ seed'[u])
    BY <2>1, <2>2, <2>3 DEF Live, Working
  <2> QED
    BY <1>0, <2>2, <2>4, <2>5, <2>6 DEF Goes, Alone, InThread, Unique
<1> QED
  BY <1>1, <1>2, <1>3

LEMMA RestartGoes ==
  ASSUME Core, Alone, Restart
  PROVE  Alone' /\ (IsPrefix(thread, thread') \/ Lost)
<1>0. thread \in Seq(Messages) /\ IsPrefix(thread, thread) /\ faults \in Nat
  BY PrefixOfItself, BoundsAssumption DEF Core, TypeOK
<1>1. \A u \in Turns : pc'[u] = IF pc[u] = "idle" THEN "idle" ELSE "over"
  BY DEF Restart
<1>2. Started \subseteq Started' /\ OneLive'
  BY <1>1 DEF Started, OneLive, Live
<1>3. \A u \in Turns : pc'[u] \notin Working /\ pc'[u] # "resolve"
  BY <1>1 DEF Working
<1>4. CASE thread' = thread
  BY <1>0, <1>2, <1>3, <1>4 DEF Alone, InThread, Unique
<1>5. CASE thread' = <<>> /\ emergency' = FALSE
  <2>1. Lost
    BY <1>0, <1>5 DEF Lost, Restart, Fault
  <2> QED
    BY <1>2, <1>3, <1>5, <2>1 DEF Alone, InThread, Unique
<1> QED
  BY <1>4, <1>5 DEF Restart, checkpoint

AloneInv == ~overlapped => Alone

LEMMA StepGoes ==
  ASSUME Core, Ordered, Alone, ~overlapped', [Next]_vars
  PROVE  Alone' /\ (IsPrefix(thread, thread') \/ Lost)
<1>1. ASSUME NEW t \in Turns, Begin(t) \/ Works(t) \/ Delivers(t) \/ Leave(t) \/ Notice(t)
      PROVE  Goes
  BY <1>1, StopsGoes, ScriptedGoes, StartGoes, CheckGoes, ReasonedGoes, ToolsGoes, OutsideGoes, Zenon
     DEF Works
<1>2. CASE UNCHANGED vars
  <2>1. IsPrefix(thread, thread)
    BY PrefixOfItself DEF Core, TypeOK
  <2> QED
    BY <1>2, <2>1 DEF vars, run, checkpoint, Alone, OneLive, Live, InThread, Started, Unique
<1> QED
  BY <1>1, <1>2, RestartGoes DEF Next, Goes

LEMMA OrderedAlways == Spec => []Ordered
<1>1. Init => Ordered
  BY DEF Init, Ordered, Order, Unique
<1>2. Core /\ Ordered /\ [Next]_vars => Ordered'
  BY OrderedInductive
<1> QED
  BY <1>1, <1>2, CoreAlways, PTL DEF Spec

\* That turns ran at once is not forgotten, and a step that finds it out leaves the
\* thread.
LEMMA OverlapStays ==
  ASSUME Core, [Next]_vars
  PROVE  \/ overlapped' = overlapped
         \/ overlapped' /\ thread' = thread
<1>1. ASSUME NEW t \in Turns, Begin(t) \/ Works(t) \/ Delivers(t) \/ Leave(t) \/ Notice(t)
      PROVE  overlapped' = overlapped \/ (overlapped' /\ thread' = thread)
  <2>1. CASE Begin(t)
    <3>1. overlapped' = (overlapped \/ \E u \in Turns : Live(u)) /\ overlapped \in BOOLEAN
      BY <2>1 DEF Begin, Core, TypeOK
    <3>2. thread' = thread
      BY <2>1 DEF Begin, checkpoint
    <3>3. CASE \E u \in Turns : Live(u)
      BY <3>1, <3>2, <3>3
    <3>4. CASE ~ \E u \in Turns : Live(u)
      BY <3>1, <3>4
    <3> QED
      BY <3>3, <3>4
  <2>2. CASE Unresolved(t) \/ Breaks(t) \/ Final(t) \/ Cold(t) \/ Scripted(t)
    BY <2>2, Zenon DEF Unresolved, Breaks, Final, Cold, Scripted, history
  <2>3. CASE Start(t) \/ Check(t) \/ Reply(t) \/ Reasoned(t) \/ Tools(t)
    BY <2>3 DEF Start, Check, Reply, Reasoned, Tools, history
  <2>4. CASE Delivers(t)
    BY <2>4 DEF Delivers, Forward, Close, HangUp, Writes, history
  <2>5. CASE Leave(t) \/ Notice(t)
    BY <2>5 DEF Leave, Notice, history
  <2> QED
    BY <1>1, <2>1, <2>2, <2>3, <2>4, <2>5 DEF Works
<1>2. CASE Restart
  BY <1>2 DEF Restart, history
<1>3. CASE UNCHANGED vars
  BY <1>3 DEF vars, history
<1> QED
  BY <1>1, <1>2, <1>3 DEF Next

LEMMA AloneAlways == Spec => []AloneInv
<1>1. Init => AloneInv
  <2> SUFFICES ASSUME Init PROVE Alone
    BY DEF AloneInv
  <2>1. \A t \in Turns : pc[t] = "idle"
    BY DEF Init
  <2>2. thread = <<>>
    BY DEF Init
  <2> QED
    BY <2>1, <2>2 DEF Alone, OneLive, Live, InThread, Unique, Working
<1>2. Core /\ Ordered /\ AloneInv /\ [Next]_vars => AloneInv'
  <2> SUFFICES ASSUME Core, Ordered, AloneInv, [Next]_vars, ~overlapped' PROVE Alone'
    BY DEF AloneInv
  <2>1. ~overlapped
    BY OverlapStays
  <2> QED
    BY <2>1, StepGoes DEF AloneInv
<1> QED
  BY <1>1, <1>2, CoreAlways, OrderedAlways, PTL DEF Spec

\* vapi_llm.py:86-88: the transcript is put in a cold thread only, so where turns do not
\* overlap no turn is in the thread twice.
THEOREM NoTurnIsEchoed == Spec => []NoEcho
<1>1. AloneInv => NoEcho
  BY DEF AloneInv, Alone, Unique, NoEcho
<1> QED
  BY <1>1, AloneAlways, PTL

\* Where turns do not overlap the thread only grows: through turns that end, break, are
\* scripted or are cut off, and through restarts with a durable checkpointer.
THEOREM ThreadOnlyGrows == Spec => NothingForgotten
<1>1. Core /\ Ordered /\ AloneInv /\ [Next]_vars =>
        [overlapped \/ IsPrefix(thread, thread') \/ Lost]_vars
  <2> SUFFICES ASSUME Core, Ordered, AloneInv, [Next]_vars, ~overlapped
               PROVE  IsPrefix(thread, thread') \/ Lost
    OBVIOUS
  <2>1. CASE overlapped' = overlapped
    BY <2>1, StepGoes DEF AloneInv
  <2>2. CASE thread' = thread
    BY <2>2, PrefixOfItself DEF Core, TypeOK
  <2> QED
    BY <2>1, <2>2, OverlapStays
<1> QED
  BY <1>1, CoreAlways, OrderedAlways, AloneAlways, PTL DEF Spec, NothingForgotten
=============================================================================
