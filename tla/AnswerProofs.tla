------------------------------ MODULE AnswerProofs -----------------------------
(***************************************************************************)
(* Theorems about what a caller is told: the words the filter lets through *)
(* to the voice, for any text in any chunks, and the times that are        *)
(* offered, for any opening hours, granularity, lead time and appointments.*)
(***************************************************************************)
EXTENDS MarkupFilter, Availability, FiniteSetTheorems, WellFoundedInduction, TLAPS

-----------------------------------------------------------------------------
(* Induction over a set of numbers.                                        *)

\* The least of some numbers, by the well-foundedness of inclusion.
LEMMA LeastOf ==
  ASSUME NEW S, S \subseteq Nat, S # {}
  PROVE  \E i \in S : \A j \in S : i <= j
<1> DEFINE R == StrictSubsetOrdering(Nat)
           Below == {0 .. i : i \in S}
<1>1. IsWellFoundedOn(R, FiniteSubsetsOf(Nat))
  BY FS_StrictSubsetOrderingWellFounded
<1>2. Below \subseteq FiniteSubsetsOf(Nat) /\ Below # {}
  <2>1. \A i \in S : IsFiniteSet(0 .. i) /\ 0 .. i \subseteq Nat
    BY FS_Interval
  <2> QED
    BY <2>1 DEF FiniteSubsetsOf
<1>3. PICK x \in Below : \A y \in Below : <<y, x>> \notin R
  <2> HIDE DEF R, Below
  <2> QED
    BY <1>1, <1>2, WFMin
<1>4. PICK i \in S : x = 0 .. i
  OBVIOUS
<1>5. ASSUME NEW j \in S, j < i PROVE FALSE
  <2>1. 0 .. j \subseteq 0 .. i /\ i \in 0 .. i /\ i \notin 0 .. j
    BY <1>5
  <2>2. <<0 .. j, x>> \in R
    BY <1>4, <2>1 DEF StrictSubsetOrdering
  <2> QED
    BY <1>3, <2>2
<1> QED
  BY <1>5

\* From a on, one by one, up to b: induction over a set of numbers.
LEMMA Climb ==
  ASSUME NEW G, NEW a \in Nat, NEW b \in Nat, a \in G,
         \A n \in a .. b - 1 : n \in G => n + 1 \in G
  PROVE  \A n \in a .. b : n \in G
<1> DEFINE Out == {n \in a .. b : n \notin G}
<1>1. CASE Out = {}
  BY <1>1
<1>2. CASE Out # {}
  <2>1. Out \subseteq Nat
    OBVIOUS
  <2>2. PICK n \in Out : \A k \in Out : n <= k
    <3> HIDE DEF Out
    <3> QED
      BY <1>2, <2>1, LeastOf
  <2>3. n # a /\ n - 1 \in a .. b - 1 /\ n - 1 \notin Out
    BY <2>2
  <2> QED
    BY <2>2, <2>3
<1> QED
  BY <1>1, <1>2

-----------------------------------------------------------------------------
(* The words let through.                                                  *)


LEMMA PlacesAre ==
  ASSUME NEW text \in Seq(Symbols), NEW tag \in {OpenTag, CloseTag}
  PROVE  Places(tag, text) = {i \in 1 .. Len(text) - 1 : text[i] = tag[1] /\ text[i + 1] = tag[2]}
<1>1. ASSUME NEW i \in 1 .. Len(text) - 1
      PROVE  SubSeq(text, i, i + 1) = tag <=> text[i] = tag[1] /\ text[i + 1] = tag[2]
  <2>1. /\ SubSeq(text, i, i + 1) \in Seq(Symbols) /\ Len(SubSeq(text, i, i + 1)) = 2
        /\ SubSeq(text, i, i + 1)[1] = text[i] /\ SubSeq(text, i, i + 1)[2] = text[i + 1]
    BY <1>1
  <2> DEFINE cut == SubSeq(text, i, i + 1)
  <2>2. tag \in Seq({"<", "f", "/"}) /\ Len(tag) = 2
    <3>1. /\ \A a, b \in {"<", "f", "/"} : <<a, b>> \in Seq({"<", "f", "/"})
          /\ \A a, b \in {"<", "f", "/"} : Len(<<a, b>>) = 2
      OBVIOUS
    <3> QED
      BY <3>1 DEF OpenTag, CloseTag
  <2>3. ASSUME cut[1] = tag[1], cut[2] = tag[2] PROVE cut = tag
    <3>1. \A j \in 1 .. 2 : cut[j] = tag[j]
      <4> HIDE DEF cut
      <4> QED
        BY <2>3
    <3>2. Len(cut) = Len(tag)
      BY <2>1, <2>2
    <3>3. \A j \in 1 .. Len(cut) : cut[j] = tag[j]
      BY <2>1, <3>1, Zenon
    <3>4. cut \in Seq(Symbols \cup {"<", "f", "/"}) /\ tag \in Seq(Symbols \cup {"<", "f", "/"})
      <4>1. cut \in Seq(Symbols) /\ tag \in Seq({"<", "f", "/"})
        BY <2>1, <2>2, Zenon
      <4> HIDE DEF cut
      <4> QED
        BY <4>1
    <3> HIDE DEF cut
    <3> QED
      BY <3>2, <3>3, <3>4
  <2> QED
    BY <2>1, <2>3
<1> QED
  BY <1>1 DEF Places

\* The tags begin alike and end differently.
LEMMA Tags == /\ OpenTag[1] = "<" /\ OpenTag[2] = "f" /\ CloseTag[1] = "<" /\ CloseTag[2] = "/"
              /\ "<" # "f" /\ "<" # "/" /\ "f" # "/"
BY DEF OpenTag, CloseTag

\* What Kept is, at each symbol.
LEMMA KeptIs ==
  ASSUME NEW text \in Seq(Symbols)
  PROVE  /\ Kept(text)[0] = <<>>
         /\ \A n \in 0 .. Len(text) - 1 :
              /\ n + 1 \in Markup(text) => Kept(text)[n + 1] = Kept(text)[n]
              /\ n + 1 \notin Markup(text) => Kept(text)[n + 1] = Append(Kept(text)[n], text[n + 1])
<1> DEFINE Cut == Markup(text)
           Grow(f, n) == IF n = 0 THEN <<>> ELSE IF n \in Cut THEN f[n - 1] ELSE Append(f[n - 1], text[n])
           Fits(f, m) == f = [n \in 0 .. m |-> Grow(f, n)]
           Has == {m \in Nat : \E f : Fits(f, m)}
<1>0. Len(text) \in Nat
  OBVIOUS
<1>1. Len(text) \in Has
  <2>1. 0 \in Has
    <3> DEFINE g == [n \in 0 .. 0 |-> <<>>]
    <3>1. Fits(g, 0)
      OBVIOUS
    <3> QED
      BY <3>1
  <2>2. ASSUME NEW m \in 0 .. Len(text) - 1, m \in Has PROVE m + 1 \in Has
    <3>1. m \in Nat /\ m + 1 \in Nat
      OBVIOUS
    <3>2. PICK f : f = [n \in 0 .. m |-> Grow(f, n)]
      BY <2>2
    <3> DEFINE g == [n \in 0 .. m + 1 |-> IF n = m + 1 THEN Grow(f, m + 1) ELSE f[n]]
    <3>3. \A n \in 0 .. m : g[n] = f[n] /\ f[n] = Grow(f, n)
      <4>1. 0 .. m \subseteq 0 .. m + 1 /\ m + 1 \notin 0 .. m
        BY <3>1
      <4> HIDE DEF Grow, Has, Fits
      <4>2. \A n \in 0 .. m : f[n] = Grow(f, n)
        BY <3>2, Zenon
      <4>3. \A n \in 0 .. m + 1 : n # m + 1 => g[n] = f[n]
        BY Zenon
      <4> QED
        BY <4>1, <4>2, <4>3, Zenon
    <3>4. g[m + 1] = Grow(f, m + 1)
      BY <3>1
    <3>5. \A n \in 0 .. m + 1 : g[n] = Grow(g, n)
      <4>1. \A n \in 1 .. m + 1 : g[n - 1] = f[n - 1]
        BY <3>1, <3>3
      <4>2. \A n \in 0 .. m + 1 : Grow(g, n) = Grow(f, n)
        <5> HIDE DEF g
        <5> QED
          BY <3>1, <4>1
      <4>3. \A n \in 0 .. m + 1 : g[n] = Grow(f, n)
        <5> HIDE DEF g, Grow
        <5> QED
          BY <3>1, <3>3, <3>4
      <4> HIDE DEF g, Grow, Has
      <4> QED
        BY <4>2, <4>3
    <3>6. g = [n \in 0 .. m + 1 |-> g[n]]
      OBVIOUS
    <3>7. Fits(g, m + 1)
      <4> HIDE DEF g, Grow
      <4> QED
        BY <3>5, <3>6
    <3> QED
      BY <3>1, <3>7
  <2> HIDE DEF Has
  <2>3. \A n \in 0 .. Len(text) : n \in Has
    BY <1>0, <2>1, <2>2, Climb
  <2> QED
    BY <1>0, <2>3
<1>3. \E f : Fits(f, Len(text))
  BY <1>1
<1>4. Kept(text) = CHOOSE f : Fits(f, Len(text))
  BY DEF Kept
<1>5. Fits(Kept(text), Len(text))
  <2> HIDE DEF Fits
  <2> QED
    BY <1>3, <1>4
<1>6. \A n \in 0 .. Len(text) : Kept(text)[n] = Grow(Kept(text), n)
  <2> HIDE DEF Grow
  <2> QED
    BY <1>5
<1>7. \A n \in 0 .. Len(text) - 1 : n + 1 \in 0 .. Len(text) /\ n + 1 # 0 /\ n + 1 - 1 = n
  BY <1>0
<1>8. Kept(text)[0] = <<>>
  BY <1>0, <1>6
<1>9. ASSUME NEW n \in 0 .. Len(text) - 1
      PROVE  Kept(text)[n + 1] = IF n + 1 \in Cut THEN Kept(text)[n] ELSE Append(Kept(text)[n], text[n + 1])
  <2>1. Kept(text)[n + 1] = Grow(Kept(text), n + 1)
    <3> HIDE DEF Grow
    <3> QED
      BY <1>6, <1>7
  <2> QED
    BY <1>7, <2>1
<1> QED
  BY <1>8, <1>9, Zenon
LEMMA KeptTyped ==
  ASSUME NEW text \in Seq(Symbols)
  PROVE  \A n \in 0 .. Len(text) : Kept(text)[n] \in Seq(Symbols)
<1> DEFINE G == {n \in Nat : Kept(text)[n] \in Seq(Symbols)}
<1>1. 0 \in G /\ Len(text) \in Nat
  <2>1. Kept(text)[0] = <<>>
    BY KeptIs
  <2>2. <<>> \in Seq(Symbols)
    OBVIOUS
  <2>3. 0 \in Nat /\ Len(text) \in Nat
    OBVIOUS
  <2> QED
    BY <2>1, <2>2, <2>3, Zenon
<1>2. ASSUME NEW n \in 0 .. Len(text) - 1, n \in G PROVE n + 1 \in G
  <2>1. n \in 0 .. Len(text) - 1 /\ n + 1 \in Nat /\ text[n + 1] \in Symbols
    BY <1>1
  <2>2. Kept(text)[n + 1] \in {Kept(text)[n], Append(Kept(text)[n], text[n + 1])}
    BY <2>1, KeptIs, Zenon
  <2>3. Kept(text)[n] \in Seq(Symbols)
    BY <1>2
  <2>4. \A s \in Seq(Symbols), x \in Symbols : Append(s, x) \in Seq(Symbols)
    OBVIOUS
  <2>5. Kept(text)[n + 1] \in Seq(Symbols)
    BY <2>1, <2>2, <2>3, <2>4, Zenon
  <2> QED
    BY <1>1, <2>1, <2>5
<1>3. \A n \in 0 .. Len(text) : n \in G
  <2> HIDE DEF G
  <2> QED
    BY <1>1, <1>2, Climb
<1> QED
  BY <1>3

\* Markup adds nothing,
LEMMA KeptSkips ==
  ASSUME NEW text \in Seq(Symbols), NEW a \in 0 .. Len(text), NEW b \in a .. Len(text),
         \A i \in a + 1 .. b : i \in Markup(text)
  PROVE  Kept(text)[b] = Kept(text)[a]
<1> DEFINE G == {n \in Nat : Kept(text)[n] = Kept(text)[a]}
<1>1. a \in G /\ a \in Nat /\ b \in Nat /\ Len(text) \in Nat
  OBVIOUS
<1>2. ASSUME NEW n \in a .. b - 1, n \in G PROVE n + 1 \in G
  <2>1. n \in 0 .. Len(text) - 1 /\ n + 1 \in Nat /\ n + 1 \in a + 1 .. b
    BY <1>1
  <2> QED
    BY <1>2, <2>1, KeptIs
<1>3. \A n \in a .. b : n \in G
  <2> HIDE DEF G
  <2> QED
    BY <1>1, <1>2, Climb
<1> QED
  BY <1>1, <1>3

\* Appending to the second of two sequences.
LEMMA AppendLater ==
  \A s, u \in Seq(Symbols) : \A x \in Symbols : Append(s \o u, x) = s \o Append(u, x)
<1> SUFFICES ASSUME NEW s \in Seq(Symbols), NEW u \in Seq(Symbols), NEW x \in Symbols
             PROVE  Append(s \o u, x) = s \o Append(u, x)
  OBVIOUS
<1>1. /\ Append(s \o u, x) \in Seq(Symbols) /\ s \o Append(u, x) \in Seq(Symbols)
      /\ Len(Append(s \o u, x)) = Len(s) + Len(u) + 1 /\ Len(s \o Append(u, x)) = Len(s) + Len(u) + 1
      /\ Len(s) \in Nat /\ Len(u) \in Nat
  OBVIOUS
<1>2. \A i \in 1 .. Len(s) + Len(u) + 1 : Append(s \o u, x)[i] = (s \o Append(u, x))[i]
  OBVIOUS
<1>3. \A i \in 1 .. Len(Append(s \o u, x)) : Append(s \o u, x)[i] = (s \o Append(u, x))[i]
  BY <1>1, <1>2, Zenon
<1> DEFINE one == Append(s \o u, x)
           two == s \o Append(u, x)
<1>4. one \in Seq(Symbols) /\ two \in Seq(Symbols) /\ Len(one) = Len(two) /\ \A i \in 1 .. Len(one) : one[i] = two[i]
  BY <1>1, <1>3, Zenon
<1>5. one = two
  <2> HIDE DEF one, two
  <2> QED
    BY <1>4
<1> QED
  BY <1>5, Zenon

\* the rest all its symbols.
LEMMA KeptTakes ==
  ASSUME NEW text \in Seq(Symbols), NEW a \in 0 .. Len(text), NEW b \in a .. Len(text),
         \A i \in a + 1 .. b : i \notin Markup(text)
  PROVE  Kept(text)[b] = Kept(text)[a] \o SubSeq(text, a + 1, b)
<1> DEFINE G == {n \in Nat : Kept(text)[n] = Kept(text)[a] \o SubSeq(text, a + 1, n)}
<1>0. a \in Nat /\ b \in Nat /\ Len(text) \in Nat /\ Kept(text)[a] \in Seq(Symbols)
  BY KeptTyped
<1>1. a \in G
  <2>1. SubSeq(text, a + 1, a) = <<>>
    BY <1>0
  <2>2. \A s \in Seq(Symbols) : s \o <<>> = s
    OBVIOUS
  <2> QED
    BY <1>0, <2>1, <2>2
<1>2. ASSUME NEW n \in a .. b - 1, n \in G PROVE n + 1 \in G
  <2>1. n \in 0 .. Len(text) - 1 /\ n + 1 \in Nat /\ n + 1 \in a + 1 .. b /\ text[n + 1] \in Symbols
    BY <1>0
  <2>2. Kept(text)[n + 1] = Append(Kept(text)[n], text[n + 1])
    BY <2>1, KeptIs, Zenon
  <2>3. SubSeq(text, a + 1, n + 1) = Append(SubSeq(text, a + 1, n), text[n + 1])
    BY <1>0, <2>1
  <2>4. SubSeq(text, a + 1, n) \in Seq(Symbols)
    BY <1>0, <2>1
  <2>5. Kept(text)[n] = Kept(text)[a] \o SubSeq(text, a + 1, n)
    BY <1>2
  <2>6. Append(Kept(text)[n], text[n + 1]) = Kept(text)[a] \o SubSeq(text, a + 1, n + 1)
    <3>1. Append(Kept(text)[a] \o SubSeq(text, a + 1, n), text[n + 1])
            = Kept(text)[a] \o Append(SubSeq(text, a + 1, n), text[n + 1])
      <4>2. Kept(text)[a] \in Seq(Symbols) /\ text[n + 1] \in Symbols
        BY <1>0, <2>1
      <4> QED
        BY <2>4, <4>2, AppendLater, Zenon
    <3> QED
      BY <2>3, <2>5, <3>1, Zenon
  <2> QED
    BY <1>0, <2>1, <2>2, <2>6
<1>3. \A n \in a .. b : n \in G
  <2> HIDE DEF G
  <2> QED
    BY <1>0, <1>1, <1>2, Climb
<1>4. b \in a .. b
  BY <1>0
<1> QED
  BY <1>3, <1>4, Zenon

LEMMA KeptGrows ==
  ASSUME NEW text \in Seq(Symbols), NEW a \in 0 .. Len(text), NEW b \in a .. Len(text)
  PROVE  IsPrefix(Kept(text)[a], Kept(text)[b])
<1> DEFINE Begun == Kept(text)[a]
           G == {n \in Nat : IsPrefix(Begun, Kept(text)[n])}
<1>0. a \in Nat /\ b \in Nat /\ Len(text) \in Nat /\ Begun \in Seq(Symbols)
  BY KeptTyped
<1>1. a \in G
  BY <1>0 DEF IsPrefix
<1>2. ASSUME NEW n \in a .. b - 1, n \in G PROVE n + 1 \in G
  <2>1. n \in 0 .. Len(text) - 1 /\ n + 1 \in Nat /\ text[n + 1] \in Symbols /\ n \in 0 .. Len(text)
    BY <1>0
  <2>2. Kept(text)[n] \in Seq(Symbols)
    BY <2>1, KeptTyped
  <2>3. Kept(text)[n + 1] \in {Kept(text)[n], Append(Kept(text)[n], text[n + 1])}
    BY <2>1, KeptIs, Zenon
  <2>4. ASSUME NEW s \in Seq(Symbols), NEW u \in Seq(Symbols), NEW x \in Symbols, IsPrefix(s, u)
        PROVE  IsPrefix(s, Append(u, x))
    BY <2>4 DEF IsPrefix
  <2>5. IsPrefix(Begun, Kept(text)[n])
    BY <1>2
  <2>6. IsPrefix(Begun, Kept(text)[n + 1])
    <3> HIDE DEF Begun
    <3> QED
      BY <1>0, <2>1, <2>2, <2>3, <2>4, <2>5, Zenon
  <2> QED
    BY <1>0, <2>1, <2>6
<1>3. \A n \in a .. b : n \in G
  <2> HIDE DEF G
  <2> QED
    BY <1>0, <1>1, <1>2, Climb
<1> QED
  BY <1>0, <1>3

\* Two texts that agree so far keep the same.
LEMMA KeptAgrees ==
  ASSUME NEW text \in Seq(Symbols), NEW more \in Seq(Symbols),
         NEW p \in 0 .. Len(text), p <= Len(more),
         \A i \in 1 .. p : text[i] = more[i] /\ (i \in Markup(text) <=> i \in Markup(more))
  PROVE  Kept(text)[p] = Kept(more)[p]
<1> DEFINE G == {n \in Nat : Kept(text)[n] = Kept(more)[n]}
<1>0. p \in Nat /\ Len(text) \in Nat /\ Len(more) \in Nat
  OBVIOUS
<1>1. 0 \in G
  BY KeptIs
<1>2. ASSUME NEW n \in 0 .. p - 1, n \in G PROVE n + 1 \in G
  <2>1. n \in 0 .. Len(text) - 1 /\ n \in 0 .. Len(more) - 1 /\ n + 1 \in 1 .. p
    BY <1>0
  <2>2. Kept(text)[n + 1] = IF n + 1 \in Markup(text) THEN Kept(text)[n]
                            ELSE Append(Kept(text)[n], text[n + 1])
    BY <2>1, KeptIs, Zenon
  <2>3. Kept(more)[n + 1] = IF n + 1 \in Markup(more) THEN Kept(more)[n]
                            ELSE Append(Kept(more)[n], more[n + 1])
    BY <2>1, KeptIs, Zenon
  <2>4. Kept(text)[n] = Kept(more)[n]
    BY <1>2
  <2>5. Kept(text)[n + 1] = Kept(more)[n + 1]
    BY <2>1, <2>2, <2>3, <2>4
  <2> QED
    BY <2>1, <2>5
<1>3. \A n \in 0 .. p : n \in G
  <2> HIDE DEF G
  <2> QED
    BY <1>0, <1>1, <1>2, Climb
<1> QED
  BY <1>0, <1>3

\* How much of the reply has been dealt with: the rest is pending.
Past == Len(given) - Len(pending)

\* Every markup begun in the first p symbols of a text has ended in them, and none
\* begins with the last of them.
Clear(text, p) ==
  /\ \A o \in Places(OpenTag, text) :
       o <= p => \E e \in Places(CloseTag, text) : o < e /\ e + 1 <= p
  /\ p = Len(text) /\ p > 0 => text[p] # "<"

\* What was dealt with is clear of markup, what of it was voiced is what it means,
\* and what is held back is markup, or an angle bracket that may yet begin one.
Sifted ==
  /\ Len(pending) <= Len(given)
  /\ \A i \in 1 .. Len(pending) : pending[i] = given[Past + i]
  /\ voiced = Kept(given)[Past]
  /\ Clear(given, Past)
  /\ suppressing => Past + 1 \in Places(OpenTag, given)
  /\ filter = "idle" =>
       IF suppressing THEN Places(CloseTag, pending) = {} ELSE pending \in {<<>>, <<"<">>}

FilterInv ==
  /\ given \in Seq(Symbols) /\ pending \in Seq(Symbols) /\ voiced \in Seq(Symbols)
  /\ suppressing \in BOOLEAN /\ gaveUp \in BOOLEAN /\ filter \in {"idle", "feeding", "flushed"}
  /\ gaveUp \/ IF filter = "flushed" THEN voiced = Meant(given) ELSE Sifted


\* Where the tags are.
LEMMA OpensAre ==
  ASSUME NEW text \in Seq(Symbols)
  PROVE  \A i : i \in Places(OpenTag, text) <=>
                  i \in 1 .. Len(text) - 1 /\ text[i] = "<" /\ text[i + 1] = "f"
BY PlacesAre, Tags

LEMMA ClosesAre ==
  ASSUME NEW text \in Seq(Symbols)
  PROVE  \A i : i \in Places(CloseTag, text) <=>
                  i \in 1 .. Len(text) - 1 /\ text[i] = "<" /\ text[i + 1] = "/"
BY PlacesAre, Tags

\* What more of a reply changes of its beginning: nothing.
LEMMA MoreChangesNothing ==
  ASSUME NEW text \in Seq(Symbols), NEW chunk \in Seq(Symbols), chunk # <<>>,
         NEW p \in 0 .. Len(text), Clear(text, p)
  PROVE  /\ Clear(text \o chunk, p)
         /\ \A i \in 1 .. p : i \in Markup(text) <=> i \in Markup(text \o chunk)
<1> DEFINE more == text \o chunk
<1>1. /\ more \in Seq(Symbols) /\ Len(text) \in Nat /\ Len(chunk) \in Nat /\ Len(chunk) > 0
      /\ Len(more) = Len(text) + Len(chunk) /\ p \in Nat /\ p <= Len(text)
      /\ \A i \in 1 .. Len(text) : more[i] = text[i]
  OBVIOUS
<1> HIDE DEF more
<1>2. ASSUME NEW i \in Places(OpenTag, text) PROVE i \in Places(OpenTag, more)
  <2>1. i \in 1 .. Len(text) - 1 /\ text[i] = "<" /\ text[i + 1] = "f"
    BY <1>1, OpensAre
  <2>2. i \in 1 .. Len(more) - 1 /\ i \in 1 .. Len(text) /\ i + 1 \in 1 .. Len(text)
    BY <1>1, <2>1
  <2>3. more[i] = "<" /\ more[i + 1] = "f"
    BY <1>1, <2>1, <2>2
  <2> QED
    BY <1>1, <2>2, <2>3, OpensAre
<1>3. ASSUME NEW i \in Places(CloseTag, text) PROVE i \in Places(CloseTag, more)
  <2>1. i \in 1 .. Len(text) - 1 /\ text[i] = "<" /\ text[i + 1] = "/"
    BY <1>1, ClosesAre
  <2>2. i \in 1 .. Len(more) - 1 /\ i \in 1 .. Len(text) /\ i + 1 \in 1 .. Len(text)
    BY <1>1, <2>1
  <2>3. more[i] = "<" /\ more[i + 1] = "/"
    BY <1>1, <2>1, <2>2
  <2> QED
    BY <1>1, <2>2, <2>3, ClosesAre
<1>4. ASSUME NEW o \in Places(OpenTag, more), o <= p PROVE o \in Places(OpenTag, text)
  <2>1. o \in 1 .. Len(more) - 1 /\ more[o] = "<" /\ more[o + 1] = "f"
    BY <1>1, OpensAre
  <2>2. text[o] = "<"
    <3>1. o \in 1 .. Len(text)
      BY <1>1, <1>4, <2>1
    <3> QED
      BY <1>1, <2>1, <3>1
  <2>3. o # Len(text)
    BY <1>1, <1>4, <2>1, <2>2 DEF Clear
  <2>4. o \in 1 .. Len(text) - 1 /\ o + 1 \in 1 .. Len(text)
    BY <1>1, <1>4, <2>1, <2>3
  <2> QED
    BY <1>1, <2>1, <2>2, <2>4, OpensAre
<1>5. ASSUME NEW e \in Places(CloseTag, more), e \notin Places(CloseTag, text) PROVE e >= Len(text) /\ e \in Nat
  <2>1. e \in 1 .. Len(more) - 1 /\ more[e] = "<" /\ more[e + 1] = "/"
    BY <1>1, ClosesAre
  <2>2. CASE e \in 1 .. Len(text) - 1
    <3>1. text[e] = "<" /\ text[e + 1] = "/"
      BY <1>1, <2>1, <2>2
    <3> QED
      BY <1>5, <2>2, <3>1, ClosesAre
  <2> QED
    BY <1>1, <2>1, <2>2
<1>6. Clear(more, p)
  <2>1. ASSUME NEW o \in Places(OpenTag, more), o <= p
        PROVE  \E e \in Places(CloseTag, more) : o < e /\ e + 1 <= p
    BY <1>3, <1>4, <2>1 DEF Clear
  <2> QED
    BY <1>1, <2>1 DEF Clear
<1>7. ASSUME NEW i \in 1 .. p PROVE i \in Markup(text) <=> i \in Markup(more)
  <2>1. i \in DOMAIN text /\ i \in DOMAIN more /\ i \in Nat /\ i <= Len(text) /\ i <= p
    BY <1>1
  <2>2. \A o : o \in Places(OpenTag, text) \/ o \in Places(OpenTag, more) => o \in Nat
    BY <1>1, OpensAre
  <2>3. ASSUME i \in Markup(more) PROVE i \in Markup(text)
    BY <1>1, <1>3, <1>4, <2>1, <2>2, <2>3 DEF Markup
  <2>4. ASSUME i \in Markup(text) PROVE i \in Markup(more)
    <3>1. PICK o \in Places(OpenTag, text) :
            o <= i /\ \A e \in Places(CloseTag, text) : e < o \/ i < e + 2
      BY <2>4 DEF Markup
    <3>2. \A e \in Places(CloseTag, more) : e < o \/ i < e + 2
      BY <1>1, <1>5, <2>1, <3>1
    <3> QED
      BY <1>2, <2>1, <3>1, <3>2 DEF Markup
  <2> QED
    BY <2>3, <2>4
<1> QED
  BY <1>6, <1>7 DEF more

\* From where the text is clear up to the next tag there is no markup.
LEMMA NoMarkup ==
  ASSUME NEW text \in Seq(Symbols), NEW p \in 0 .. Len(text), NEW q \in p .. Len(text),
         Clear(text, p), \A o \in p + 1 .. q : o \notin Places(OpenTag, text)
  PROVE  /\ \A i \in p + 1 .. q : i \notin Markup(text)
         /\ (q = Len(text) /\ q > 0 => text[q] # "<") => Clear(text, q)
<1>1. p \in Nat /\ q \in Nat /\ Len(text) \in Nat /\ p <= q
  OBVIOUS
<1>2. \A o : o \in Places(OpenTag, text) => o \in Nat
  BY OpensAre
<1>3. \A e : e \in Places(CloseTag, text) => e \in Nat
  BY ClosesAre
<1>4. \A o \in Places(OpenTag, text) : o <= q => o <= p
  BY <1>1, <1>2
<1>5. ASSUME NEW i \in p + 1 .. q, i \in Markup(text) PROVE FALSE
  <2>1. i \in Nat /\ p < i /\ i <= q
    BY <1>1
  <2>2. PICK o \in Places(OpenTag, text) :
          o <= i /\ \A e \in Places(CloseTag, text) : e < o \/ i < e + 2
    BY <1>5 DEF Markup
  <2>3. o <= p
    BY <1>1, <1>2, <1>4, <2>1, <2>2
  <2>4. PICK e \in Places(CloseTag, text) : o < e /\ e + 1 <= p
    BY <2>3 DEF Clear
  <2> QED
    BY <1>1, <1>2, <1>3, <2>1, <2>2, <2>4
<1>6. \A o \in Places(OpenTag, text) :
        o <= q => \E e \in Places(CloseTag, text) : o < e /\ e + 1 <= q
  <2>1. ASSUME NEW o \in Places(OpenTag, text), o <= q
        PROVE  \E e \in Places(CloseTag, text) : o < e /\ e + 1 <= q
    <3>1. PICK e \in Places(CloseTag, text) : o < e /\ e + 1 <= p
      BY <1>4, <2>1 DEF Clear
    <3> QED
      BY <1>1, <1>3, <3>1
  <2> QED
    BY <2>1
<1> QED
  BY <1>1, <1>5, <1>6 DEF Clear

\* From a tag on, all is markup up to the end of the next closing tag, or of the text.
LEMMA AllMarkup ==
  ASSUME NEW text \in Seq(Symbols), NEW p \in 0 .. Len(text), p + 1 \in Places(OpenTag, text),
         NEW q \in p .. Len(text),
         \A e \in Places(CloseTag, text) : e <= p \/ q <= e + 1
  PROVE  \A i \in p + 1 .. q : i \in Markup(text)
<1>1. p \in Nat /\ q \in Nat /\ Len(text) \in Nat /\ p <= q /\ q <= Len(text)
  OBVIOUS
<1>2. \A e : e \in Places(CloseTag, text) => e \in Nat
  BY ClosesAre
<1>3. ASSUME NEW i \in p + 1 .. q PROVE i \in Markup(text)
  <2>1. i \in DOMAIN text /\ i \in Nat /\ p + 1 <= i /\ i <= q
    BY <1>1
  <2>2. \A e \in Places(CloseTag, text) : e < p + 1 \/ i < e + 2
    BY <1>1, <1>2, <2>1
  <2> QED
    BY <2>1, <2>2 DEF Markup
<1> QED
  BY <1>3

\* What is pending is the end of the reply.
LEMMA PendingIs ==
  ASSUME FilterInv, Sifted
  PROVE  /\ Len(given) \in Nat /\ Len(pending) \in Nat /\ Past \in 0 .. Len(given)
         /\ Len(given) = Past + Len(pending)
         /\ \A i \in 1 .. Len(pending) : pending[i] = given[Past + i]
         /\ \A i \in Int : i \in Places(OpenTag, pending) <=> i > 0 /\ Past + i \in Places(OpenTag, given)
         /\ \A i \in Int : i \in Places(CloseTag, pending) <=> i > 0 /\ Past + i \in Places(CloseTag, given)
         /\ Kept(given)[Past] = voiced
<1>1. /\ given \in Seq(Symbols) /\ pending \in Seq(Symbols)
      /\ Len(given) \in Nat /\ Len(pending) \in Nat /\ Past \in 0 .. Len(given)
      /\ Len(given) = Past + Len(pending) /\ Past \in Nat
      /\ \A i \in 1 .. Len(pending) : pending[i] = given[Past + i]
  BY DEF FilterInv, Sifted, Past
<1>2. ASSUME NEW i \in Int
      PROVE  i \in Places(OpenTag, pending) <=> i > 0 /\ Past + i \in Places(OpenTag, given)
  <2>1. i \in 1 .. Len(pending) - 1 <=> i > 0 /\ Past + i \in 1 .. Len(given) - 1
    BY <1>1
  <2>2. i \in 1 .. Len(pending) - 1 => pending[i] = given[Past + i] /\ pending[i + 1] = given[Past + i + 1]
    BY <1>1
  <2> QED
    BY <1>1, <2>1, <2>2, OpensAre
<1>3. ASSUME NEW i \in Int
      PROVE  i \in Places(CloseTag, pending) <=> i > 0 /\ Past + i \in Places(CloseTag, given)
  <2>1. i \in 1 .. Len(pending) - 1 <=> i > 0 /\ Past + i \in 1 .. Len(given) - 1
    BY <1>1
  <2>2. i \in 1 .. Len(pending) - 1 => pending[i] = given[Past + i] /\ pending[i + 1] = given[Past + i + 1]
    BY <1>1
  <2> QED
    BY <1>1, <2>1, <2>2, ClosesAre
<1> QED
  BY <1>1, <1>2, <1>3 DEF Sifted

\* find, of a tag in what is pending.
LEMMA FindIs ==
  ASSUME NEW text \in Seq(Symbols), NEW tag \in {OpenTag, CloseTag}
  PROVE  /\ Find(tag, text) = 0 <=> Places(tag, text) = {}
         /\ Find(tag, text) # 0 => /\ Find(tag, text) \in Places(tag, text)
                                   /\ Find(tag, text) \in 1 .. Len(text) - 1
                                   /\ \A i \in Places(tag, text) : Find(tag, text) <= i
<1> DEFINE P == Places(tag, text)
<1>1. P \subseteq 1 .. Len(text) - 1 /\ Len(text) \in Nat
  BY DEF Places
<1>2. CASE P = {}
  BY <1>2 DEF Find
<1>3. CASE P # {}
  <2>1. P \subseteq Nat
    BY <1>1
  <2>2. \E i \in P : \A j \in P : i <= j
    <3> HIDE DEF P
    <3> QED
      BY <1>3, <2>1, LeastOf
  <2>3. Min(P) \in P /\ \A j \in P : Min(P) <= j
    <3> HIDE DEF P
    <3> QED
      BY <2>2 DEF Min
  <2>4. Find(tag, text) = Min(P)
    BY <1>3 DEF Find
  <2> HIDE DEF P
  <2>5. Min(P) \in 1 .. Len(text) - 1 /\ Min(P) # 0
    <3>1. Min(P) \in 1 .. Len(text) - 1
      BY <1>1, <2>3, Zenon
    <3> QED
      BY <1>1, <3>1
  <2> QED
    BY <1>3, <2>3, <2>4, <2>5 DEF P
<1> QED
  BY <1>2, <1>3

\* The end of a sequence.
LEMMA TailOf ==
  ASSUME NEW s \in Seq(Symbols), NEW a \in 1 .. Len(s) + 1
  PROVE  /\ SubSeq(s, a, Len(s)) \in Seq(Symbols) /\ Len(SubSeq(s, a, Len(s))) = Len(s) - a + 1
         /\ \A i \in 1 .. Len(s) - a + 1 : SubSeq(s, a, Len(s))[i] = s[a + i - 1]
OBVIOUS

\* Its beginning.
LEMMA HeadOf ==
  ASSUME NEW s \in Seq(Symbols), NEW n \in 0 .. Len(s)
  PROVE  SubSeq(s, 1, n) \in Seq(Symbols)
OBVIOUS

LEMMA OneIs == \A s \in Seq(Symbols) : Len(s) = 1 => s = <<s[1]>>
<1> SUFFICES ASSUME NEW s \in Seq(Symbols), Len(s) = 1 PROVE s = <<s[1]>>
  OBVIOUS
<1>1. s[1] \in Symbols
  OBVIOUS
<1>2. \A x \in Symbols : <<x>> \in Seq(Symbols) /\ Len(<<x>>) = 1 /\ <<x>>[1] = x
  OBVIOUS
<1>3. ASSUME NEW u \in Seq(Symbols), Len(u) = 1, u[1] = s[1] PROVE s = u
  BY <1>3
<1> QED
  BY <1>1, <1>2, <1>3

LEMMA ChunksAre == \A chunk \in Chunks : chunk \in Seq(Symbols) /\ chunk # <<>>
BY ChunksAssumption

\* What is taken from the pending end of a text is taken from the text.
LEMMA SameWords ==
  ASSUME NEW s \in Seq(Symbols), NEW u \in Seq(Symbols), NEW p \in Nat, NEW n \in Nat,
         n <= Len(u), p + n <= Len(s), \A i \in 1 .. Len(u) : u[i] = s[p + i]
  PROVE  SubSeq(s, p + 1, p + n) = SubSeq(u, 1, n) /\ SubSeq(u, 1, n) \in Seq(Symbols)
<1> DEFINE one == SubSeq(s, p + 1, p + n)
           two == SubSeq(u, 1, n)
<1>1. /\ one \in Seq(Symbols) /\ two \in Seq(Symbols) /\ Len(one) = n /\ Len(two) = n
      /\ \A i \in 1 .. n : one[i] = s[p + i] /\ two[i] = u[i]
  OBVIOUS
<1>2. \A i \in 1 .. n : one[i] = two[i]
  <2>1. \A i \in 1 .. n : i \in 1 .. Len(u)
    OBVIOUS
  <2> HIDE DEF one, two
  <2> QED
    BY <1>1, <2>1, Zenon
<1> HIDE DEF one, two
<1>3. one = two
  BY <1>1, <1>2
<1> QED
  BY <1>1, <1>3 DEF one, two

-----------------------------------------------------------------------------
(* The filter's turns.                                                     *)

LEMMA FeedKeeps ==
  ASSUME FilterInv, Sifted, NEW chunk \in Chunks, FeedChunk(chunk)
  PROVE  given' \in Seq(Symbols) /\ pending' \in Seq(Symbols) /\ Sifted'
<1>1. /\ given \in Seq(Symbols) /\ pending \in Seq(Symbols) /\ voiced \in Seq(Symbols)
      /\ chunk \in Seq(Symbols) /\ chunk # <<>>
      /\ given' = given \o chunk /\ pending' = pending \o chunk /\ voiced' = voiced
      /\ suppressing' = suppressing /\ filter' = "feeding"
  BY ChunksAre DEF FeedChunk, FilterInv
<1>2. /\ Len(given) \in Nat /\ Len(pending) \in Nat /\ Past \in 0 .. Len(given)
      /\ Len(given) = Past + Len(pending) /\ Kept(given)[Past] = voiced
      /\ \A i \in 1 .. Len(pending) : pending[i] = given[Past + i]
  BY PendingIs
<1>3. /\ given' \in Seq(Symbols) /\ pending' \in Seq(Symbols) /\ Len(chunk) \in Nat
      /\ Len(given') = Len(given) + Len(chunk) /\ Len(pending') = Len(pending) + Len(chunk)
      /\ \A i \in 1 .. Len(given) : given'[i] = given[i]
      /\ \A i \in 1 .. Len(pending) : pending'[i] = pending[i]
      /\ \A i \in 1 .. Len(chunk) : given'[Len(given) + i] = chunk[i]
      /\ \A i \in 1 .. Len(chunk) : pending'[Len(pending) + i] = chunk[i]
  BY <1>1
<1>4. Past' = Past
  BY <1>2, <1>3 DEF Past
<1>5. ASSUME NEW i \in 1 .. Len(pending') PROVE pending'[i] = given'[Past + i]
  <2>1. CASE i <= Len(pending)
    BY <1>2, <1>3, <2>1
  <2>2. CASE i > Len(pending)
    <3>1. i - Len(pending) \in 1 .. Len(chunk)
      BY <1>2, <1>3, <2>2
    <3>2. pending'[Len(pending) + (i - Len(pending))] = given'[Len(given) + (i - Len(pending))]
      BY <1>3, <3>1
    <3>3. Len(pending) + (i - Len(pending)) = i /\ Len(given) + (i - Len(pending)) = Past + i
      BY <1>2, <1>3
    <3> QED
      BY <3>2, <3>3
  <2> QED
    BY <1>2, <1>3, <2>1, <2>2
<1>6. Clear(given', Past) /\ \A i \in 1 .. Past : i \in Markup(given) <=> i \in Markup(given')
  <2>1. Clear(given, Past)
    BY DEF Sifted
  <2> QED
    BY <1>1, <1>2, <2>1, MoreChangesNothing
<1>7. Kept(given')[Past] = voiced
  <2>1. Past <= Len(given') /\ \A i \in 1 .. Past : given[i] = given'[i]
    BY <1>2, <1>3
  <2>2. Kept(given)[Past] = Kept(given')[Past]
    BY <1>1, <1>2, <1>3, <1>6, <2>1, KeptAgrees
  <2> QED
    BY <1>2, <2>2
<1>8. suppressing' => Past + 1 \in Places(OpenTag, given')
  <2>1. ASSUME suppressing PROVE Past + 1 \in Places(OpenTag, given')
    <3>1. Past + 1 \in 1 .. Len(given) - 1 /\ given[Past + 1] = "<" /\ given[Past + 1 + 1] = "f"
      BY <1>1, <2>1, OpensAre DEF Sifted
    <3>2. Past + 1 \in 1 .. Len(given') - 1 /\ Past + 1 \in 1 .. Len(given) /\ Past + 1 + 1 \in 1 .. Len(given)
      BY <1>2, <1>3, <3>1
    <3> QED
      BY <1>3, <3>1, <3>2, OpensAre
  <2> QED
    BY <1>1, <2>1
<1>9. Len(pending') <= Len(given')
  BY <1>2, <1>3
<1> QED
  BY <1>1, <1>3, <1>4, <1>5, <1>6, <1>7, <1>8, <1>9 DEF Sifted

LEMMA EndsKeeps ==
  ASSUME FilterInv, Sifted, EndsMarkup
  PROVE  pending' \in Seq(Symbols) /\ Sifted'
<1> DEFINE q == Find(CloseTag, pending)
           e == Past + q
<1>1. /\ given \in Seq(Symbols) /\ pending \in Seq(Symbols) /\ suppressing /\ q # 0
      /\ pending' = SubSeq(pending, q + 2, Len(pending)) /\ ~ suppressing'
      /\ given' = given /\ voiced' = voiced /\ filter' = "feeding"
  BY DEF EndsMarkup, Feeding, FilterInv
<1>2. /\ Len(given) \in Nat /\ Len(pending) \in Nat /\ Past \in 0 .. Len(given)
      /\ Len(given) = Past + Len(pending) /\ Kept(given)[Past] = voiced
      /\ \A i \in 1 .. Len(pending) : pending[i] = given[Past + i]
      /\ \A i \in Int : i \in Places(CloseTag, pending) <=> i > 0 /\ Past + i \in Places(CloseTag, given)
  BY PendingIs
<1>3. q \in Places(CloseTag, pending) /\ q \in 1 .. Len(pending) - 1
      /\ \A i \in Places(CloseTag, pending) : q <= i
  BY <1>1, FindIs
<1>4. Past + 1 \in Places(OpenTag, given) /\ Clear(given, Past)
  BY <1>1 DEF Sifted
<1> HIDE DEF q
<1>5. /\ e \in Places(CloseTag, given) /\ given[e] = "<" /\ given[e + 1] = "/" /\ e \in 1 .. Len(given) - 1
      /\ Past + 1 <= e
  <2>1. e \in Places(CloseTag, given) /\ Past + 1 <= e
    BY <1>1, <1>2, <1>3
  <2> QED
    BY <1>1, <2>1, ClosesAre
<1>6. given[Past + 1] = "<" /\ given[Past + 1 + 1] = "f" /\ Past + 1 \in 1 .. Len(given) - 1
  BY <1>1, <1>4, OpensAre
<1>7. e # Past + 1
  BY <1>5, <1>6, Tags
<1>8. \A i \in Past + 1 .. e + 1 : i \in Markup(given)
  <2>1. ASSUME NEW c \in Places(CloseTag, given), c > Past PROVE e + 1 <= c + 1
    <3>1. c \in Int
      BY <1>1, ClosesAre
    <3>2. c - Past \in Int /\ c - Past > 0 /\ Past + (c - Past) = c
      BY <1>2, <2>1, <3>1
    <3>3. q <= c - Past
      BY <1>2, <1>3, <2>1, <3>2
    <3> QED
      BY <1>2, <1>3, <3>1, <3>3
  <2>2. \A c \in Places(CloseTag, given) : c <= Past \/ e + 1 <= c + 1
    <3>1. \A c \in Places(CloseTag, given) : c \in Int
      BY <1>1, ClosesAre
    <3> QED
      BY <1>2, <2>1, <3>1
  <2>3. e + 1 \in Past .. Len(given)
    BY <1>2, <1>5
  <2> HIDE DEF e
  <2> QED
    BY <1>1, <1>2, <1>4, <2>2, <2>3, AllMarkup
<1>9. Kept(given)[e + 1] = voiced
  <2>1. e + 1 \in Past .. Len(given)
    BY <1>2, <1>5
  <2> HIDE DEF e
  <2> QED
    BY <1>1, <1>2, <1>8, <2>1, KeptSkips
<1>10. Clear(given, e + 1)
  <2>1. given[e + 1] # "<"
    BY <1>5, Tags
  <2>2. ASSUME NEW o \in Places(OpenTag, given), o <= e + 1
        PROVE  \E c \in Places(CloseTag, given) : o < c /\ c + 1 <= e + 1
    <3>1. o \in 1 .. Len(given) - 1 /\ given[o] = "<" /\ given[o + 1] = "f"
      BY <1>1, OpensAre
    <3>2. o # e /\ o # e + 1
      BY <1>5, <2>1, <3>1, Tags
    <3> QED
      BY <1>5, <2>2, <3>1, <3>2
  <2> QED
    BY <2>1, <2>2 DEF Clear
<1>11. pending' \in Seq(Symbols) /\ Len(pending') = Len(pending) - q - 1
       /\ \A i \in 1 .. Len(pending) - q - 1 : pending'[i] = pending[q + 1 + i]
  <2>1. q + 2 \in 1 .. Len(pending) + 1
    BY <1>2, <1>3
  <2> DEFINE tail == SubSeq(pending, q + 2, Len(pending))
  <2>2. /\ tail \in Seq(Symbols) /\ Len(tail) = Len(pending) - (q + 2) + 1
        /\ \A i \in 1 .. Len(pending) - (q + 2) + 1 : tail[i] = pending[q + 2 + i - 1]
    BY <1>1, <2>1, TailOf, Zenon
  <2>3. pending' = tail
    BY <1>1
  <2> HIDE DEF tail
  <2> QED
    BY <1>2, <1>3, <2>2, <2>3
<1>12. Past' = e + 1 /\ Len(pending') <= Len(given')
  <2>1. Past' = Len(given) - Len(pending')
    BY <1>1 DEF Past
  <2> QED
    BY <1>1, <1>2, <1>3, <1>11, <2>1
<1>13. ASSUME NEW i \in 1 .. Len(pending') PROVE pending'[i] = given'[Past' + i]
  <2>1. i \in 1 .. Len(pending) - q - 1 /\ q + 1 + i \in 1 .. Len(pending) /\ Past + (q + 1 + i) = e + 1 + i
    BY <1>2, <1>3, <1>11
  <2>2. pending'[i] = given[Past + (q + 1 + i)]
    BY <1>2, <1>11, <2>1
  <2> QED
    BY <1>1, <1>12, <2>1, <2>2
<1> HIDE DEF e
<1>14. voiced' = Kept(given')[Past'] /\ Clear(given', Past')
  BY <1>1, <1>9, <1>10, <1>12
<1> QED
  BY <1>1, <1>11, <1>12, <1>13, <1>14 DEF Sifted

LEMMA HoldsKeeps ==
  ASSUME FilterInv, Sifted, HoldsMarkup, ~ gaveUp'
  PROVE  Sifted' /\ pending' = pending
<1>1. /\ pending \in Seq(Symbols) /\ suppressing /\ Find(CloseTag, pending) = 0
      /\ UNCHANGED <<given, voiced, suppressing, pending>> /\ filter' = "idle"
  BY DEF HoldsMarkup, Feeding, FilterInv
<1>2. Places(CloseTag, pending) = {}
  BY <1>1, FindIs
<1> QED
  BY <1>1, <1>2 DEF Sifted, Past

LEMMA BeginsKeeps ==
  ASSUME FilterInv, Sifted, BeginsMarkup
  PROVE  pending' \in Seq(Symbols) /\ voiced' \in Seq(Symbols) /\ Sifted'
<1> DEFINE q == Find(OpenTag, pending)
           o == Past + q - 1
<1>1. /\ given \in Seq(Symbols) /\ pending \in Seq(Symbols) /\ voiced \in Seq(Symbols) /\ q # 0
      /\ pending' = SubSeq(pending, q, Len(pending)) /\ suppressing' = TRUE
      /\ voiced' = voiced \o SubSeq(pending, 1, q - 1)
      /\ given' = given /\ filter' = filter /\ filter = "feeding"
  BY DEF BeginsMarkup, Feeding, FilterInv
<1>2. /\ Len(given) \in Nat /\ Len(pending) \in Nat /\ Past \in 0 .. Len(given)
      /\ Len(given) = Past + Len(pending) /\ Kept(given)[Past] = voiced
      /\ \A i \in 1 .. Len(pending) : pending[i] = given[Past + i]
      /\ \A i \in Int : i \in Places(OpenTag, pending) <=> i > 0 /\ Past + i \in Places(OpenTag, given)
  BY PendingIs
<1>3. q \in Places(OpenTag, pending) /\ q \in 1 .. Len(pending) - 1
      /\ \A i \in Places(OpenTag, pending) : q <= i
  BY <1>1, FindIs
<1>4. Clear(given, Past)
  BY <1>1 DEF Sifted
<1> HIDE DEF q
<1>5. o \in Past .. Len(given) /\ o < Len(given) /\ o + 1 \in Places(OpenTag, given)
  BY <1>2, <1>3
<1>6. \A i \in Past + 1 .. o : i \notin Places(OpenTag, given)
  <2>1. ASSUME NEW i \in Past + 1 .. o, i \in Places(OpenTag, given) PROVE FALSE
    <3>1. i - Past \in Int /\ i - Past > 0 /\ Past + (i - Past) = i /\ i - Past < q
      BY <1>2, <1>3
    <3>2. i - Past \in Places(OpenTag, pending)
      BY <1>2, <2>1, <3>1
    <3>3. q <= i - Past
      BY <1>3, <3>2
    <3> QED
      BY <1>2, <1>3, <3>1, <3>3
  <2> QED
    BY <2>1
<1>7. Clear(given, o) /\ \A i \in Past + 1 .. o : i \notin Markup(given)
  <2>1. o # Len(given)
    BY <1>2, <1>5
  <2> HIDE DEF o
  <2>2. (o = Len(given) /\ o > 0 => given[o] # "<") => Clear(given, o)
    BY <1>1, <1>2, <1>4, <1>5, <1>6, NoMarkup
  <2>3. \A i \in Past + 1 .. o : i \notin Markup(given)
    BY <1>1, <1>2, <1>4, <1>5, <1>6, NoMarkup
  <2> QED
    BY <2>1, <2>2, <2>3
<1>8. Kept(given)[o] = voiced \o SubSeq(given, Past + 1, o)
  <2> HIDE DEF o
  <2> QED
    BY <1>1, <1>2, <1>5, <1>7, KeptTakes
<1>9. SubSeq(given, Past + 1, o) = SubSeq(pending, 1, q - 1) /\ SubSeq(pending, 1, q - 1) \in Seq(Symbols)
  <2>1. /\ Past \in Nat /\ q - 1 \in Nat /\ q - 1 <= Len(pending) /\ Past + (q - 1) <= Len(given)
        /\ Past + (q - 1) = o
    BY <1>2, <1>3, <1>5
  <2>2. given \in Seq(Symbols) /\ pending \in Seq(Symbols)
        /\ \A i \in 1 .. Len(pending) : pending[i] = given[Past + i]
    BY <1>1, <1>2
  <2> HIDE DEF o, Past
  <2>3. /\ SubSeq(given, Past + 1, Past + (q - 1)) = SubSeq(pending, 1, q - 1)
        /\ SubSeq(pending, 1, q - 1) \in Seq(Symbols)
    BY <2>1, <2>2, SameWords
  <2> QED
    BY <2>1, <2>3
<1>10. voiced' = Kept(given)[o] /\ voiced' \in Seq(Symbols)
  <2>1. \A s, u \in Seq(Symbols) : s \o u \in Seq(Symbols)
    OBVIOUS
  <2> QED
    BY <1>1, <1>8, <1>9, <2>1, Zenon
<1>11. pending' \in Seq(Symbols) /\ Len(pending') = Len(pending) - q + 1
       /\ \A i \in 1 .. Len(pending) - q + 1 : pending'[i] = pending[q + i - 1]
  <2>1. q \in 1 .. Len(pending) + 1
    BY <1>2, <1>3
  <2> QED
    BY <1>1, <2>1, TailOf, Zenon
<1>12. Past' = o /\ Len(pending') <= Len(given')
  <2>1. Past' = Len(given) - Len(pending')
    BY <1>1 DEF Past
  <2> QED
    BY <1>1, <1>2, <1>3, <1>11, <2>1
<1>13. ASSUME NEW i \in 1 .. Len(pending') PROVE pending'[i] = given'[Past' + i]
  <2>1. i \in 1 .. Len(pending) - q + 1 /\ q + i - 1 \in 1 .. Len(pending) /\ Past + (q + i - 1) = o + i
    BY <1>2, <1>3, <1>11
  <2>2. pending'[i] = given[Past + (q + i - 1)]
    BY <1>2, <1>11, <2>1
  <2> QED
    BY <1>1, <1>12, <2>1, <2>2
<1> HIDE DEF o
<1>14. voiced' = Kept(given')[Past'] /\ Clear(given', Past') /\ Past' + 1 \in Places(OpenTag, given')
  BY <1>1, <1>5, <1>7, <1>10, <1>12
<1> QED
  BY <1>1, <1>10, <1>11, <1>12, <1>13, <1>14 DEF Sifted

LEMMA PlainKeeps ==
  ASSUME FilterInv, Sifted, Plain
  PROVE  pending' \in Seq(Symbols) /\ voiced' \in Seq(Symbols) /\ Sifted'
<1> DEFINE said == Len(pending) - PartialMarker
           o == Past + said
<1>1. /\ given \in Seq(Symbols) /\ pending \in Seq(Symbols) /\ voiced \in Seq(Symbols)
      /\ pending # <<>> /\ Find(OpenTag, pending) = 0
      /\ pending' = SubSeq(pending, said + 1, Len(pending)) /\ ~ suppressing' /\ suppressing \in BOOLEAN
      /\ voiced' = voiced \o SubSeq(pending, 1, said)
      /\ given' = given /\ filter' = "idle"
  BY DEF Plain, Feeding, FilterInv
<1>2. /\ Len(given) \in Nat /\ Len(pending) \in Nat /\ Past \in 0 .. Len(given)
      /\ Len(given) = Past + Len(pending) /\ Kept(given)[Past] = voiced
      /\ \A i \in 1 .. Len(pending) : pending[i] = given[Past + i]
      /\ \A i \in Int : i \in Places(OpenTag, pending) <=> i > 0 /\ Past + i \in Places(OpenTag, given)
  BY PendingIs
<1>3. /\ Len(pending) > 0 /\ Last(pending) = pending[Len(pending)]
      /\ said \in {Len(pending) - 1, Len(pending)}
      /\ said = Len(pending) - 1 <=> pending[Len(pending)] = "<"
  BY <1>1, <1>2 DEF PartialMarker, Last
<1>4. Places(OpenTag, pending) = {} /\ Clear(given, Past)
  BY <1>1, FindIs DEF Sifted
<1> HIDE DEF said
<1>5. o \in Past .. Len(given) /\ said \in 0 .. Len(pending)
  BY <1>2, <1>3
<1>6. \A i \in Past + 1 .. Len(given) : i \notin Places(OpenTag, given)
  <2>1. ASSUME NEW i \in Past + 1 .. Len(given), i \in Places(OpenTag, given) PROVE FALSE
    <3>1. i - Past \in Int /\ i - Past > 0 /\ Past + (i - Past) = i
      BY <1>2
    <3>2. i - Past \in Places(OpenTag, pending)
      BY <1>2, <2>1, <3>1
    <3> QED
      BY <1>4, <3>2
  <2> QED
    BY <2>1
<1>7. Clear(given, o) /\ \A i \in Past + 1 .. o : i \notin Markup(given)
  <2>1. o = Len(given) => given[o] # "<"
    <3>1. o = Len(given) => said = Len(pending) /\ o = Past + Len(pending)
      BY <1>2, <1>5
    <3>2. given[Past + Len(pending)] = pending[Len(pending)]
      BY <1>2, <1>3
    <3> QED
      BY <1>2, <1>3, <3>1, <3>2
  <2>2. \A i \in Past + 1 .. o : i \notin Places(OpenTag, given)
    BY <1>2, <1>5, <1>6
  <2> HIDE DEF o
  <2>3. (o = Len(given) /\ o > 0 => given[o] # "<") => Clear(given, o)
    BY <1>1, <1>2, <1>4, <1>5, <2>2, NoMarkup
  <2>4. \A i \in Past + 1 .. o : i \notin Markup(given)
    BY <1>1, <1>2, <1>4, <1>5, <2>2, NoMarkup
  <2> QED
    BY <2>1, <2>3, <2>4
<1>8. Kept(given)[o] = voiced \o SubSeq(given, Past + 1, o)
  <2> HIDE DEF o
  <2> QED
    BY <1>1, <1>2, <1>5, <1>7, KeptTakes
<1>9. SubSeq(given, Past + 1, o) = SubSeq(pending, 1, said) /\ SubSeq(pending, 1, said) \in Seq(Symbols)
  <2>1. /\ Past \in Nat /\ said \in Nat /\ said <= Len(pending) /\ Past + said <= Len(given)
        /\ Past + said = o
    BY <1>2, <1>3, <1>5
  <2> HIDE DEF o
  <2> QED
    <3>1. SubSeq(given, Past + 1, Past + said) = SubSeq(pending, 1, said) /\ SubSeq(pending, 1, said) \in Seq(Symbols)
      <4>1. \A i \in 1 .. Len(pending) : pending[i] = given[Past + i]
        BY <1>2
      <4> QED
        BY <1>1, <2>1, <4>1, SameWords, Zenon
    <3> QED
      BY <2>1, <3>1
<1>10. voiced' = Kept(given)[o] /\ voiced' \in Seq(Symbols)
  <2>1. \A s, u \in Seq(Symbols) : s \o u \in Seq(Symbols)
    OBVIOUS
  <2> QED
    BY <1>1, <1>8, <1>9, <2>1, Zenon
<1>11. pending' \in Seq(Symbols) /\ Len(pending') = Len(pending) - said
       /\ \A i \in 1 .. Len(pending) - said : pending'[i] = pending[said + i]
  <2>1. said + 1 \in 1 .. Len(pending) + 1
    BY <1>2, <1>3
  <2> DEFINE tail == SubSeq(pending, said + 1, Len(pending))
  <2>2. /\ tail \in Seq(Symbols) /\ Len(tail) = Len(pending) - (said + 1) + 1
        /\ \A i \in 1 .. Len(pending) - (said + 1) + 1 : tail[i] = pending[said + 1 + i - 1]
    BY <1>1, <2>1, TailOf, Zenon
  <2>3. pending' = tail
    BY <1>1
  <2> HIDE DEF tail
  <2> QED
    BY <1>2, <1>3, <2>2, <2>3
<1>12. Past' = o /\ Len(pending') <= Len(given')
  <2>1. Past' = Len(given) - Len(pending')
    BY <1>1 DEF Past
  <2> QED
    BY <1>1, <1>2, <1>3, <1>11, <2>1
<1>13. ASSUME NEW i \in 1 .. Len(pending') PROVE pending'[i] = given'[Past' + i]
  <2>1. i \in 1 .. Len(pending) - said /\ said + i \in 1 .. Len(pending) /\ Past + (said + i) = o + i
    BY <1>2, <1>3, <1>11
  <2>2. pending'[i] = given[Past + (said + i)]
    BY <1>2, <1>11, <2>1
  <2> QED
    BY <1>1, <1>12, <2>1, <2>2
<1>14. pending' \in {<<>>, <<"<">>}
  <2>1. CASE said = Len(pending)
    <3>1. Len(pending') = 0
      BY <1>2, <1>11, <2>1
    <3> QED
      BY <1>11, <3>1
  <2>2. CASE said = Len(pending) - 1
    <3>1. Len(pending') = 1 /\ pending'[1] = "<"
      <4>1. Len(pending') = 1 /\ 1 \in 1 .. Len(pending) - said /\ said + 1 = Len(pending)
        BY <1>2, <1>11, <2>2
      <4> QED
        BY <1>3, <1>11, <2>2, <4>1
    <3>2. pending' = <<pending'[1]>>
      BY <1>11, <3>1, OneIs
    <3> QED
      BY <3>1, <3>2, Zenon
  <2> QED
    BY <1>3, <2>1, <2>2
<1> HIDE DEF o
<1>15. voiced' = Kept(given')[Past'] /\ Clear(given', Past')
  BY <1>1, <1>7, <1>10, <1>12
<1> QED
  BY <1>1, <1>10, <1>11, <1>12, <1>13, <1>14, <1>15 DEF Sifted

LEMMA NothingKeeps ==
  ASSUME FilterInv, Sifted, NothingPending
  PROVE  Sifted'
<1>1. /\ given \in Seq(Symbols) /\ pending = <<>> /\ suppressing \in BOOLEAN
      /\ UNCHANGED <<given, voiced, pending, suppressing>> /\ filter' = "idle"
  BY DEF NothingPending, FilterInv
<1>2. ~ suppressing
  <2>1. Past = Len(given)
    BY <1>1 DEF Past
  <2> QED
    BY <1>1, <2>1, OpensAre DEF Sifted
<1> QED
  BY <1>1, <1>2 DEF Sifted, Past

LEMMA FlushKeeps ==
  ASSUME FilterInv, Sifted, FlushFilter
  PROVE  voiced' = Meant(given') /\ voiced' \in Seq(Symbols)
<1> DEFINE end == Len(given)
<1>1. /\ given \in Seq(Symbols) /\ pending \in Seq(Symbols) /\ voiced \in Seq(Symbols)
      /\ filter = "idle" /\ given' = given /\ suppressing \in BOOLEAN
      /\ voiced' = IF suppressing THEN voiced ELSE voiced \o pending
  BY DEF FlushFilter, FilterInv
<1>2. /\ Len(given) \in Nat /\ Len(pending) \in Nat /\ Past \in 0 .. Len(given)
      /\ Len(given) = Past + Len(pending) /\ Kept(given)[Past] = voiced
      /\ \A i \in 1 .. Len(pending) : pending[i] = given[Past + i]
      /\ \A i \in Int : i \in Places(OpenTag, pending) <=> i > 0 /\ Past + i \in Places(OpenTag, given)
      /\ \A i \in Int : i \in Places(CloseTag, pending) <=> i > 0 /\ Past + i \in Places(CloseTag, given)
  BY PendingIs
<1>3. Meant(given') = Kept(given)[Len(given)]
  BY <1>1 DEF Meant
<1>4. CASE suppressing
  <2>1. Past + 1 \in Places(OpenTag, given) /\ Places(CloseTag, pending) = {}
    BY <1>1, <1>4 DEF Sifted
  <2>2. \A e \in Places(CloseTag, given) : e <= Past \/ Len(given) <= e + 1
    <3>1. ASSUME NEW e \in Places(CloseTag, given), ~ e <= Past PROVE FALSE
      <4>1. e \in Int
        BY <1>1, ClosesAre
      <4>2. e - Past \in Int /\ e - Past > 0 /\ Past + (e - Past) = e
        BY <1>2, <3>1, <4>1
      <4>3. e - Past \in Places(CloseTag, pending)
        BY <1>2, <3>1, <4>2
      <4> QED
        BY <2>1, <4>3
    <3> QED
      BY <3>1
  <2>3. Len(given) \in Past .. Len(given)
    BY <1>2
  <2>4. \A i \in Past + 1 .. Len(given) : i \in Markup(given)
    BY <1>1, <1>2, <2>1, <2>2, <2>3, AllMarkup
  <2>5. Kept(given)[Len(given)] = Kept(given)[Past]
    BY <1>1, <1>2, <2>3, <2>4, KeptSkips
  <2> QED
    BY <1>1, <1>2, <1>3, <1>4, <2>5
<1>5. CASE ~ suppressing
  <2>1. pending \in {<<>>, <<"<">>} /\ Clear(given, Past)
    BY <1>1, <1>5 DEF Sifted
  <2>2. Len(pending) <= 1
    <3>1. Len(<<>>) = 0 /\ Len(<<"<">>) = 1
      OBVIOUS
    <3>2. Len(pending) = 0 \/ Len(pending) = 1
      BY <2>1, <3>1, Zenon
    <3> QED
      BY <1>2, <3>2
  <2>3. \A o \in Past + 1 .. Len(given) : o \notin Places(OpenTag, given)
    BY <1>1, <1>2, <2>2, OpensAre
  <2>4. Len(given) \in Past .. Len(given)
    BY <1>2
  <2>5. \A i \in Past + 1 .. Len(given) : i \notin Markup(given)
    BY <1>1, <1>2, <2>1, <2>3, <2>4, NoMarkup
  <2>6. Kept(given)[Len(given)] = voiced \o SubSeq(given, Past + 1, Len(given))
    BY <1>1, <1>2, <2>4, <2>5, KeptTakes
  <2>7. SubSeq(given, Past + 1, Past + Len(pending)) = SubSeq(pending, 1, Len(pending))
    <3>1. Past \in Nat /\ Len(pending) <= Len(pending) /\ Past + Len(pending) <= Len(given)
      BY <1>2
    <3> QED
      BY <1>1, <1>2, <3>1, SameWords
  <2>8. SubSeq(pending, 1, Len(pending)) = pending
    BY <1>1
  <2>9. SubSeq(given, Past + 1, Len(given)) = pending
    BY <1>2, <2>7, <2>8
  <2>10. \A s, u \in Seq(Symbols) : s \o u \in Seq(Symbols)
    OBVIOUS
  <2> QED
    BY <1>1, <1>3, <1>5, <2>6, <2>9, <2>10, Zenon
<1> QED
  BY <1>1, <1>4, <1>5

-----------------------------------------------------------------------------
LEMMA FilterBegins == FilterInit => FilterInv
<1> SUFFICES ASSUME FilterInit PROVE FilterInv
  OBVIOUS
<1>1. given = <<>> /\ voiced = <<>> /\ pending = <<>> /\ ~ suppressing /\ filter = "idle" /\ ~ gaveUp
      /\ suppressing \in BOOLEAN /\ gaveUp \in BOOLEAN
  BY DEF FilterInit
<1>2. <<>> \in Seq(Symbols) /\ Len(<<>>) = 0
  OBVIOUS
<1>3. Past = 0
  BY <1>1, <1>2 DEF Past
<1>4. Kept(given)[Past] = <<>>
  BY <1>1, <1>2, <1>3, KeptIs
<1>5. Clear(given, 0)
  <2>1. given \in Seq(Symbols) /\ Len(given) = 0
    BY <1>1, <1>2
  <2>2. \A o : o \notin Places(OpenTag, given)
    <3>1. 1 .. Len(given) - 1 = {}
      BY <2>1
    <3> QED
      BY <2>1, <3>1, OpensAre, Zenon
  <2> QED
    BY <2>1, <2>2 DEF Clear
<1>6. Sifted
  BY <1>1, <1>2, <1>3, <1>4, <1>5 DEF Sifted
<1> QED
  BY <1>1, <1>2, <1>6 DEF FilterInv

\* After markup was given up nothing but the types is claimed.
LEMMA FilterTyped ==
  ASSUME FilterInv, FilterNext
  PROVE  /\ given' \in Seq(Symbols) /\ pending' \in Seq(Symbols) /\ voiced' \in Seq(Symbols)
         /\ suppressing' \in BOOLEAN /\ gaveUp' \in BOOLEAN /\ filter' \in {"idle", "feeding", "flushed"}
         /\ gaveUp => gaveUp'
<1>1. /\ given \in Seq(Symbols) /\ pending \in Seq(Symbols) /\ voiced \in Seq(Symbols)
      /\ suppressing \in BOOLEAN /\ gaveUp \in BOOLEAN /\ filter \in {"idle", "feeding", "flushed"}
  BY DEF FilterInv
<1>2. \A s, u \in Seq(Symbols) : s \o u \in Seq(Symbols)
  OBVIOUS
<1>3. <<>> \in Seq(Symbols) /\ Len(pending) \in Nat
  <2>1. <<>> \in Seq(Symbols)
    OBVIOUS
  <2> QED
    BY <1>1, <2>1
<1>4. /\ \A a \in 1 .. Len(pending) + 1 : SubSeq(pending, a, Len(pending)) \in Seq(Symbols)
      /\ \A n \in 0 .. Len(pending) : SubSeq(pending, 1, n) \in Seq(Symbols)
  BY <1>1, TailOf, HeadOf
<1>5. ASSUME NEW chunk \in Chunks, FeedChunk(chunk)
      PROVE  given' \in Seq(Symbols) /\ pending' \in Seq(Symbols) /\ voiced' \in Seq(Symbols)
  BY <1>1, <1>2, <1>5, ChunksAre, Zenon DEF FeedChunk
<1>6. CASE EndsMarkup
  <2>1. Find(CloseTag, pending) \in 1 .. Len(pending) - 1
    BY <1>1, <1>6, FindIs DEF EndsMarkup
  <2> QED
    <3>1. SubSeq(pending, Find(CloseTag, pending) + 2, Len(pending)) \in Seq(Symbols)
      BY <1>3, <1>4, <2>1
    <3> QED
      BY <1>1, <1>6, <3>1 DEF EndsMarkup
<1>7. CASE HoldsMarkup
  BY <1>1, <1>3, <1>7 DEF HoldsMarkup
<1>8. CASE BeginsMarkup
  <2>1. Find(OpenTag, pending) \in 1 .. Len(pending) - 1
    BY <1>1, <1>8, FindIs DEF BeginsMarkup
  <2> QED
    BY <1>1, <1>2, <1>3, <1>4, <1>8, <2>1 DEF BeginsMarkup
<1>9. CASE Plain
  <2>1. PartialMarker \in {0, 1} /\ Len(pending) > 0
    BY <1>1, <1>9 DEF PartialMarker, Plain, Feeding
  <2> QED
    BY <1>1, <1>2, <1>3, <1>4, <1>9, <2>1 DEF Plain
<1>10. CASE NothingPending
  BY <1>1, <1>10 DEF NothingPending
<1>11. CASE FlushFilter
  BY <1>1, <1>2, <1>3, <1>11 DEF FlushFilter
<1>12. ASSUME NEW chunk \in Chunks, FeedChunk(chunk)
       PROVE  suppressing' \in BOOLEAN /\ gaveUp' \in BOOLEAN /\ filter' = "feeding" /\ gaveUp' = gaveUp
  BY <1>1, <1>12 DEF FeedChunk
<1> QED
  BY <1>5, <1>6, <1>7, <1>8, <1>9, <1>10, <1>11, <1>12 DEF FilterNext

LEMMA FilterStep == FilterInv /\ [FilterNext]_filterVars => FilterInv'
<1> SUFFICES ASSUME FilterInv, [FilterNext]_filterVars PROVE FilterInv'
  OBVIOUS
<1>1. CASE UNCHANGED filterVars
  BY <1>1 DEF filterVars, FilterInv, Sifted, Past
<1>2. CASE FilterNext
  <2>1. /\ given' \in Seq(Symbols) /\ pending' \in Seq(Symbols) /\ voiced' \in Seq(Symbols)
        /\ suppressing' \in BOOLEAN /\ gaveUp' \in BOOLEAN /\ filter' \in {"idle", "feeding", "flushed"}
        /\ gaveUp => gaveUp'
    BY <1>2, FilterTyped
  <2>2. ASSUME ~ gaveUp' PROVE IF filter' = "flushed" THEN voiced' = Meant(given)' ELSE Sifted'
    <3>1. Sifted \/ filter = "flushed"
      BY <2>1, <2>2 DEF FilterInv
    <3>2. ASSUME NEW chunk \in Chunks, FeedChunk(chunk) PROVE Sifted' /\ filter' # "flushed"
      BY <3>1, <3>2, FeedKeeps DEF FeedChunk
    <3>3. CASE EndsMarkup
      BY <3>1, <3>3, EndsKeeps DEF EndsMarkup, Feeding
    <3>4. CASE HoldsMarkup
      BY <2>2, <3>1, <3>4, HoldsKeeps DEF HoldsMarkup, Feeding
    <3>5. CASE BeginsMarkup
      BY <3>1, <3>5, BeginsKeeps DEF BeginsMarkup, Feeding
    <3>6. CASE Plain
      BY <3>1, <3>6, PlainKeeps DEF Plain, Feeding
    <3>7. CASE NothingPending
      BY <3>1, <3>7, NothingKeeps DEF NothingPending
    <3>8. CASE FlushFilter
      BY <3>1, <3>8, FlushKeeps DEF FlushFilter
    <3> QED
      BY <1>2, <3>2, <3>3, <3>4, <3>5, <3>6, <3>7, <3>8 DEF FilterNext
  <2> QED
    BY <2>1, <2>2 DEF FilterInv
<1> QED
  BY <1>1, <1>2

LEMMA FilterSafe == FilterInv => SpokenInAnyChunks
<1> SUFFICES ASSUME FilterInv, ~ gaveUp, filter # "flushed" PROVE IsPrefix(voiced, Meant(given))
  BY DEF FilterInv, SpokenInAnyChunks
<1>1. given \in Seq(Symbols) /\ Sifted
  BY DEF FilterInv
<1>2. Past \in 0 .. Len(given) /\ Len(given) \in Past .. Len(given) /\ Kept(given)[Past] = voiced
  BY <1>1, PendingIs
<1> QED
  BY <1>1, <1>2, KeptGrows DEF Meant

\* sanitize.py's "guarantees the markup is never voiced", and that it costs no word
\* besides, however the reply is cut into chunks: the invariant of
\* InlineToolCallFilter.feed and flush, for every reply of any length.
THEOREM MarkupIsNeverVoiced == FilterSpec => []SpokenInAnyChunks
<1>1. FilterSpec => []FilterInv
  BY FilterBegins, FilterStep, PTL DEF FilterSpec
<1> QED
  BY <1>1, FilterSafe, PTL

-----------------------------------------------------------------------------
(* Availability: days and grids.                                           *)

LEMMA MulKeeps ==
  ASSUME NEW a \in Int, NEW b \in Int, NEW c \in Nat, a <= b
  PROVE  a * c <= b * c
OBVIOUS

LEMMA MulSucc ==
  ASSUME NEW a \in Int, NEW c \in Nat
  PROVE  (a + 1) * c = a * c + c
OBVIOUS

LEMMA MulInt == \A a, c \in Int : a * c \in Int
OBVIOUS

LEMMA MulNat == \A a, c \in Nat : a * c \in Nat
OBVIOUS

\* The only quotient and remainder,
LEMMA DivUnique ==
  ASSUME NEW q \in Int, NEW a \in Int, NEW b \in Nat \ {0}, q * b <= a, a < q * b + b
  PROVE  a \div b = q /\ a % b = a - q * b
<1> PICK m \in Int : m = q * b
  BY MulInt
<1> PICK r \in Int : r = a - m
  OBVIOUS
<1>1. 0 <= r /\ r < b /\ q * b + r = a
  OBVIOUS
<1>2. (q * b + r) \div b = q /\ (q * b + r) % b = r
  BY <1>1
<1> QED
  BY <1>1, <1>2

\* and that there are some.
LEMMA DivIs ==
  ASSUME NEW a \in Nat, NEW b \in Nat \ {0}
  PROVE  \E q \in Nat : \E r \in 0 .. b - 1 : a = q * b + r /\ a \div b = q /\ a % b = r
<1> DEFINE Left == {n \in Nat : \E k \in Nat : a = k * b + n}
<1>1. Left \subseteq Nat /\ Left # {}
  <2>1. a = 0 * b + a
    OBVIOUS
  <2> QED
    BY <2>1
<1>2. PICK r \in Left : \A n \in Left : r <= n
  <2> HIDE DEF Left
  <2> QED
    BY <1>1, LeastOf
<1>3. PICK k \in Nat : a = k * b + r
  BY <1>2
<1>4. r \in Nat
  BY <1>2
<1>5. r < b
  <2>1. CASE b <= r
    <3>1. k + 1 \in Nat /\ r - b \in Nat /\ (k + 1) * b = k * b + b
      BY <1>4, <2>1, MulSucc
    <3> PICK m \in Nat : m = k * b
      BY MulNat
    <3>2. a = (k + 1) * b + (r - b)
      BY <1>3, <1>4, <3>1
    <3>3. r - b \in Left
      BY <3>1, <3>2
    <3>4. r <= r - b
      BY <1>2, <3>3
    <3> QED
      BY <1>4, <3>4
  <2> QED
    BY <1>4, <2>1
<1>6. k * b <= a /\ a < k * b + b /\ a - k * b = r
  <2> PICK m \in Nat : m = k * b
    BY MulNat
  <2> QED
    BY <1>3, <1>4, <1>5
<1>7. a \div b = k /\ a % b = a - k * b
  BY <1>6, DivUnique
<1>8. r \in 0 .. b - 1
  BY <1>4, <1>5
<1>9. a % b = r
  BY <1>6, <1>7, Zenon
<1> QED
  BY <1>3, <1>7, <1>8, <1>9, Zenon

LEMMA DivNat ==
  ASSUME NEW a \in Nat, NEW b \in Nat \ {0}
  PROVE  a \div b \in Nat
BY DivIs

LEMMA MaxIs ==
  ASSUME NEW a \in Int, NEW b \in Int
  PROVE  Max({a, b}) = IF a >= b THEN a ELSE b
<1>1. \E x \in {a, b} : \A y \in {a, b} : x >= y
  OBVIOUS
<1>2. Max({a, b}) \in {a, b} /\ \A y \in {a, b} : Max({a, b}) >= y
  BY <1>1 DEF Max
<1> QED
  BY <1>2

LEMMA MidnightIs ==
  ASSUME NEW t \in Nat
  PROVE  /\ t \div DayLength \in Nat /\ Midnight(t) \in Nat /\ Midnight(t) <= t
         /\ t < Midnight(t) + DayLength /\ Midnight(t) = (t \div DayLength) * DayLength
<1>1. DayLength \in Nat \ {0}
  BY AvailabilityBounds
<1>2. PICK q \in Nat : \E r \in 0 .. DayLength - 1 : t = q * DayLength + r /\ t \div DayLength = q
  BY <1>1, DivIs, Zenon
<1> PICK m \in Nat : m = q * DayLength
  BY <1>1, MulNat
<1>3. Midnight(t) = m /\ Midnight(t) = (t \div DayLength) * DayLength /\ t \div DayLength \in Nat
  BY <1>2, Zenon DEF Midnight
<1>4. m <= t /\ t < m + DayLength
  BY <1>1, <1>2
<1> QED
  BY <1>1, <1>3, <1>4

LEMMA DayIs ==
  ASSUME NEW d \in Nat, NEW t \in Nat, d * DayLength <= t, t < d * DayLength + DayLength
  PROVE  t \div DayLength = d /\ Midnight(t) = d * DayLength
BY AvailabilityBounds, DivUnique DEF Midnight

\* Two moments of one day have the moments between them in it too.
LEMMA Between ==
  ASSUME NEW a \in Nat, NEW b \in Nat, NEW c \in Nat, a <= b, b <= c, Midnight(a) = Midnight(c)
  PROVE  Midnight(b) = Midnight(a) /\ b \div DayLength = a \div DayLength
<1>1. /\ a \div DayLength \in Nat /\ Midnight(a) = (a \div DayLength) * DayLength /\ Midnight(a) <= a
      /\ c < Midnight(c) + DayLength /\ Midnight(a) \in Nat /\ DayLength \in Nat
  BY MidnightIs, AvailabilityBounds
<1>2. (a \div DayLength) * DayLength <= b /\ b < (a \div DayLength) * DayLength + DayLength
  BY <1>1
<1> QED
  BY <1>1, <1>2, DayIs

\* A start time counted from another: so many steps after it.
LEMMA GridIs ==
  ASSUME NEW from \in Int, NEW to \in Int, NEW c \in Int
  PROVE  c \in Grid(from, to) <=> /\ from <= c /\ c <= to
                                  /\ \E k \in Nat : c = from + k * Granularity
<1>1. Granularity \in Nat \ {0}
  BY AvailabilityBounds
<1>2. ASSUME NEW k \in Nat, c = from + k * Granularity PROVE (c - from) % Granularity = 0
  <2>1. k * Granularity \in Int /\ c - from = k * Granularity
    BY <1>1, <1>2
  <2>2. k * Granularity <= c - from /\ c - from < k * Granularity + Granularity
    BY <1>1, <2>1
  <2> DEFINE a == c - from
  <2>3. a \in Int /\ k * Granularity <= a /\ a < k * Granularity + Granularity /\ a = k * Granularity
    BY <2>1, <2>2
  <2> HIDE DEF a
  <2>4. a % Granularity = a - k * Granularity
    BY <1>1, <2>3, DivUnique
  <2>5. a % Granularity = 0
    BY <2>3, <2>4
  <2> QED
    BY <2>5 DEF a
<1>3. ASSUME from <= c, (c - from) % Granularity = 0
      PROVE  \E k \in Nat : c = from + k * Granularity
  <2> PICK a \in Nat : a = c - from
    BY <1>3
  <2>1. a % Granularity = 0
    BY <1>3
  <2>2. PICK k \in Nat : \E r \in 0 .. Granularity - 1 : a = k * Granularity + r /\ a % Granularity = r
    BY <1>1, DivIs, Zenon
  <2>3. a = k * Granularity + 0
    BY <2>1, <2>2, Zenon
  <2> PICK m \in Nat : m = k * Granularity
    BY <1>1, MulNat
  <2>4. c = from + m
    BY <2>3
  <2> QED
    BY <2>4
<1> QED
  BY <1>2, <1>3 DEF Grid

\* _round_up: the first start time of the day from a moment on.
LEMMA RoundUpIs ==
  ASSUME NEW t \in Nat
  PROVE  /\ RoundUp(t) \in Nat /\ t <= RoundUp(t) /\ RoundUp(t) < t + Granularity
         /\ \E k \in Nat : RoundUp(t) = Midnight(t) + k * Granularity
<1>1. Granularity \in Nat \ {0} /\ Midnight(t) \in Nat /\ Midnight(t) <= t
  BY AvailabilityBounds, MidnightIs
<1> PICK e \in Nat : e = t - Midnight(t) + Granularity - 1
  BY <1>1
<1>2. PICK k \in Nat : \E r \in 0 .. Granularity - 1 : e = k * Granularity + r /\ e \div Granularity = k
  BY <1>1, DivIs, Zenon
<1>3. PICK r \in 0 .. Granularity - 1 : e = k * Granularity + r
  BY <1>2
<1>4. RoundUp(t) = Midnight(t) + k * Granularity
  BY <1>2, Zenon DEF RoundUp
<1> PICK m \in Nat : m = k * Granularity
  BY <1>1, MulNat
<1>5. e = m + r /\ RoundUp(t) = Midnight(t) + m
  BY <1>3, <1>4, Zenon
<1>6. RoundUp(t) \in Nat /\ t <= RoundUp(t) /\ RoundUp(t) < t + Granularity
  BY <1>1, <1>3, <1>5
<1> QED
  BY <1>4, <1>6, Zenon

LEMMA RoundUpIsLeast ==
  ASSUME NEW t \in Nat, NEW c \in Nat, t <= c, NEW j \in Nat, c = Midnight(t) + j * Granularity
  PROVE  RoundUp(t) <= c /\ \E k \in Nat : c = RoundUp(t) + k * Granularity
<1>1. Granularity \in Nat \ {0} /\ Midnight(t) \in Nat
  BY AvailabilityBounds, MidnightIs
<1>2. /\ RoundUp(t) \in Nat /\ t <= RoundUp(t) /\ RoundUp(t) < t + Granularity
      /\ \E k \in Nat : RoundUp(t) = Midnight(t) + k * Granularity
  BY RoundUpIs
<1>3. PICK k \in Nat : RoundUp(t) = Midnight(t) + k * Granularity
  BY <1>2
<1>4. k <= j
  <2>1. CASE j < k
    <3>1. j + 1 \in Int /\ (j + 1) * Granularity <= k * Granularity
      BY <1>1, <2>1, MulKeeps
    <3>2. (j + 1) * Granularity = j * Granularity + Granularity /\ j * Granularity \in Int /\ k * Granularity \in Int
      BY <1>1, MulSucc
    <3> QED
      BY <1>1, <1>2, <1>3, <3>1, <3>2
  <2> QED
    BY <2>1
<1>5. j - k \in Nat
  BY <1>4
<1>6. j * Granularity = k * Granularity + (j - k) * Granularity /\ (j - k) * Granularity \in Nat
  BY <1>1, <1>5
<1>7. k * Granularity \in Int /\ j * Granularity \in Int
  BY <1>1
<1>8. c = RoundUp(t) + (j - k) * Granularity
  BY <1>1, <1>2, <1>3, <1>6, <1>7
<1>9. RoundUp(t) <= c
  BY <1>2, <1>6, <1>8
<1> QED
  BY <1>5, <1>8, <1>9

-----------------------------------------------------------------------------
(* The nearest of some times.                                              *)

LEMMA NearerOrders ==
  ASSUME NEW time \in Int
  PROVE  /\ \A t \in Int : ~ Nearer(t, t, time)
         /\ \A t, s, u \in Int : Nearer(t, s, time) /\ Nearer(s, u, time) => Nearer(t, u, time)
         /\ \A t, s \in Int : t = s \/ Nearer(t, s, time) \/ Nearer(s, t, time)
BY DEF Nearer, Away

\* How many of the slots are nearer than one of them.
Ahead(s, slots, time) == {t \in slots : Nearer(t, s, time)}
Rank(s, slots, time)  == Cardinality(Ahead(s, slots, time))

LEMMA RankIs ==
  ASSUME NEW time \in Int, NEW slots \in SUBSET Int, IsFiniteSet(slots)
  PROVE  \A s : IsFiniteSet(Ahead(s, slots, time)) /\ Rank(s, slots, time) \in Nat
<1>1. \A s : Ahead(s, slots, time) \subseteq slots
  BY DEF Ahead
<1> QED
  BY <1>1, FS_Subset, FS_CardinalityType DEF Rank

\* A nearer one has fewer that are nearer still.
LEMMA RankGrows ==
  ASSUME NEW time \in Int, NEW slots \in SUBSET Int, IsFiniteSet(slots),
         NEW t \in slots, NEW s \in slots, Nearer(t, s, time)
  PROVE  Rank(t, slots, time) < Rank(s, slots, time)
<1> DEFINE A == Ahead(t, slots, time)
           B == Ahead(s, slots, time)
<1>1. IsFiniteSet(A) /\ IsFiniteSet(B)
  BY RankIs
<1>2. A \subseteq B
  BY NearerOrders DEF Ahead
<1>3. t \in B /\ t \notin A
  BY NearerOrders DEF Ahead
<1> HIDE DEF A, B
<1>4. Cardinality(A) < Cardinality(B)
  <2>1. Cardinality(A) <= Cardinality(B) /\ (Cardinality(A) = Cardinality(B) => A = B)
    BY <1>1, <1>2, FS_Subset
  <2>2. Cardinality(A) \in Nat /\ Cardinality(B) \in Nat
    BY <1>1, FS_CardinalityType
  <2> QED
    BY <1>3, <2>1, <2>2
<1> QED
  BY <1>4 DEF A, B, Rank

\* Of slots enough, so many are ahead of all the others.
LEMMA FirstFew ==
  ASSUME NEW time \in Int, NEW slots \in SUBSET Int, IsFiniteSet(slots),
         NEW c \in slots, NEW n \in Nat, n <= Rank(c, slots, time)
  PROVE  Cardinality({s \in slots : Rank(s, slots, time) < n}) = n
<1> DEFINE R(s) == Rank(s, slots, time)
           Few(k) == {s \in slots : R(s) < k}
           G == {k \in Nat : Cardinality(Few(k)) = k}
<1>0. \A s \in slots : R(s) \in Nat /\ IsFiniteSet(Ahead(s, slots, time))
  BY RankIs
<1>1. 0 \in G
  <2>1. Few(0) = {}
    <3>1. ASSUME NEW s \in slots, R(s) < 0 PROVE FALSE
      <4>1. R(s) \in Nat
        BY <1>0
      <4> HIDE DEF R
      <4> QED
        BY <3>1, <4>1
    <3> HIDE DEF R
    <3> QED
      BY <3>1
  <2> QED
    BY <2>1, FS_EmptySet
<1>2. ASSUME NEW k \in 0 .. n - 1, k \in G PROVE k + 1 \in G
  <2>0. k \in Nat /\ k + 1 \in Nat /\ k < R(c) /\ Cardinality(Few(k)) = k
    BY <1>0, <1>2
  <2>1. IsFiniteSet(Few(k))
    BY FS_Subset
  <2> DEFINE Rest == Ahead(c, slots, time) \ Few(k)
             Ranks == {R(s) : s \in Rest}
  <2>2. Rest # {}
    <3>1. IsFiniteSet(Ahead(c, slots, time)) /\ Cardinality(Ahead(c, slots, time)) = R(c)
      BY <1>0 DEF Rank
    <3> HIDE DEF Few, R
    <3>2. CASE Ahead(c, slots, time) \subseteq Few(k)
      <4>1. Cardinality(Ahead(c, slots, time)) <= Cardinality(Few(k))
        BY <2>1, <3>2, FS_Subset
      <4> QED
        BY <1>0, <2>0, <3>1, <4>1
    <3> QED
      BY <3>2
  <2>3. \A s \in Rest : s \in slots /\ R(s) \in Nat /\ ~ R(s) < k /\ Nearer(s, c, time)
    BY <1>0 DEF Ahead
  <2>4. PICK m \in Rest : \A s \in Rest : R(m) <= R(s)
    <3> HIDE DEF Rest, R
    <3>1. Ranks \subseteq Nat /\ Ranks # {}
      BY <2>2, <2>3
    <3>2. PICK r \in Ranks : \A j \in Ranks : r <= j
      <4> HIDE DEF Ranks
      <4> QED
        BY <3>1, LeastOf
    <3> QED
      BY <3>2
  <2>5. Ahead(m, slots, time) \subseteq Few(k)
    <3>1. ASSUME NEW t \in Ahead(m, slots, time), t \notin Few(k) PROVE FALSE
      <4>1. t \in slots /\ Nearer(t, m, time)
        BY DEF Ahead
      <4>2. t \in Rest
        BY <2>3, <3>1, <4>1, NearerOrders DEF Ahead
      <4>3. R(t) < R(m)
        BY <2>3, <4>1, RankGrows
      <4>4. R(m) <= R(t) /\ R(m) \in Nat /\ R(t) \in Nat
        BY <2>3, <2>4, <4>2
      <4> HIDE DEF R
      <4> QED
        BY <4>3, <4>4
    <3> QED
      BY <3>1
  <2>6. R(m) = k
    <3>1. R(m) <= Cardinality(Few(k))
      <4> HIDE DEF Few
      <4> QED
        BY <2>1, <2>5, FS_Subset DEF Rank
    <3> HIDE DEF R, Few
    <3> QED
      BY <2>0, <2>3, <2>4, <3>1
  <2>7. Few(k + 1) = Few(k) \cup {m}
    <3>1. ASSUME NEW s \in slots, R(s) = k PROVE s = m
      <4>1. CASE Nearer(s, m, time)
        <5>1. R(s) < R(m)
          BY <2>3, <4>1, RankGrows
        <5> HIDE DEF R
        <5> QED
          BY <2>0, <2>6, <3>1, <5>1
      <4>2. CASE Nearer(m, s, time)
        <5>1. R(m) < R(s)
          BY <2>3, <4>2, RankGrows
        <5> HIDE DEF R
        <5> QED
          BY <2>0, <2>6, <3>1, <5>1
      <4> QED
        BY <2>3, <4>1, <4>2, NearerOrders
    <3>2. \A s \in slots : R(s) < k + 1 <=> R(s) < k \/ R(s) = k
      <4> HIDE DEF R
      <4> QED
        BY <1>0, <2>0
    <3>3. m \in slots
      BY <2>3
    <3> HIDE DEF R
    <3> QED
      BY <2>6, <3>1, <3>2, <3>3
  <2>8. m \notin Few(k)
    BY <2>4
  <2>9. Cardinality(Few(k + 1)) = k + 1
    <3> HIDE DEF Few
    <3>1. Cardinality(Few(k) \cup {m}) = Cardinality(Few(k)) + 1
      BY <2>1, <2>8, FS_AddElement
    <3> QED
      BY <2>0, <2>7, <3>1
  <2> HIDE DEF Few
  <2> QED
    BY <2>0, <2>9
<1>3. \A k \in 0 .. n : k \in G
  <2> HIDE DEF G
  <2> QED
    BY <1>1, <1>2, Climb
<1>4. n \in G
  <2> HIDE DEF G
  <2> QED
    BY <1>3
<1> QED
  BY <1>4

-----------------------------------------------------------------------------
(* The calendars.                                                          *)

AvailabilityInv ==
  /\ calendar \in {"stub", "calcom"}
  /\ hours \in [AllDays -> OpeningHours]
  /\ present \in Nat
  /\ taken \subseteq [start : Nat, end : Nat]
  /\ wish \in [time : Times \cup {Anytime}, length : Durations] \cup {NoWish}

\* Where the stub's search begins, and where in a day it begins counting.
Floor(earliest)     == RoundUp(Max({present + Lead, earliest}))
Cursor(d, earliest) == RoundUp(Max({Opens(d), Floor(earliest)}))

LEMMA SizesAre ==
  /\ DayLength \in Nat \ {0} /\ Horizon \in Nat \ {0} /\ Granularity \in Nat \ {0}
  /\ Lead \in Nat /\ CandidateLimit \in Nat /\ Read \in Nat /\ Durations \subseteq Nat \ {0}
BY AvailabilityBounds

LEMMA HoursAre ==
  ASSUME AvailabilityInv, NEW d \in Nat
  PROVE  /\ Opens(d) \in Nat /\ d * DayLength <= Opens(d) /\ Opens(d) <= d * DayLength + DayLength
         /\ Closes(d) \in Nat /\ d * DayLength <= Closes(d) /\ Closes(d) <= d * DayLength + DayLength
         /\ d \notin AllDays => Opens(d) = Closes(d)
<1> PICK m \in Nat : m = d * DayLength
  BY SizesAre, MulNat
<1>1. CASE d \in AllDays
  <2>1. hours[d] \in [open : 0 .. DayLength, close : 0 .. DayLength]
    BY <1>1, AvailabilityBounds DEF AvailabilityInv
  <2> PICK a \in 0 .. DayLength : a = hours[d].open
    BY <2>1
  <2> PICK b \in 0 .. DayLength : b = hours[d].close
    BY <2>1
  <2>2. Opens(d) = m + a /\ Closes(d) = m + b
    BY <1>1 DEF Opens, Closes
  <2> QED
    BY <1>1, <2>2, SizesAre
<1>2. CASE d \notin AllDays
  <2>1. Opens(d) = m /\ Closes(d) = m
    BY <1>2 DEF Opens, Closes
  <2> QED
    BY <1>2, <2>1, SizesAre
<1> QED
  BY <1>1, <1>2

LEMMA FloorIs ==
  ASSUME AvailabilityInv, NEW earliest \in Nat
  PROVE  /\ Floor(earliest) \in Nat /\ Floor(earliest) >= present + Lead /\ Floor(earliest) >= earliest
         /\ Floor(earliest) \div DayLength \in Nat
<1> PICK m \in Nat : m = present + Lead
  BY SizesAre DEF AvailabilityInv
<1> PICK n \in Nat : n = Max({m, earliest})
  BY MaxIs
<1>1. n >= m /\ n >= earliest
  BY MaxIs
<1>2. RoundUp(n) \in Nat /\ RoundUp(n) >= n
  BY RoundUpIs
<1>3. Floor(earliest) = RoundUp(n)
  BY DEF Floor
<1> PICK f \in Nat : f = Floor(earliest)
  BY <1>2, <1>3
<1>4. f >= m /\ f >= earliest
  BY <1>1, <1>2, <1>3
<1> QED
  BY <1>4, MidnightIs

LEMMA CursorIs ==
  ASSUME AvailabilityInv, NEW earliest \in Nat, NEW d \in Nat
  PROVE  Cursor(d, earliest) \in Nat /\ Cursor(d, earliest) >= Opens(d) /\ Cursor(d, earliest) >= Floor(earliest)
<1> PICK f \in Nat : f = Floor(earliest)
  BY FloorIs
<1> PICK o \in Nat : o = Opens(d)
  BY HoursAre
<1> PICK n \in Nat : n = Max({o, f})
  BY MaxIs
<1>1. n >= o /\ n >= f
  BY MaxIs
<1>2. RoundUp(n) \in Nat /\ RoundUp(n) >= n
  BY RoundUpIs
<1>3. Cursor(d, earliest) = RoundUp(n)
  BY DEF Cursor
<1> QED
  BY <1>1, <1>2, <1>3

LEMMA StubIs ==
  ASSUME NEW length, NEW earliest
  PROVE  \A c : c \in StubSlots(length, earliest) <=>
           /\ \E i \in 0 .. Horizon : LET d == Floor(earliest) \div DayLength + i
                                      IN  c \in Grid(Cursor(d, earliest), Closes(d) - length)
           /\ \A a \in taken : Overlapping(a, Floor(earliest), Floor(earliest) + (Horizon + 1) * DayLength)
                                 => ~ Overlapping(a, c, c + length)
BY DEF StubSlots, Floor, Cursor

\* A start time of the stub's is of a day of the horizon, from the floor on.
LEMMA StubStart ==
  ASSUME AvailabilityInv, NEW length \in Nat \ {0}, NEW earliest \in Nat, NEW c \in StubSlots(length, earliest)
  PROVE  \E i \in 0 .. Horizon : \E d \in Nat :
           /\ d = Floor(earliest) \div DayLength + i /\ d \in AllDays
           /\ c \in Nat /\ \E k \in Nat : c = Cursor(d, earliest) + k * Granularity
           /\ Opens(d) <= c /\ Floor(earliest) <= c /\ c + length <= Closes(d)
           /\ d * DayLength <= c /\ c < d * DayLength + DayLength
<1> PICK f \in Nat : f = Floor(earliest) \div DayLength
  BY FloorIs
<1>1. PICK i \in 0 .. Horizon : c \in Grid(Cursor(f + i, earliest), Closes(f + i) - length)
  BY StubIs
<1> PICK d \in Nat : d = f + i
  BY SizesAre
<1>2. /\ Opens(d) \in Nat /\ Closes(d) \in Nat /\ d * DayLength <= Opens(d)
      /\ Closes(d) <= d * DayLength + DayLength /\ (d \notin AllDays => Opens(d) = Closes(d))
  BY HoursAre
<1>3. Cursor(d, earliest) \in Nat /\ Cursor(d, earliest) >= Opens(d) /\ Cursor(d, earliest) >= Floor(earliest)
  BY CursorIs
<1>4. c \in Cursor(d, earliest) .. Closes(d) - length
  BY <1>1 DEF Grid
<1>5. /\ c \in Nat /\ Cursor(d, earliest) <= c /\ c + length <= Closes(d)
      /\ \E k \in Nat : c = Cursor(d, earliest) + k * Granularity
  <2>1. c \in Int /\ Closes(d) - length \in Int /\ Cursor(d, earliest) \in Int
    BY <1>2, <1>3, <1>4
  <2>2. \E k \in Nat : c = Cursor(d, earliest) + k * Granularity
    BY <1>1, <2>1, GridIs
  <2> QED
    BY <1>2, <1>3, <1>4, <2>2
<1> PICK m \in Nat : m = d * DayLength
  BY SizesAre, MulNat
<1>6. Opens(d) <= c /\ Floor(earliest) <= c /\ m <= c /\ c < m + DayLength
  BY <1>2, <1>3, <1>5, SizesAre, FloorIs
<1>7. d \in AllDays
  BY <1>2, <1>5, <1>6
<1> QED
  BY <1>5, <1>6, <1>7

\* What a day's worth of start times is: fewer than the candidates asked for, if those
\* cover a day.
LEMMA FewBefore ==
  ASSUME CandidateLimit * Granularity >= DayLength,
         NEW midnight \in Nat, NEW base \in Nat, NEW c \in Nat, midnight <= base,
         c < midnight + DayLength, NEW n \in Nat, c = base + n * Granularity,
         NEW A \in SUBSET Nat, \A t \in A : t < c /\ \E k \in Nat : t = base + k * Granularity
  PROVE  IsFiniteSet(A) /\ Cardinality(A) < CandidateLimit
<1>0. Granularity \in Nat \ {0} /\ CandidateLimit \in Nat /\ DayLength \in Nat
  BY SizesAre
<1>1. n < CandidateLimit
  <2>1. CASE CandidateLimit <= n
    <3>1. CandidateLimit * Granularity <= n * Granularity
      BY <1>0, <2>1, MulKeeps
    <3> PICK m \in Nat : m = n * Granularity
      BY <1>0, MulNat
    <3> PICK l \in Nat : l = CandidateLimit * Granularity
      BY <1>0, MulNat
    <3>2. l <= m /\ l >= DayLength
      BY <3>1
    <3> QED
      BY <1>0, <3>2
  <2> QED
    BY <1>0, <2>1
<1> DEFINE step(t) == CHOOSE k \in Nat : t = base + k * Granularity
           f == [t \in A |-> step(t)]
<1>2. \A t \in A : step(t) \in Nat /\ t = base + step(t) * Granularity
  <2>1. ASSUME NEW t \in A PROVE \E k \in Nat : t = base + k * Granularity
    OBVIOUS
  <2> QED
    BY <2>1, Zenon
<1>3. ASSUME NEW t \in A PROVE step(t) \in 0 .. n - 1
  <2> PICK k \in Nat : k = step(t)
    BY <1>2
  <2>1. t = base + k * Granularity /\ t < c
    BY <1>2
  <2>2. CASE n <= k
    <3>1. n * Granularity <= k * Granularity
      BY <1>0, <2>2, MulKeeps
    <3> PICK m \in Nat : m = n * Granularity
      BY <1>0, MulNat
    <3> PICK l \in Nat : l = k * Granularity
      BY <1>0, MulNat
    <3>2. t = base + l /\ c = base + m /\ m <= l /\ t < c
      BY <2>1, <3>1
    <3> HIDE DEF step
    <3>3. FALSE
      BY <3>2
    <3> QED
      BY <3>3
  <2> HIDE DEF step
  <2>3. k < n
    BY <2>2
  <2> QED
    BY <2>3
<1> HIDE DEF step
<1>4. f \in Injection(A, 0 .. n - 1)
  <2>1. f \in [A -> 0 .. n - 1]
    BY <1>3
  <2>2. ASSUME NEW t \in A, NEW u \in A, f[t] = f[u] PROVE t = u
    <3>1. step(t) = step(u)
      BY <2>2
    <3> QED
      BY <1>2, <3>1, Zenon
  <2> QED
    BY <2>1, <2>2 DEF Injection, IsInjective
<1>5. IsFiniteSet(0 .. n - 1) /\ Cardinality(0 .. n - 1) = n
  <2>1. n - 1 \in Int /\ 0 \in Int
    OBVIOUS
  <2>2. IsFiniteSet(0 .. n - 1) /\ Cardinality(0 .. n - 1) = IF 0 > n - 1 THEN 0 ELSE n - 1 - 0 + 1
    BY <2>1, FS_Interval, Zenon
  <2> QED
    BY <2>2
<1>6. IsFiniteSet(A) /\ Cardinality(A) <= n
  <2> HIDE DEF f
  <2>1. IsFiniteSet(A) /\ Cardinality(A) <= Cardinality(0 .. n - 1)
    BY <1>4, <1>5, FS_Injection
  <2> QED
    BY <1>5, <2>1
<1> QED
  BY <1>0, <1>1, <1>6, FS_CardinalityType

LEMMA StubSound ==
  ASSUME AvailabilityInv, NEW length \in Durations, NEW earliest \in Nat, NEW c \in StubSlots(length, earliest)
  PROVE  /\ c \in Nat /\ c < Horizon * DayLength + DayLength /\ c >= present
         /\ Bookable(c, length)
<1>1. length \in Nat \ {0} /\ Lead \in Nat /\ Horizon \in Nat /\ DayLength \in Nat
  BY SizesAre
<1> PICK floor \in Nat : floor = Floor(earliest)
  BY FloorIs
<1> PICK f \in Nat : f = floor \div DayLength
  BY FloorIs
<1>2. PICK i \in 0 .. Horizon : \E d \in Nat :
           /\ d = f + i /\ d \in AllDays
           /\ c \in Nat /\ Opens(d) <= c /\ floor <= c /\ c + length <= Closes(d)
           /\ d * DayLength <= c /\ c < d * DayLength + DayLength
  BY <1>1, StubStart
<1>3. PICK d \in Nat :
           /\ d = f + i /\ d \in AllDays
           /\ c \in Nat /\ Opens(d) <= c /\ floor <= c /\ c + length <= Closes(d)
           /\ d * DayLength <= c /\ c < d * DayLength + DayLength
  BY <1>2
<1>4. c >= present
  <2>1. floor >= present + Lead /\ present \in Nat
    BY FloorIs DEF AvailabilityInv
  <2> QED
    BY <1>1, <1>3, <2>1
<1>5. d * DayLength <= Horizon * DayLength
  BY <1>1, <1>3, MulKeeps DEF AllDays
<1>6. c < Horizon * DayLength + DayLength
  <2> PICK m \in Nat : m = d * DayLength
    BY <1>1, MulNat
  <2> PICK n \in Nat : n = Horizon * DayLength
    BY <1>1, MulNat
  <2> QED
    BY <1>1, <1>3, <1>5
<1>7. c < Closes(d) /\ Closes(d) \in Nat /\ Closes(d) <= d * DayLength + DayLength
  BY <1>1, <1>3, HoursAre
<1>8. c + length <= floor + (Horizon + 1) * DayLength
  <2>1. d * DayLength <= (f + Horizon) * DayLength
    BY <1>1, <1>3, MulKeeps
  <2>2. (f + Horizon) * DayLength = f * DayLength + Horizon * DayLength
    BY <1>1
  <2>3. (Horizon + 1) * DayLength = Horizon * DayLength + DayLength
    BY <1>1, MulSucc
  <2>4. f * DayLength <= floor
    BY MidnightIs
  <2> PICK m \in Nat : m = d * DayLength
    BY <1>1, MulNat
  <2> PICK n \in Nat : n = Horizon * DayLength
    BY <1>1, MulNat
  <2> PICK l \in Nat : l = f * DayLength
    BY <1>1, MulNat
  <2>5. m <= l + n /\ l <= floor /\ (Horizon + 1) * DayLength = n + DayLength
    BY <2>1, <2>2, <2>3, <2>4
  <2>6. c + length <= m + DayLength
    BY <1>1, <1>3, <1>7
  <2>7. c + length <= floor + (n + DayLength)
    BY <1>1, <1>3, <2>5, <2>6
  <2> QED
    BY <2>5, <2>7
<1>9. ASSUME NEW a \in taken, Overlapping(a, c, c + length) PROVE FALSE
  <2>1. a.start \in Nat /\ a.end \in Nat
    BY DEF AvailabilityInv
  <2> PICK end \in Nat : end = floor + (Horizon + 1) * DayLength
    <3> PICK n \in Nat : n = (Horizon + 1) * DayLength
      BY <1>1, MulNat
    <3> QED
      OBVIOUS
  <2>2. c < a.end /\ c + length > a.start
    BY <1>9 DEF Overlapping
  <2>3. floor < a.end /\ end > a.start
    BY <1>1, <1>3, <1>8, <2>1, <2>2
  <2>4. Overlapping(a, Floor(earliest), Floor(earliest) + (Horizon + 1) * DayLength)
    BY <2>3 DEF Overlapping
  <2> QED
    BY <1>9, <2>4, StubIs
<1>10. Bookable(c, length)
  BY <1>3, <1>7, <1>9 DEF Bookable
<1> QED
  BY <1>3, <1>4, <1>6, <1>10

\* It is on the day's grid, and not too soon.
LEMMA StubCanStart ==
  ASSUME AvailabilityInv, calendar = "stub",
         NEW length \in Durations, NEW earliest \in Nat, NEW c \in StubSlots(length, earliest)
  PROVE  CanStart(c, length) /\ c >= earliest
<1>1. /\ length \in Nat \ {0} /\ Lead \in Nat /\ Horizon \in Nat /\ DayLength \in Nat \ {0}
      /\ Granularity \in Nat \ {0} /\ present \in Nat
  BY SizesAre DEF AvailabilityInv
<1> PICK floor \in Nat : floor = Floor(earliest)
  BY FloorIs
<1>2. \E i \in 0 .. Horizon : \E d \in Nat :
           /\ d = Floor(earliest) \div DayLength + i /\ d \in AllDays
           /\ c \in Nat /\ \E k \in Nat : c = Cursor(d, earliest) + k * Granularity
           /\ Opens(d) <= c /\ Floor(earliest) <= c /\ c + length <= Closes(d)
           /\ d * DayLength <= c /\ c < d * DayLength + DayLength
  <2>1. length \in Nat \ {0}
    BY <1>1
  <2> QED
    BY <2>1, StubStart
<1>3. PICK d \in Nat :
           /\ d \in AllDays /\ c \in Nat /\ \E k \in Nat : c = Cursor(d, earliest) + k * Granularity
           /\ Opens(d) <= c /\ floor <= c /\ c + length <= Closes(d)
           /\ d * DayLength <= c /\ c < d * DayLength + DayLength
  BY <1>2, Zenon
<1>4. PICK k \in Nat : c = Cursor(d, earliest) + k * Granularity
  BY <1>3
<1>5. floor >= present + Lead /\ floor >= earliest
  BY FloorIs
<1> PICK m \in Nat : m = d * DayLength
  BY <1>1, MulNat
<1> PICK o \in Nat : o = Opens(d)
  BY HoursAre
<1>6. m <= o
  BY HoursAre
<1> PICK n \in Nat : n = Max({o, floor})
  BY MaxIs
<1>7. n >= o
  BY MaxIs
<1> PICK cursor \in Nat : cursor = Cursor(d, earliest)
  BY CursorIs
<1>8. cursor = RoundUp(n)
  BY DEF Cursor, Floor
<1>9. PICK j \in Nat : cursor = Midnight(n) + j * Granularity
  BY <1>8, RoundUpIs
<1> PICK ks \in Nat : ks = k * Granularity
  BY <1>1, MulNat
<1> PICK js \in Nat : js = j * Granularity
  BY <1>1, MulNat
<1>10. c = cursor + ks /\ n <= cursor
  BY <1>4, <1>8, RoundUpIs
<1>11. Midnight(n) = m
  <2>1. m <= n /\ n < m + DayLength
    BY <1>1, <1>3, <1>6, <1>7, <1>10
  <2> QED
    BY <2>1, DayIs
<1>12. (c - m) % Granularity = 0
  <2>1. (j + k) * Granularity = js + ks
    BY <1>1
  <2>2. c = m + (j + k) * Granularity
    BY <1>9, <1>10, <1>11, <2>1
  <2>3. m \in Int /\ c \in Int /\ m <= c /\ j + k \in Nat
    BY <1>3
  <2>4. c \in Grid(m, c)
    BY <2>2, <2>3, GridIs
  <2> QED
    BY <2>4 DEF Grid
<1>13. Bookable(c, length)
  BY StubSound
<1>14. c >= present + Lead /\ c >= earliest
  BY <1>1, <1>3, <1>5
<1> QED
  BY <1>3, <1>12, <1>13, <1>14 DEF CanStart, GridStart

\* Of the calendar's own free times, one it may be asked for.
LEMMA RemoteStart ==
  ASSUME AvailabilityInv, NEW length \in Durations, NEW earliest \in Nat, NEW c \in RemoteSlots(length, earliest)
  PROVE  /\ c \in Nat /\ c < Horizon * DayLength + DayLength /\ c >= present /\ c >= earliest
         /\ Bookable(c, length)
         /\ \E d \in AllDays : /\ Opens(d) <= c /\ c + length <= Closes(d)
                               /\ (c - Opens(d)) % Granularity = 0
<1>1. length \in Nat \ {0} /\ Horizon \in Nat /\ DayLength \in Nat
  BY SizesAre
<1>2. /\ c \in Listed(length) /\ c >= earliest /\ c >= present
      /\ \A a \in taken : ~ Overlapping(a, c, c + length)
  BY DEF RemoteSlots, Listed
<1>3. PICK d \in AllDays : c \in Grid(Opens(d), Closes(d) - length)
  BY <1>2 DEF Listed
<1>4. d \in Nat /\ d <= Horizon
  BY <1>1 DEF AllDays
<1>5. /\ Opens(d) \in Nat /\ d * DayLength <= Opens(d)
      /\ Closes(d) \in Nat /\ Closes(d) <= d * DayLength + DayLength
  BY <1>4, HoursAre
<1>6. c \in Opens(d) .. Closes(d) - length
  BY <1>3 DEF Grid
<1>7. c \in Int /\ Opens(d) <= c /\ c + length <= Closes(d)
  BY <1>1, <1>5, <1>6
<1>8. (c - Opens(d)) % Granularity = 0
  BY <1>3 DEF Grid
<1>9. d * DayLength <= Horizon * DayLength
  BY <1>1, <1>4, MulKeeps
<1>10. /\ c \in Nat /\ d * DayLength <= c /\ c < d * DayLength + DayLength
       /\ c < Horizon * DayLength + DayLength /\ c < Closes(d)
  <2> PICK m \in Nat : m = d * DayLength
    BY <1>1, <1>4, MulNat
  <2> PICK n \in Nat : n = Horizon * DayLength
    BY <1>1, MulNat
  <2> QED
    BY <1>1, <1>5, <1>7, <1>9
<1>11. Bookable(c, length)
  BY <1>2, <1>7, <1>10 DEF Bookable
<1> QED
  BY <1>2, <1>7, <1>8, <1>10, <1>11

LEMMA TimesAre == \A t \in Times : t \in Nat
BY DEF Times

\* Where the search for a time of day D begins.
LEMMA DayFloorIs ==
  ASSUME AvailabilityInv, NEW time \in Nat
  PROVE  /\ DayFloor(time) \in Nat /\ DayFloor(time) >= present /\ DayFloor(time) >= Midnight(time)
         /\ \A c \in Nat : c >= present /\ c >= Midnight(time) => c >= DayFloor(time)
<1>1. Midnight(time) \in Nat /\ present \in Nat /\ time # Anytime
  BY MidnightIs DEF AvailabilityInv, Anytime
<1> PICK m \in Nat : m = Midnight(time)
  BY <1>1
<1>2. DayFloor(time) = Max({m, present})
  BY <1>1 DEF DayFloor
<1> QED
  BY <1>1, <1>2, MaxIs

\* The stub lists every time of the day asked for that fits.
LEMMA StubComplete ==
  ASSUME AvailabilityInv, NEW length \in Durations, NEW time \in Nat, NEW c \in Nat,
         Midnight(c) = Midnight(time), c >= present + Lead, Bookable(c, length),
         NEW d \in AllDays, Opens(d) <= c, c + length <= Closes(d),
         (c - d * DayLength) % Granularity = 0
  PROVE  c \in StubSlots(length, DayFloor(time))
<1>1. /\ length \in Nat \ {0} /\ Lead \in Nat /\ Horizon \in Nat /\ DayLength \in Nat \ {0}
      /\ d \in Nat /\ present \in Nat
  BY SizesAre DEF AllDays, AvailabilityInv
<1> PICK m \in Nat : m = d * DayLength
  BY <1>1, MulNat
<1>2. Opens(d) \in Nat /\ Closes(d) \in Nat /\ m <= Opens(d) /\ Closes(d) <= m + DayLength
  BY <1>1, HoursAre
<1>3. m <= c /\ c < m + DayLength
  BY <1>1, <1>2
<1>4. Midnight(c) = m /\ Midnight(m) = m /\ m \div DayLength = d
  <2>1. d * DayLength <= c /\ c < d * DayLength + DayLength
    BY <1>3
  <2>2. d * DayLength <= m /\ m < d * DayLength + DayLength
    BY <1>1
  <2> QED
    BY <1>1, <2>1, <2>2, DayIs
<1> PICK e \in Nat : e = DayFloor(time)
  BY DayFloorIs
<1>5. m <= e /\ e <= c
  <2>1. c >= present /\ c >= Midnight(time)
    BY <1>1, <1>3, <1>4
  <2> QED
    BY <1>4, <2>1, DayFloorIs
<1>6. PICK j \in Nat : c = m + j * Granularity
  <2>1. (c - m) % Granularity = 0
    OBVIOUS
  <2>2. c \in Grid(m, c)
    BY <1>3, <2>1 DEF Grid
  <2> QED
    BY <2>2, GridIs
\* The floor is of that day, and not after c.
<1> PICK x \in Nat : x = Max({present + Lead, e})
  BY <1>1, MaxIs
<1>7. m <= x /\ x <= c
  BY <1>1, <1>5, MaxIs
<1>8. Midnight(x) = m
  BY <1>4, <1>7, Between
<1> PICK floor \in Nat : floor = Floor(e)
  BY FloorIs
<1>9. floor = RoundUp(x)
  BY DEF Floor
<1>10. m <= floor /\ floor <= c
  BY <1>6, <1>7, <1>8, <1>9, RoundUpIs, RoundUpIsLeast
<1>11. floor \div DayLength = d
  BY <1>4, <1>10, Between
\* So is the cursor, and c is so many steps after it.
<1> PICK y \in Nat : y = Max({Opens(d), floor})
  BY <1>2, MaxIs
<1>12. m <= y /\ y <= c
  BY <1>2, <1>10, MaxIs
<1>13. Midnight(y) = m
  BY <1>4, <1>12, Between
<1> PICK cursor \in Nat : cursor = Cursor(d, e)
  BY <1>1, CursorIs
<1>14. cursor = RoundUp(y)
  BY DEF Cursor
<1>15. cursor <= c /\ \E k \in Nat : c = cursor + k * Granularity
  <2>1. c = Midnight(y) + j * Granularity /\ y <= c
    BY <1>6, <1>12, <1>13
  <2>2. RoundUp(y) <= c /\ \E k \in Nat : c = RoundUp(y) + k * Granularity
    <3>1. y \in Nat /\ c \in Nat /\ j \in Nat
      OBVIOUS
    <3> QED
      BY <2>1, <3>1, RoundUpIsLeast, ZenonT(40)
  <2> QED
    BY <1>14, <2>2, Zenon
<1>16. c \in StubSlots(length, e)
  <2>1. c <= Closes(d) - length /\ Closes(d) - length \in Int
    BY <1>1, <1>2
  <2>2. c \in Grid(Cursor(d, e), Closes(d) - length)
    BY <1>15, <2>1, GridIs
  <2>3. 0 \in 0 .. Horizon /\ Floor(e) \div DayLength + 0 = d
    BY <1>1, <1>11
  <2>4. \A a \in taken : ~ Overlapping(a, c, c + length)
    BY DEF Bookable
  <2> QED
    BY <2>2, <2>3, <2>4, StubIs
<1> QED
  BY <1>16

\* So does the calendar.
LEMMA RemoteComplete ==
  ASSUME AvailabilityInv, NEW length \in Durations, NEW time \in Nat, NEW c \in Nat,
         Midnight(c) = Midnight(time), c >= present, Bookable(c, length),
         NEW d \in AllDays, Opens(d) <= c, c + length <= Closes(d),
         (c - Opens(d)) % Granularity = 0
  PROVE  c \in RemoteSlots(length, DayFloor(time))
<1>1. /\ length \in Nat \ {0} /\ Horizon \in Nat \ {0} /\ DayLength \in Nat \ {0}
      /\ d \in Nat /\ present \in Nat
  BY SizesAre DEF AllDays, AvailabilityInv
<1> PICK m \in Nat : m = d * DayLength
  BY <1>1, MulNat
<1> PICK o \in Nat : o = Opens(d)
  BY <1>1, HoursAre
<1>2. Closes(d) \in Nat /\ m <= o /\ Closes(d) <= m + DayLength
  BY <1>1, HoursAre
<1>3. m <= c /\ c < m + DayLength
  BY <1>1, <1>2
<1>4. Midnight(c) = m
  <2>1. d * DayLength <= c /\ c < d * DayLength + DayLength
    BY <1>3
  <2> QED
    BY <1>1, <2>1, DayIs
<1> PICK e \in Nat : e = DayFloor(time)
  BY DayFloorIs
<1>5. m <= e /\ e <= c
  BY <1>1, <1>3, <1>4, DayFloorIs
<1>6. c \in Grid(o, Closes(d) - length)
  <2>1. c \in o .. Closes(d) - length /\ (c - o) % Granularity = 0
    BY <1>1, <1>2
  <2> QED
    BY <2>1 DEF Grid
<1>7. PICK n \in Nat : c = o + n * Granularity
  <2>1. Closes(d) - length \in Int
    BY <1>1, <1>2
  <2> QED
    BY <1>6, <2>1, GridIs
<1>8. c < e + Horizon * DayLength
  <2> PICK h \in Nat : h = Horizon * DayLength
    BY <1>1, MulNat
  <2>1. 1 * DayLength <= Horizon * DayLength /\ 1 * DayLength = DayLength
    BY <1>1, MulKeeps
  <2>2. DayLength <= h
    BY <2>1
  <2>3. c < e + h
    BY <1>1, <1>3, <1>5, <2>2
  <2> QED
    BY <2>3
<1>9. c \in RemoteSlots(length, e)
  <2>1. c \in UNION {Grid(Opens(b), Closes(b) - length) : b \in AllDays}
    BY <1>6
  <2>2. \A a \in taken : ~ Overlapping(a, c, c + length)
    BY DEF Bookable
  <2> QED
    BY <1>5, <1>8, <2>1, <2>2 DEF RemoteSlots, Listed
<1> QED
  BY <1>9

-----------------------------------------------------------------------------
\* What an answer is chosen from.
LEMMA SlotsAre ==
  ASSUME AvailabilityInv, NEW length \in Durations, NEW earliest \in Nat
  PROVE  /\ IsFiniteSet(Slots(length, earliest))
         /\ \A c \in Slots(length, earliest) :
              /\ c \in Times /\ c \in Nat /\ c >= present /\ c >= earliest
              /\ Bookable(c, length) /\ CanStart(c, length)
<1>1. Horizon \in Nat /\ DayLength \in Nat \ {0} /\ Lead \in Nat /\ present \in Nat
  BY SizesAre DEF AvailabilityInv
<1> PICK h \in Nat : h = Horizon * DayLength
  BY <1>1, MulNat
<1>2. (Horizon + 1) * DayLength = h + DayLength
  BY <1>1, MulSucc
<1>3. ASSUME NEW c \in Slots(length, earliest)
      PROVE  /\ c \in 0 .. h + DayLength - 1 /\ c \in Nat /\ c >= present /\ c >= earliest
             /\ Bookable(c, length) /\ CanStart(c, length)
  <2>1. CASE calendar = "stub"
    <3>1. c \in StubSlots(length, earliest)
      BY <1>3, <2>1 DEF Slots
    <3>2. c \in Nat /\ c < h + DayLength /\ c >= present /\ Bookable(c, length)
      BY <3>1, StubSound
    <3>3. CanStart(c, length) /\ c >= earliest
      BY <2>1, <3>1, StubCanStart
    <3> QED
      BY <1>1, <3>2, <3>3
  <2>2. CASE calendar # "stub"
    <3>1. c \in RemoteSlots(length, earliest)
      BY <1>3, <2>2 DEF Slots
    <3>2. /\ c \in Nat /\ c < h + DayLength /\ c >= present /\ c >= earliest /\ Bookable(c, length)
          /\ \E d \in AllDays : /\ Opens(d) <= c /\ c + length <= Closes(d)
                                /\ (c - Opens(d)) % Granularity = 0
      BY <3>1, RemoteStart
    <3>3. CanStart(c, length)
      BY <1>1, <2>2, <3>2 DEF CanStart, GridStart
    <3> QED
      BY <1>1, <3>2, <3>3
  <2> QED
    BY <2>1, <2>2
<1>4. Slots(length, earliest) \subseteq 0 .. h + DayLength - 1
  BY <1>3
<1>5. IsFiniteSet(0 .. h + DayLength - 1)
  <2> PICK z \in Nat : z = h + DayLength - 1
    BY <1>1
  <2> QED
    BY FS_Interval
<1>6. \A t \in 0 .. h + DayLength - 1 : t \in Times
  <2> PICK k \in Nat : k = (Horizon + 1) * DayLength
    BY <1>1, <1>2
  <2>1. \A t : t \in Times <=> t \in 0 .. k - 1
    BY DEF Times
  <2>2. k = h + DayLength
    BY <1>2
  <2>3. \A t \in 0 .. h + DayLength - 1 : t \in 0 .. k - 1
    BY <1>1, <2>2
  <2> QED
    BY <2>1, <2>3
<1> QED
  BY <1>3, <1>4, <1>5, <1>6, FS_Subset

\* Of the day asked for, every time that fits is listed.
LEMMA SlotsCover ==
  ASSUME AvailabilityInv, NEW length \in Durations, NEW time \in Nat, NEW c \in Nat,
         Midnight(c) = Midnight(time), CanStart(c, length)
  PROVE  c \in Slots(length, DayFloor(time))
<1>1. Bookable(c, length)
  BY DEF CanStart
<1>2. PICK d \in AllDays : /\ Opens(d) <= c /\ c + length <= Closes(d)
                           /\ (c - GridStart(d)) % Granularity = 0
  BY DEF CanStart
<1>3. CASE calendar = "stub"
  <2>1. Slots(length, DayFloor(time)) = StubSlots(length, DayFloor(time)) /\ GridStart(d) = d * DayLength
    BY <1>3 DEF Slots, GridStart
  <2>2. c >= present + Lead
    BY <1>3 DEF CanStart
  <2>3. (c - d * DayLength) % Granularity = 0
    BY <1>2, <2>1
  <2> QED
    BY <1>1, <1>2, <2>1, <2>2, <2>3, StubComplete
<1>4. CASE calendar # "stub"
  <2>1. Slots(length, DayFloor(time)) = RemoteSlots(length, DayFloor(time)) /\ GridStart(d) = Opens(d)
    BY <1>4 DEF Slots, GridStart
  <2>2. c >= present
    BY <1>4 DEF CanStart, AvailabilityInv
  <2>3. (c - Opens(d)) % Granularity = 0
    BY <1>2, <2>1
  <2> QED
    BY <1>1, <1>2, <2>1, <2>2, <2>3, RemoteComplete
<1> QED
  BY <1>3, <1>4

\* It is a candidate, unless so many that fit come before it that day.
LEMMA CandidatesCover ==
  ASSUME AvailabilityInv, NEW length \in Durations, NEW time \in Nat, NEW c \in Nat,
         Midnight(c) = Midnight(time), CanStart(c, length)
  PROVE  \/ c \in First(CandidateLimit, Slots(length, DayFloor(time)))
         \/ Cardinality(FitEarlierThatDay(c, length)) >= CandidateLimit
<1> DEFINE slots == Slots(length, DayFloor(time))
           A     == {t \in slots : t < c}
           B     == FitEarlierThatDay(c, length)
<1>1. DayFloor(time) \in Nat /\ DayFloor(time) >= Midnight(time) /\ Midnight(time) \in Nat
  BY DayFloorIs, MidnightIs
<1>2. /\ IsFiniteSet(slots)
      /\ \A t \in slots : t \in Times /\ t \in Nat /\ t >= DayFloor(time) /\ CanStart(t, length)
  BY <1>1, SlotsAre
<1>3. ASSUME NEW t \in A PROVE t \in B
  <2>1. t \in Times /\ t \in Nat /\ t >= DayFloor(time) /\ CanStart(t, length) /\ t < c
    BY <1>2
  <2> PICK m \in Nat : m = Midnight(time)
    BY <1>1
  <2>2. m <= t /\ t <= c
    BY <1>1, <2>1
  <2>3. Midnight(m) = m
    <3> PICK d \in Nat : d = time \div DayLength
      BY MidnightIs
    <3>1. m = d * DayLength
      BY MidnightIs
    <3>2. d * DayLength <= m /\ m < d * DayLength + DayLength
      BY <3>1, SizesAre
    <3> QED
      BY <3>1, <3>2, DayIs
  <2>4. Midnight(t) = Midnight(c)
    BY <2>1, <2>2, <2>3, Between
  <2> QED
    BY <2>1, <2>4 DEF FitEarlierThatDay
<1>4. IsFiniteSet(B)
  <2>1. B \subseteq 0 .. c
    BY TimesAre DEF FitEarlierThatDay
  <2>2. IsFiniteSet(0 .. c)
    BY FS_Interval
  <2> HIDE DEF B
  <2> QED
    BY <2>1, <2>2, FS_Subset
<1>5. c \in slots
  BY SlotsCover
<1>6. c \notin First(CandidateLimit, slots) => ~ Cardinality(A) < CandidateLimit
  BY <1>5 DEF First
<1> HIDE DEF slots, A, B
<1>7. IsFiniteSet(A) /\ Cardinality(A) <= Cardinality(B)
  BY <1>3, <1>4, FS_Subset
<1>8. Cardinality(A) \in Nat /\ Cardinality(B) \in Nat /\ CandidateLimit \in Nat
  BY <1>4, <1>7, FS_CardinalityType, SizesAre
<1>9. c \notin First(CandidateLimit, slots) => Cardinality(B) >= CandidateLimit
  BY <1>6, <1>7, <1>8
<1> QED
  BY <1>9 DEF slots, B

LEMMA OffersAre ==
  ASSUME AvailabilityInv, NEW time \in Times \cup {Anytime}, NEW length \in Durations,
         CheckAvailability(time, length)
  PROVE  /\ wish'.time = time /\ wish'.length = length
         /\ \A c \in offers' : Bookable(c, length) /\ c >= present
         /\ time # Anytime =>
              \A c \in Times : LeftOut(c) =>
                NoneFurther(c) \/ Cardinality(FitEarlierThatDay(c, length)) >= CandidateLimit
<1> PICK e : e = DayFloor(time)
  OBVIOUS
<1>1. e \in Nat
  BY DayFloorIs, TimesAre DEF DayFloor, AvailabilityInv
<1> PICK slots : slots = Slots(length, e)
  OBVIOUS
<1>2. IsFiniteSet(slots) /\ \A c \in slots : c \in Nat /\ c >= present /\ Bookable(c, length)
  BY <1>1, SlotsAre
<1> PICK cands : cands = First(CandidateLimit, slots)
  OBVIOUS
<1>3. cands \subseteq slots /\ IsFiniteSet(cands) /\ cands \in SUBSET Int
  <2>1. cands \subseteq slots
    BY DEF First
  <2> QED
    BY <1>2, <2>1, FS_Subset
<1>4. wish' = [time |-> time, length |-> length] /\ offers' = Narrow(cands, time)
  BY DEF CheckAvailability
<1>5. offers' \subseteq cands
  BY <1>4 DEF Narrow, First
<1>6. ASSUME time # Anytime, NEW c \in Times, LeftOut(c), c \in cands
      PROVE  NoneFurther(c)
  <2>1. time \in Nat /\ time \in Int /\ c \in Nat /\ Read \in Nat
    BY <1>6, TimesAre, SizesAre
  <2>2. c \in cands /\ c \notin offers'
    BY <1>6 DEF LeftOut
  <2>3. offers' = {s \in cands : Rank(s, cands, time) < Read}
    BY <1>4, <1>6 DEF Narrow, Rank, Ahead
  <2>4. Rank(c, cands, time) \in Nat /\ Read <= Rank(c, cands, time)
    <3>1. Rank(c, cands, time) \in Nat
      BY <1>3, <2>1, RankIs
    <3>2. ~ Rank(c, cands, time) < Read
      BY <2>2, <2>3
    <3> QED
      BY <2>1, <3>1, <3>2
  <2>5. Cardinality(offers') = Read
    BY <1>3, <2>1, <2>2, <2>3, <2>4, FirstFew
  <2>6. ASSUME NEW o \in offers' PROVE Away(o, time) <= Away(c, time)
    <3>1. o \in cands /\ Rank(o, cands, time) < Read
      BY <2>3
    <3>2. Rank(o, cands, time) \in Nat /\ o \in Int /\ c \in Int
      BY <1>3, <2>1, <3>1, RankIs
    <3>3. ~ Nearer(c, o, time)
      <4>1. ASSUME Nearer(c, o, time) PROVE FALSE
        <5>1. Rank(c, cands, time) < Rank(o, cands, time)
          BY <1>3, <2>1, <2>2, <3>1, <4>1, RankGrows
        <5> QED
          BY <2>1, <2>4, <3>1, <3>2, <5>1
      <4> QED
        BY <4>1
    <3> QED
      BY <2>1, <3>2, <3>3 DEF Nearer, Away
  <2> QED
    BY <1>4, <2>5, <2>6 DEF NoneFurther
<1>7. ASSUME time # Anytime, NEW c \in Times, LeftOut(c)
      PROVE  c \in cands \/ Cardinality(FitEarlierThatDay(c, length)) >= CandidateLimit
  <2>1. time \in Nat /\ c \in Nat
    BY <1>7, TimesAre
  <2>2. CanStart(c, length) /\ Midnight(c) = Midnight(time)
    BY <1>4, <1>7 DEF LeftOut
  <2> QED
    BY <2>1, <2>2, CandidatesCover
<1> QED
  BY <1>2, <1>3, <1>4, <1>5, <1>6, <1>7

\* No time of a day is beyond the candidates, if those cover a day.
LEMMA CoveredDay ==
  ASSUME AvailabilityInv, CandidateLimit * Granularity >= DayLength,
         NEW length \in Durations, NEW c \in Times, CanStart(c, length)
  PROVE  ~ Cardinality(FitEarlierThatDay(c, length)) >= CandidateLimit
<1>1. /\ length \in Nat \ {0} /\ Horizon \in Nat /\ DayLength \in Nat \ {0} /\ CandidateLimit \in Nat
      /\ Granularity \in Nat \ {0} /\ c \in Nat
  BY SizesAre, TimesAre
\* A time that fits is of the day whose hours it keeps, and on its grid.
<1>2. ASSUME NEW t \in Nat, NEW d \in AllDays, Opens(d) <= t, t + length <= Closes(d),
             (t - GridStart(d)) % Granularity = 0
      PROVE  /\ d \in Nat /\ GridStart(d) \in Nat /\ d * DayLength <= GridStart(d)
             /\ \E k \in Nat : t = GridStart(d) + k * Granularity
             /\ t < d * DayLength + DayLength /\ t \div DayLength = d /\ Midnight(t) = d * DayLength
  <2>1. d \in Nat
    BY <1>1 DEF AllDays
  <2> PICK m \in Nat : m = d * DayLength
    BY <1>1, <2>1, MulNat
  <2>2. Opens(d) \in Nat /\ Closes(d) \in Nat /\ m <= Opens(d) /\ Closes(d) <= m + DayLength
    BY <2>1, HoursAre
  <2>3. m <= t /\ t < m + DayLength
    BY <1>1, <1>2, <2>2
  <2>4. t \div DayLength = d /\ Midnight(t) = m
    BY <2>1, <2>3, DayIs
  <2> PICK g \in Nat : g = GridStart(d)
    BY <2>2 DEF GridStart
  <2>5. m <= g /\ g <= t
    BY <1>2, <2>2, <2>3 DEF GridStart
  <2>6. t \in Grid(g, t)
    BY <1>2, <2>5 DEF Grid
  <2>7. \E k \in Nat : t = g + k * Granularity
    BY <2>6, GridIs
  <2> QED
    BY <2>1, <2>3, <2>4, <2>5, <2>7
<1>3. PICK d \in AllDays : /\ Opens(d) <= c /\ c + length <= Closes(d)
                           /\ (c - GridStart(d)) % Granularity = 0
  BY DEF CanStart
<1>4. /\ d \in Nat /\ GridStart(d) \in Nat /\ d * DayLength <= GridStart(d)
      /\ \E k \in Nat : c = GridStart(d) + k * Granularity
      /\ c < d * DayLength + DayLength /\ c \div DayLength = d /\ Midnight(c) = d * DayLength
  BY <1>1, <1>2, <1>3
<1> DEFINE A == FitEarlierThatDay(c, length)
<1>5. A \in SUBSET Nat
  BY TimesAre DEF FitEarlierThatDay
<1>6. ASSUME NEW t \in A PROVE t < c /\ \E k \in Nat : t = GridStart(d) + k * Granularity
  <2>1. t \in Nat /\ t < c /\ CanStart(t, length) /\ Midnight(t) = Midnight(c)
    BY <1>5 DEF FitEarlierThatDay
  <2>2. PICK b \in AllDays : /\ Opens(b) <= t /\ t + length <= Closes(b)
                             /\ (t - GridStart(b)) % Granularity = 0
    BY <2>1 DEF CanStart
  <2>3. \E k \in Nat : t = GridStart(b) + k * Granularity
    BY <1>2, <2>1, <2>2
  <2>4. t \div DayLength = b
    BY <1>2, <2>1, <2>2
  <2>5. t \div DayLength = c \div DayLength
    <3> PICK m \in Nat : m = Midnight(c)
      BY <1>1, MidnightIs
    <3>1. m <= t /\ t <= c
      <4>1. Midnight(t) <= t
        BY <2>1, MidnightIs
      <4> QED
        BY <1>1, <2>1, <4>1
    <3>2. Midnight(m) = m /\ m \div DayLength = d
      <4>1. d * DayLength <= m /\ m < d * DayLength + DayLength
        BY <1>1, <1>4
      <4> QED
        BY <1>4, <4>1, DayIs
    <3>3. t \div DayLength = m \div DayLength
      BY <1>1, <2>1, <3>1, <3>2, Between
    <3> QED
      BY <1>4, <3>2, <3>3
  <2>6. b = d
    BY <1>4, <2>4, <2>5
  <2> QED
    BY <2>1, <2>3, <2>6
<1> PICK base \in Nat : base = GridStart(d)
  BY <1>4
<1> PICK m \in Nat : m = d * DayLength
  BY <1>1, <1>4, MulNat
<1>7. PICK n \in Nat : c = base + n * Granularity
  BY <1>4
<1>8. IsFiniteSet(A) /\ Cardinality(A) < CandidateLimit
  <2> HIDE DEF A
  <2>1. m <= base /\ c < m + DayLength /\ c \in Nat
    BY <1>1, <1>4
  <2>2. \A t \in A : t < c /\ \E k \in Nat : t = base + k * Granularity
    BY <1>6
  <2> QED
    BY <1>5, <1>7, <2>1, <2>2, FewBefore
<1>9. Cardinality(A) \in Nat
  BY <1>8, FS_CardinalityType
<1> HIDE DEF A
<1>10. ~ Cardinality(A) >= CandidateLimit
  BY <1>1, <1>8, <1>9
<1> QED
  BY <1>10 DEF A

-----------------------------------------------------------------------------
LEMMA AvailabilityBegins == AvailabilityInit => AvailabilityInv
BY DEF AvailabilityInit, AvailabilityInv

LEMMA AvailabilityStep == AvailabilityInv /\ [AvailabilityNext]_availabilityVars => AvailabilityInv'
<1> SUFFICES ASSUME AvailabilityInv, [AvailabilityNext]_availabilityVars PROVE AvailabilityInv'
  OBVIOUS
<1> USE DEF AvailabilityInv
<1>1. ASSUME NEW time \in Times \cup {Anytime}, NEW length \in Durations, CheckAvailability(time, length)
      PROVE  AvailabilityInv'
  BY <1>1 DEF CheckAvailability
<1>2. ASSUME NEW c \in Times, Appoint(c) PROVE AvailabilityInv'
  <2>1. ASSUME wish = NoWish PROVE wish.length \in Nat /\ c \in Nat
    BY <2>1, <1>2, TimesAre DEF NoWish
  <2>2. ASSUME wish \in [time : Times \cup {Anytime}, length : Durations] PROVE wish.length \in Nat /\ c \in Nat
    BY <2>2, <1>2, SizesAre, TimesAre
  <2>3. wish.length \in Nat /\ c \in Nat
    BY <2>1, <2>2
  <2>4. c + wish.length \in Nat
    BY <2>3
  <2>5. [start |-> c, end |-> c + wish.length] \in [start : Nat, end : Nat]
    BY <2>3, <2>4
  <2> QED
    BY <1>2, <2>5 DEF Appoint, AsksNoMore
<1>3. CASE Decline
  BY <1>3 DEF Decline, AsksNoMore
<1>4. CASE CancelAppointment
  BY <1>4 DEF CancelAppointment
<1>5. CASE Elapse
  BY <1>5 DEF Elapse
<1>6. CASE UNCHANGED availabilityVars
  BY <1>6 DEF availabilityVars
<1> QED
  BY <1>1, <1>2, <1>3, <1>4, <1>5, <1>6 DEF AvailabilityNext

LEMMA AvailabilityInvariant == AvailabilitySpec => []AvailabilityInv
BY AvailabilityBegins, AvailabilityStep, PTL DEF AvailabilitySpec

\* Only a question changes what the caller asked for.
LEMMA AskedIs ==
  ASSUME AvailabilityNext, wish = NoWish, wish' # NoWish
  PROVE  \E time \in Times \cup {Anytime}, length \in Durations : CheckAvailability(time, length)
BY DEF AvailabilityNext, Appoint, Decline, AsksNoMore, CancelAppointment, Elapse

\* "The tool returns the open slots CLOSEST to that time": what check_availability
\* offers can be booked at once, and a time of the day the caller named is left out
\* only for as many that are no further from their wish, or for as many that come before
\* it that day as there are candidates, on any calendar, of any opening hours,
\* granularity, lead time and appointments.
THEOREM OffersAreNearest == AvailabilitySpec => OffersTheNearest
<1>1. AvailabilityInv /\ [AvailabilityNext]_availabilityVars =>
        [wish = NoWish /\ wish' # NoWish =>
           /\ \A c \in offers' : Bookable(c, wish'.length) /\ c >= present
           /\ wish'.time # Anytime =>
                \A c \in Times : LeftOut(c) =>
                  NoneFurther(c) \/ Cardinality(FitEarlierThatDay(c, wish'.length)) >= CandidateLimit
        ]_availabilityVars
  <2> SUFFICES ASSUME AvailabilityInv, AvailabilityNext, wish = NoWish, wish' # NoWish
               PROVE  /\ \A c \in offers' : Bookable(c, wish'.length) /\ c >= present
                      /\ wish'.time # Anytime =>
                           \A c \in Times : LeftOut(c) =>
                             \/ NoneFurther(c)
                             \/ Cardinality(FitEarlierThatDay(c, wish'.length)) >= CandidateLimit
    OBVIOUS
  <2>1. PICK time \in Times \cup {Anytime}, length \in Durations : CheckAvailability(time, length)
    BY AskedIs
  <2> QED
    BY <2>1, OffersAre
<1> QED
  BY <1>1, AvailabilityInvariant, PTL DEF AvailabilitySpec, OffersTheNearest

\* "Comfortably covers a full day of fine-grained slots so 'as late as possible' can
\* reach the last slot of the day": it does if _CANDIDATE_LIMIT times the granularity
\* is a day, and then only nearer times keep one of the day out.
THEOREM ACoveredDayIsReached ==
  ASSUME CandidateLimit * Granularity >= DayLength
  PROVE  AvailabilitySpec => ReachesTheLastSlot
<1>1. AvailabilityInv /\ [AvailabilityNext]_availabilityVars =>
        [wish = NoWish /\ wish' # NoWish /\ wish'.time # Anytime =>
           \A c \in Times : LeftOut(c) => NoneFurther(c)]_availabilityVars
  <2> SUFFICES ASSUME AvailabilityInv, AvailabilityNext, wish = NoWish, wish' # NoWish,
                      wish'.time # Anytime, NEW c \in Times, LeftOut(c)
               PROVE  NoneFurther(c)
    OBVIOUS
  <2>1. PICK time \in Times \cup {Anytime}, length \in Durations : CheckAvailability(time, length)
    BY AskedIs
  <2>2. /\ wish'.time = time /\ wish'.length = length
        /\ NoneFurther(c) \/ Cardinality(FitEarlierThatDay(c, length)) >= CandidateLimit
    BY <2>1, OffersAre
  <2>3. CanStart(c, length)
    BY <2>2 DEF LeftOut
  <2> QED
    BY <2>2, <2>3, CoveredDay
<1> QED
  BY <1>1, AvailabilityInvariant, PTL DEF AvailabilitySpec, ReachesTheLastSlot
===============================================================================
