------------------------------ MODULE MarkupFilter -----------------------------
(***************************************************************************)
(* InlineToolCallFilter: keeps a tool call the model wrote into its reply  *)
(* from being spoken, while the reply streams in chunks that may cut a tag *)
(* anywhere.  A tag is two symbols here, which share the first.            *)
(***************************************************************************)
EXTENDS Integers, Sequences, FiniteSets, FiniteSetsExt, SequencesExt

CONSTANTS Symbols,  \* of the reply; among them "<", "f" and "/"
          Chunks,   \* what a reply may come in
          Runaway,  \* how much markup is held before it is given up
          MaxReply  \* bound on the reply

ASSUME ChunksAssumption == Chunks \subseteq Seq(Symbols) \ {<<>>}

VARIABLES given,       \* the reply so far, as the model wrote it
          voiced,      \* what was let through
          pending,     \* _pending
          suppressing, \* _suppressing
          filter,      \* "idle", "feeding" a chunk, "flushed"
          gaveUp       \* whether held markup was ever dropped

filterVars == <<given, voiced, pending, suppressing, filter, gaveUp>>

OpenTag  == <<"<", "f">>
CloseTag == <<"<", "/">>

FilterInit == /\ given = <<>> /\ voiced = <<>> /\ pending = <<>>
              /\ suppressing = FALSE /\ filter = "idle" /\ gaveUp = FALSE

\* str.find, counted from 1; 0: nowhere.
Places(tag, text) == {i \in 1 .. Len(text) - 1 : SubSeq(text, i, i + 1) = tag}
Find(tag, text)   == IF Places(tag, text) = {} THEN 0 ELSE Min(Places(tag, text))

\* feed, one turn of its loop at a time.
FeedChunk(chunk) ==
  /\ filter = "idle" /\ Len(given) + Len(chunk) <= MaxReply
  /\ given' = given \o chunk /\ pending' = pending \o chunk
  /\ filter' = "feeding"
  /\ UNCHANGED <<voiced, suppressing, gaveUp>>

Feeding == filter = "feeding" /\ pending # <<>>

EndsMarkup ==
  /\ Feeding /\ suppressing /\ Find(CloseTag, pending) # 0
  /\ pending' = SubSeq(pending, Find(CloseTag, pending) + 2, Len(pending))
  /\ suppressing' = FALSE
  /\ UNCHANGED <<given, voiced, filter, gaveUp>>

HoldsMarkup ==
  /\ Feeding /\ suppressing /\ Find(CloseTag, pending) = 0
  /\ IF Len(pending) > Runaway THEN pending' = <<>> /\ gaveUp' = TRUE
                               ELSE UNCHANGED <<pending, gaveUp>>
  /\ filter' = "idle"
  /\ UNCHANGED <<given, voiced, suppressing>>

BeginsMarkup ==
  /\ Feeding /\ ~ suppressing /\ Find(OpenTag, pending) # 0
  /\ voiced' = voiced \o SubSeq(pending, 1, Find(OpenTag, pending) - 1)
  /\ pending' = SubSeq(pending, Find(OpenTag, pending), Len(pending))
  /\ suppressing' = TRUE
  /\ UNCHANGED <<given, filter, gaveUp>>

PartialMarker_Never == 0

\* _partial_marker_length: what could still grow into a tag is held back.
PartialMarker == IF Last(pending) = "<" THEN 1 ELSE 0

Plain ==
  /\ Feeding /\ ~ suppressing /\ Find(OpenTag, pending) = 0
  /\ LET said == Len(pending) - PartialMarker
     IN /\ voiced' = voiced \o SubSeq(pending, 1, said)
        /\ pending' = SubSeq(pending, said + 1, Len(pending))
  /\ filter' = "idle"
  /\ UNCHANGED <<given, suppressing, gaveUp>>

NothingPending == /\ filter = "feeding" /\ pending = <<>> /\ filter' = "idle"
                  /\ UNCHANGED <<given, voiced, pending, suppressing, gaveUp>>

\* flush, when the model has finished: its next reply begins with an empty filter.
FlushFilter ==
  /\ filter = "idle"
  /\ voiced' = IF suppressing THEN voiced ELSE voiced \o pending
  /\ pending' = <<>> /\ suppressing' = FALSE /\ filter' = "flushed"
  /\ UNCHANGED <<given, gaveUp>>

FilterNext == \/ \E chunk \in Chunks : FeedChunk(chunk)
              \/ EndsMarkup \/ HoldsMarkup \/ BeginsMarkup \/ Plain \/ NothingPending
              \/ FlushFilter

FilterSpec == FilterInit /\ [][FilterNext]_filterVars

-------------------------------------------------------------------------------
\* What is in markup: from each opening tag to the closing tag after it, or to the end.
Markup(text) == {i \in DOMAIN text : \E start \in Places(OpenTag, text) :
                   start <= i /\ \A end \in Places(CloseTag, text) : end < start \/ i < end + 2}

\* The whole reply with its markup cut out, up to each of its symbols.
Kept(text) ==
  LET upTo[n \in 0 .. Len(text)] ==
        IF n = 0 THEN <<>>
        ELSE IF n \in Markup(text) THEN upTo[n - 1] ELSE Append(upTo[n - 1], text[n])
  IN upTo

Meant(text) == Kept(text)[Len(text)]

\* "Guarantees the markup is never voiced", and costs no word besides: whatever
\* chunks a reply comes in, what is let through begins what the whole reply means,
\* and in the end is all of it, unless markup ran away.
SpokenInAnyChunks ==
  gaveUp \/ IF filter = "flushed" THEN voiced = Meant(given) ELSE IsPrefix(voiced, Meant(given))
===============================================================================
