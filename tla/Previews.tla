------------------------------- MODULE Previews -------------------------------
(***************************************************************************)
(* Sessions of one tenant's chat and voice tester: opened by widget key or *)
(* by a signed test link, answered with the live configuration, which all  *)
(* of them share in a cache, or with the operator's draft where the link   *)
(* is for previewing it.  The operator saves, deploys, discards, archives  *)
(* and restores meanwhile, in the steps TenantConfig takes apart.          *)
(***************************************************************************)
EXTENDS Integers, FiniteSets

CONSTANTS Guests,
          MaxVersions   \* bound on the versions of the configuration

VARIABLES live, draft,  \* versions; draft 0: there is none
          off,          \* the channels that are turned off, with the version
          deployed,     \* the versions that were live at some time
          archived,
          shared,       \* the version in the cache every session shares; 0: none
          visit,        \* each session: what its link or token says, and where its turn is
          heard         \* the versions each session was answered with

previewVars == <<live, draft, off, deployed, archived, shared, visit, heard>>

Channels == {"chat", "voice"}

Visit(variant, mode, at) == [variant |-> variant, mode |-> mode, at |-> at, override |-> 0]

Out == Visit("none", "none", "out")

\* What a signed test link says.
Links == [variant : {"live", "draft"}, mode : Channels]

PreviewInit == /\ live = 1 /\ draft = 0 /\ deployed = {1} /\ archived = FALSE /\ shared = 0
               /\ off \in {{}, {<<1, "chat">>}}
               /\ visit = [v \in Guests |-> Out]
               /\ heard = [v \in Guests |-> {}]

\* get_tenant_config: the cache, filled from what is live.
Current == IF shared = 0 THEN live ELSE shared

\* The steps of a session leave the operator's side alone.
Serves == /\ shared' = Current
          /\ UNCHANGED <<live, draft, off, deployed, archived>>

Enters(v, variant, mode) == visit' = [visit EXCEPT ![v] = Visit(variant, mode, "in")]

\* require_channel_enabled
Enabled(version, mode) == <<version, mode>> \notin off

-------------------------------------------------------------------------------
\* POST /chat/session: no session with an archived tenant, or with its chat off.
Handshake(v) ==
  /\ visit[v].at = "out" /\ ~ archived /\ Enabled(Current, "chat")
  /\ Enters(v, "live", "chat") /\ Serves /\ UNCHANGED heard

\* The operator signs a link, whether or not there is a draft to preview.
CreateTestLink(v, link) ==
  /\ visit[v].at = "out"
  /\ visit' = [visit EXCEPT ![v] = Visit(link.variant, link.mode, "linked")]
  /\ Serves /\ UNCHANGED heard

\* Whether the link's channel is on is asked of the configuration the link shows.
\* An archived tenant is not refused here.
ShownBy(variant) == IF variant = "draft" /\ draft # 0 THEN draft ELSE Current

Presents(v, mode) == /\ visit[v].at = "linked" /\ visit[v].mode = mode
                     /\ Enabled(ShownBy(visit[v].variant), mode)

\* POST /test/session takes a chat link only.
TestSession(v) ==
  /\ Presents(v, "chat")
  /\ Enters(v, visit[v].variant, "chat") /\ Serves /\ UNCHANGED heard

\* And /voice/live a voice link only.
VoiceLive(v) ==
  /\ Presents(v, "voice")
  /\ Enters(v, visit[v].variant, "voice") /\ Serves /\ UNCHANGED heard

\* POST /chat: the channel is asked of the shared configuration, whatever the
\* token's variant; an archived tenant is left to the turn.
Say(v) ==
  /\ visit[v].at = "in" /\ visit[v].mode = "chat"
  /\ archived \/ Enabled(Current, "chat")
  /\ visit' = [visit EXCEPT ![v].at = "asking"]
  /\ Serves /\ UNCHANGED heard

\* A question said into an open voice session: nothing is asked again.
Speak(v) ==
  /\ visit[v].at = "in" /\ visit[v].mode = "voice"
  /\ visit' = [visit EXCEPT ![v].at = "asking"]
  /\ UNCHANGED <<live, draft, off, deployed, archived, shared, heard>>

\* stream_turn: an archived tenant ends the turn.  A preview reads the draft, for
\* this turn only.
Directed_IntoCache(v) ==
  /\ visit' = [visit EXCEPT ![v].at = "answering"]
  /\ shared' = ShownBy(visit[v].variant)

Directed(v) ==
  /\ visit' = [visit EXCEPT ![v].at = "answering",
                            ![v].override = IF visit[v].variant = "draft" THEN draft ELSE 0]
  /\ shared' = Current

Direct(v) ==
  /\ visit[v].at = "asking"
  /\ \/ archived /\ visit' = [visit EXCEPT ![v].at = "in"] /\ shared' = Current
     \/ ~ archived /\ Directed(v)
  /\ UNCHANGED <<live, draft, off, deployed, archived, heard>>

\* The nodes reason with the override, or with the shared configuration.
Reply(v) ==
  /\ visit[v].at = "answering"
  /\ heard' = [heard EXCEPT ![v] = @ \cup {IF visit[v].override # 0 THEN visit[v].override
                                           ELSE Current}]
  /\ visit' = [visit EXCEPT ![v].at = "in", ![v].override = 0]
  /\ Serves

\* The link or the token expires, or the socket closes; the visitor may come back
\* by another way.
Expires(v) ==
  /\ visit[v].at \in {"linked", "in"}
  /\ visit' = [visit EXCEPT ![v] = Out]
  /\ heard' = [heard EXCEPT ![v] = {}]
  /\ UNCHANGED <<live, draft, off, deployed, archived, shared>>

-------------------------------------------------------------------------------
\* A saved draft is told from the one it replaces by the next number above all in
\* use; the code numbers a version when it is deployed.
NumberedNext(next) == /\ next - 1 \in deployed \cup {draft}
                      /\ \A version \in deployed \cup {draft} : version < next

SaveDraft ==
  \E next \in 1..MaxVersions :
    /\ NumberedNext(next) /\ draft' = next
    /\ \E modes \in SUBSET Channels :
         off' = {o \in off : o[1] # next} \cup {<<next, m>> : m \in modes}
    /\ UNCHANGED <<live, deployed, archived, shared, visit, heard>>

\* A turn may have filled the cache between its clearing and the new snapshot.
DeployDraft ==
  /\ draft # 0
  /\ live' = draft /\ deployed' = deployed \cup {draft} /\ draft' = 0
  /\ shared' \in {0, Current}
  /\ UNCHANGED <<off, archived, visit, heard>>

DiscardDraft == /\ draft # 0 /\ draft' = 0
                /\ UNCHANGED <<live, off, deployed, archived, shared, visit, heard>>

SetStatus == /\ archived' = ~ archived
             /\ UNCHANGED <<live, draft, off, deployed, shared, visit, heard>>

\* The entry's lifetime passes.
CacheAges == /\ shared # 0 /\ shared' = 0
             /\ UNCHANGED <<live, draft, off, deployed, archived, visit, heard>>

PreviewNext ==
  \/ \E v \in Guests :
       \/ Handshake(v) \/ TestSession(v) \/ VoiceLive(v)
       \/ \E link \in Links : CreateTestLink(v, link)
       \/ Say(v) \/ Speak(v) \/ Direct(v) \/ Reply(v) \/ Expires(v)
  \/ SaveDraft \/ DeployDraft \/ DiscardDraft \/ SetStatus \/ CacheAges

PreviewSpec == PreviewInit /\ [][PreviewNext]_previewVars

-------------------------------------------------------------------------------
\* "writing a draft into it would leak an unpublished, unreviewed edit onto a
\* live phone call or widget visitor": whoever previews what, meanwhile, a live
\* session is answered with nothing but what has been deployed.
DraftStaysPreview ==
  \A v \in Guests : visit[v].variant = "live" => heard[v] \subseteq deployed

\* "previewing a draft that turns chat off should refuse exactly like the
\* deployed version would": no preview is answered with a draft whose chat was
\* off when the question came.  It does not hold: Say asks the shared configuration.
PreviewFollowsDraft ==
  [][\A v \in Guests : Say(v) /\ visit[v].variant = "draft"
                          => Enabled(ShownBy("draft"), "chat")]_previewVars
===============================================================================
