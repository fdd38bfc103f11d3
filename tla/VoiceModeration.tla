--------------------------- MODULE VoiceModeration ---------------------------
(***************************************************************************)
(* Server mute, server deafen and disconnect, for one member of one voice  *)
(* channel: server/controllers/voiceModerationController.ts and            *)
(* server/utils/voiceModeration.ts, with the token mint of                 *)
(* voiceController.ts.                                                     *)
(*                                                                         *)
(* A restriction is in three places: the rows of the member in MongoDB,    *)
(* the grant of every token minted from them, and the grant of the live    *)
(* participant at the media server.  A moderator's request writes the      *)
(* first in two updates, then changes the third, and every step of it      *)
(* awaits; tokens are minted, used and held back meanwhile.                *)
(*                                                                         *)
(* Abstracted: a restriction is the set of flags imposed, a grant the set  *)
(* of what it allows; muting the open tracks before the grant is changed   *)
(* is part of changing it.  `listed` is the occupancy CallLifecycle keeps  *)
(* (voiceRoomOfUser), which a lost connection takes away while the media   *)
(* connection lives on.                                                    *)
(***************************************************************************)
EXTENDS Naturals, Sequences

CONSTANTS
    Moderator,      \* each has one request under way at a time
    Power,          \* what canActOnMember lets a moderator do to this member
    Nobody,         \* no participant
    MaxRequests,    \* bound: requests to change flags, and to disconnect
    MaxTokens,      \* bound: tokens minted
    MayFail         \* whether calls to the media server and to MongoDB may fail

Flag  == {"mute", "deafen"}
Right == {"hear", "mic", "video", "shareAudio"}
Token == [grant : SUBSET Right, old : BOOLEAN]

ASSUME ModerationAssumption ==
    /\ Power \in [Moderator -> SUBSET {"mute", "deafen", "move"}]
    /\ Nobody \notin Token
    /\ MaxRequests \in Nat /\ MaxTokens \in Nat
    /\ MayFail \in BOOLEAN

VARIABLES
    permits,    \* what the channel allows the member: Speak, Video
    rows,       \* the member's rows of memberVoice; a row is its set of flags
    tokens,     \* minted and not used; old: minted before the last write of rows
    live,       \* the participant, with the grant in force; or Nobody
    listed,     \* whether voiceRoomOfUser finds the member
    request,    \* request[m]: where m's request is
    told,       \* the outcome of the last change of flags
    requests, minted

store == <<permits, rows>>
media == <<tokens, live, listed>>
vars  == <<store, media, request, told, requests, minted>>

Request == [at : {"idle", "loaded", "pulled", "stored", "found", "there",
                  "failing", "removed", "evicting", "evicted"},
            before : SUBSET Flag, after : SUBSET Flag]

TypeOK ==
    /\ permits \subseteq {"speak", "video"}
    /\ rows \in Seq(SUBSET Flag)
    /\ tokens \subseteq Token
    /\ live \in Token \cup {Nobody}
    /\ listed \in BOOLEAN
    /\ request \in [Moderator -> Request]
    /\ told \in {"none", "applied", "absent", "evicted", "failed", "error"}
    /\ requests \in Nat /\ minted \in Nat

-----------------------------------------------------------------------------
(* The rules. *)

\* restrictionOf: the first row found, or no restriction.
Stored == IF rows = <<>> THEN {} ELSE rows[1]

\* publishGrantFor: deafen takes everything, mute both ways of being heard.
GrantFor(p, r) ==
    IF "deafen" \in r THEN {}
    ELSE {right \in Right :
            \/ right = "hear"
            \/ right = "mic" /\ "speak" \in p /\ "mute" \notin r
            \/ right = "video" /\ "video" \in p
            \/ right = "shareAudio" /\ "video" \in p /\ "mute" \notin r}

MayTalk(grant) == "mic" \in grant

\* The flags a request changes, each of which needs its own power.
Changed(q) == (q.before \ q.after) \cup (q.after \ q.before)

Idle == [at |-> "idle", before |-> {}, after |-> {}]

Goes(m, at) == request' = [request EXCEPT ![m].at = at]

\* The answer to the moderator, which ends the request.
Answers(m, outcome) ==
    /\ request' = [request EXCEPT ![m] = Idle]
    /\ told' = outcome

Init ==
    /\ permits \in SUBSET {"speak", "video"}
    /\ rows = <<>>
    /\ tokens = {}
    /\ live = Nobody
    /\ listed = FALSE
    /\ request = [m \in Moderator |-> Idle]
    /\ told = "none"
    /\ requests = 0 /\ minted = 0

-----------------------------------------------------------------------------
(* The member's client. *)

\* getVoiceToken reads the stored restriction and bakes it into the grant.
Mint ==
    /\ minted < MaxTokens
    /\ minted' = minted + 1
    /\ tokens' = tokens \cup {[grant |-> GrantFor(permits, Stored), old |-> FALSE]}
    /\ UNCHANGED <<store, live, listed, request, told, requests>>

\* The client connects to the media server, which honours the token; a second
\* connection of one identity replaces the first.
ConnectMedia(t) ==
    /\ live' = t
    /\ tokens' = tokens \ {t}
    /\ UNCHANGED <<store, listed, request, told, requests, minted>>

LeaveMedia ==
    /\ live # Nobody
    /\ live' = Nobody
    /\ UNCHANGED <<store, tokens, listed, request, told, requests, minted>>

\* call:join once connected, or call:rejoin after a lost connection.
EnterCall ==
    /\ live # Nobody /\ ~listed
    /\ listed' = TRUE
    /\ UNCHANGED <<store, tokens, live, request, told, requests, minted>>

\* call:leave, or the connection to the server is lost.
LeaveCall ==
    /\ listed
    /\ listed' = FALSE
    /\ UNCHANGED <<store, tokens, live, request, told, requests, minted>>

-----------------------------------------------------------------------------
(* setMemberVoice: persist first, then enforce live. *)

\* loadServer: what the member had is read here, and not again.
Load(m, impose, lift) ==
    /\ request[m].at = "idle"
    /\ requests < MaxRequests
    /\ requests' = requests + 1
    /\ request' = [request EXCEPT ![m] =
                      [at |-> "loaded", before |-> Stored,
                       after |-> (Stored \ lift) \cup impose]]
    /\ UNCHANGED <<store, media, told, minted>>

Refuse(m) ==
    /\ request[m].at = "loaded"
    /\ ~ Changed(request[m]) \subseteq Power[m]
    /\ request' = [request EXCEPT ![m] = Idle]
    /\ UNCHANGED <<store, media, told, requests, minted>>

\* Every token minted so far is older than the rows written here.
Age == tokens' = {[t EXCEPT !.old = TRUE] : t \in tokens}

\* $pull takes every row of the member; with nothing left to impose, that is all.
Pull(m) ==
    /\ request[m].at = "loaded"
    /\ Changed(request[m]) \subseteq Power[m]
    /\ rows' = <<>>
    /\ Age
    /\ Goes(m, IF request[m].after = {} THEN "stored" ELSE "pulled")
    /\ UNCHANGED <<permits, live, listed, told, requests, minted>>

Push(m) ==
    /\ request[m].at = "pulled"
    /\ rows' = Append(rows, request[m].after)
    /\ Goes(m, "stored")
    /\ Age
    /\ UNCHANGED <<permits, live, listed, told, requests, minted>>

\* A query fails: the request ends there, in error, with what it has written.
StoreFails(m) ==
    /\ request[m].at \in {"loaded", "pulled", "stored"}
    /\ MayFail
    /\ Answers(m, "error")
    /\ UNCHANGED <<store, media, requests, minted>>

\* Mutant: an outcome of its own for a member who is in no call.
FindRoomUnlisted(m) ==
    /\ request[m].at = "stored"
    /\ IF listed THEN Goes(m, "found") /\ UNCHANGED told
                 ELSE Answers(m, "unlisted")
    /\ UNCHANGED <<store, media, requests, minted>>

\* enforceLive asks the occupancy where the member is.
FindRoom(m) ==
    /\ request[m].at = "stored"
    /\ IF listed THEN Goes(m, "found") /\ UNCHANGED told
                 ELSE Answers(m, "absent")
    /\ UNCHANGED <<store, media, requests, minted>>

\* getParticipant: any failure reads as absence.
AskMedia(m) ==
    /\ request[m].at = "found"
    /\ \/ live # Nobody /\ Goes(m, "there") /\ UNCHANGED told
       \/ (live = Nobody \/ MayFail) /\ Answers(m, "absent")
    /\ UNCHANGED <<store, media, requests, minted>>

\* Mutant: the grant is built without the channel's permissions.
ApplyUnrestricted(m) ==
    /\ request[m].at = "there"
    /\ live # Nobody
    /\ live' = [grant |-> GrantFor({"speak", "video"}, request[m].after), old |-> FALSE]
    /\ Answers(m, "applied")
    /\ UNCHANGED <<store, tokens, listed, requests, minted>>

\* Mutant: only the flags this request imposes are sent.
ApplyChangedOnly(m) ==
    /\ request[m].at = "there"
    /\ live # Nobody
    /\ live' = [grant |-> GrantFor(permits, request[m].after \ request[m].before),
                old |-> FALSE]
    /\ Answers(m, "applied")
    /\ UNCHANGED <<store, tokens, listed, requests, minted>>

\* updateParticipant replaces the whole set of permissions.
Apply(m) ==
    /\ request[m].at = "there"
    /\ live # Nobody
    /\ live' = [grant |-> GrantFor(permits, request[m].after), old |-> FALSE]
    /\ Answers(m, "applied")
    /\ UNCHANGED <<store, tokens, listed, requests, minted>>

ApplyFails(m) ==
    /\ request[m].at = "there"
    /\ live = Nobody \/ MayFail
    /\ Goes(m, "failing")
    /\ UNCHANGED <<store, media, told, requests, minted>>

\* The fallback: removeParticipant, so that the next token decides.
Remove(m) ==
    /\ request[m].at = "failing"
    /\ \/ /\ live # Nobody
          /\ live' = Nobody /\ Goes(m, "removed") /\ UNCHANGED told
       \/ /\ live = Nobody \/ MayFail
          /\ Answers(m, "failed") /\ UNCHANGED live
    /\ UNCHANGED <<store, tokens, listed, requests, minted>>

\* dropFromCall, and the answer.
DropEvicted(m) ==
    /\ request[m].at = "removed"
    /\ listed' = FALSE
    /\ Answers(m, "evicted")
    /\ UNCHANGED <<store, tokens, live, requests, minted>>

-----------------------------------------------------------------------------
(* disconnectMember. *)

EvictFinds(m) ==
    /\ request[m].at = "idle"
    /\ requests < MaxRequests
    /\ requests' = requests + 1
    /\ "move" \in Power[m]
    /\ listed
    /\ Goes(m, "evicting")
    /\ UNCHANGED <<store, media, told, minted>>

EvictRemoves(m) ==
    /\ request[m].at = "evicting"
    /\ live' = Nobody \/ (MayFail /\ live' = live)
    /\ Goes(m, "evicted")
    /\ UNCHANGED <<store, tokens, listed, told, requests, minted>>

\* Dropped locally whatever the media server said.
EvictDrops(m) ==
    /\ request[m].at = "evicted"
    /\ listed' = FALSE
    /\ request' = [request EXCEPT ![m] = Idle]
    /\ UNCHANGED <<store, tokens, live, told, requests, minted>>

-----------------------------------------------------------------------------
ClientStep ==
    \/ Mint \/ LeaveMedia \/ EnterCall \/ LeaveCall
    \/ \E t \in tokens : ConnectMedia(t)

RequestStep(m) ==
    \/ Refuse(m) \/ Pull(m) \/ Push(m) \/ StoreFails(m)
    \/ FindRoom(m) \/ AskMedia(m) \/ Apply(m) \/ ApplyFails(m)
    \/ Remove(m) \/ DropEvicted(m)
    \/ EvictRemoves(m) \/ EvictDrops(m)

Arrive(m) ==
    \/ \E impose, lift \in SUBSET Flag :
          /\ impose \cap lift = {} /\ impose \cup lift # {}
          /\ Load(m, impose, lift)
    \/ EvictFinds(m)

Next == ClientStep \/ \E m \in Moderator : Arrive(m) \/ RequestStep(m)

Spec == Init /\ [][Next]_vars

\* Every await of a request is answered in the end, if only with a failure.
FairSpec == Spec /\ \A m \in Moderator : WF_vars(RequestStep(m))

-----------------------------------------------------------------------------
(* Properties. *)

\* Whatever the moderators do, nobody at the media server may do what the
\* channel's permissions have taken away: lifting a mute must not hand back a
\* camera the channel denies.
WithinPermits == live # Nobody => live.grant \subseteq GrantFor(permits, {})

\* When no request is under way, what the participant may do is what is stored,
\* no more and no less, unless they came in on a token minted before it was, or
\* the moderator was told that nothing was done at the media server or that the
\* request broke off.  (One
\* moderator at a time: two undo each other, see the rest.)
Settled == \A m \in Moderator : request[m].at = "idle"

LiveIsStored ==
    Settled /\ live # Nobody /\ ~live.old /\ told \notin {"absent", "failed", "error"}
        => live.grant = GrantFor(permits, Stored)

(* What comments of the code claim and the code does not do. *)

\* "What must never happen is a moderator being told someone is muted while they
\* are still talking": the outcomes short of failure are told as success, and
\* whoever is told of as restricted may not hold the live microphone.
ToldMutedIsSilent ==
    /\ Settled /\ Stored # {}
    /\ told \in {"applied", "absent", "evicted"}
    /\ live # Nobody
    => ~MayTalk(live.grant)
=============================================================================
