----------------------- MODULE VoiceModeration_proofs ------------------------
(* Proofs about VoiceModeration, for every set of moderators and powers.     *)
EXTENDS VoiceModeration, TLAPS

\* A restriction only ever takes away.
LEMMA GrantShrinks ==
    ASSUME NEW p, NEW r
    PROVE  /\ GrantFor(p, r) \subseteq Right
           /\ GrantFor(p, r) \subseteq GrantFor(p, {})
BY DEF GrantFor

\* What is stored for the member is a restriction.
LEMMA StoredType ==
    ASSUME TypeOK
    PROVE  Stored \subseteq Flag
<1>1. CASE rows = <<>>
  BY <1>1 DEF Stored
<1>2. CASE rows # <<>>
  BY <1>2 DEF Stored, TypeOK
<1> QED BY <1>1, <1>2

\* Moving a request on, and answering it, keeps its type.
LEMMA RequestTypes ==
    ASSUME TypeOK, NEW m \in Moderator,
           \/ \E at \in {"pulled", "stored", "found", "there", "failing",
                         "removed", "evicting", "evicted"} : Goes(m, at)
           \/ request' = [request EXCEPT ![m] = Idle]
    PROVE  request' \in [Moderator -> Request]
BY DEF TypeOK, Goes, Idle, Request

\* A request moved on keeps its flags.
LEMMA GoesTo ==
    ASSUME TypeOK, NEW m \in Moderator, NEW at, Goes(m, at)
    PROVE  request'[m].at = at /\ request'[m].after = request[m].after
<1>1. request \in [Moderator -> Request] /\ request[m] \in Request
  BY DEF TypeOK
<1>2. request'[m] = [request[m] EXCEPT !.at = at]
  BY <1>1 DEF Goes
<1> QED BY <1>1, <1>2 DEF Request

\* What a token is, minted and grown old.
LEMMA TokenTypes ==
    ASSUME TypeOK, NEW r
    PROVE  /\ [grant |-> GrantFor(permits, r), old |-> FALSE] \in Token
           /\ Age => tokens' \subseteq Token
<1>1. GrantFor(permits, r) \in SUBSET Right
  BY GrantShrinks
<1>2. \A t \in tokens : [t EXCEPT !.old = TRUE] \in Token
  BY DEF TypeOK, Token
<1> QED BY <1>1, <1>2 DEF Token, Age

LEMMA TypeStep ==
    ASSUME ModerationAssumption, TypeOK, [Next]_vars
    PROVE  TypeOK'
<1> USE DEF store, media
<1>1. ASSUME Mint
      PROVE  TypeOK'
  BY <1>1, TokenTypes DEF TypeOK, Mint
<1>2. ASSUME NEW t \in tokens, ConnectMedia(t)
      PROVE  TypeOK'
  BY <1>2 DEF TypeOK, ConnectMedia
<1>3. ASSUME LeaveMedia \/ EnterCall \/ LeaveCall
      PROVE  TypeOK'
  BY <1>3 DEF TypeOK, LeaveMedia, EnterCall, LeaveCall
<1>4. ASSUME NEW m \in Moderator, NEW impose \in SUBSET Flag, NEW lift,
             Load(m, impose, lift)
      PROVE  TypeOK'
  <2>1. [at |-> "loaded", before |-> Stored, after |-> (Stored \ lift) \cup impose]
           \in Request
    BY StoredType DEF Request
  <2>2. request' \in [Moderator -> Request]
    BY <1>4, <2>1 DEF TypeOK, Load
  <2> QED BY <1>4, <2>2 DEF TypeOK, Load
<1>5. ASSUME NEW m \in Moderator, EvictFinds(m) \/ Refuse(m)
      PROVE  TypeOK'
  <2>1. request' \in [Moderator -> Request]
    BY <1>5, RequestTypes DEF EvictFinds, Refuse
  <2>2. requests' \in Nat
    BY <1>5 DEF TypeOK, EvictFinds, Refuse
  <2>3. UNCHANGED <<permits, rows, tokens, live, listed, told, minted>>
    BY <1>5 DEF EvictFinds, Refuse
  <2> QED BY <2>1, <2>2, <2>3 DEF TypeOK
<1>6. ASSUME NEW m \in Moderator, Pull(m)
      PROVE  TypeOK'
  <2>1. request' \in [Moderator -> Request]
    BY <1>6, RequestTypes DEF Pull
  <2>2. tokens' \subseteq Token
    BY <1>6, TokenTypes DEF TypeOK, Pull
  <2> QED BY <1>6, <2>1, <2>2 DEF TypeOK, Pull
<1>7. ASSUME NEW m \in Moderator, Push(m)
      PROVE  TypeOK'
  <2>1. request' \in [Moderator -> Request]
    BY <1>7, RequestTypes DEF Push
  <2>2. tokens' \subseteq Token
    BY <1>7, TokenTypes DEF Push
  <2>3. request[m].after \in SUBSET Flag
    BY DEF TypeOK, Request
  <2>4. rows' \in Seq(SUBSET Flag)
    BY <1>7, <2>3 DEF TypeOK, Push
  <2> QED BY <1>7, <2>1, <2>2, <2>4 DEF TypeOK, Push
<1>8. ASSUME NEW m \in Moderator, FindRoom(m) \/ AskMedia(m) \/ StoreFails(m)
      PROVE  TypeOK'
  <2>1. request' \in [Moderator -> Request]
    BY <1>8, RequestTypes DEF FindRoom, AskMedia, StoreFails, Answers
  <2> QED BY <1>8, <2>1 DEF TypeOK, FindRoom, AskMedia, StoreFails, Answers
<1>9. ASSUME NEW m \in Moderator, Apply(m) \/ ApplyFails(m)
      PROVE  TypeOK'
  <2>1. request' \in [Moderator -> Request]
    BY <1>9, RequestTypes DEF Apply, ApplyFails, Answers
  <2>2. live' \in Token \cup {Nobody}
    BY <1>9, TokenTypes DEF TypeOK, Apply, ApplyFails
  <2> QED BY <1>9, <2>1, <2>2 DEF TypeOK, Apply, ApplyFails, Answers
<1>10. ASSUME NEW m \in Moderator, Remove(m) \/ DropEvicted(m)
       PROVE  TypeOK'
  <2>1. request' \in [Moderator -> Request]
    BY <1>10, RequestTypes DEF Remove, DropEvicted, Answers
  <2> QED BY <1>10, <2>1 DEF TypeOK, Remove, DropEvicted, Answers
<1>11. ASSUME NEW m \in Moderator, EvictRemoves(m) \/ EvictDrops(m)
       PROVE  TypeOK'
  <2>1. request' \in [Moderator -> Request]
    BY <1>11, RequestTypes DEF EvictRemoves, EvictDrops
  <2> QED BY <1>11, <2>1 DEF TypeOK, EvictRemoves, EvictDrops
<1>12. ASSUME UNCHANGED vars
       PROVE  TypeOK'
  BY <1>12 DEF TypeOK, vars
<1> QED
  BY <1>1, <1>2, <1>3, <1>4, <1>5, <1>6, <1>7, <1>8, <1>9, <1>10, <1>11, <1>12
     DEF Next, ClientStep, Arrive, RequestStep

\* Every variable keeps its type.
THEOREM ModerationTypes == Spec => []TypeOK
<1>1. Init => TypeOK
  <2>1. Idle \in Request
    BY DEF Idle, Request
  <2>2. ASSUME Init
        PROVE  TypeOK
    <3>1. rows \in Seq(SUBSET Flag) /\ request \in [Moderator -> Request]
      BY <2>1, <2>2 DEF Init
    <3>2. tokens \subseteq Token /\ live \in Token \cup {Nobody} /\ listed \in BOOLEAN
      BY <2>2 DEF Init
    <3>3. permits \subseteq {"speak", "video"} /\ requests \in Nat /\ minted \in Nat
      BY <2>2 DEF Init
    <3> QED BY <2>2, <3>1, <3>2, <3>3 DEF Init, TypeOK
  <2> QED BY <2>2
<1>2. TypeOK /\ [Next]_vars => TypeOK'
  BY ModerationAssumption, TypeStep
<1> QED BY <1>1, <1>2, PTL DEF Spec

-----------------------------------------------------------------------------
(* What the channel denies stays denied. *)

\* The tokens not yet used are within the channel's permissions too.
PermitsInv == /\ WithinPermits
              /\ \A t \in tokens : t.grant \subseteq GrantFor(permits, {})

LEMMA PermitsStep ==
    ASSUME ModerationAssumption, TypeOK, PermitsInv, [Next]_vars
    PROVE  PermitsInv'
<1> USE DEF store, media
<1>1. ASSUME Mint
      PROVE  PermitsInv'
  BY <1>1, GrantShrinks DEF Mint, PermitsInv, WithinPermits
<1>2. ASSUME NEW t \in tokens, ConnectMedia(t)
      PROVE  PermitsInv'
  BY <1>2 DEF ConnectMedia, PermitsInv, WithinPermits
<1>3. ASSUME permits' = permits, live' \in {live, Nobody},
             tokens' = tokens \/ Age
      PROVE  PermitsInv'
  BY <1>3 DEF Age, PermitsInv, WithinPermits, TypeOK, Token
<1>4. ASSUME LeaveMedia \/ EnterCall \/ LeaveCall
      PROVE  PermitsInv'
  BY <1>3, <1>4 DEF LeaveMedia, EnterCall, LeaveCall
<1>5. ASSUME NEW m \in Moderator, Arrive(m)
      PROVE  PermitsInv'
  BY <1>3, <1>5 DEF Arrive, Load, EvictFinds
<1>6. ASSUME NEW m \in Moderator, Apply(m)
      PROVE  PermitsInv'
  BY <1>6, GrantShrinks DEF Apply, PermitsInv, WithinPermits
<1>7. ASSUME NEW m \in Moderator, RequestStep(m), ~Apply(m)
      PROVE  PermitsInv'
  BY <1>3, <1>7 DEF RequestStep, Refuse, Pull, Push, StoreFails, FindRoom, AskMedia,
                    ApplyFails, Remove, DropEvicted, EvictRemoves, EvictDrops
<1>8. ASSUME UNCHANGED vars
      PROVE  PermitsInv'
  BY <1>3, <1>8 DEF vars
<1> QED BY <1>1, <1>2, <1>4, <1>5, <1>6, <1>7, <1>8 DEF Next, ClientStep

\* No sequence of mutes, deafens and lifts hands back what the channel denies.
THEOREM PermitsKept == Spec => []WithinPermits
<1>1. Init => PermitsInv
  BY DEF Init, PermitsInv, WithinPermits
<1>2. TypeOK /\ PermitsInv /\ [Next]_vars => PermitsInv'
  BY ModerationAssumption, PermitsStep
<1>3. PermitsInv => WithinPermits
  BY DEF PermitsInv
<1> QED BY <1>1, <1>2, <1>3, ModerationTypes, PTL DEF Spec

-----------------------------------------------------------------------------
(* One moderator: the participant has what is stored. *)

\* A grant that is the stored restriction's, or admitted to be older.
Agrees(t) == t.old \/ t.grant = GrantFor(permits, Stored)

\* Along one request: what it is about to store is stored from "stored" on; the
\* tokens agree throughout; the participant agrees until the pull, and again after
\* an eviction.
OneInv(m) ==
    LET at == request[m].at IN
    /\ at = "pulled" => rows = <<>>
    /\ at \in {"stored", "found", "there", "failing", "removed"}
          => Stored = request[m].after
    /\ \A t \in tokens : Agrees(t)
    /\ at = "removed" => live = Nobody \/ Agrees(live)
    /\ at \in {"idle", "loaded", "evicting", "evicted"}
          => live = Nobody \/ Agrees(live) \/ told \in {"absent", "failed", "error"}

LEMMA OneStep ==
    ASSUME ModerationAssumption, NEW m, Moderator = {m}, TypeOK, OneInv(m),
           [Next]_vars
    PROVE  OneInv(m)'
<1> USE DEF store, media
<1> DEFINE at == request[m].at
<1>0. m \in Moderator /\ request \in [Moderator -> Request] /\ request[m] \in Request
  BY DEF TypeOK
<1>1. ASSUME Mint
      PROVE  OneInv(m)'
  BY <1>1 DEF Mint, OneInv, Agrees, Stored
<1>2. ASSUME NEW t \in tokens, ConnectMedia(t)
      PROVE  OneInv(m)'
  BY <1>2 DEF ConnectMedia, OneInv, Agrees, Stored
<1>3. ASSUME LeaveMedia \/ EnterCall \/ LeaveCall
      PROVE  OneInv(m)'
  BY <1>3 DEF LeaveMedia, EnterCall, LeaveCall, OneInv, Agrees, Stored
<1>4. ASSUME NEW impose, NEW lift, Load(m, impose, lift)
      PROVE  OneInv(m)'
  <2>1. request'[m].at = "loaded"
    BY <1>0, <1>4 DEF Load
  <2> QED BY <1>4, <2>1 DEF Load, OneInv, Agrees, Stored
<1>5. ASSUME EvictFinds(m)
      PROVE  OneInv(m)'
  <2>1. request'[m].at = "evicting"
    BY <1>0, <1>5 DEF EvictFinds, Goes
  <2> QED BY <1>5, <2>1 DEF EvictFinds, OneInv, Agrees, Stored
<1>6. ASSUME Refuse(m)
      PROVE  OneInv(m)'
  <2>1. request'[m].at = "idle"
    BY <1>0, <1>6 DEF Refuse, Idle
  <2> QED BY <1>6, <2>1 DEF Refuse, OneInv, Agrees, Stored
\* Once it is stored, every token is older.
<1>7. ASSUME Age
      PROVE  \A t \in tokens' : Agrees(t)'
  BY <1>7 DEF Age, Agrees, TypeOK, Token
<1>8. ASSUME Pull(m)
      PROVE  OneInv(m)'
  <2>1. CASE request[m].after = {}
    <3>1. /\ request'[m].at = "stored" /\ request'[m].after = {}
          /\ Stored' = {}
      <4>1. Goes(m, "stored") /\ rows' = <<>>
        BY <1>8, <2>1 DEF Pull
      <4> QED BY <1>0, <2>1, <4>1, GoesTo DEF Stored
    <3>2. \A t \in tokens' : Agrees(t)'
      BY <1>7, <1>8 DEF Pull
    <3> QED BY <3>1, <3>2 DEF OneInv
  <2>2. CASE request[m].after # {}
    <3>1. request'[m].at = "pulled" /\ rows' = <<>>
      BY <1>0, <1>8, <2>2, GoesTo DEF Pull
    <3>2. \A t \in tokens' : Agrees(t)'
      BY <1>7, <1>8 DEF Pull
    <3> QED BY <3>1, <3>2 DEF OneInv
  <2> QED BY <2>1, <2>2
<1>9. ASSUME Push(m)
      PROVE  OneInv(m)'
  <2>1. request'[m].at = "stored" /\ request'[m].after = request[m].after
    BY <1>0, <1>9 DEF Push, Goes
  <2>2. rows' = <<request[m].after>>
    BY <1>9 DEF Push, OneInv
  <2>3. Stored' = request[m].after
    BY <2>2 DEF Stored
  <2>4. \A t \in tokens' : Agrees(t)'
    BY <1>7, <1>9 DEF Push
  <2> QED BY <2>1, <2>3, <2>4 DEF OneInv
\* The steps that only move the request along, with the same flags.
<1>10. ASSUME NEW a \in {"found", "there", "failing"}, Goes(m, a),
              at \in {"stored", "found", "there"}, UNCHANGED <<store, media>>
       PROVE  OneInv(m)'
  <2>1. request'[m].at = a /\ request'[m].after = request[m].after
    BY <1>0, <1>10 DEF Goes
  <2> QED BY <1>10, <2>1 DEF OneInv, Agrees, Stored
\* The answers that excuse the participant.
<1>11. ASSUME NEW o \in {"absent", "failed", "error"}, Answers(m, o),
              UNCHANGED <<store, media>>
       PROVE  OneInv(m)'
  <2>1. request'[m].at = "idle" /\ told' = o
    BY <1>0, <1>11 DEF Answers, Idle
  <2> QED BY <1>11, <2>1 DEF OneInv, Agrees, Stored
<1>12. ASSUME FindRoom(m)
       PROVE  OneInv(m)'
  BY <1>10, <1>11, <1>12 DEF FindRoom
<1>13. ASSUME AskMedia(m)
       PROVE  OneInv(m)'
  BY <1>10, <1>11, <1>13 DEF AskMedia
<1>14. ASSUME ApplyFails(m)
       PROVE  OneInv(m)'
  BY <1>10, <1>14 DEF ApplyFails
<1>15. ASSUME Apply(m)
       PROVE  OneInv(m)'
  <2>1. request'[m].at = "idle"
    BY <1>0, <1>15 DEF Apply, Answers, Idle
  <2>2. Agrees(live)'
    BY <1>15 DEF Apply, OneInv, Agrees, Stored
  <2> QED BY <1>15, <2>1, <2>2 DEF Apply, OneInv, Agrees, Stored
<1>16. ASSUME Remove(m)
       PROVE  OneInv(m)'
  <2>1. CASE live' = Nobody /\ Goes(m, "removed")
    <3>1. request'[m].at = "removed" /\ request'[m].after = request[m].after
      BY <1>0, <2>1 DEF Goes
    <3> QED BY <1>16, <2>1, <3>1 DEF Remove, OneInv, Agrees, Stored
  <2>2. CASE Answers(m, "failed") /\ UNCHANGED live
    BY <1>11, <1>16, <2>2 DEF Remove
  <2> QED BY <1>16, <2>1, <2>2 DEF Remove
<1>17. ASSUME DropEvicted(m)
       PROVE  OneInv(m)'
  <2>1. request'[m].at = "idle"
    BY <1>0, <1>17 DEF DropEvicted, Answers, Idle
  <2> QED BY <1>17, <2>1 DEF DropEvicted, OneInv, Agrees, Stored
<1>18. ASSUME EvictRemoves(m)
       PROVE  OneInv(m)'
  <2>1. request'[m].at = "evicted"
    BY <1>0, <1>18 DEF EvictRemoves, Goes
  <2> QED BY <1>18, <2>1 DEF EvictRemoves, OneInv, Agrees, Stored
<1>19. ASSUME EvictDrops(m)
       PROVE  OneInv(m)'
  <2>1. request'[m].at = "idle"
    BY <1>0, <1>19 DEF EvictDrops, Idle
  <2> QED BY <1>19, <2>1 DEF EvictDrops, OneInv, Agrees, Stored
<1>20. ASSUME StoreFails(m)
       PROVE  OneInv(m)'
  BY <1>11, <1>20 DEF StoreFails
<1>21. ASSUME UNCHANGED vars
       PROVE  OneInv(m)'
  BY <1>21 DEF vars, OneInv, Agrees, Stored
<1> QED
  BY <1>1, <1>2, <1>3, <1>4, <1>5, <1>6, <1>8, <1>9, <1>12, <1>13, <1>14,
     <1>15, <1>16, <1>17, <1>18, <1>19, <1>20, <1>21
     DEF Next, ClientStep, Arrive, RequestStep

\* With one moderator, a participant has exactly the grant of what is stored,
\* unless their token is older or the moderator was told nothing was done live, or
\* that the request broke off.
THEOREM OneModeratorAgrees ==
    ASSUME NEW m, Moderator = {m}
    PROVE  Spec => []LiveIsStored
<1>1. Init => OneInv(m)
  BY DEF Init, OneInv, Idle
<1>2. TypeOK /\ OneInv(m) /\ [Next]_vars => OneInv(m)'
  BY ModerationAssumption, OneStep
<1>3. OneInv(m) => LiveIsStored
  BY DEF OneInv, LiveIsStored, Settled, Agrees
<1> QED BY <1>1, <1>2, <1>3, ModerationTypes, PTL DEF Spec
=============================================================================
