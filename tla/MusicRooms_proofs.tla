--------------------------- MODULE MusicRooms_proofs ---------------------------
(* Proofs about MusicRooms, for every set of people, calls and channel ids,   *)
(* and every cap.                                                             *)
EXTENDS MusicRooms, TLAPS

\* A channel is in one call, its id was used once, and nobody listens to one
\* that does not exist.
InOneRoom ==
    /\ \A r, s \in Room : \A c \in channels[r] : c \in channels[s] => r = s
    /\ Exists \subseteq used
    /\ \A c \in Channel : c \notin Exists => listeners[c] = {}

RoomsInv ==
    RoomsTypeOK /\ InOneRoom /\ ClockRunsWhileEmpty /\ OneChannelEach /\ LeftIsTunedOut

LEMMA RoomsStart == RoomsInit => RoomsInv
BY DEF RoomsInit, RoomsInv, RoomsTypeOK, InOneRoom, Exists, ClockRunsWhileEmpty, OneChannelEach,
       LeftIsTunedOut

\* A step that changes the call alone leaves the music as it is.
LEMMA CallAlone ==
    ASSUME RoomsInv, UNCHANGED music, RoomsTypeOK', LeftIsTunedOut'
    PROVE  RoomsInv'
BY DEF RoomsInv, InOneRoom, Exists, ClockRunsWhileEmpty, OneChannelEach, music

\* Taking somebody out of some of the channels there are starts the clocks of
\* those they were the last in.
LEMMA TuningOut ==
    ASSUME RoomsInv, NEW u \in User, NEW cs \in SUBSET Exists, TunedOut(u, cs),
           UNCHANGED <<channels, used>>, RoomsTypeOK'
    PROVE  InOneRoom' /\ ClockRunsWhileEmpty' /\ OneChannelEach'
<1>1. \A c \in Channel : listeners'[c] = IF c \in cs THEN listeners[c] \ {u} ELSE listeners[c]
  BY DEF TunedOut
<1>2. Exists' = Exists
  BY DEF Exists
<1>3. InOneRoom'
  BY <1>1, <1>2 DEF RoomsInv, InOneRoom
<1>4. ClockRunsWhileEmpty'
  <2> SUFFICES ASSUME NEW c \in Channel
               PROVE  c \in closing' <=> c \in Exists' /\ listeners'[c] = {}
    BY DEF ClockRunsWhileEmpty
  <2>1. CASE c \in cs
    BY <2>1, <1>1, <1>2 DEF RoomsInv, ClockRunsWhileEmpty, TunedOut
  <2>2. CASE c \notin cs
    BY <2>2, <1>1, <1>2 DEF RoomsInv, ClockRunsWhileEmpty, TunedOut
  <2> QED BY <2>1, <2>2
<1>5. OneChannelEach'
  BY <1>1 DEF RoomsInv, RoomsTypeOK, OneChannelEach
<1> QED BY <1>3, <1>4, <1>5

LEMMA RoomsStep ==
    ASSUME RoomsInv, [RoomsNext]_musicRooms
    PROVE  RoomsInv'
<1>1. ASSUME NEW u \in User, NEW r \in Room, JoinCall(u, r)
      PROVE  RoomsInv'
  <2>1. RoomsTypeOK' /\ UNCHANGED music
    BY <1>1 DEF RoomsInv, RoomsTypeOK, JoinCall, music
  <2>2. LeftIsTunedOut'
    BY <1>1 DEF RoomsInv, RoomsTypeOK, LeftIsTunedOut, JoinCall, music
  <2> QED BY <2>1, <2>2, CallAlone
<1>2. ASSUME NEW u \in User, NEW r \in Room, LeavesCall(u, r)
      PROVE  RoomsInv'
  <2>1. RoomsTypeOK'
    BY <1>2 DEF RoomsInv, RoomsTypeOK, LeavesCall, TunedOut, Exists
  <2>2. InOneRoom' /\ ClockRunsWhileEmpty' /\ OneChannelEach'
    BY <1>2, <2>1, TuningOut DEF LeavesCall
  <2>3. \A s \in Room : \A c \in channels[s] : c \in Channel /\ listeners'[c] = listeners[c] \ {u}
    BY <1>2 DEF RoomsInv, RoomsTypeOK, LeavesCall, TunedOut, Exists
  <2>4. \A s \in Room : inCall[s] \ {u} \subseteq inCall'[s]
    BY <1>2 DEF RoomsInv, RoomsTypeOK, LeavesCall
  <2>5. LeftIsTunedOut'
    BY <1>2, <2>3, <2>4 DEF RoomsInv, LeftIsTunedOut, LeavesCall
  <2> QED BY <2>1, <2>2, <2>5 DEF RoomsInv
<1>3. ASSUME NEW u \in User, NEW r \in Room, Evict(u, r)
      PROVE  RoomsInv'
  <2>1. RoomsTypeOK' /\ UNCHANGED music
    BY <1>3 DEF RoomsInv, RoomsTypeOK, Evict, music
  <2>2. LeftIsTunedOut'
    BY <1>3 DEF RoomsInv, RoomsTypeOK, LeftIsTunedOut, Evict, music
  <2> QED BY <2>1, <2>2, CallAlone
<1>4. ASSUME NEW u \in User, NEW r \in Room, CreateAsks(u, r) \/ CreateRefused(u, r)
      PROVE  RoomsInv'
  <2>1. RoomsTypeOK' /\ UNCHANGED music
    BY <1>4 DEF RoomsInv, RoomsTypeOK, CreateAsks, CreateRefused, music
  <2>2. LeftIsTunedOut'
    BY <1>4 DEF RoomsInv, LeftIsTunedOut, CreateAsks, CreateRefused, music
  <2> QED BY <2>1, <2>2, CallAlone
<1>5. ASSUME NEW u \in User, NEW r \in Room, CreateFinds(u, r)
      PROVE  RoomsInv'
  <2>1. CASE UNCHANGED music
    <3>1. RoomsTypeOK'
      BY <1>5, <2>1 DEF RoomsInv, RoomsTypeOK, CreateFinds, music
    <3>2. LeftIsTunedOut'
      BY <1>5, <2>1 DEF RoomsInv, LeftIsTunedOut, CreateFinds, music
    <3> QED BY <2>1, <3>1, <3>2, CallAlone
  <2>2. ASSUME NEW c \in Channel, Opens(r, c)
        PROVE  RoomsInv'
    <3>1. RoomsTypeOK'
      BY <1>5, <2>2 DEF RoomsInv, RoomsTypeOK, CreateFinds, Opens
    <3>2. c \notin Exists /\ listeners[c] = {}
      BY <2>2 DEF RoomsInv, InOneRoom, Opens
    <3>3. \A s \in Room : channels'[s] = IF s = r THEN channels[s] \cup {c} ELSE channels[s]
      BY <2>2 DEF RoomsInv, RoomsTypeOK, Opens
    <3>4. Exists' = Exists \cup {c}
      BY <3>3 DEF Exists
    <3>5. \A s \in Room : c \notin channels[s]
      BY <3>2 DEF Exists
    <3>6. InOneRoom'
      BY <2>2, <3>2, <3>3, <3>4, <3>5 DEF RoomsInv, InOneRoom, Opens
    <3>7. ClockRunsWhileEmpty'
      BY <2>2, <3>2, <3>4 DEF RoomsInv, ClockRunsWhileEmpty, Opens
    <3>8. OneChannelEach'
      BY <2>2, <3>2, <3>3 DEF RoomsInv, OneChannelEach, Opens
    <3>9. LeftIsTunedOut'
      BY <1>5, <2>2, <3>2, <3>3 DEF RoomsInv, LeftIsTunedOut, CreateFinds, Opens
    <3> QED BY <3>1, <3>6, <3>7, <3>8, <3>9 DEF RoomsInv
  <2> QED BY <1>5, <2>1, <2>2 DEF CreateFinds
<1>6. ASSUME NEW u \in User, NEW r \in Room, TuneOut(u, r)
      PROVE  RoomsInv'
  <2>1. channels[r] \subseteq Exists
    BY DEF Exists
  <2>2. RoomsTypeOK'
    BY <1>6 DEF RoomsInv, RoomsTypeOK, TuneOut, TunedOut
  <2>3. InOneRoom' /\ ClockRunsWhileEmpty' /\ OneChannelEach'
    BY <1>6, <2>1, <2>2, TuningOut DEF TuneOut
  <2>4. \A c \in Channel : listeners'[c] \subseteq listeners[c]
    BY <1>6 DEF TuneOut, TunedOut
  <2>5. LeftIsTunedOut'
    BY <1>6, <2>4 DEF RoomsInv, RoomsTypeOK, LeftIsTunedOut, TuneOut
  <2> QED BY <2>2, <2>3, <2>5 DEF RoomsInv
<1>7. ASSUME NEW u \in User, NEW r \in Room, NEW c \in Channel, Listen(u, r, c)
      PROVE  RoomsInv'
  <2>1. RoomsTypeOK'
    BY <1>7 DEF RoomsInv, RoomsTypeOK, Listen
  <2>2. \A d \in Channel : listeners'[d] = IF d = c THEN listeners[d] \cup {u}
                                           ELSE IF d \in channels[r] THEN listeners[d] \ {u}
                                           ELSE listeners[d]
    BY <1>7 DEF Listen
  <2>3. channels[r] \subseteq Exists /\ c \in channels[r] /\ Exists' = Exists
    BY <1>7 DEF Listen, Exists
  <2>4. InOneRoom'
    BY <1>7, <2>2, <2>3 DEF RoomsInv, InOneRoom, Listen
  <2>5. ClockRunsWhileEmpty'
    <3> SUFFICES ASSUME NEW d \in Channel
                 PROVE  d \in closing' <=> d \in Exists' /\ listeners'[d] = {}
      BY DEF ClockRunsWhileEmpty
    <3>1. CASE d = c
      BY <3>1, <1>7, <2>2 DEF Listen
    <3>2. CASE d # c /\ d \in channels[r]
      BY <3>2, <1>7, <2>2, <2>3 DEF RoomsInv, ClockRunsWhileEmpty, Listen
    <3>3. CASE d \notin channels[r]
      BY <3>3, <1>7, <2>2, <2>3 DEF RoomsInv, ClockRunsWhileEmpty, Listen
    <3> QED BY <3>1, <3>2, <3>3
  <2>6. OneChannelEach'
    <3> SUFFICES ASSUME NEW s \in Room, NEW d \in channels[s], NEW e \in channels[s],
                        NEW v, v \in listeners'[d], v \in listeners'[e]
                 PROVE  d = e
      BY <1>7 DEF OneChannelEach, Listen
    <3>1. d \in Channel /\ e \in Channel
      BY DEF RoomsInv, RoomsTypeOK
    <3>2. CASE v # u
      BY <3>1, <3>2, <2>2 DEF RoomsInv, OneChannelEach
    <3>3. CASE v = u /\ s = r
      BY <3>1, <3>3, <2>2
    <3>4. CASE v = u /\ s # r
      <4>1. d \notin channels[r] /\ e \notin channels[r] /\ d # c /\ e # c
        BY <3>4, <2>3 DEF RoomsInv, InOneRoom
      <4> QED BY <4>1, <3>1, <2>2 DEF RoomsInv, OneChannelEach
    <3> QED BY <3>2, <3>3, <3>4
  <2>7. LeftIsTunedOut'
    <3> SUFFICES ASSUME NEW s \in Room, NEW d \in channels[s], NEW v \in listeners'[d]
                 PROVE  v \in inCall[s] \cup evicted[s]
      BY <1>7 DEF LeftIsTunedOut, Listen
    <3>1. d \in Channel
      BY DEF RoomsInv, RoomsTypeOK
    <3>2. CASE v \in listeners[d]
      BY <3>2 DEF RoomsInv, LeftIsTunedOut
    <3>3. CASE v \notin listeners[d]
      <4>1. d = c /\ v = u
        BY <3>1, <3>3, <2>2
      <4>2. s = r
        BY <4>1, <2>3 DEF RoomsInv, InOneRoom
      <4> QED BY <4>1, <4>2, <1>7 DEF Listen
    <3> QED BY <3>2, <3>3
  <2> QED BY <2>1, <2>4, <2>5, <2>6, <2>7 DEF RoomsInv
<1>8. ASSUME NEW r \in Room, NEW c \in Channel, TearDown(r, c)
      PROVE  RoomsInv'
  <2>1. RoomsTypeOK'
    BY <1>8 DEF RoomsInv, RoomsTypeOK, TearDown
  <2>2. \A s \in Room : channels'[s] = IF s = r THEN channels[s] \ {c} ELSE channels[s]
    BY <1>8 DEF RoomsInv, RoomsTypeOK, TearDown
  <2>3. \A d \in Channel : listeners'[d] = IF d = c THEN {} ELSE listeners[d]
    BY <1>8 DEF RoomsInv, RoomsTypeOK, TearDown
  <2>4. Exists' = Exists \ {c}
    BY <1>8, <2>2 DEF RoomsInv, InOneRoom, Exists, TearDown
  <2>5. InOneRoom'
    BY <1>8, <2>2, <2>3, <2>4 DEF RoomsInv, InOneRoom, TearDown
  <2>6. ClockRunsWhileEmpty'
    BY <1>8, <2>3, <2>4 DEF RoomsInv, ClockRunsWhileEmpty, TearDown
  <2>7. OneChannelEach'
    BY <2>2, <2>3 DEF RoomsInv, RoomsTypeOK, OneChannelEach
  <2>8. LeftIsTunedOut'
    BY <1>8, <2>2, <2>3 DEF RoomsInv, RoomsTypeOK, LeftIsTunedOut, TearDown
  <2> QED BY <2>1, <2>5, <2>6, <2>7, <2>8 DEF RoomsInv
<1>9. ASSUME NEW r \in Room, NEW c \in Channel, GraceEnds(r, c)
      PROVE  RoomsInv'
  <2>1. listeners[c] = {}
    BY <1>9 DEF RoomsInv, ClockRunsWhileEmpty, GraceEnds
  <2> QED BY <1>8, <1>9, <2>1 DEF GraceEnds
<1>10. CASE UNCHANGED musicRooms
  BY <1>10 DEF RoomsInv, RoomsTypeOK, InOneRoom, Exists, ClockRunsWhileEmpty, OneChannelEach,
               LeftIsTunedOut, musicRooms, music
<1> QED BY <1>1, <1>2, <1>3, <1>4, <1>5, <1>6, <1>7, <1>8, <1>9, <1>10 DEF RoomsNext, CloseChannel

LEMMA RoomsHold == RoomsSpec => []RoomsInv
<1> QED BY RoomsStart, RoomsStep, PTL DEF RoomsSpec

\* The clock of EMPTY_GRACE_MS runs exactly while nobody listens, so that the
\* second look inside the timer never finds anybody.
THEOREM ClockIsRight == RoomsSpec => []ClockRunsWhileEmpty
<1>1. RoomsInv => ClockRunsWhileEmpty
  BY DEF RoomsInv
<1> QED BY <1>1, RoomsHold, PTL

\* A member tunes into at most one channel of a call (listen).
THEOREM OneAtATime == RoomsSpec => []OneChannelEach
<1>1. RoomsInv => OneChannelEach
  BY DEF RoomsInv
<1> QED BY <1>1, RoomsHold, PTL

\* Leaving a call leaves its music (leaveCall, forget), unless a moderator's
\* dropFromCall did it.
THEOREM LeaversAreTunedOut == RoomsSpec => []LeftIsTunedOut
<1>1. RoomsInv => LeftIsTunedOut
  BY DEF RoomsInv
<1> QED BY <1>1, RoomsHold, PTL
=============================================================================
