------------------------------ MODULE MusicRooms ------------------------------
(***************************************************************************)
(* Which music channels a call has and who listens to which:               *)
(* server/sockets/musicState.ts, create, listen, forget, close and the     *)
(* grace period of a channel nobody listens to, with the gate and the      *)
(* handlers of server/sockets/chatSocket.ts.  What a channel plays is      *)
(* MusicChannel's.                                                         *)
(*                                                                         *)
(* `inCall` is the occupancy CallLifecycle keeps; here it only changes by  *)
(* joining, by leaveCall, which takes the person out of the music as well, *)
(* and by a moderator's dropFromCall, which does not.  The rate limit only *)
(* refuses, and is left out.                                               *)
(***************************************************************************)
EXTENDS Naturals, FiniteSets

CONSTANTS
    User, Room,
    Channel,        \* the ids music channels may be given, each used once
    PerCall,        \* caps.channelsPerCall
    PerInstance,    \* caps.channelsPerInstance
    MaxJoins        \* bound: times somebody joins a call

ASSUME RoomsAssumption ==
    PerCall \in Nat /\ PerInstance \in Nat /\ MaxJoins \in Nat

VARIABLES
    inCall,     \* inCall[r]: who is in the call, activeCalls
    channels,   \* channels[r]: the channels that exist
    listeners,  \* listeners[c]
    closing,    \* the channels whose grace period runs: pendingClose
    creating,   \* music:create waiting for its source: <<user, room>>
    used, joins,
    evicted     \* history: evicted[r], who a moderator put out of r since last there

music == <<channels, listeners, closing, used>>
musicRooms  == <<inCall, music, creating, joins, evicted>>

Exists == UNION {channels[r] : r \in Room}

RoomsTypeOK ==
    /\ inCall \in [Room -> SUBSET User]
    /\ channels \in [Room -> SUBSET Channel]
    /\ listeners \in [Channel -> SUBSET User]
    /\ closing \subseteq Channel /\ used \subseteq Channel
    /\ creating \subseteq User \X Room
    /\ joins \in Nat
    /\ evicted \in [Room -> SUBSET User]

RoomsInit ==
    /\ inCall = [r \in Room |-> {}]
    /\ channels = [r \in Room |-> {}]
    /\ listeners = [c \in Channel |-> {}]
    /\ closing = {} /\ used = {}
    /\ creating = {} /\ joins = 0
    /\ evicted = [r \in Room |-> {}]

-----------------------------------------------------------------------------
(* The call. *)

JoinCall(u, r) ==
    /\ joins < MaxJoins /\ joins' = joins + 1
    /\ inCall' = [inCall EXCEPT ![r] = @ \cup {u}]
    /\ evicted' = [evicted EXCEPT ![r] = @ \ {u}]
    /\ UNCHANGED <<music, creating>>

TunedOutUnclocked(u, cs) ==
    /\ listeners' = [c \in Channel |-> IF c \in cs THEN listeners[c] \ {u} ELSE listeners[c]]
    /\ UNCHANGED closing

\* Takes a listener out of a set of channels and starts the clock of those
\* nobody listens to any more: armIfEmpty.
TunedOut(u, cs) ==
    /\ listeners' = [c \in Channel |-> IF c \in cs THEN listeners[c] \ {u} ELSE listeners[c]]
    /\ closing' = closing \cup {c \in cs : listeners[c] = {u}}

LeavesCallOnly(u, r) ==
    /\ u \in inCall[r]
    /\ inCall' = [inCall EXCEPT ![r] = @ \ {u}]
    /\ UNCHANGED <<music, creating, joins, evicted>>

\* leaveCall: out of the call, and out of every channel of every call.
LeavesCall(u, r) ==
    /\ u \in inCall[r]
    /\ inCall' = [inCall EXCEPT ![r] = @ \ {u}]
    /\ TunedOut(u, Exists)
    /\ UNCHANGED <<channels, used, creating, joins, evicted>>

\* dropFromCall.
Evict(u, r) ==
    /\ u \in inCall[r]
    /\ inCall' = [inCall EXCEPT ![r] = @ \ {u}]
    /\ evicted' = [evicted EXCEPT ![r] = @ \cup {u}]
    /\ UNCHANGED <<music, creating, joins>>

-----------------------------------------------------------------------------
(* music:create, which looks its source up between the gate and the caps. *)

CreateAsks(u, r) ==
    /\ u \in inCall[r]
    /\ creating' = creating \cup {<<u, r>>}
    /\ UNCHANGED <<inCall, music, joins, evicted>>

MayOpen(r) ==
    /\ Cardinality(channels[r]) < PerCall
    /\ Cardinality(Exists) < PerInstance

OpensUnclocked(r, c) ==
    /\ c \notin used /\ used' = used \cup {c}
    /\ channels' = [channels EXCEPT ![r] = @ \cup {c}]
    /\ UNCHANGED <<listeners, closing>>

Opens(r, c) ==
    /\ c \notin used /\ used' = used \cup {c}
    /\ channels' = [channels EXCEPT ![r] = @ \cup {c}]
    /\ closing' = closing \cup {c}
    /\ UNCHANGED listeners

\* The one who creates a channel does not listen to it: its grace period runs.
CreateFinds(u, r) ==
    /\ <<u, r>> \in creating /\ creating' = creating \ {<<u, r>>}
    /\ \/ MayOpen(r) /\ \E c \in Channel : Opens(r, c)
       \/ ~MayOpen(r) /\ UNCHANGED music
    /\ UNCHANGED <<inCall, joins, evicted>>

CreateRefused(u, r) ==
    /\ <<u, r>> \in creating /\ creating' = creating \ {<<u, r>>}
    /\ UNCHANGED <<inCall, music, joins, evicted>>

-----------------------------------------------------------------------------
\* Tuning in leaves the others of this call, and stops the clock.
Listen(u, r, c) ==
    /\ u \in inCall[r] /\ c \in channels[r]
    /\ listeners' = [d \in Channel |->
                        IF d = c THEN listeners[d] \cup {u}
                        ELSE IF d \in channels[r] THEN listeners[d] \ {u}
                        ELSE listeners[d]]
    /\ closing' = (closing \cup {d \in channels[r] : listeners[d] = {u}}) \ {c}
    /\ UNCHANGED <<inCall, channels, used, creating, joins, evicted>>

TuneOut(u, r) ==
    /\ u \in inCall[r]
    /\ TunedOut(u, channels[r])
    /\ UNCHANGED <<inCall, channels, used, creating, joins, evicted>>

TearDown(r, c) ==
    /\ c \in channels[r]
    /\ channels' = [channels EXCEPT ![r] = @ \ {c}]
    /\ listeners' = [listeners EXCEPT ![c] = {}]
    /\ closing' = closing \ {c}
    /\ UNCHANGED <<inCall, used, creating, joins, evicted>>

CloseChannel(u, r, c) == u \in inCall[r] /\ TearDown(r, c)

\* EMPTY_GRACE_MS later: still nobody?
GraceEnds(r, c) ==
    /\ c \in closing /\ c \in channels[r]
    /\ IF listeners[c] = {} THEN TearDown(r, c)
       ELSE /\ closing' = closing \ {c}
            /\ UNCHANGED <<inCall, channels, listeners, used, creating, joins, evicted>>

-----------------------------------------------------------------------------
RoomsNext ==
    \/ \E u \in User, r \in Room :
          \/ JoinCall(u, r) \/ LeavesCall(u, r) \/ Evict(u, r)
          \/ CreateAsks(u, r) \/ CreateFinds(u, r) \/ CreateRefused(u, r)
          \/ TuneOut(u, r)
          \/ \E c \in Channel : Listen(u, r, c) \/ CloseChannel(u, r, c)
    \/ \E r \in Room, c \in Channel : GraceEnds(r, c)

RoomsSpec == RoomsInit /\ [][RoomsNext]_musicRooms

\* Timers fire.
RoomsFairness == \A r \in Room, c \in Channel : WF_musicRooms(GraceEnds(r, c))

FairRoomsSpec == RoomsSpec /\ RoomsFairness

-----------------------------------------------------------------------------
(* Properties. *)

\* A channel's clock runs exactly while nobody listens to it: it neither stays
\* with nobody there, nor goes under somebody who has tuned in.
ClockRunsWhileEmpty ==
    \A c \in Channel : c \in closing <=> c \in Exists /\ listeners[c] = {}

\* "each member tunes into at most one".
OneChannelEach ==
    \A r \in Room : \A c, d \in channels[r] :
        listeners[c] \cap listeners[d] # {} => c = d

\* Nobody listens to the music of a call they have left, unless a moderator put
\* them out of it.
LeftIsTunedOut ==
    \A r \in Room : \A c \in channels[r] : listeners[c] \subseteq inCall[r] \cup evicted[r]

\* The music of a call everybody has left ends, unless somebody was put out.
AbandonedCloses ==
    \A r \in Room :
        inCall[r] = {} ~> (channels[r] = {} \/ inCall[r] # {} \/ evicted[r] # {})
=============================================================================
