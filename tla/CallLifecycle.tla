---------------------------- MODULE CallLifecycle ----------------------------
(***************************************************************************)
(* The life of a call, as server/sockets/chatSocket.ts keeps it: who is in *)
(* which room, when a room's call began, which rooms wait out the grace    *)
(* period after losing their last socket, and what the conversation is     *)
(* told ("X started a call", "Call ended").                                *)
(*                                                                         *)
(* The process is single threaded, so what runs between two awaits is one  *)
(* action.  call:join and call:rejoin await a membership check before they *)
(* touch anything, and call:join awaits the write of its system line       *)
(* before it broadcasts: a handler is a record of `handlers` meanwhile,    *)
(* and outlives the socket that started it.  Two identical handlers of one *)
(* socket are one record.                                                  *)
(*                                                                         *)
(* Abstracted: a start time is the fact that there is one; a line is the   *)
(* decision to write it (a write that fails is a handler that never goes   *)
(* on); a voice state is its presence.  A socket id is used once.          *)
(***************************************************************************)
EXTENDS Naturals, Sequences

CONSTANTS
    User,
    Sock,           \* connections; Owner[s] is the user whose token opened s
    Owner,
    Background,     \* the phone's listening connections: they never hold a seat
    Room,           \* LiveKit room names: dm:, group: and voice:
    VoiceRoom,      \* the voice: ones, which have no text history
    VoiceServer,    \* media servers a dm or group call may settle on
    Unfixed,        \* no choice recorded for the room
    MaxRequests,    \* bound: call:join and call:rejoin events
    MaxReports,     \* bound: first reports of a voice state
    MaxRestarts,    \* bound: restarts of the process
    MayShutDown     \* whether a restart may be preceded by the SIGTERM drain

ASSUME CallAssumption ==
    /\ Owner \in [Sock -> User]
    /\ Background \subseteq Sock
    /\ VoiceRoom \subseteq Room
    /\ Unfixed \notin VoiceServer
    /\ MaxRequests \in Nat /\ MaxReports \in Nat /\ MaxRestarts \in Nat
    /\ MayShutDown \in BOOLEAN

VARIABLES
    phase,            \* "up", or "stopping" after SIGTERM
    conn,             \* conn[s]: "new", "open" or "closed"
    handlers,         \* call:join and call:rejoin handlers at an await
    joinedCallRooms,  \* per connection, in insertion order
    activeCalls,      \* activeCalls[r]: the occupants; {} when absent
    callStartedAt,    \* the rooms with a start time on file
    pendingCallEnd,   \* the rooms with an end timer armed
    callVoiceServer,  \* callVoiceServer[r], or Unfixed
    voiceStates,      \* voiceStates[r]: the occupants with a state on file
    lines,            \* lines[r]: what the conversation has been told
    shown,            \* shown[r]: the occupancy last broadcast
    requests, reports, restarts   \* how much of each bound is used

callVars  == <<activeCalls, callStartedAt, pendingCallEnd, callVoiceServer,
               voiceStates, lines, shown>>
bounds    == <<requests, reports, restarts>>
vars      == <<phase, conn, handlers, joinedCallRooms, callVars, bounds>>

Conv    == Room \ VoiceRoom
Handler == [sock : Sock, room : Room, kind : {"join", "rejoin"},
            at : {"checking", "posting"}]

Seats(q)    == {q[i] : i \in DOMAIN q}
Occupied(r) == activeCalls[r] # {}

TypeOK ==
    /\ phase \in {"up", "stopping"}
    /\ conn \in [Sock -> {"new", "open", "closed"}]
    /\ handlers \subseteq Handler
    /\ joinedCallRooms \in [Sock -> Seq(Room)]
    /\ activeCalls \in [Room -> SUBSET User]
    /\ callStartedAt \subseteq Room
    /\ pendingCallEnd \subseteq Room
    /\ callVoiceServer \in [Room -> VoiceServer \cup {Unfixed}]
    /\ voiceStates \in [Room -> SUBSET User]
    /\ lines \in [Conv -> Seq({"started", "ended"})]
    /\ shown \in [Room -> SUBSET User]
    /\ requests \in Nat /\ reports \in Nat /\ restarts \in Nat

\* A process that has just booted: every map of the module is empty.
EmptyProcess ==
    /\ phase' = "up"
    /\ handlers' = {}
    /\ joinedCallRooms' = [s \in Sock |-> <<>>]
    /\ activeCalls' = [r \in Room |-> {}]
    /\ callStartedAt' = {}
    /\ pendingCallEnd' = {}
    /\ callVoiceServer' = [r \in Room |-> Unfixed]
    /\ voiceStates' = [r \in Room |-> {}]
    /\ shown' = [r \in Room |-> {}]

Init ==
    /\ phase = "up"
    /\ conn = [s \in Sock |-> "new"]
    /\ handlers = {}
    /\ joinedCallRooms = [s \in Sock |-> <<>>]
    /\ activeCalls = [r \in Room |-> {}]
    /\ callStartedAt = {}
    /\ pendingCallEnd = {}
    /\ callVoiceServer = [r \in Room |-> Unfixed]
    /\ voiceStates = [r \in Room |-> {}]
    /\ lines = [r \in Conv |-> <<>>]
    /\ shown = [r \in Room |-> {}]
    /\ requests = 0 /\ reports = 0 /\ restarts = 0

-----------------------------------------------------------------------------
(* What the paths share. *)

\* Mutants of the three operators below, each with what a slip would leave out.
TakeOutKeepingStates(u, left) ==
    /\ activeCalls' = [r \in Room |-> IF r \in left THEN activeCalls[r] \ {u}
                                                    ELSE activeCalls[r]]
    /\ shown' = [r \in Room |-> IF r \in left THEN activeCalls'[r] ELSE shown[r]]
    /\ UNCHANGED voiceStates

TakeOutUnannounced(u, left) ==
    /\ activeCalls' = [r \in Room |-> IF r \in left THEN activeCalls[r] \ {u}
                                                    ELSE activeCalls[r]]
    /\ voiceStates' = [r \in Room |-> IF r \in left THEN voiceStates[r] \ {u}
                                                    ELSE voiceStates[r]]
    /\ UNCHANGED shown

EmptiedByAnyone(u, left) == {r \in left : u \in activeCalls[r]}

ReleaseKeepingStart(rooms) ==
    /\ pendingCallEnd' = pendingCallEnd \ rooms
    /\ callVoiceServer' = [r \in Room |-> IF r \in rooms THEN Unfixed
                                                         ELSE callVoiceServer[r]]
    /\ UNCHANGED callStartedAt

\* forgetEmptyRoom and the two deletes before it: u leaves the rooms of left,
\* taking the voice state along, and each of them is broadcast.
TakeOut(u, left) ==
    /\ activeCalls' = [r \in Room |-> IF r \in left THEN activeCalls[r] \ {u}
                                                    ELSE activeCalls[r]]
    /\ voiceStates' = [r \in Room |-> IF r \in left THEN voiceStates[r] \ {u}
                                                    ELSE voiceStates[r]]
    /\ shown' = [r \in Room |-> IF r \in left THEN activeCalls'[r] ELSE shown[r]]

\* The rooms of left that u was the last to be in.
Emptied(u, left) == {r \in left : activeCalls[r] = {u}}

\* call:join's wasEmpty && !resuming && kind !== 'channel'.  A room in its grace
\* period is not an empty room: its call is resumed, and nothing is announced.
StartsCall(r) == ~Occupied(r) /\ r \notin pendingCallEnd /\ r \in Conv

\* releaseCallRoom: the next call in the room starts from nothing.
Release(rooms) ==
    /\ pendingCallEnd' = pendingCallEnd \ rooms
    /\ callStartedAt' = callStartedAt \ rooms
    /\ callVoiceServer' = [r \in Room |-> IF r \in rooms THEN Unfixed
                                                         ELSE callVoiceServer[r]]

\* broadcastCallState: whoever may see the room is sent who is in it.
Broadcast(r) == shown' = [shown EXCEPT ![r] = activeCalls'[r]]

\* postCallEnded, and postCallSystem: a voice room has no history to write to.
Tell(rooms, line) ==
    lines' = [r \in Conv |-> IF r \in rooms THEN Append(lines[r], line)
                                            ELSE lines[r]]

\* What an entry writes: the occupant, the pending ends and the starts that are
\* left on file, the seats of the connection.
TakeSeatWith(s, r, occupant, pending, started, seats) ==
    /\ pendingCallEnd' = pending
    /\ callStartedAt' = started
    /\ activeCalls' = [activeCalls EXCEPT ![r] = @ \cup {occupant}]
    /\ joinedCallRooms' = [joinedCallRooms EXCEPT ![s] = seats]

WithSeat(s, r) == IF r \in Seats(joinedCallRooms[s]) THEN joinedCallRooms[s]
                  ELSE Append(joinedCallRooms[s], r)

\* Mutants of TakeSeat: the timer left armed, no start noted, the connection
\* listed in place of its user.
TakeSeatPending(s, r) ==
    TakeSeatWith(s, r, Owner[s], pendingCallEnd, callStartedAt \cup {r}, WithSeat(s, r))
TakeSeatUnstamped(s, r) ==
    TakeSeatWith(s, r, Owner[s], pendingCallEnd \ {r}, callStartedAt, WithSeat(s, r))
TakeSeatOfSocket(s, r) ==
    TakeSeatWith(s, r, s, pendingCallEnd \ {r}, callStartedAt \cup {r}, WithSeat(s, r))

\* cancelCallEnd, noteCallStarted, and the two Sets that are added to together.
TakeSeat(s, r) ==
    TakeSeatWith(s, r, Owner[s], pendingCallEnd \ {r}, callStartedAt \cup {r},
                 WithSeat(s, r))

\* q without its first r; a Set holds r at most once.
Unseat(q, r) ==
    IF r \in Seats(q)
    THEN LET k == CHOOSE i \in DOMAIN q : q[i] = r
         IN [i \in 1 .. Len(q) - 1 |-> IF i < k THEN q[i] ELSE q[i + 1]]
    ELSE q

-----------------------------------------------------------------------------
(* Connections and the join handlers. *)

Connect(s) ==
    /\ phase = "up"
    /\ conn[s] = "new"
    /\ conn' = [conn EXCEPT ![s] = "open"]
    /\ UNCHANGED <<phase, handlers, joinedCallRooms, callVars, bounds>>

\* call:join or call:rejoin arrives and awaits canJoinCall.
JoinArrives(s, r, kind) ==
    /\ conn[s] = "open" /\ s \notin Background
    /\ requests < MaxRequests
    /\ requests' = requests + 1
    /\ handlers' = handlers \cup {[sock |-> s, room |-> r, kind |-> kind,
                                   at |-> "checking"]}
    /\ UNCHANGED <<phase, conn, joinedCallRooms, callVars, reports, restarts>>

\* canJoinCall says no, or its lookup fails.
JoinRefused(h) ==
    /\ h.at = "checking"
    /\ handlers' = handlers \ {h}
    /\ UNCHANGED <<phase, conn, joinedCallRooms, callVars, bounds>>

\* call:join goes on.
JoinProceeds(h) ==
    LET r == h.room IN
    /\ h.kind = "join" /\ h.at = "checking"
    /\ TakeSeat(h.sock, r)
    /\ IF StartsCall(r)
       THEN /\ handlers' = (handlers \ {h}) \cup {[h EXCEPT !.at = "posting"]}
            /\ Tell({r}, "started")
            /\ UNCHANGED shown
       ELSE /\ handlers' = handlers \ {h}
            /\ Broadcast(r)
            /\ UNCHANGED lines
    /\ UNCHANGED <<phase, conn, callVoiceServer, voiceStates, bounds>>

\* A mutant of the next: the handler ends without its broadcast.
JoinAnnouncedSilently(h) ==
    /\ h.at = "posting"
    /\ handlers' = handlers \ {h}
    /\ UNCHANGED <<phase, conn, joinedCallRooms, callVars, bounds>>

\* The "started" line is stored, and only then is the occupancy broadcast.
JoinAnnounced(h) ==
    /\ h.at = "posting"
    /\ handlers' = handlers \ {h}
    /\ UNCHANGED <<phase, conn, joinedCallRooms, activeCalls, callStartedAt,
                   pendingCallEnd, callVoiceServer, voiceStates, lines, bounds>>
    /\ Broadcast(h.room)

\* A mutant of the next: whoever comes back announces the call again.
RejoinAnnouncing(h) ==
    LET r == h.room IN
    /\ h.kind = "rejoin" /\ h.at = "checking"
    /\ TakeSeat(h.sock, r)
    /\ handlers' = handlers \ {h}
    /\ IF StartsCall(r) THEN Tell({r}, "started") ELSE UNCHANGED lines
    /\ IF Owner[h.sock] \in activeCalls[r] THEN UNCHANGED shown ELSE Broadcast(r)
    /\ UNCHANGED <<phase, conn, callVoiceServer, voiceStates, bounds>>

\* call:rejoin goes on: no line, and no broadcast for somebody still listed.
RejoinProceeds(h) ==
    LET r == h.room IN
    /\ h.kind = "rejoin" /\ h.at = "checking"
    /\ TakeSeat(h.sock, r)
    /\ handlers' = handlers \ {h}
    /\ IF Owner[h.sock] \in activeCalls[r] THEN UNCHANGED shown ELSE Broadcast(r)
    /\ UNCHANGED <<phase, conn, callVoiceServer, voiceStates, lines, bounds>>

-----------------------------------------------------------------------------
(* The ways out. *)

\* call:leave.  Any socket of the user will do, seated or not.
HangUp(s, r) ==
    LET u == Owner[s]
        empty == Emptied(u, {r})
    IN /\ conn[s] = "open"
       /\ u \in activeCalls[r]
       /\ TakeOut(u, {r})
       /\ joinedCallRooms' = [joinedCallRooms EXCEPT ![s] = Unseat(@, r)]
       /\ Release(empty)
       /\ Tell(empty, "ended")
       /\ UNCHANGED <<phase, conn, handlers, bounds>>

\* disconnect: leaveCall(room, 'socket-lost') for every room of the socket,
\* whoever else of the same user may be seated there.  Nothing reads the
\* connection's own set again, so it is dropped with it.
Disconnect(s) ==
    LET u == Owner[s]
        left == {r \in Seats(joinedCallRooms[s]) : u \in activeCalls[r]}
    IN /\ conn[s] = "open"
       /\ conn' = [conn EXCEPT ![s] = "closed"]
       /\ joinedCallRooms' = [joinedCallRooms EXCEPT ![s] = <<>>]
       /\ TakeOut(u, left)
       /\ pendingCallEnd' = pendingCallEnd \cup Emptied(u, left)
       /\ UNCHANGED <<phase, handlers, callStartedAt, callVoiceServer, lines,
                      bounds>>

\* The grace period of r runs out.
CallEndTimer(r) ==
    /\ r \in pendingCallEnd
    /\ IF Occupied(r)
       THEN /\ pendingCallEnd' = pendingCallEnd \ {r}
            /\ UNCHANGED <<callStartedAt, callVoiceServer, lines>>
       ELSE Release({r}) /\ Tell({r}, "ended")
    /\ UNCHANGED <<phase, conn, handlers, joinedCallRooms, activeCalls,
                   voiceStates, shown, bounds>>

\* dropFromCall, reached by the moderators' disconnect and by a live mute that
\* fell back to an eviction; both name the voice room the user is in.  No
\* connection is told, so the seats stay.
DropFromCall(r, u) ==
    /\ r \in VoiceRoom
    /\ u \in activeCalls[r]
    /\ TakeOut(u, {r})
    /\ Release(Emptied(u, {r}))
    /\ UNCHANGED <<phase, conn, handlers, joinedCallRooms, lines, bounds>>

-----------------------------------------------------------------------------
(* What an occupant reports, and which media server a call is on. *)

\* The room voice:state speaks for: the first voice room of the socket's Set.
IsReportRoom(s, r) ==
    \E i \in DOMAIN joinedCallRooms[s] :
        /\ joinedCallRooms[s][i] = r
        /\ r \in VoiceRoom
        /\ \A j \in 1 .. i - 1 : joinedCallRooms[s][j] \notin VoiceRoom

\* voice:state with a value that is new to the room (a repeated one returns
\* early and changes nothing).
ReportVoiceState(s, r) ==
    /\ conn[s] = "open"
    /\ reports < MaxReports
    /\ IsReportRoom(s, r)
    /\ Owner[s] \in activeCalls[r]
    /\ voiceStates' = [voiceStates EXCEPT ![r] = @ \cup {Owner[s]}]
    /\ reports' = reports + 1
    /\ UNCHANGED <<phase, conn, handlers, joinedCallRooms, activeCalls,
                   callStartedAt, pendingCallEnd, callVoiceServer, lines,
                   requests, restarts>>
    /\ Broadcast(r)

\* fixCallVoiceServer, for a token minted on v: the first one decides.
FixCallVoiceServer(r, v) ==
    /\ r \in Conv
    /\ callVoiceServer' = IF callVoiceServer[r] = Unfixed
                          THEN [callVoiceServer EXCEPT ![r] = v]
                          ELSE callVoiceServer
    /\ UNCHANGED <<phase, conn, handlers, joinedCallRooms, activeCalls,
                   callStartedAt, pendingCallEnd, voiceStates, lines, shown,
                   bounds>>

\* setCallVoiceServer, for "move this call": it overwrites.
SetCallVoiceServer(r, v) ==
    /\ r \in Conv
    /\ callVoiceServer' = [callVoiceServer EXCEPT ![r] = v]
    /\ UNCHANGED <<phase, conn, handlers, joinedCallRooms, activeCalls,
                   callStartedAt, pendingCallEnd, voiceStates, lines, shown,
                   bounds>>

-----------------------------------------------------------------------------
(* The process. *)

\* SIGTERM: cancelAllCallEnds, then httpServer.close() refuses new connections
\* and waits for the open ones, whose handlers go on working.
ShutDown ==
    /\ MayShutDown /\ phase = "up"
    /\ restarts < MaxRestarts
    /\ phase' = "stopping"
    /\ pendingCallEnd' = {}
    /\ UNCHANGED <<conn, handlers, joinedCallRooms, activeCalls, callStartedAt,
                   callVoiceServer, voiceStates, lines, shown, bounds>>

\* The process ends, drained or killed, and a new one boots.
Restart ==
    /\ restarts < MaxRestarts
    /\ restarts' = restarts + 1
    /\ conn' = [s \in Sock |-> IF conn[s] = "open" THEN "closed" ELSE conn[s]]
    /\ EmptyProcess
    /\ UNCHANGED <<lines, requests, reports>>

-----------------------------------------------------------------------------
SocketStep ==
    \/ \E s \in Sock : Connect(s) \/ Disconnect(s)
    \/ \E s \in Sock, r \in Room :
          \/ \E kind \in {"join", "rejoin"} : JoinArrives(s, r, kind)
          \/ HangUp(s, r)
          \/ ReportVoiceState(s, r)

HandlerStep ==
    \E h \in handlers : JoinRefused(h) \/ JoinProceeds(h)
                            \/ JoinAnnounced(h) \/ RejoinProceeds(h)

TimerStep     == \E r \in Room : CallEndTimer(r)
ModeratorStep == \E r \in Room, u \in User : DropFromCall(r, u)
MediaStep     == \E r \in Room, v \in VoiceServer :
                    FixCallVoiceServer(r, v) \/ SetCallVoiceServer(r, v)

Next == SocketStep \/ HandlerStep \/ TimerStep \/ ModeratorStep \/ MediaStep
            \/ ShutDown \/ Restart

Spec == Init /\ [][Next]_vars

\* Node's event loop runs every armed timer and resumes every answered await.
Fairness ==
    /\ \A r \in Room : WF_vars(CallEndTimer(r))
    /\ \A s \in Sock, r \in Room :
          WF_vars(\E h \in handlers :
                     /\ h.sock = s /\ h.room = r
                     /\ \/ JoinRefused(h) \/ JoinProceeds(h)
                        \/ JoinAnnounced(h) \/ RejoinProceeds(h))

FairSpec == Spec /\ Fairness

-----------------------------------------------------------------------------
(* Safety. *)

\* A room whose call is waiting to be declared over has nobody in it: whoever
\* enters takes the timer away first (the "belt and braces" test inside the
\* timer of scheduleCallEnd is never what saves a history).
PendingOnlyWhenEmpty == \A r \in pendingCallEnd : ~Occupied(r)

\* A call that is occupied, or waiting out its grace period, has its start on
\* file: without it a rejoin would stamp a new one and ring the phone again.
CallHasStart == \A r \in Room : Occupied(r) \/ r \in pendingCallEnd
                                    => r \in callStartedAt

\* ... and no start outlives its call while the process is up: one left behind
\* would make the next call look as if it had been under way for hours.
StartOnlyWhileLive ==
    phase = "up" => \A r \in callStartedAt : Occupied(r) \/ r \in pendingCallEnd

\* Nobody has a mute, deafen or sharing state in a room they are not in: a
\* state outliving its occupant is a ghost row in every sidebar.
StatesOfOccupants == \A r \in Room : voiceStates[r] \subseteq activeCalls[r]

\* Whoever is listed in a room was put there by a connection of theirs that
\* counts the room among its own: it is what its end goes by.  (It may have
\* ended already: see OccupantConnected.)
OccupantHasSeat ==
    \A r \in Room : \A u \in activeCalls[r] :
        \E s \in Sock : Owner[s] = u /\ r \in Seats(joinedCallRooms[s])

\* The occupancy last broadcast is the occupancy, except while a call:join is
\* still writing its "started" line: the broadcast waits for that write.
ShownOrAnnouncing ==
    \A r \in Room : shown[r] # activeCalls[r] =>
        \E h \in handlers : h.room = r /\ h.at = "posting"

\* Once a call is on a media server, it is let go of only with the call: never
\* while somebody is in the room, nor inside the grace period, when whoever
\* dropped may still be heard on it.
ServerKeptThroughCall ==
    [][restarts' = restarts =>
         \A r \in Room :
            /\ callVoiceServer[r] # Unfixed
            /\ callVoiceServer'[r] = Unfixed
            => activeCalls'[r] = {} /\ r \notin pendingCallEnd']_vars

\* The requests the database has not answered yet.
Asking == {[by |-> h.sock, of |-> h.room, way |-> h.kind] :
              h \in {g \in handlers : g.at = "checking"}}

\* Every step is a step of what a call promises: one that begins, ends once,
\* and is announced accordingly, across drops, rejoins, timers and restarts: a
\* line if a call:join begins it, none if a call:rejoin brings it back after a
\* restart or if it is entered within its grace period.
\* (Not across the drain of a shutdown: a socket that drops while the process
\* drains arms a timer anew, which may write "Call ended" before the exit.)
Promise == INSTANCE CallSpec WITH members <- activeCalls,
                                  calls <- callStartedAt,
                                  told <- lines,
                                  asking <- Asking,
                                  Client <- Sock

KeepsPromise == Promise!SpecSpec

(* Liveness. *)

\* A room that lost its last socket does not wait for ever: somebody comes
\* back, or the call is concluded.
GraceConcludes ==
    \A r \in Room : r \in pendingCallEnd ~> Occupied(r) \/ r \notin callStartedAt

\* Whatever the joins do to the occupancy, the audience hears of it in the end.
OccupancyIsShown ==
    \A r \in Room : []<>(shown[r] = activeCalls[r])

-----------------------------------------------------------------------------
(* What comments of the code claim and the code does not do. *)

\* "Drop out of any calls this socket was in so presence doesn't go stale":
\* somebody listed in a call has a connection.
OccupantConnected ==
    \A r \in Room : \A u \in activeCalls[r] :
        \E s \in Sock : Owner[s] = u /\ conn[s] = "open"

\* "a dropped socket is no evidence [that the call is over] ... call:rejoin puts
\* them back": the grace timer declares no call over while a live connection
\* that joined or rejoined it is still there.
TimerSparesSeated ==
    [][\A r \in pendingCallEnd \ pendingCallEnd' :
         r \in callStartedAt' \/ \A s \in Sock :
            conn[s] = "open" => r \notin Seats(joinedCallRooms[s])]_vars
=============================================================================
