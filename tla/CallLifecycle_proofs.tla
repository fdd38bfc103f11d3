------------------------ MODULE CallLifecycle_proofs -------------------------
(* Proofs about CallLifecycle, for every set of users, connections and rooms. *)
EXTENDS CallLifecycle, TLAPS

-----------------------------------------------------------------------------
(* The sequence that stands for a connection's joinedCallRooms. *)

\* Taking one room out of a connection's Set loses no other room.
LEMMA UnseatKeepsOthers ==
    ASSUME NEW S, NEW q \in Seq(S), NEW r
    PROVE  /\ Unseat(q, r) \in Seq(S)
           /\ \A x \in Seats(q) : x # r => x \in Seats(Unseat(q, r))
<1>1. CASE r \notin Seats(q)
  BY <1>1 DEF Unseat
<1>2. CASE r \in Seats(q)
  <2> DEFINE k == CHOOSE i \in DOMAIN q : q[i] = r
             p == [i \in 1 .. Len(q) - 1 |-> IF i < k THEN q[i] ELSE q[i + 1]]
  <2>1. k \in DOMAIN q /\ q[k] = r
    BY <1>2 DEF Seats
  <2>2. DOMAIN q = 1 .. Len(q) /\ Len(q) \in Nat /\ k \in 1 .. Len(q)
    BY <2>1
  <2>3. Unseat(q, r) = p
    BY <1>2 DEF Unseat
  <2>4. p \in Seq(S)
    <3>1. Len(q) - 1 \in Nat
      BY <2>2
    <3>2. \A i \in 1 .. Len(q) - 1 : p[i] \in S
      BY <2>2
    <3> QED BY <3>1, <3>2, SMT
  <2>5. ASSUME NEW x \in Seats(q), x # r
        PROVE  x \in Seats(p)
    <3>1. PICK i \in DOMAIN q : q[i] = x
      BY DEF Seats
    <3>2. i # k
      BY <2>1, <2>5, <3>1
    <3>3. DOMAIN p = 1 .. Len(q) - 1
      OBVIOUS
    <3>4. CASE i < k
      <4>1. i \in 1 .. Len(q) - 1 /\ p[i] = x
        BY <2>2, <3>1, <3>4
      <4> QED BY <4>1, <3>3 DEF Seats
    <3>5. CASE i > k
      <4>1. i - 1 \in 1 .. Len(q) - 1 /\ p[i - 1] = x
        BY <2>2, <3>1, <3>5
      <4> QED BY <4>1, <3>3 DEF Seats
    <3> QED BY <2>2, <3>2, <3>4, <3>5
  <2> QED BY <2>3, <2>4, <2>5
<1> QED BY <1>1, <1>2

-----------------------------------------------------------------------------
(* Types. *)

\* A seat taken keeps the types, and the new occupant has the seat.
LEMMA TakeSeatTypes ==
    ASSUME TypeOK, CallAssumption, NEW s \in Sock, NEW r \in Room, TakeSeat(s, r)
    PROVE  /\ activeCalls' \in [Room -> SUBSET User]
           /\ callStartedAt' \subseteq Room
           /\ pendingCallEnd' \subseteq Room
           /\ joinedCallRooms' \in [Sock -> Seq(Room)]
           /\ r \in Seats(joinedCallRooms'[s])
           /\ \A t \in Sock : Seats(joinedCallRooms[t])
                                 \subseteq Seats(joinedCallRooms'[t])
<1> DEFINE q == joinedCallRooms[s]
<1>1. q \in Seq(Room)
  BY DEF TypeOK
<1>2. joinedCallRooms' = [joinedCallRooms EXCEPT ![s] =
                             IF r \in Seats(q) THEN q ELSE Append(q, r)]
  BY DEF TakeSeat, TakeSeatWith, WithSeat
<1>3. /\ Append(q, r) \in Seq(Room)
      /\ r \in Seats(Append(q, r))
      /\ Seats(q) \subseteq Seats(Append(q, r))
  <2>1. /\ Append(q, r) \in Seq(Room)
        /\ DOMAIN Append(q, r) = 1 .. Len(q) + 1
        /\ \A i \in 1 .. Len(q) : Append(q, r)[i] = q[i]
        /\ Append(q, r)[Len(q) + 1] = r
    BY <1>1
  <2>2. DOMAIN q = 1 .. Len(q) /\ Len(q) \in Nat
    BY <1>1
  <2> QED BY <2>1, <2>2 DEF Seats
<1>4. joinedCallRooms \in [Sock -> Seq(Room)]
  BY DEF TypeOK
<1>5. joinedCallRooms' \in [Sock -> Seq(Room)]
  BY <1>1, <1>2, <1>3, <1>4
<1>6. joinedCallRooms'[s] = IF r \in Seats(q) THEN q ELSE Append(q, r)
  BY <1>2, <1>4
<1>7. \A t \in Sock \ {s} : joinedCallRooms'[t] = joinedCallRooms[t]
  BY <1>2, <1>4
<1>8. \A t \in Sock : Seats(joinedCallRooms[t]) \subseteq Seats(joinedCallRooms'[t])
  BY <1>3, <1>6, <1>7
<1>9. r \in Seats(joinedCallRooms'[s])
  BY <1>3, <1>6
<1>10. /\ activeCalls' \in [Room -> SUBSET User]
       /\ callStartedAt' \subseteq Room
       /\ pendingCallEnd' \subseteq Room
  BY DEF TypeOK, CallAssumption, TakeSeat, TakeSeatWith
<1> QED BY <1>5, <1>8, <1>9, <1>10

\* Taking a user out of some rooms keeps the types.
LEMMA TakeOutTypes ==
    ASSUME TypeOK, NEW u, NEW left, TakeOut(u, left)
    PROVE  /\ activeCalls' \in [Room -> SUBSET User]
           /\ voiceStates' \in [Room -> SUBSET User]
           /\ shown' \in [Room -> SUBSET User]
<1>1. activeCalls' \in [Room -> SUBSET User]
  BY DEF TypeOK, TakeOut
<1> QED BY <1>1 DEF TypeOK, TakeOut

\* So does releasing rooms, and telling a conversation.
LEMMA ReleaseTypes ==
    ASSUME TypeOK, NEW rooms, Release(rooms)
    PROVE  /\ pendingCallEnd' \subseteq Room
           /\ callStartedAt' \subseteq Room
           /\ callVoiceServer' \in [Room -> VoiceServer \cup {Unfixed}]
BY DEF TypeOK, Release

LEMMA TellTypes ==
    ASSUME TypeOK, NEW rooms, NEW line \in {"started", "ended"}, Tell(rooms, line)
    PROVE  lines' \in [Conv -> Seq({"started", "ended"})]
<1>1. \A r \in Conv : /\ lines[r] \in Seq({"started", "ended"})
                      /\ Append(lines[r], line) \in Seq({"started", "ended"})
  BY DEF TypeOK
<1> QED BY <1>1 DEF Tell

LEMMA TypeStep ==
    ASSUME CallAssumption, TypeOK, [Next]_vars
    PROVE  TypeOK'
<1> USE DEF bounds, callVars
<1>1. ASSUME NEW s \in Sock, Connect(s)
      PROVE  TypeOK'
  BY <1>1 DEF TypeOK, Connect
<1>2. ASSUME NEW s \in Sock, Disconnect(s)
      PROVE  TypeOK'
  <2> DEFINE left == {r \in Seats(joinedCallRooms[s]) : Owner[s] \in activeCalls[r]}
  <2>1. TakeOut(Owner[s], left)
    BY <1>2 DEF Disconnect
  <2>2. Emptied(Owner[s], left) \subseteq Room
    BY DEF Emptied, Seats, TypeOK
  <2>3. joinedCallRooms' \in [Sock -> Seq(Room)]
    BY <1>2 DEF Disconnect, TypeOK
  <2>4. conn' \in [Sock -> {"new", "open", "closed"}]
    BY <1>2 DEF Disconnect, TypeOK
  <2>5. pendingCallEnd' \subseteq Room
    BY <1>2, <2>2 DEF Disconnect, TypeOK
  <2> QED BY <1>2, <2>1, <2>3, <2>4, <2>5, TakeOutTypes DEF Disconnect, TypeOK
<1>3. ASSUME NEW s \in Sock, NEW r \in Room, NEW kind \in {"join", "rejoin"},
             JoinArrives(s, r, kind)
      PROVE  TypeOK'
  BY <1>3 DEF TypeOK, JoinArrives, Handler
<1>4. ASSUME NEW s \in Sock, NEW r \in Room, HangUp(s, r)
      PROVE  TypeOK'
  <2> DEFINE empty == Emptied(Owner[s], {r})
  <2>1. TakeOut(Owner[s], {r}) /\ Release(empty) /\ Tell(empty, "ended")
    BY <1>4 DEF HangUp
  <2>2. joinedCallRooms' \in [Sock -> Seq(Room)]
    <3>1. joinedCallRooms[s] \in Seq(Room)
      BY DEF TypeOK
    <3>2. Unseat(joinedCallRooms[s], r) \in Seq(Room)
      BY <3>1, UnseatKeepsOthers
    <3> QED BY <1>4, <3>2 DEF HangUp, TypeOK
  <2> QED BY <1>4, <2>1, <2>2, TakeOutTypes, ReleaseTypes, TellTypes
          DEF HangUp, TypeOK
<1>5. ASSUME NEW s \in Sock, NEW r \in Room, ReportVoiceState(s, r)
      PROVE  TypeOK'
  BY <1>5 DEF TypeOK, CallAssumption, ReportVoiceState, Broadcast
<1>6. ASSUME NEW h \in handlers, JoinRefused(h)
      PROVE  TypeOK'
  BY <1>6 DEF TypeOK, JoinRefused
<1>7. ASSUME NEW h \in handlers, JoinProceeds(h)
      PROVE  TypeOK'
  <2>1. h \in Handler
    BY DEF TypeOK
  <2>2. h.sock \in Sock /\ h.room \in Room /\ [h EXCEPT !.at = "posting"] \in Handler
    BY <2>1 DEF Handler
  <2>3. TakeSeat(h.sock, h.room)
    BY <1>7 DEF JoinProceeds
  <2>4. handlers' \subseteq Handler
    BY <1>7, <2>2 DEF JoinProceeds, TypeOK
  <2>5. activeCalls' \in [Room -> SUBSET User]
    BY <2>2, <2>3, TakeSeatTypes
  <2>6. shown' \in [Room -> SUBSET User]
    BY <1>7, <2>2, <2>5 DEF JoinProceeds, Broadcast, TypeOK
  <2>7. lines' \in [Conv -> Seq({"started", "ended"})]
    BY <1>7, TellTypes DEF JoinProceeds, TypeOK
  <2>8. UNCHANGED <<phase, conn, callVoiceServer, voiceStates, bounds>>
    BY <1>7 DEF JoinProceeds
  <2> QED BY <2>2, <2>3, <2>4, <2>6, <2>7, <2>8, TakeSeatTypes DEF TypeOK
<1>8. ASSUME NEW h \in handlers, JoinAnnounced(h)
      PROVE  TypeOK'
  <2>1. h.room \in Room
    BY DEF TypeOK, Handler
  <2> QED BY <1>8, <2>1 DEF TypeOK, JoinAnnounced, Broadcast
<1>9. ASSUME NEW h \in handlers, RejoinProceeds(h)
      PROVE  TypeOK'
  <2>1. h.sock \in Sock /\ h.room \in Room
    BY DEF TypeOK, Handler
  <2>2. TakeSeat(h.sock, h.room)
    BY <1>9 DEF RejoinProceeds
  <2>3. activeCalls' \in [Room -> SUBSET User]
    BY <2>1, <2>2, TakeSeatTypes
  <2>4. shown' \in [Room -> SUBSET User]
    BY <1>9, <2>1, <2>3 DEF RejoinProceeds, Broadcast, TypeOK
  <2>5. /\ handlers' \subseteq handlers
        /\ UNCHANGED <<phase, conn, callVoiceServer, voiceStates, lines, bounds>>
    BY <1>9 DEF RejoinProceeds
  <2> QED BY <2>1, <2>2, <2>4, <2>5, TakeSeatTypes DEF TypeOK
<1>10. ASSUME NEW r \in Room, CallEndTimer(r)
       PROVE  TypeOK'
  <2>1. CASE Occupied(r)
    BY <1>10, <2>1 DEF CallEndTimer, TypeOK
  <2>2. CASE ~Occupied(r)
    <3>1. Release({r}) /\ Tell({r}, "ended")
      BY <1>10, <2>2 DEF CallEndTimer
    <3> QED BY <1>10, <3>1, ReleaseTypes, TellTypes DEF CallEndTimer, TypeOK
  <2> QED BY <2>1, <2>2
<1>11. ASSUME NEW r \in Room, NEW u \in User, DropFromCall(r, u)
       PROVE  TypeOK'
  <2>1. TakeOut(u, {r}) /\ Release(Emptied(u, {r}))
    BY <1>11 DEF DropFromCall
  <2> QED BY <1>11, <2>1, TakeOutTypes, ReleaseTypes DEF DropFromCall, TypeOK
<1>12. ASSUME NEW r \in Room, NEW v \in VoiceServer, FixCallVoiceServer(r, v)
       PROVE  TypeOK'
  BY <1>12 DEF TypeOK, FixCallVoiceServer
<1>13. ASSUME NEW r \in Room, NEW v \in VoiceServer, SetCallVoiceServer(r, v)
       PROVE  TypeOK'
  BY <1>13 DEF TypeOK, SetCallVoiceServer
<1>14. CASE ShutDown
  BY <1>14 DEF TypeOK, ShutDown
<1>15. CASE Restart
  <2>1. \A S : <<>> \in Seq(S)
    OBVIOUS
  <2> QED BY <1>15, <2>1 DEF TypeOK, Restart, EmptyProcess
<1>16. CASE UNCHANGED vars
  BY <1>16 DEF TypeOK, vars
<1> QED BY <1>1, <1>2, <1>3, <1>4, <1>5, <1>6, <1>7, <1>8, <1>9, <1>10, <1>11,
           <1>12, <1>13, <1>14, <1>15, <1>16
        DEF Next, SocketStep, HandlerStep, TimerStep, ModeratorStep, MediaStep

\* Every variable keeps its type, whatever the connections, the handlers they
\* leave behind, the timers and the moderators do.
THEOREM TypeCorrect == Spec => []TypeOK
<1>1. Init => TypeOK
  BY CallAssumption DEF Init, TypeOK, Conv
<1>2. TypeOK /\ [Next]_vars => TypeOK'
  BY CallAssumption, TypeStep
<1> QED BY <1>1, <1>2, PTL DEF Spec

-----------------------------------------------------------------------------
(* The call of a room: its occupants, its start, its pending end. *)

\* The four facts hold each other up: the timer finds its room empty because
\* every entry cancels it, a start is erased only with a room that is empty and
\* has no timer, and a start left behind has one of the two.
CallInv == /\ TypeOK
           /\ PendingOnlyWhenEmpty
           /\ CallHasStart
           /\ StartOnlyWhileLive
           /\ StatesOfOccupants

\* Whoever takes a seat occupies the room, cancels its end and has its start.
LEMMA TakeSeatCall ==
    ASSUME CallAssumption, CallInv, NEW s \in Sock, NEW r \in Room,
           TakeSeat(s, r), voiceStates' = voiceStates, phase' = phase
    PROVE  /\ PendingOnlyWhenEmpty' /\ CallHasStart'
           /\ StartOnlyWhileLive' /\ StatesOfOccupants'
<1>1. /\ Owner[s] \in User
      /\ activeCalls'[r] = activeCalls[r] \cup {Owner[s]}
      /\ \A q \in Room \ {r} : activeCalls'[q] = activeCalls[q]
      /\ pendingCallEnd' = pendingCallEnd \ {r}
      /\ callStartedAt' = callStartedAt \cup {r}
  BY DEF CallAssumption, TakeSeat, TakeSeatWith, CallInv, TypeOK
<1> QED
  BY <1>1 DEF CallInv, TypeOK, PendingOnlyWhenEmpty, CallHasStart,
              StartOnlyWhileLive, StatesOfOccupants, Occupied

\* A way out that releases the rooms it empties.
LEMMA ReleaseCall ==
    ASSUME CallInv, NEW u, NEW r \in Room, TakeOut(u, {r}), u \in activeCalls[r],
           Release(Emptied(u, {r})), phase' = phase
    PROVE  /\ PendingOnlyWhenEmpty' /\ CallHasStart'
           /\ StartOnlyWhileLive' /\ StatesOfOccupants'
<1>1. /\ activeCalls'[r] = activeCalls[r] \ {u}
      /\ voiceStates'[r] = voiceStates[r] \ {u}
      /\ \A q \in Room \ {r} : /\ activeCalls'[q] = activeCalls[q]
                               /\ voiceStates'[q] = voiceStates[q]
  BY DEF TakeOut
<1>2. r \notin pendingCallEnd
  BY DEF CallInv, PendingOnlyWhenEmpty, Occupied, TypeOK
<1>3. CASE activeCalls[r] = {u}
  <2>1. /\ pendingCallEnd' = pendingCallEnd \ {r}
        /\ callStartedAt' = callStartedAt \ {r}
        /\ activeCalls'[r] = {}
    BY <1>1, <1>3 DEF Release, Emptied
  <2> QED
    BY <1>1, <2>1 DEF CallInv, TypeOK, PendingOnlyWhenEmpty, CallHasStart,
                      StartOnlyWhileLive, StatesOfOccupants, Occupied
<1>4. CASE activeCalls[r] # {u}
  <2>1. /\ pendingCallEnd' = pendingCallEnd
        /\ callStartedAt' = callStartedAt
    BY <1>4 DEF Release, Emptied
  <2>2. activeCalls'[r] # {}
    BY <1>1, <1>4
  <2> QED
    BY <1>1, <1>2, <2>1, <2>2
       DEF CallInv, TypeOK, PendingOnlyWhenEmpty, CallHasStart,
           StartOnlyWhileLive, StatesOfOccupants, Occupied
<1> QED BY <1>3, <1>4

LEMMA CallStep ==
    ASSUME CallAssumption, CallInv, [Next]_vars
    PROVE  CallInv'
<1> USE DEF bounds, callVars
<1>0. TypeOK'
  BY TypeStep DEF CallInv
<1> DEFINE Call == /\ PendingOnlyWhenEmpty /\ CallHasStart
                   /\ StartOnlyWhileLive /\ StatesOfOccupants
           Goal == Call'
\* The steps that touch none of the five variables, nor the phase.
<1>1. ASSUME UNCHANGED <<phase, activeCalls, callStartedAt, pendingCallEnd,
                         voiceStates>>
      PROVE  Goal
  BY <1>1 DEF CallInv, PendingOnlyWhenEmpty, CallHasStart, StartOnlyWhileLive,
              StatesOfOccupants, Occupied
<1>2. ASSUME NEW s \in Sock, Connect(s)
      PROVE  Goal
  BY <1>1, <1>2 DEF Connect
<1>3. ASSUME NEW s \in Sock, Disconnect(s)
      PROVE  Goal
  <2> DEFINE u == Owner[s]
             left == {r \in Seats(joinedCallRooms[s]) : u \in activeCalls[r]}
  <2>1. /\ TakeOut(u, left)
        /\ pendingCallEnd' = pendingCallEnd \cup Emptied(u, left)
        /\ UNCHANGED <<phase, callStartedAt>>
    BY <1>3 DEF Disconnect
  <2>2. left \subseteq Room
    BY DEF Seats, CallInv, TypeOK
  <2>3. \A r \in left : /\ activeCalls'[r] = activeCalls[r] \ {u}
                        /\ voiceStates'[r] = voiceStates[r] \ {u}
                        /\ u \in activeCalls[r]
                        /\ r \in pendingCallEnd' <=> activeCalls[r] = {u}
                        /\ r \in callStartedAt
    <3>1. \A r \in left : r \notin pendingCallEnd /\ r \in callStartedAt
      BY <2>2 DEF CallInv, TypeOK, PendingOnlyWhenEmpty, CallHasStart, Occupied
    <3> QED BY <2>1, <2>2, <3>1 DEF TakeOut, Emptied
  <2>4. \A r \in Room \ left : /\ activeCalls'[r] = activeCalls[r]
                               /\ voiceStates'[r] = voiceStates[r]
                               /\ r \in pendingCallEnd' <=> r \in pendingCallEnd
    BY <2>1 DEF TakeOut, Emptied
  <2>5. PendingOnlyWhenEmpty'
    BY <1>0, <2>2, <2>3, <2>4 DEF CallInv, TypeOK, PendingOnlyWhenEmpty, Occupied
  <2>6. CallHasStart'
    BY <2>1, <2>2, <2>3, <2>4 DEF CallInv, CallHasStart, Occupied
  <2>7. StartOnlyWhileLive'
    <3>1. ASSUME phase' = "up", NEW r \in callStartedAt'
          PROVE  activeCalls'[r] # {} \/ r \in pendingCallEnd'
      <4>1. r \in Room /\ (activeCalls[r] # {} \/ r \in pendingCallEnd)
        BY <2>1, <3>1 DEF CallInv, TypeOK, StartOnlyWhileLive, Occupied
      <4>2. CASE r \in left
        BY <2>3, <4>2
      <4>3. CASE r \notin left
        BY <2>4, <4>1, <4>3
      <4> QED BY <4>2, <4>3
    <3> QED BY <3>1 DEF StartOnlyWhileLive, Occupied
  <2>8. StatesOfOccupants'
    <3>1. ASSUME NEW r \in Room
          PROVE  voiceStates'[r] \subseteq activeCalls'[r]
      <4>1. voiceStates[r] \subseteq activeCalls[r]
        BY DEF CallInv, StatesOfOccupants
      <4> QED BY <2>3, <2>4, <4>1
    <3> QED BY <3>1 DEF StatesOfOccupants
  <2> QED BY <2>5, <2>6, <2>7, <2>8
<1>4. ASSUME NEW s \in Sock, NEW r \in Room, NEW kind \in {"join", "rejoin"},
             JoinArrives(s, r, kind)
      PROVE  Goal
  BY <1>1, <1>4 DEF JoinArrives
<1>5. ASSUME NEW s \in Sock, NEW r \in Room, HangUp(s, r)
      PROVE  Goal
  BY <1>5, ReleaseCall DEF HangUp
<1>6. ASSUME NEW s \in Sock, NEW r \in Room, ReportVoiceState(s, r)
      PROVE  Goal
  <2>1. /\ voiceStates'[r] = voiceStates[r] \cup {Owner[s]}
        /\ \A q \in Room \ {r} : voiceStates'[q] = voiceStates[q]
        /\ Owner[s] \in activeCalls[r]
        /\ UNCHANGED <<phase, activeCalls, callStartedAt, pendingCallEnd>>
    BY <1>6 DEF ReportVoiceState, CallInv, TypeOK
  <2>2. StatesOfOccupants'
    BY <2>1 DEF CallInv, StatesOfOccupants
  <2> QED BY <2>1, <2>2 DEF CallInv, PendingOnlyWhenEmpty, CallHasStart,
                            StartOnlyWhileLive, Occupied
<1>7. ASSUME NEW h \in handlers, JoinRefused(h)
      PROVE  Goal
  BY <1>1, <1>7 DEF JoinRefused
<1>8. ASSUME NEW h \in handlers, JoinProceeds(h)
      PROVE  Goal
  <2>1. h.sock \in Sock /\ h.room \in Room
    BY DEF CallInv, TypeOK, Handler
  <2> QED BY <1>8, <2>1, TakeSeatCall DEF JoinProceeds
<1>9. ASSUME NEW h \in handlers, JoinAnnounced(h)
      PROVE  Goal
  BY <1>1, <1>9 DEF JoinAnnounced
<1>10. ASSUME NEW h \in handlers, RejoinProceeds(h)
       PROVE  Goal
  <2>1. h.sock \in Sock /\ h.room \in Room
    BY DEF CallInv, TypeOK, Handler
  <2> QED BY <1>10, <2>1, TakeSeatCall DEF RejoinProceeds
<1>11. ASSUME NEW r \in Room, CallEndTimer(r)
       PROVE  Goal
  <2>1. ~Occupied(r)
    BY <1>11 DEF CallEndTimer, CallInv, PendingOnlyWhenEmpty
  <2>2. /\ pendingCallEnd' = pendingCallEnd \ {r}
        /\ callStartedAt' = callStartedAt \ {r}
        /\ UNCHANGED <<phase, activeCalls, voiceStates>>
    BY <1>11, <2>1 DEF CallEndTimer, Release
  <2> QED
    BY <2>1, <2>2 DEF CallInv, TypeOK, PendingOnlyWhenEmpty, CallHasStart,
                      StartOnlyWhileLive, StatesOfOccupants, Occupied
<1>12. ASSUME NEW r \in Room, NEW u \in User, DropFromCall(r, u)
       PROVE  Goal
  BY <1>12, ReleaseCall DEF DropFromCall
<1>13. ASSUME NEW r \in Room, NEW v \in VoiceServer,
              FixCallVoiceServer(r, v) \/ SetCallVoiceServer(r, v)
       PROVE  Goal
  BY <1>1, <1>13 DEF FixCallVoiceServer, SetCallVoiceServer
<1>14. ASSUME ShutDown
       PROVE  Goal
  BY <1>14 DEF ShutDown, CallInv, TypeOK, PendingOnlyWhenEmpty, CallHasStart,
               StartOnlyWhileLive, StatesOfOccupants, Occupied
<1>15. ASSUME Restart
       PROVE  Goal
  BY <1>15 DEF Restart, EmptyProcess, PendingOnlyWhenEmpty, CallHasStart,
               StartOnlyWhileLive, StatesOfOccupants, Occupied
<1>16. ASSUME UNCHANGED vars
       PROVE  Goal
  BY <1>1, <1>16 DEF vars
<1>17. Goal
  BY <1>2, <1>3, <1>4, <1>5, <1>6, <1>7, <1>8, <1>9, <1>10, <1>11, <1>12,
     <1>13, <1>14, <1>15, <1>16
     DEF Next, SocketStep, HandlerStep, TimerStep, ModeratorStep, MediaStep
<1> QED BY <1>0, <1>17 DEF CallInv

\* The inductive invariant holds of every behaviour.
THEOREM CallInvariant == Spec => []CallInv
<1>1. Init => CallInv
  <2>1. Init => TypeOK
    BY CallAssumption DEF Init, TypeOK, Conv
  <2> QED BY <2>1 DEF Init, CallInv, PendingOnlyWhenEmpty, CallHasStart,
                      StartOnlyWhileLive, StatesOfOccupants, Occupied
<1>2. CallInv /\ [Next]_vars => CallInv'
  BY CallAssumption, CallStep
<1> QED BY <1>1, <1>2, PTL DEF Spec

\* No room with somebody in it is waiting to be declared over.
THEOREM PendingIsEmpty == Spec => []PendingOnlyWhenEmpty
BY CallInvariant, PTL DEF CallInv

\* A call has a start from its first occupant to the end of its grace period.
THEOREM LiveCallHasStart == Spec => []CallHasStart
BY CallInvariant, PTL DEF CallInv

\* While the process is up, no start is left behind by a call that is over.
THEOREM NoStartLeftBehind == Spec => []StartOnlyWhileLive
BY CallInvariant, PTL DEF CallInv

\* A voice state never outlives its occupant.
THEOREM NoGhostStates == Spec => []StatesOfOccupants
BY CallInvariant, PTL DEF CallInv

-----------------------------------------------------------------------------
(* Who put an occupant where they are, and what a step may not take away. *)

\* Seats survive whatever does not take their owner out of the room.
LEMMA SeatStep ==
    ASSUME CallAssumption, TypeOK, OccupantHasSeat, [Next]_vars
    PROVE  OccupantHasSeat'
<1> USE DEF bounds, callVars
\* Enough for every step but the restart: nobody new in a room without a seat
\* in it, and no seat lost by an occupant who stays.
<1>1. ASSUME \A r \in Room : \A u \in activeCalls'[r] :
                \/ /\ u \in activeCalls[r]
                   /\ \A s \in Sock :
                        /\ Owner[s] = u
                        /\ r \in Seats(joinedCallRooms[s])
                        => r \in Seats(joinedCallRooms'[s])
                \/ \E s \in Sock : Owner[s] = u /\ r \in Seats(joinedCallRooms'[s])
      PROVE  OccupantHasSeat'
  BY <1>1 DEF OccupantHasSeat
<1>2. ASSUME UNCHANGED <<activeCalls, joinedCallRooms>>
      PROVE  OccupantHasSeat'
  BY <1>2 DEF OccupantHasSeat
<1>3. ASSUME NEW s \in Sock, NEW r \in Room, TakeSeat(s, r)
      PROVE  OccupantHasSeat'
  <2>1. /\ r \in Seats(joinedCallRooms'[s])
        /\ \A t \in Sock : Seats(joinedCallRooms[t])
                              \subseteq Seats(joinedCallRooms'[t])
    BY <1>3, TakeSeatTypes
  <2>2. \A q \in Room : \A u \in activeCalls'[q] :
           u \in activeCalls[q] \/ (q = r /\ u = Owner[s])
    BY <1>3 DEF TakeSeat, TakeSeatWith, TypeOK
  <2> QED BY <1>1, <2>1, <2>2
<1>4. ASSUME NEW s \in Sock, Disconnect(s)
      PROVE  OccupantHasSeat'
  <2> DEFINE left == {r \in Seats(joinedCallRooms[s]) : Owner[s] \in activeCalls[r]}
  <2>1. TakeOut(Owner[s], left)
    BY <1>4 DEF Disconnect
  <2>2. \A t \in Sock \ {s} : joinedCallRooms'[t] = joinedCallRooms[t]
    BY <1>4 DEF Disconnect, TypeOK
  <2>3. ASSUME NEW r \in Room, NEW u \in activeCalls'[r]
        PROVE  /\ u \in activeCalls[r]
               /\ ~(u = Owner[s] /\ r \in Seats(joinedCallRooms[s]))
    BY <2>1 DEF TakeOut
  <2> QED BY <1>1, <2>2, <2>3
<1>5. ASSUME NEW s \in Sock, NEW r \in Room, HangUp(s, r)
      PROVE  OccupantHasSeat'
  <2>1. /\ activeCalls'[r] = activeCalls[r] \ {Owner[s]}
        /\ \A q \in Room \ {r} : activeCalls'[q] = activeCalls[q]
    BY <1>5 DEF HangUp, TakeOut
  <2>2. /\ joinedCallRooms'[s] = Unseat(joinedCallRooms[s], r)
        /\ \A t \in Sock \ {s} : joinedCallRooms'[t] = joinedCallRooms[t]
    BY <1>5 DEF HangUp, TypeOK
  <2>3. joinedCallRooms[s] \in Seq(Room)
    BY DEF TypeOK
  <2>4. \A q \in Seats(joinedCallRooms[s]) : q # r => q \in Seats(joinedCallRooms'[s])
    BY <2>2, <2>3, UnseatKeepsOthers
  <2> QED BY <1>1, <2>1, <2>2, <2>4
<1>6. ASSUME NEW r \in Room, NEW u \in User, DropFromCall(r, u)
      PROVE  OccupantHasSeat'
  <2>1. /\ \A q \in Room : activeCalls'[q] \subseteq activeCalls[q]
        /\ joinedCallRooms' = joinedCallRooms
    BY <1>6 DEF DropFromCall, TakeOut
  <2> QED BY <1>1, <2>1
<1>7. ASSUME NEW h \in handlers, JoinProceeds(h) \/ RejoinProceeds(h)
      PROVE  OccupantHasSeat'
  <2>1. h.sock \in Sock /\ h.room \in Room
    BY DEF TypeOK, Handler
  <2>2. TakeSeat(h.sock, h.room)
    BY <1>7 DEF JoinProceeds, RejoinProceeds
  <2> QED BY <1>3, <2>1, <2>2
<1>8. ASSUME NEW h \in handlers, JoinRefused(h) \/ JoinAnnounced(h)
      PROVE  OccupantHasSeat'
  BY <1>2, <1>8 DEF JoinRefused, JoinAnnounced
<1>9. ASSUME NEW s \in Sock, NEW r \in Room, NEW kind \in {"join", "rejoin"},
             JoinArrives(s, r, kind) \/ ReportVoiceState(s, r)
      PROVE  OccupantHasSeat'
  BY <1>2, <1>9 DEF JoinArrives, ReportVoiceState
<1>10. ASSUME NEW s \in Sock, Connect(s)
       PROVE  OccupantHasSeat'
  BY <1>2, <1>10 DEF Connect
<1>11. ASSUME NEW r \in Room, CallEndTimer(r)
       PROVE  OccupantHasSeat'
  BY <1>2, <1>11 DEF CallEndTimer
<1>12. ASSUME NEW r \in Room, NEW v \in VoiceServer,
              FixCallVoiceServer(r, v) \/ SetCallVoiceServer(r, v)
       PROVE  OccupantHasSeat'
  BY <1>2, <1>12 DEF FixCallVoiceServer, SetCallVoiceServer
<1>13. ASSUME ShutDown \/ UNCHANGED vars
       PROVE  OccupantHasSeat'
  BY <1>2, <1>13 DEF ShutDown, vars
<1>14. ASSUME Restart
       PROVE  OccupantHasSeat'
  BY <1>14 DEF Restart, EmptyProcess, OccupantHasSeat
<1> QED
  BY <1>4, <1>5, <1>6, <1>7, <1>8, <1>9, <1>10, <1>11, <1>12, <1>13, <1>14
     DEF Next, SocketStep, HandlerStep, TimerStep, ModeratorStep, MediaStep

\* Whoever is listed in a room was put there by a connection of theirs, open or
\* not by now, that counts the room among its own.
THEOREM OccupantsAreSeated == Spec => []OccupantHasSeat
<1>1. Init => OccupantHasSeat
  BY DEF Init, OccupantHasSeat
<1>2. TypeOK /\ OccupantHasSeat /\ [Next]_vars => OccupantHasSeat'
  BY CallAssumption, SeatStep
<1> QED BY <1>1, <1>2, TypeCorrect, PTL DEF Spec

\* A released room has been emptied, and has no timer.
LEMMA ReleasedIsOver ==
    ASSUME CallInv, NEW u, NEW r \in Room, TakeOut(u, {r}),
           Release(Emptied(u, {r})),
           NEW q \in Room, callVoiceServer[q] # callVoiceServer'[q]
    PROVE  activeCalls'[q] = {} /\ q \notin pendingCallEnd'
<1>1. q = r /\ activeCalls[r] = {u}
  BY DEF Release, Emptied, CallInv, TypeOK
<1> QED BY <1>1 DEF TakeOut, Release, Emptied

\* No step lets go of the media server of a call that may still be heard.
LEMMA ServerStep ==
    ASSUME CallAssumption, CallInv, [Next]_vars, restarts' = restarts,
           NEW r \in Room, callVoiceServer[r] # Unfixed, callVoiceServer'[r] = Unfixed
    PROVE  activeCalls'[r] = {} /\ r \notin pendingCallEnd'
<1> USE DEF bounds, callVars
<1> DEFINE Over == activeCalls'[r] = {} /\ r \notin pendingCallEnd'
<1>1. ASSUME NEW s \in Sock, NEW q \in Room, HangUp(s, q)
      PROVE  Over
  BY <1>1, ReleasedIsOver DEF HangUp
<1>2. ASSUME NEW q \in Room, NEW u \in User, DropFromCall(q, u)
      PROVE  Over
  BY <1>2, ReleasedIsOver DEF DropFromCall
<1>3. ASSUME NEW q \in Room, CallEndTimer(q)
      PROVE  Over
  <2>1. ~Occupied(q)
    BY <1>3 DEF CallEndTimer, CallInv, PendingOnlyWhenEmpty
  <2>2. Release({q}) /\ activeCalls' = activeCalls
    BY <1>3, <2>1 DEF CallEndTimer
  <2>3. r = q
    BY <2>2 DEF Release, CallInv, TypeOK
  <2> QED BY <2>1, <2>2, <2>3 DEF Release, Occupied
<1>4. ASSUME NEW q \in Room, NEW v \in VoiceServer,
             FixCallVoiceServer(q, v) \/ SetCallVoiceServer(q, v)
      PROVE  Over
  BY <1>4 DEF FixCallVoiceServer, SetCallVoiceServer, CallAssumption, CallInv, TypeOK
<1>5. ASSUME UNCHANGED callVoiceServer
      PROVE  Over
  BY <1>5
<1>6. ASSUME NEW s \in Sock, Connect(s) \/ Disconnect(s)
      PROVE  Over
  BY <1>5, <1>6 DEF Connect, Disconnect
<1>7. ASSUME NEW s \in Sock, NEW q \in Room, NEW kind \in {"join", "rejoin"},
             JoinArrives(s, q, kind) \/ ReportVoiceState(s, q)
      PROVE  Over
  BY <1>5, <1>7 DEF JoinArrives, ReportVoiceState
<1>8. ASSUME NEW h \in handlers,
             \/ JoinRefused(h) \/ JoinProceeds(h)
             \/ JoinAnnounced(h) \/ RejoinProceeds(h)
      PROVE  Over
  BY <1>5, <1>8 DEF JoinRefused, JoinProceeds, JoinAnnounced, RejoinProceeds
<1>9. ASSUME ShutDown \/ UNCHANGED vars
      PROVE  Over
  BY <1>5, <1>9 DEF ShutDown, vars
<1>10. ~Restart
  BY DEF Restart, CallInv, TypeOK
<1> QED
  BY <1>1, <1>2, <1>3, <1>4, <1>6, <1>7, <1>8, <1>9, <1>10
     DEF Next, SocketStep, HandlerStep, TimerStep, ModeratorStep, MediaStep

\* A call stays on its media server until it is over, grace period included.
THEOREM ServerKept == Spec => ServerKeptThroughCall
<1>1. CallInv /\ [Next]_vars
        => [restarts' = restarts =>
              \A r \in Room :
                 /\ callVoiceServer[r] # Unfixed
                 /\ callVoiceServer'[r] = Unfixed
                 => activeCalls'[r] = {} /\ r \notin pendingCallEnd']_vars
  BY CallAssumption, ServerStep
<1> QED BY <1>1, CallInvariant, PTL DEF Spec, ServerKeptThroughCall

-----------------------------------------------------------------------------
(* What the audience has been shown. *)

LEMMA ShownStep ==
    ASSUME CallAssumption, TypeOK, ShownOrAnnouncing, [Next]_vars
    PROVE  ShownOrAnnouncing'
<1> USE DEF bounds, callVars
\* Enough for every step: a room it changes is broadcast or announced, and a line
\* still being written stays so in the rooms it does not broadcast.
<1>1. ASSUME \A r \in Room :
                \/ shown'[r] = activeCalls'[r]
                \/ \E h \in handlers' : h.room = r /\ h.at = "posting"
                \/ /\ shown'[r] = shown[r] /\ activeCalls'[r] = activeCalls[r]
                   /\ \A h \in handlers : h.room = r /\ h.at = "posting"
                                             => h \in handlers'
      PROVE  ShownOrAnnouncing'
  BY <1>1 DEF ShownOrAnnouncing
<1>2. ASSUME handlers \subseteq handlers', UNCHANGED <<shown, activeCalls>>
      PROVE  ShownOrAnnouncing'
  BY <1>1, <1>2
<1>3. ASSUME NEW u, NEW left, TakeOut(u, left), handlers' = handlers
      PROVE  ShownOrAnnouncing'
  <2>1. ASSUME NEW r \in Room
        PROVE  \/ shown'[r] = activeCalls'[r]
               \/ shown'[r] = shown[r] /\ activeCalls'[r] = activeCalls[r]
    BY <1>3 DEF TakeOut
  <2> QED BY <1>1, <1>3, <2>1
<1>4. ASSUME NEW h \in handlers, Broadcast(h.room), handlers' = handlers \ {h},
             \A r \in Room \ {h.room} : activeCalls'[r] = activeCalls[r]
      PROVE  ShownOrAnnouncing'
  <2>1. h.room \in Room /\ shown \in [Room -> SUBSET User]
    BY DEF TypeOK, Handler
  <2>2. /\ shown'[h.room] = activeCalls'[h.room]
        /\ \A r \in Room \ {h.room} : shown'[r] = shown[r]
    BY <1>4, <2>1 DEF Broadcast
  <2>3. \A r \in Room \ {h.room} :
           \A g \in handlers : g.room = r => g \in handlers'
    BY <1>4
  <2> QED BY <1>1, <1>4, <2>2, <2>3
<1>5. ASSUME NEW h \in handlers, JoinRefused(h)
      PROVE  ShownOrAnnouncing'
  <2>1. \A g \in handlers : g.at = "posting" => g \in handlers'
    BY <1>5 DEF JoinRefused
  <2>2. UNCHANGED <<shown, activeCalls>>
    BY <1>5 DEF JoinRefused
  <2> QED BY <1>1, <2>1, <2>2
\* What TakeSeat does to the occupancy.
<1>6. ASSUME NEW h \in handlers, TakeSeat(h.sock, h.room)
      PROVE  /\ h.room \in Room
             /\ activeCalls'[h.room] = activeCalls[h.room] \cup {Owner[h.sock]}
             /\ \A r \in Room \ {h.room} : activeCalls'[r] = activeCalls[r]
  BY <1>6 DEF TakeSeat, TakeSeatWith, TypeOK, Handler
<1>7. ASSUME NEW h \in handlers, JoinProceeds(h)
      PROVE  ShownOrAnnouncing'
  <2>1. TakeSeat(h.sock, h.room)
    BY <1>7 DEF JoinProceeds
  <2>2. CASE StartsCall(h.room)
    <3> DEFINE posting == [h EXCEPT !.at = "posting"]
    <3>1. handlers' = (handlers \ {h}) \cup {posting} /\ shown' = shown
      BY <1>7, <2>2 DEF JoinProceeds
    <3>2. h.at = "checking" /\ posting.room = h.room /\ posting.at = "posting"
      BY <1>7 DEF JoinProceeds, TypeOK, Handler
    <3>3. \A g \in handlers : g.at = "posting" => g \in handlers'
      BY <3>1, <3>2
    <3> QED BY <1>1, <1>6, <2>1, <3>1, <3>2, <3>3
  <2>3. CASE ~StartsCall(h.room)
    <3>1. handlers' = handlers \ {h} /\ Broadcast(h.room)
      BY <1>7, <2>3 DEF JoinProceeds
    <3> QED BY <1>4, <1>6, <2>1, <3>1
  <2> QED BY <2>2, <2>3
<1>8. ASSUME NEW h \in handlers, JoinAnnounced(h)
      PROVE  ShownOrAnnouncing'
  BY <1>4, <1>8 DEF JoinAnnounced
<1>9. ASSUME NEW h \in handlers, RejoinProceeds(h)
      PROVE  ShownOrAnnouncing'
  <2>1. TakeSeat(h.sock, h.room) /\ h.at = "checking" /\ handlers' = handlers \ {h}
    BY <1>9 DEF RejoinProceeds
  <2>2. CASE Owner[h.sock] \in activeCalls[h.room]
    <3>1. \A r \in Room : shown'[r] = shown[r] /\ activeCalls'[r] = activeCalls[r]
      BY <1>6, <1>9, <2>1, <2>2 DEF RejoinProceeds
    <3>2. \A g \in handlers : g.at = "posting" => g \in handlers'
      BY <2>1
    <3> QED BY <1>1, <3>1, <3>2
  <2>3. CASE Owner[h.sock] \notin activeCalls[h.room]
    BY <1>4, <1>6, <1>9, <2>1, <2>3 DEF RejoinProceeds
  <2> QED BY <2>2, <2>3
<1>10. ASSUME NEW s \in Sock, NEW r \in Room, ReportVoiceState(s, r)
       PROVE  ShownOrAnnouncing'
  <2>1. /\ handlers' = handlers /\ activeCalls' = activeCalls
        /\ shown' = [shown EXCEPT ![r] = activeCalls'[r]]
    BY <1>10 DEF ReportVoiceState, Broadcast
  <2>2. \A q \in Room : shown'[q] = activeCalls'[q] \/ shown'[q] = shown[q]
    BY <2>1 DEF TypeOK
  <2> QED BY <1>1, <2>1, <2>2
<1>11. ASSUME NEW s \in Sock, NEW r \in Room, HangUp(s, r)
       PROVE  ShownOrAnnouncing'
  BY <1>3, <1>11 DEF HangUp
<1>12. ASSUME NEW s \in Sock, Disconnect(s)
       PROVE  ShownOrAnnouncing'
  BY <1>3, <1>12 DEF Disconnect
<1>13. ASSUME NEW r \in Room, NEW u, DropFromCall(r, u)
       PROVE  ShownOrAnnouncing'
  BY <1>3, <1>13 DEF DropFromCall
<1>14. ASSUME NEW s \in Sock, NEW r \in Room, NEW kind, JoinArrives(s, r, kind)
       PROVE  ShownOrAnnouncing'
  BY <1>2, <1>14 DEF JoinArrives
<1>15. ASSUME NEW r \in Room, NEW v,
              \/ CallEndTimer(r)
              \/ FixCallVoiceServer(r, v) \/ SetCallVoiceServer(r, v)
       PROVE  ShownOrAnnouncing'
  BY <1>2, <1>15 DEF CallEndTimer, FixCallVoiceServer, SetCallVoiceServer
<1>16. ASSUME ShutDown \/ UNCHANGED vars
       PROVE  ShownOrAnnouncing'
  BY <1>2, <1>16 DEF ShutDown, vars
<1>17. ASSUME Restart
       PROVE  ShownOrAnnouncing'
  BY <1>1, <1>17 DEF Restart, EmptyProcess
<1>18. ASSUME NEW s \in Sock, Connect(s)
       PROVE  ShownOrAnnouncing'
  BY <1>2, <1>18 DEF Connect
<1> QED
  BY <1>5, <1>7, <1>8, <1>9, <1>10, <1>11, <1>12, <1>13, <1>14, <1>15, <1>16,
     <1>17, <1>18
     DEF Next, SocketStep, HandlerStep, TimerStep, ModeratorStep, MediaStep

\* The occupancy last broadcast is the occupancy, in every room where no started
\* line is being written.
THEOREM ShownIsTrue == Spec => []ShownOrAnnouncing
<1>1. Init => ShownOrAnnouncing
  BY DEF Init, ShownOrAnnouncing
<1>2. TypeOK /\ ShownOrAnnouncing /\ [Next]_vars => ShownOrAnnouncing'
  BY CallAssumption, ShownStep
<1> QED BY <1>1, <1>2, TypeCorrect, PTL DEF Spec
=============================================================================
