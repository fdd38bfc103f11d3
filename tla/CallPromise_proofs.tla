------------------------- MODULE CallPromise_proofs --------------------------
(* CallLifecycle implements CallSpec in every process that is not drained:   *)
(* killed and restarted at any point, but never told to shut down first.     *)
EXTENDS CallLifecycle_proofs

\* Without a drain the process is up, and a call on file is a live one.
LiveInv == CallInv /\ phase = "up"

LEMMA LiveStep ==
    ASSUME CallAssumption, MayShutDown = FALSE, LiveInv, [Next]_vars
    PROVE  LiveInv'
<1>1. CallInv'
  BY CallStep DEF LiveInv
<1>2. phase' = "up"
  BY DEF LiveInv, Next, SocketStep, HandlerStep, TimerStep, ModeratorStep,
         MediaStep, Connect, Disconnect, JoinArrives, HangUp, ReportVoiceState,
         JoinRefused, JoinProceeds, JoinAnnounced, RejoinProceeds, CallEndTimer,
         DropFromCall, FixCallVoiceServer, SetCallVoiceServer, ShutDown,
         Restart, EmptyProcess, vars
<1> QED BY <1>1, <1>2 DEF LiveInv

\* Which rooms have a call: the occupied ones and those in their grace period.
LEMMA CallIsLive ==
    ASSUME LiveInv, NEW r \in Room
    PROVE  r \in callStartedAt <=> activeCalls[r] # {} \/ r \in pendingCallEnd
BY DEF LiveInv, CallInv, TypeOK, CallHasStart, StartOnlyWhileLive, Occupied

\* A room a step leaves alone.
LEMMA Untouched ==
    ASSUME TypeOK, NEW r \in Room, activeCalls'[r] = activeCalls[r],
           (r \in callStartedAt) = (r \in callStartedAt'),
           r \in Conv => lines'[r] = lines[r]
    PROVE  Promise!Same(r)
BY DEF Promise!Same, Promise!Quiet, Conv

\* A request in flight, as CallSpec sees it.
Asked(h) == [by |-> h.sock, of |-> h.room, way |-> h.kind]

LEMMA AskedIsOfItsHandler ==
    ASSUME LiveInv, NEW h \in handlers, NEW g \in handlers,
           h.at = "checking", g.at = "checking", Asked(h) = Asked(g)
    PROVE  h = g
<1>1. h.sock = g.sock /\ h.room = g.room /\ h.kind = g.kind
  BY DEF Asked
<1>2. h \in Handler /\ g \in Handler
  BY DEF LiveInv, CallInv, TypeOK
<1>3. h = [sock |-> h.sock, room |-> h.room, kind |-> h.kind, at |-> "checking"]
  BY <1>2 DEF Handler
<1>4. g = [sock |-> g.sock, room |-> g.room, kind |-> g.kind, at |-> "checking"]
  BY <1>2 DEF Handler
<1> QED BY <1>1, <1>3, <1>4

\* A handler that has its answer is asking no more.
LEMMA Answered ==
    ASSUME LiveInv, NEW h \in handlers, h.at = "checking",
           \/ handlers' = handlers \ {h}
           \/ handlers' = (handlers \ {h}) \cup {[h EXCEPT !.at = "posting"]}
    PROVE  Asked(h) \in Asking /\ Asking' = Asking \ {Asked(h)}
<1>1. Asked(h) \in Asking
  BY DEF Asked, Asking
<1>2. [h EXCEPT !.at = "posting"].at # "checking"
  BY DEF LiveInv, CallInv, TypeOK, Handler
<1>3. {g \in handlers' : g.at = "checking"} = {g \in handlers : g.at = "checking"} \ {h}
  BY <1>2
<1>4. Asking = {Asked(g) : g \in {k \in handlers : k.at = "checking"}}
  BY DEF Asking, Asked
<1>5. Asking' = {Asked(g) : g \in {k \in handlers' : k.at = "checking"}}
  BY DEF Asking, Asked
<1> QED BY <1>1, <1>3, <1>4, <1>5, AskedIsOfItsHandler

\* A room somebody enters: its call begins, told of if it is a join that begins
\* it, or goes on in silence.
LEMMA Entry ==
    ASSUME CallAssumption, LiveInv, NEW h \in handlers, h.at = "checking",
           TakeSeat(h.sock, h.room),
           IF h.kind = "join" /\ StartsCall(h.room)
           THEN Tell({h.room}, "started") ELSE lines' = lines
    PROVE  /\ \/ Promise!Begin(h.room, Asked(h))
              \/ Promise!Enter(h.room, Asked(h))
           /\ \A q \in Room \ {h.room} : Promise!Same(q)
<1> DEFINE s == h.sock
           r == h.room
<1>0. s \in Sock /\ r \in Room /\ Asked(h).by = s /\ Asked(h).way = h.kind
  BY DEF LiveInv, CallInv, TypeOK, Handler, Asked
<1>1. /\ activeCalls'[r] = activeCalls[r] \cup {Owner[s]}
      /\ \A q \in Room \ {r} : activeCalls'[q] = activeCalls[q]
      /\ callStartedAt' = callStartedAt \cup {r}
  BY <1>0 DEF TakeSeat, TakeSeatWith, LiveInv, CallInv, TypeOK
<1>2. \A q \in Conv \ {r} : lines'[q] = lines[q]
  BY DEF Tell
<1>3. ASSUME NEW q \in Room, q # r
      PROVE  Promise!Same(q)
  BY <1>1, <1>2, <1>3, Untouched DEF LiveInv, CallInv
<1>4. CASE r \in callStartedAt
  <2>1. lines' = lines
    BY <1>0, <1>4, CallIsLive DEF Occupied, StartsCall
  <2>2. Promise!Enter(r, Asked(h))
    BY <1>0, <1>1, <1>4, <2>1 DEF Promise!Enter, Promise!Quiet
  <2> QED BY <1>3, <2>2
<1>5. CASE r \notin callStartedAt
  <2>1. activeCalls[r] = {} /\ activeCalls'[r] = {Owner[s]} /\ r \notin pendingCallEnd
    BY <1>0, <1>1, <1>5, CallIsLive
  <2>2. r \in Conv => StartsCall(r)
    BY <2>1 DEF StartsCall, Occupied
  <2>3. IF h.kind = "join" THEN Promise!Says(r, "started") ELSE Promise!Quiet(r)
    BY <1>0, <2>2 DEF Tell, Promise!Says, Promise!Quiet, Conv
  <2>4. Promise!Begin(r, Asked(h))
    BY <1>0, <1>1, <1>5, <2>1, <2>3 DEF Promise!Begin
  <2> QED BY <1>3, <2>4
<1> QED BY <1>4, <1>5

\* A room somebody is taken out of for good: the call goes on or ends, and a
\* conversation is told if it does.
LEMMA Exit ==
    ASSUME CallAssumption, LiveInv, NEW u, NEW r \in Room, u \in activeCalls[r],
           TakeOut(u, {r}), Release(Emptied(u, {r})),
           \/ Tell(Emptied(u, {r}), "ended")
           \/ lines' = lines /\ r \in VoiceRoom
    PROVE  \A q \in Room : \/ Promise!Leave(q)
                           \/ Promise!End(q)
                           \/ Promise!Same(q)
<1>1. /\ activeCalls'[r] = activeCalls[r] \ {u}
      /\ \A q \in Room \ {r} : activeCalls'[q] = activeCalls[q]
      /\ u \in User
      /\ r \in callStartedAt
  BY CallIsLive DEF TakeOut, LiveInv, CallInv, TypeOK
<1>2. ASSUME NEW q \in Room, q # r
      PROVE  Promise!Same(q)
  <2>1. q \in Conv => lines'[q] = lines[q]
    BY <1>2 DEF Tell, Emptied
  <2>2. (q \in callStartedAt) = (q \in callStartedAt')
    BY <1>2 DEF Release, Emptied
  <2> QED BY <1>1, <1>2, <2>1, <2>2, Untouched DEF LiveInv, CallInv
<1>3. CASE activeCalls[r] = {u}
  <2>1. Emptied(u, {r}) = {r}
    BY <1>3 DEF Emptied
  <2>2. r \notin callStartedAt' /\ activeCalls'[r] = {}
    BY <1>1, <1>3, <2>1 DEF Release
  <2>3. Promise!Says(r, "ended")
    BY <2>1 DEF Tell, Promise!Says, Conv
  <2>4. Promise!End(r)
    BY <1>1, <1>3, <2>2, <2>3 DEF Promise!End
  <2> QED BY <1>2, <2>4
<1>4. CASE activeCalls[r] # {u}
  <2>1. Emptied(u, {r}) = {}
    BY <1>4 DEF Emptied
  <2>2. r \in callStartedAt'
    BY <1>1, <2>1 DEF Release
  <2>3. Promise!Quiet(r)
    BY <2>1 DEF Tell, Promise!Quiet, Conv
  <2>4. Promise!Leave(r)
    BY <1>1, <2>2, <2>3 DEF Promise!Leave
  <2> QED BY <1>2, <2>4
<1> QED BY <1>3, <1>4

LEMMA PromiseStep ==
    ASSUME CallAssumption, MayShutDown = FALSE, LiveInv, [Next]_vars
    PROVE  [Promise!SpecNext]_<<activeCalls, callStartedAt, lines, Asking>>
<1> USE DEF bounds, callVars
<1> DEFINE Step == Promise!SpecNext
           Idle == UNCHANGED <<activeCalls, callStartedAt, lines, Asking>>
<1>0. UNCHANGED handlers => UNCHANGED Asking
  BY DEF Asking
<1>1. ASSUME UNCHANGED handlers,
             \A r \in Room : Promise!Leave(r) \/ Promise!End(r) \/ Promise!Same(r)
      PROVE  Step
  BY <1>0, <1>1 DEF Promise!SpecNext, Promise!Depart
<1>2. ASSUME NEW s \in Sock, Connect(s)
      PROVE  Idle
  BY <1>0, <1>2 DEF Connect
<1>3. ASSUME NEW s \in Sock, Disconnect(s)
      PROVE  Step
  <2> DEFINE u == Owner[s]
             left == {r \in Seats(joinedCallRooms[s]) : u \in activeCalls[r]}
  <2>1. TakeOut(u, left) /\ callStartedAt' = callStartedAt /\ lines' = lines
    BY <1>3 DEF Disconnect
  <2>2. ASSUME NEW r \in Room, r \in left
        PROVE  Promise!Leave(r)
    <3>1. u \in activeCalls[r] /\ activeCalls'[r] = activeCalls[r] \ {u}
      BY <2>1, <2>2 DEF TakeOut
    <3>2. r \in callStartedAt
      BY <3>1, CallIsLive
    <3> QED BY <2>1, <3>1, <3>2 DEF Promise!Leave, Promise!Quiet
  <2>3. ASSUME NEW r \in Room, r \notin left
        PROVE  Promise!Same(r)
    BY <2>1, <2>3, Untouched DEF TakeOut, LiveInv, CallInv
  <2>4. UNCHANGED handlers
    BY <1>3 DEF Disconnect
  <2> QED BY <1>1, <2>2, <2>3, <2>4
<1>4. ASSUME NEW s \in Sock, NEW r \in Room, NEW kind \in {"join", "rejoin"},
             JoinArrives(s, r, kind)
      PROVE  Step
  <2> DEFINE g == [sock |-> s, room |-> r, kind |-> kind, at |-> "checking"]
  <2>1. /\ handlers' = handlers \cup {g}
        /\ UNCHANGED <<activeCalls, callStartedAt, lines>>
    BY <1>4 DEF JoinArrives
  <2>2. /\ Asking = {Asked(k) : k \in {j \in handlers : j.at = "checking"}}
        /\ Asking' = {Asked(k) : k \in {j \in handlers' : j.at = "checking"}}
    BY DEF Asking, Asked
  <2>3. {j \in handlers' : j.at = "checking"}
          = {j \in handlers : j.at = "checking"} \cup {g}
    BY <2>1
  <2>4. Asking' = Asking \cup {Asked(g)}
    BY <2>2, <2>3
  <2>5. Asked(g) \in Promise!Request
    BY DEF Asked, Promise!Request
  <2>6. \A q \in Room : Promise!Same(q)
    BY <2>1 DEF Promise!Same, Promise!Quiet
  <2> QED BY <2>4, <2>5, <2>6 DEF Promise!SpecNext, Promise!Ask
<1>5. ASSUME NEW s \in Sock, NEW r \in Room, HangUp(s, r)
      PROVE  Step
  BY <1>1, <1>5, Exit DEF HangUp
<1>6. ASSUME NEW s \in Sock, NEW r \in Room, ReportVoiceState(s, r)
      PROVE  Idle
  BY <1>0, <1>6 DEF ReportVoiceState
<1>7. ASSUME NEW h \in handlers, JoinAnnounced(h)
      PROVE  Idle
  <2>1. {g \in handlers' : g.at = "checking"} = {g \in handlers : g.at = "checking"}
    BY <1>7 DEF JoinAnnounced
  <2> QED BY <1>7, <2>1 DEF JoinAnnounced, Asking
<1>8. ASSUME NEW h \in handlers, JoinRefused(h) \/ JoinProceeds(h) \/ RejoinProceeds(h)
      PROVE  Step
  <2>1. h.room \in Room /\ h.at = "checking" /\ Asked(h).of = h.room
    BY <1>8 DEF LiveInv, CallInv, TypeOK, Handler, Asked, JoinRefused,
                JoinProceeds, RejoinProceeds
  <2>2. Asked(h) \in Asking /\ Asking' = Asking \ {Asked(h)}
    BY <1>8, <2>1, Answered DEF JoinRefused, JoinProceeds, RejoinProceeds
  <2>3. /\ \/ Promise!Begin(h.room, Asked(h))
           \/ Promise!Enter(h.room, Asked(h))
           \/ Promise!Same(h.room)
        /\ \A q \in Room \ {h.room} : Promise!Same(q)
    <3>1. CASE JoinRefused(h)
      BY <2>1, <3>1 DEF JoinRefused, Promise!Same, Promise!Quiet
    <3>2. CASE JoinProceeds(h)
      BY <2>1, <3>2, Entry DEF JoinProceeds
    <3>3. CASE RejoinProceeds(h)
      BY <2>1, <3>3, Entry DEF RejoinProceeds
    <3> QED BY <1>8, <3>1, <3>2, <3>3
  <2>4. Promise!Answer(Asked(h))
    BY <2>1, <2>2, <2>3 DEF Promise!Answer
  <2> QED BY <2>2, <2>4 DEF Promise!SpecNext
<1>9. ASSUME NEW r \in Room, CallEndTimer(r)
      PROVE  Step
  <2>1. activeCalls[r] = {} /\ r \in callStartedAt
    BY <1>9, CallIsLive
       DEF CallEndTimer, LiveInv, CallInv, PendingOnlyWhenEmpty, Occupied
  <2>2. Release({r}) /\ Tell({r}, "ended") /\ activeCalls' = activeCalls
    BY <1>9, <2>1 DEF CallEndTimer, Occupied
  <2>3. Promise!End(r)
    BY <2>1, <2>2 DEF Release, Tell, Conv, Promise!End, Promise!Says
  <2>4. ASSUME NEW q \in Room, q # r
        PROVE  Promise!Same(q)
    <3>1. q \in Conv => lines'[q] = lines[q]
      BY <2>2, <2>4 DEF Tell
    <3>2. (q \in callStartedAt) = (q \in callStartedAt')
      BY <2>2, <2>4 DEF Release
    <3> QED BY <2>2, <3>1, <3>2, Untouched DEF LiveInv, CallInv
  <2>5. UNCHANGED handlers
    BY <1>9 DEF CallEndTimer
  <2> QED BY <1>1, <2>3, <2>4, <2>5
<1>10. ASSUME NEW r \in Room, NEW u \in User, DropFromCall(r, u)
       PROVE  Step
  BY <1>1, <1>10, Exit DEF DropFromCall
<1>11. ASSUME NEW r \in Room, NEW v \in VoiceServer,
              FixCallVoiceServer(r, v) \/ SetCallVoiceServer(r, v)
       PROVE  Idle
  BY <1>0, <1>11 DEF FixCallVoiceServer, SetCallVoiceServer
<1>12. ~ShutDown
  BY DEF ShutDown
<1>13. ASSUME Restart
       PROVE  Step
  <2>1. Asking' = {}
    BY <1>13 DEF Restart, EmptyProcess, Asking
  <2> QED BY <1>13, <2>1 DEF Restart, EmptyProcess, Promise!SpecNext, Promise!Forget
<1>14. ASSUME UNCHANGED vars
       PROVE  Idle
  BY <1>0, <1>14 DEF vars
<1> QED
  BY <1>2, <1>3, <1>4, <1>5, <1>6, <1>7, <1>8, <1>9, <1>10, <1>11, <1>12,
     <1>13, <1>14
     DEF Next, SocketStep, HandlerStep, TimerStep, ModeratorStep, MediaStep

\* A process that is killed at any point, but never drained, keeps what CallSpec
\* promises: every call begins once, ends once, and is announced if a call:join
\* begins it, never when it is rejoined or entered within its grace period.
THEOREM PromiseIsKept ==
    ASSUME MayShutDown = FALSE
    PROVE  Spec => KeepsPromise
<1>1. Init => LiveInv /\ Promise!SpecInit
  <2>1. Init => TypeOK
    BY CallAssumption DEF Init, TypeOK, Conv
  <2> QED BY <2>1 DEF Init, LiveInv, CallInv, PendingOnlyWhenEmpty, CallHasStart,
                      StartOnlyWhileLive, StatesOfOccupants, Occupied,
                      Promise!SpecInit, Conv, Asking
<1>2. LiveInv /\ [Next]_vars => LiveInv'
  BY CallAssumption, LiveStep
<1>3. LiveInv /\ [Next]_vars
        => [Promise!SpecNext]_<<activeCalls, callStartedAt, lines, Asking>>
  BY CallAssumption, PromiseStep
<1> QED BY <1>1, <1>2, <1>3, PTL
        DEF Spec, KeepsPromise, Promise!SpecSpec, Promise!specVars
=============================================================================
