------------------------------ MODULE VoiceClient ------------------------------
(* One tab of the web client joining, leaving and switching calls, with the    *)
(* media session it holds at LiveKit and the calls the server lists it in      *)
(* (useVoice.ts).                                                              *)
(*                                                                             *)
(* An attempt to join waits for its token, for the session, and for the        *)
(* microphone; leave() waits for the session to close.  Each is a step, and    *)
(* whatever the person, the network or the server does comes between.  A       *)
(* session the tab closes itself says so before anything else happens.         *)
(* The server checks a call:join or call:rejoin before it seats the tab, hears *)
(* a call:leave at once, and may notice a lost socket late (chatSocket.ts).    *)
EXTENDS Naturals, Sequences, FiniteSets

CONSTANTS
    Call,
    None,
    MaxAttempts,    \* MAX_ATTEMPTS
    MaxPresses,     \* bound on Join and Leave presses
    MaxFaults       \* bound on what goes wrong

ASSUME VoiceClientAssumption ==
    None \notin Call /\ {MaxAttempts, MaxPresses, MaxFaults} \subseteq Nat /\ MaxAttempts > 0

VARIABLES
    connectSeq, attempts,
    room,           \* getRoom(): the attempt that made it, 0 for none
    sessions,       \* sessions LiveKit holds for this tab
    connecting,     \* connectingConvId, while voice.connecting
    connected, active,
    intentionalLeave, retryTimer, failTimer,
    leaves,         \* leave() waiting for its session to close, and what it is for
    permitsOf,      \* the call whose token the permits were read from
    socketUp, unsent,
    socket, lost,   \* the tab's socket, numbered; those lost that the server has not noticed
    gates,          \* joins that wait at the server for canJoinCall
    seated,         \* the calls the server lists the tab in
    holds,          \* joinedCallRooms of each socket
    overtaken,      \* history: a join of the call the tab is in was refused, a leave was
                    \* heard while its join waited, or a lost socket was noticed after
                    \* the tab was back and took it out of the call it is in
    wanted,         \* history: the call last asked for and not left
    late,           \* history: an attempt went on though it was no longer the latest,
                    \* or its session was gone; a leave cleaned up under one; or a call
                    \* was replaced and not left
    misread,        \* history: the permits are those of an attempt nobody waited for
    presses, faults

timers == <<retryTimer, failTimer>>
call   == <<connecting, connected, active>>
server == <<gates, seated, holds, overtaken>>
line   == <<socketUp, unsent, socket, lost, server>>
voiceClient == <<connectSeq, attempts, room, sessions, call, intentionalLeave, timers, leaves,
                 permitsOf, line, wanted, late, misread, presses, faults>>

MaybeCall == Call \cup {None}
NoRetry   == [call |-> None, n |-> 0]

ClientTypeOK ==
    /\ connectSeq \in Nat /\ room \in 0..connectSeq /\ sessions \subseteq 1..connectSeq
    /\ attempts \subseteq [seq : 1..connectSeq, call : Call, n : 1..MaxAttempts,
                           at : {"token", "session", "microphone", "prompt"}]
    /\ {connecting, active, permitsOf, wanted} \subseteq MaybeCall
    /\ retryTimer \in {NoRetry} \cup [call : Call, n : 2..MaxAttempts]
    /\ {connected, intentionalLeave, failTimer, socketUp, late, misread, overtaken} \subseteq BOOLEAN
    /\ leaves \in Seq(MaybeCall) /\ seated \subseteq Call
    /\ socket \in Nat /\ lost \subseteq Nat /\ gates \cup holds \subseteq [socket : Nat, call : Call]
    /\ presses \in 0..MaxPresses /\ faults \in 0..MaxFaults

VoiceClientInit ==
    /\ connectSeq = 0 /\ attempts = {} /\ room = 0 /\ sessions = {}
    /\ connecting = None /\ connected = FALSE /\ active = None
    /\ intentionalLeave = FALSE /\ retryTimer = NoRetry /\ failTimer = FALSE
    /\ leaves = <<>> /\ permitsOf = None
    /\ socketUp = TRUE /\ unsent = <<>> /\ socket = 1 /\ lost = {}
    /\ gates = {} /\ seated = {} /\ holds = {} /\ overtaken = FALSE
    /\ wanted = None /\ late = FALSE /\ misread = FALSE
    /\ presses = 0 /\ faults = 0

-----------------------------------------------------------------------------
(* The socket holds back what is sent while it is down; the server hears the    *)
(* rest at once.                                                               *)

On(k, c)   == [socket |-> k, call |-> c]
Waiting(c) == \E g \in gates : g.call = c

\* leaveCall, for a hang-up: by person, and a no-op where the tab is not listed.
HearsLeave(c) ==
    /\ seated' = seated \ {c}
    /\ holds' = IF c \in seated THEN holds \ {On(socket, c)} ELSE holds
    /\ overtaken' = (overtaken \/ Waiting(c))
    /\ UNCHANGED gates

HearsJoin(c) == gates' = gates \cup {On(socket, c)} /\ UNCHANGED <<seated, holds, overtaken>>

Emits(do, c) ==
    /\ UNCHANGED <<socketUp, socket, lost>>
    /\ \/ socketUp /\ do = "join"  /\ HearsJoin(c)  /\ UNCHANGED unsent
       \/ socketUp /\ do = "leave" /\ HearsLeave(c) /\ UNCHANGED unsent
       \/ ~socketUp /\ unsent' = Append(unsent, [do |-> do, call |-> c]) /\ UNCHANGED server

Fault == faults < MaxFaults /\ faults' = faults + 1
Press == presses < MaxPresses /\ presses' = presses + 1

Latest(a) == a.seq = connectSeq
GoesOn(a, at) == attempts' = (attempts \ {a}) \cup {[a EXCEPT !.at = at]}
Ends(a) == attempts' = attempts \ {a}

\* The start of attemptConnect, with the other attempts as given.
Attempt(c, n, others) ==
    /\ connectSeq' = connectSeq + 1
    /\ attempts' = others \cup {[seq |-> connectSeq + 1, call |-> c, n |-> n, at |-> "token"]}
    /\ connecting' = c
    /\ retryTimer' = NoRetry /\ failTimer' = FALSE /\ intentionalLeave' = FALSE

\* cleanup, but for the timers and what an attempt that follows sets anew.
TearsDown == room' = 0 /\ sessions' = sessions \ {room}
Cleanup ==
    /\ TearsDown
    /\ connected' = FALSE /\ active' = None /\ permitsOf' = None
    /\ IF active = None THEN UNCHANGED line ELSE Emits("leave", active)

-----------------------------------------------------------------------------
(* Leaving.  With no session there is nothing to wait for. *)

\* leave(), for the sake of c, or to be gone.  With no session to close, the
\* rest follows at once, and the attempt's number is the one after leave's.
LeaveFor(c) ==
    IF room = 0
    THEN /\ Cleanup
         /\ retryTimer' = NoRetry /\ failTimer' = FALSE /\ intentionalLeave' = FALSE
         /\ connecting' = c
         /\ connectSeq' = connectSeq + IF c = None THEN 1 ELSE 2
         /\ attempts' = IF c = None THEN attempts
                        ELSE attempts \cup
                             {[seq |-> connectSeq + 2, call |-> c, n |-> 1, at |-> "token"]}
         /\ UNCHANGED leaves
    ELSE /\ intentionalLeave' = TRUE
         /\ retryTimer' = NoRetry /\ failTimer' = FALSE
         /\ connectSeq' = connectSeq + 1
         /\ sessions' = sessions \ {room}
         /\ leaves' = Append(leaves, c)
         /\ UNCHANGED <<attempts, room, call, permitsOf, line>>

\* Those of the first i leaves that were for a call.
Joining(i) == {j \in 1..i : leaves[j] # None}

\* Every leave() that waits for the session goes on at once, one after another:
\* each cleans up, and starts the attempt it was for.  A later one's cleanup does
\* not take away the number of an earlier one's attempt.
SessionClosed ==
    /\ leaves # <<>> /\ leaves' = <<>>
    /\ Cleanup
    /\ connectSeq' = connectSeq + Cardinality(Joining(Len(leaves)))
    /\ attempts' = attempts \cup
          {[seq |-> connectSeq + Cardinality(Joining(i)), call |-> leaves[i], n |-> 1, at |-> "token"]
              : i \in Joining(Len(leaves))}
    /\ connecting' = leaves[Len(leaves)]
    /\ retryTimer' = NoRetry /\ failTimer' = FALSE /\ intentionalLeave' = FALSE
    /\ late' = (late \/ \E a \in attempts : Latest(a))
    /\ UNCHANGED <<wanted, misread, presses, faults>>

\* connect(): already in, or joining, this call is a no-op.
JoinPressed(c) ==
    /\ Press
    /\ connecting # c /\ ~(connected /\ active = c)
    /\ wanted' = c
    /\ IF room # 0 \/ connected \/ connecting # None
       THEN LeaveFor(c) /\ UNCHANGED late
       ELSE /\ Attempt(c, 1, attempts)
            /\ late' = (late \/ active \notin {None, c})
            /\ UNCHANGED <<room, sessions, connected, active, leaves, permitsOf, line>>
    /\ UNCHANGED <<misread, faults>>

LeavePressed ==
    /\ Press
    /\ connected \/ connecting # None \/ failTimer
    /\ wanted' = None
    /\ LeaveFor(None)
    /\ UNCHANGED <<late, misread, faults>>

\* "Couldn't connect", for as long as it is shown.
FailTimerFires ==
    /\ failTimer
    /\ wanted' = None
    /\ LeaveFor(None)
    /\ UNCHANGED <<late, misread, presses, faults>>

-----------------------------------------------------------------------------
(* An attempt. *)

\* The permits are written before it is looked at whether the answer is wanted.
TokenComes(a) ==
    /\ a.at = "token"
    /\ permitsOf' = a.call /\ misread' = ~Latest(a)
    /\ IF Latest(a) THEN GoesOn(a, "session") ELSE Ends(a)
    /\ UNCHANGED <<connectSeq, room, sessions, call, intentionalLeave, timers, leaves,
                   line, wanted, late, presses, faults>>

AttemptFailsShowing(a) ==
    /\ a.at \in {"token", "session"} /\ Fault
    /\ Ends(a)
    /\ IF ~Latest(a) THEN UNCHANGED <<room, sessions, connected, timers>>
       ELSE /\ TearsDown /\ connected' = FALSE
            /\ IF a.n < MaxAttempts
               THEN retryTimer' = [call |-> a.call, n |-> a.n + 1] /\ UNCHANGED failTimer
               ELSE failTimer' = TRUE /\ UNCHANGED retryTimer
    /\ UNCHANGED <<connectSeq, connecting, active, intentionalLeave, leaves, permitsOf, line,
                   wanted, late, misread, presses>>

\* No token, or no session: another attempt after a pause, or none.
AttemptFails(a) ==
    /\ a.at \in {"token", "session"} /\ Fault
    /\ Ends(a)
    /\ IF ~Latest(a) THEN UNCHANGED <<room, sessions, call, timers>>
       ELSE /\ TearsDown
            /\ connected' = FALSE /\ UNCHANGED active
            /\ IF a.n < MaxAttempts
               THEN /\ retryTimer' = [call |-> a.call, n |-> a.n + 1]
                    /\ UNCHANGED <<connecting, failTimer>>
               ELSE connecting' = None /\ failTimer' = TRUE /\ UNCHANGED retryTimer
    /\ UNCHANGED <<connectSeq, intentionalLeave, leaves, permitsOf, line, wanted, late, misread, presses>>

RetryTimerFires ==
    /\ retryTimer # NoRetry
    /\ Attempt(retryTimer.call, retryTimer.n, attempts)
    /\ UNCHANGED <<room, sessions, connected, active, leaves, permitsOf, line,
                   wanted, late, misread, presses, faults>>

\* The last segment of attemptConnect.
Joined(a) ==
    /\ Ends(a)
    /\ connected' = TRUE /\ connecting' = None /\ active' = a.call
    /\ Emits("join", a.call)

\* An established session that closes: the tab joins again, unless it closed it.
HandleDisconnected(others) ==
    IF intentionalLeave \/ ~connected
    THEN attempts' = others /\ UNCHANGED <<connectSeq, room, call, intentionalLeave, timers>>
    ELSE /\ room' = 0 /\ connected' = FALSE /\ UNCHANGED active
         /\ Attempt(active, 1, others)

SessionComesAnyway(a) ==
    /\ a.at = "session"
    /\ room' = a.seq /\ sessions' = sessions \cup {a.seq}
    /\ \/ /\ \E at \in {"microphone", "prompt"} : GoesOn(a, at)
          /\ UNCHANGED <<call, line>>
       \/ Joined(a)
    /\ UNCHANGED <<connectSeq, intentionalLeave, timers, leaves, permitsOf,
                   wanted, late, misread, presses, faults>>

\* The session is up.  One nobody waits for any more is closed at once, and its
\* Disconnected is handled like any other's.
SessionComes(a) ==
    /\ a.at = "session"
    /\ IF ~Latest(a)
       THEN /\ HandleDisconnected(attempts \ {a})
            /\ sessions' = IF room' = 0 THEN sessions \ {room} ELSE sessions
            /\ UNCHANGED line
       ELSE /\ room' = a.seq /\ sessions' = sessions \cup {a.seq}
            /\ \/ /\ \E at \in {"microphone", "prompt"} : GoesOn(a, at)
                  /\ UNCHANGED <<call, line>>
               \/ Joined(a)
            /\ UNCHANGED <<connectSeq, intentionalLeave, timers>>
    /\ UNCHANGED <<leaves, permitsOf, wanted, late, misread, presses, faults>>

\* The microphone is published, or refused, and the attempt goes on whether or
\* not it is still the latest, and whether or not its session still is.
MicrophoneAnswers(a) ==
    /\ a.at = "microphone"
    /\ Joined(a)
    /\ late' = (late \/ ~Latest(a) \/ room \notin sessions)
    /\ UNCHANGED <<connectSeq, room, sessions, intentionalLeave, timers, leaves, permitsOf,
                   wanted, misread, presses, faults>>

\* A phone's question about the microphone, after which it is looked at.
PromptAnswers(a) ==
    /\ a.at = "prompt"
    /\ IF Latest(a) THEN Joined(a) ELSE Ends(a) /\ UNCHANGED <<call, line>>
    /\ late' = (late \/ (Latest(a) /\ room \notin sessions))
    /\ UNCHANGED <<connectSeq, room, sessions, intentionalLeave, timers, leaves, permitsOf,
                   wanted, misread, presses, faults>>

-----------------------------------------------------------------------------
(* The network and the server. *)

SessionDrops ==
    /\ Fault /\ room \in sessions
    /\ HandleDisconnected(attempts)
    /\ sessions' = sessions \ {room}
    /\ UNCHANGED <<leaves, permitsOf, line, wanted, late, misread, presses>>

\* Somebody moved the call to another media server.
ServerMoved ==
    /\ Fault /\ connected
    /\ TearsDown /\ connected' = FALSE /\ UNCHANGED active
    /\ Attempt(active, 1, attempts)
    /\ UNCHANGED <<leaves, permitsOf, line, wanted, late, misread, presses>>

TabRests == UNCHANGED <<connectSeq, attempts, room, sessions, call, intentionalLeave, timers, leaves,
                        permitsOf, wanted, late, misread, presses>>

SocketDrops ==
    /\ Fault /\ socketUp
    /\ socketUp' = FALSE /\ lost' = lost \cup {socket}
    /\ TabRests /\ UNCHANGED <<unsent, socket, server>>

Sent(do) == {c \in Call : \E i \in DOMAIN unsent : unsent[i] = [do |-> do, call |-> c]}

\* The calls that what is held back ends by joining.
ListedAfter(es) ==
    {c \in Call : \E i \in DOMAIN es :
        /\ es[i] = [do |-> "join", call |-> c]
        /\ \A j \in DOMAIN es : j > i => es[j] # [do |-> "leave", call |-> c]}

\* What was held back goes first, together; then the tab says that it is still there.
\* The leaves are heard before any of the joins is let through.
SocketReturns ==
    /\ ~socketUp /\ socketUp' = TRUE
    /\ socket' = socket + 1 /\ unsent' = <<>>
    /\ LET joins == Sent("join") \cup IF connected THEN {active} ELSE {}
       IN  gates' = gates \cup {On(socket', c) : c \in joins}
    /\ seated' = seated \ Sent("leave")
    /\ overtaken' = (overtaken \/ \E c \in Sent("leave") \ ListedAfter(unsent) : Waiting(c) \/ c \in Sent("join"))
    /\ TabRests /\ UNCHANGED <<lost, holds, faults>>

\* canJoinCall answers, and its handler goes on whether or not its socket still is.
JoinAdmitted(g) ==
    /\ gates' = gates \ {g}
    /\ seated' = seated \cup {g.call} /\ holds' = holds \cup {g}
    /\ TabRests /\ UNCHANGED <<socketUp, unsent, socket, lost, overtaken, faults>>

\* The person may no longer join, or what tells it cannot be read: no answer either way.
JoinRefused(g) ==
    /\ Fault
    /\ gates' = gates \ {g}
    /\ overtaken' = (overtaken \/ (connected /\ active = g.call))
    /\ TabRests /\ UNCHANGED <<socketUp, unsent, socket, lost, seated, holds>>

\* The disconnect handler, by person, and perhaps after the tab is back.
LossNoticed(k) ==
    LET taken == {c \in seated : On(k, c) \in holds}
    IN  /\ lost' = lost \ {k}
        /\ seated' = seated \ taken /\ holds' = {h \in holds : h.socket # k}
        /\ overtaken' = (overtaken \/ (socketUp /\ active \in taken))
        /\ TabRests /\ UNCHANGED <<socketUp, unsent, socket, gates, faults>>

-----------------------------------------------------------------------------
AttemptStep(a) ==
    TokenComes(a) \/ SessionComes(a) \/ MicrophoneAnswers(a) \/ PromptAnswers(a)

VoiceClientNext ==
    \/ \E c \in Call : JoinPressed(c)
    \/ LeavePressed \/ SessionClosed \/ FailTimerFires \/ RetryTimerFires
    \/ \E a \in attempts : AttemptStep(a) \/ AttemptFails(a)
    \/ SessionDrops \/ ServerMoved \/ SocketDrops \/ SocketReturns
    \/ \E g \in gates : JoinAdmitted(g) \/ JoinRefused(g)
    \/ \E k \in lost : LossNoticed(k)

VoiceClientSpec == VoiceClientInit /\ [][VoiceClientNext]_voiceClient

\* Requests, connects, closes and the browser's question are answered, and timers
\* run.
FairClientSpec ==
    /\ VoiceClientSpec
    /\ WF_voiceClient(SessionClosed) /\ WF_voiceClient(RetryTimerFires)
    /\ WF_voiceClient(\E a \in attempts : AttemptStep(a))

-----------------------------------------------------------------------------
(* Properties. *)

\* Nothing is under way, in the tab or at the server.
AtRest == attempts = {} /\ leaves = <<>> /\ socketUp /\ gates = {} /\ lost = {}

\* The tab is where it says it is: in a call with one session at LiveKit, the one
\* it holds, with this call's permits, and with no session once it is out.  The
\* server lists it in this call and in no other, unless it refused its join, heard
\* a leave before the join it undoes, or noticed a lost socket after the tab was back.
InOneCall ==
    AtRest /\ ~late =>
        /\ connected => room \in sessions /\ (permitsOf = active \/ misread)
        /\ sessions = IF connected THEN {room} ELSE {}
        /\ ~overtaken => seated \subseteq {active} /\ (connected => active \in seated)

\* "a join cancelled meanwhile must stay cancelled": once nothing is under way, the
\* tab is in the call last asked for, if in any.
CancelledStaysCancelled == AtRest /\ connected => active = wanted

\* "Connecting..." comes to an end: the tab is in the call, or gives up.
ConnectingConcludes == connecting # None ~> connecting = None
=============================================================================
