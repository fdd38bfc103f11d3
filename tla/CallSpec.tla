------------------------------ MODULE CallSpec -------------------------------
(***************************************************************************)
(* What server/sockets/chatSocket.ts promises about the calls of a room,   *)
(* with no handlers, timers or media servers.  A client asks to join, or   *)
(* to rejoin after losing its connection, and is answered later or not at  *)
(* all.  A call begins when somebody enters a room that has none, survives *)
(* the room being empty for a while, and ends exactly once.  A             *)
(* conversation is told that a call begins if, and only if, it is a join   *)
(* that begins it: whoever comes back to a process that has forgotten the  *)
(* call, and whoever enters one that is still under way, does so in        *)
(* silence.  It is told when a call ends.                                  *)
(***************************************************************************)
EXTENDS Sequences

CONSTANTS User, Room, VoiceRoom,
          Client, Owner   \* Owner[c] is the user who speaks through c

VARIABLES
    members,   \* members[r]: who is in the room
    calls,     \* the rooms with a call, occupied or not
    told,      \* told[r]: the call lines of a conversation with a history
    asking     \* the requests to enter that are not answered yet

specVars == <<members, calls, told, asking>>

Request == [by : Client, of : Room, way : {"join", "rejoin"}]

\* The conversation of r reads one more line; a voice room reads none.
Says(r, line) == r \notin VoiceRoom => told'[r] = Append(told[r], line)
Quiet(r)      == r \notin VoiceRoom => told'[r] = told[r]

\* The first one in, by a join or by a rejoin.
Begin(r, q) ==
    /\ r \notin calls /\ r \in calls'
    /\ members[r] = {} /\ members'[r] = {Owner[q.by]}
    /\ IF q.way = "join" THEN Says(r, "started") ELSE Quiet(r)

\* By either way, into a call that is occupied or in its grace period.
Enter(r, q) ==
    /\ r \in calls /\ r \in calls'
    /\ members'[r] = members[r] \cup {Owner[q.by]}
    /\ Quiet(r)

\* The last one out may leave the call standing, for the grace period.
Leave(r) ==
    /\ r \in calls /\ r \in calls'
    /\ \E u \in members[r] : members'[r] = members[r] \ {u}
    /\ Quiet(r)

\* With the last hang-up or eviction, or after the grace period.
End(r) ==
    /\ r \in calls /\ r \notin calls'
    /\ members'[r] = {} /\ \A u, w \in members[r] : u = w
    /\ Says(r, "ended")

Same(r) ==
    /\ (r \in calls) = (r \in calls')
    /\ members'[r] = members[r]
    /\ Quiet(r)

Ask(q) ==
    /\ asking' = asking \cup {q}
    /\ \A r \in Room : Same(r)

\* A request is granted, or refused.
Answer(q) ==
    /\ asking' = asking \ {q}
    /\ Begin(q.of, q) \/ Enter(q.of, q) \/ Same(q.of)
    /\ \A r \in Room \ {q.of} : Same(r)

\* One event may concern several rooms: a connection that ends leaves all of
\* its rooms at once.
Depart ==
    /\ asking' = asking
    /\ \A r \in Room : Leave(r) \/ End(r) \/ Same(r)

\* A process that restarts has forgotten every call, and says nothing of it.
Forget ==
    /\ members' = [r \in Room |-> {}]
    /\ calls' = {}
    /\ told' = told
    /\ asking' = {}

SpecInit ==
    /\ members = [r \in Room |-> {}]
    /\ calls = {}
    /\ told = [r \in Room \ VoiceRoom |-> <<>>]
    /\ asking = {}

SpecNext ==
    \/ \E q \in Request : Ask(q)
    \/ \E q \in asking : Answer(q)
    \/ Depart
    \/ Forget

SpecSpec == SpecInit /\ [][SpecNext]_specVars
=============================================================================
