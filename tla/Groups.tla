-------------------------------- MODULE Groups ---------------------------------
(* One group conversation (conversationsController.ts): members added, joining  *)
(* by invite and leaving, the sockets in its room, and the sidebars of its      *)
(* members' tabs.                                                              *)
(*                                                                             *)
(* The document has no version and no lock: each request reads it, decides on   *)
(* what it read, and writes later.  Mongoose writes a push as $push and an      *)
(* assigned array as the whole array.                                          *)
EXTENDS Naturals, FiniteSets, FiniteSetsExt

CONSTANTS
    User,
    Socket,     \* tabs, each with its connection
    Of,         \* Of[s]: whose it is
    Cap,        \* MAX_GROUP_MEMBERS
    MaxAsks,    \* bound on requests
    MaxDrops    \* bound on connections lost

ASSUME GroupsAssumption ==
    /\ Of \in [Socket -> User] /\ {Cap, MaxAsks, MaxDrops} \subseteq Nat /\ Cap > 0

VARIABLES
    exists, members, owner,     \* the document: the array of members, by place, without
                                \* the places that are gone
    asks,       \* asks[u]: u's request, at an await
    inRoom,     \* the sockets in group:<id>
    up,         \* the sockets connected
    entering,   \* sockets whose setup or group:subscribe has read the document, with what it found
    updates,    \* updates[s]: group:updated events on their way to s
    shows,      \* the tabs whose sidebar shows the group
    standing,   \* history: whether each user was last told they are in the group
    crossed,    \* history: a leave wrote over what another request had changed
    misled,     \* history: tabs that kept or got the group in their list while not in it,
                \* or were added to the room after their user had left, or whose read of
                \* the group failed; and all of a user's who was added again before their
                \* leaving was over
    asked, drops

document == <<exists, members, owner>>
tabs     == <<inRoom, up, entering, updates, shows>>
groups   == <<document, asks, tabs, standing, crossed, misled, asked, drops>>

SocketsOf(u) == {s \in Socket : Of[s] = u}
People(ms)   == {ms[i] : i \in DOMAIN ms}
In(u)        == exists /\ u \in People(members)

NoAsk         == [at |-> "none"]
Ask(op, u, s) == [op |-> op, of |-> u, from |-> s, read |-> members, by |-> owner, at |-> "read"]

GroupsInit ==
    \E first \in User :
        \E start \in {<<first>>} \cup {<<first, u>> : u \in User \ {first}} :
            /\ exists = TRUE /\ members = start /\ owner = first
            /\ asks = [u \in User |-> NoAsk]
            /\ up = Socket /\ inRoom = {s \in Socket : Of[s] \in People(start)} /\ shows = inRoom
            /\ entering = [s \in Socket |-> "no"] /\ updates = [s \in Socket |-> 0]
            /\ standing = [u \in User |-> u \in People(start)]
            /\ crossed = FALSE /\ misled = {} /\ asked = 0 /\ drops = 0

------------------------------------------------------------------------------
(* Requests.  Each reads the document, and is refused on what it read.         *)

Asks(s, ask) ==
    /\ asked < MaxAsks /\ s \in up /\ asks[Of[s]] = NoAsk /\ exists
    /\ asks' = [asks EXCEPT ![Of[s]] = ask] /\ asked' = asked + 1
    /\ UNCHANGED <<document, tabs, standing, crossed, misled, drops>>

AsksToAdd(s, u) ==
    /\ s \in shows /\ Of[s] \in People(members) /\ u \notin People(members) /\ Cardinality(DOMAIN members) < Cap
    /\ Asks(s, Ask("add", u, s))

AsksToJoin(s) ==
    /\ Of[s] \notin People(members) /\ Cardinality(DOMAIN members) < Cap
    /\ Asks(s, Ask("join", Of[s], s))

AsksToLeave(s) ==
    /\ s \in shows /\ Of[s] \in People(members)
    /\ Asks(s, Ask("leave", Of[s], s))

\* What is left of the group as the leaver read it.
Remaining(u) == [i \in {j \in DOMAIN asks[u].read : asks[u].read[j] # u} |-> asks[u].read[i]]

\* group.save(): a document that is gone is an error, and nobody is told anything.
Fails(u) ==
    /\ asks[u] # NoAsk /\ asks[u].at = "read" /\ ~exists
    /\ asks[u].op # "leave" \/ DOMAIN Remaining(u) # {}
    /\ asks' = [asks EXCEPT ![u] = NoAsk]
    /\ UNCHANGED <<document, tabs, standing, crossed, misled, asked, drops>>

\* At the end of the array.
Pushed(ms, u) ==
    LET last == 1 + Max(DOMAIN ms \cup {0})
    IN  [i \in DOMAIN ms \cup {last} |-> IF i = last THEN u ELSE ms[i]]

\* Mutant: the array is assigned, and written whole.
PushesWhole(u) ==
    /\ asks[u] # NoAsk /\ asks[u].at = "read" /\ asks[u].op \in {"add", "join"} /\ exists
    /\ members' = Pushed(asks[u].read, asks[u].of)
    /\ asks' = [asks EXCEPT ![u].at = "written"]
    /\ standing' = [standing EXCEPT ![asks[u].of] = TRUE]
    /\ UNCHANGED <<exists, owner, tabs, crossed, misled, asked, drops>>

Pushes(u) ==
    /\ asks[u] # NoAsk /\ asks[u].at = "read" /\ asks[u].op \in {"add", "join"} /\ exists
    /\ members' = Pushed(members, asks[u].of)
    /\ asks' = [asks EXCEPT ![u].at = "written"]
    /\ standing' = [standing EXCEPT ![asks[u].of] = TRUE]
    /\ UNCHANGED <<exists, owner, tabs, crossed, misled, asked, drops>>

\* Who owns it then.
Heir(u) == IF asks[u].by = u THEN Remaining(u)[Min(DOMAIN Remaining(u))] ELSE asks[u].by

\* leaveGroup: the whole array, and the owner if it changed; or the last one out
\* takes the document with them, whatever it has become.
WritesLeave(u) ==
    /\ asks[u] # NoAsk /\ asks[u].at = "read" /\ asks[u].op = "leave"
    /\ IF DOMAIN Remaining(u) = {}
         THEN exists' = FALSE /\ UNCHANGED <<members, owner>>
         ELSE /\ exists /\ members' = Remaining(u)
              /\ owner' = IF Heir(u) = asks[u].by THEN owner ELSE Heir(u)
              /\ UNCHANGED exists
    /\ asks' = [asks EXCEPT ![u].at = "written"]
    /\ crossed' = (crossed \/ members # asks[u].read \/ owner # asks[u].by)
    /\ standing' = [standing EXCEPT ![u] = FALSE]
    /\ UNCHANGED <<tabs, misled, asked, drops>>

\* Mutant: the sockets stay in the room.
StaysInRoom(u) ==
    /\ asks[u] # NoAsk /\ asks[u].at = "written" /\ asks[u].op = "leave"
    /\ asks' = [asks EXCEPT ![u].at = "telling"]
    /\ UNCHANGED <<document, tabs, standing, crossed, misled, asked, drops>>

\* dropFromGroupRoom: every socket of the leaver's, once the change is stored.
DropsFromRoom(u) ==
    /\ asks[u] # NoAsk /\ asks[u].at = "written" /\ asks[u].op = "leave"
    /\ inRoom' = inRoom \ SocketsOf(u)
    /\ asks' = [asks EXCEPT ![u].at = "telling"]
    /\ misled' = IF In(u) THEN misled \cup SocketsOf(u) ELSE misled
    /\ UNCHANGED <<document, up, entering, updates, shows, standing, crossed, asked, drops>>

\* group:updated to the members of the document in hand, and the answer to the tab
\* that asked: a leaver's takes the group off its list, a joiner's subscribes.
Replies(u) ==
    LET ask     == asks[u]
        inHand  == IF ask.op = "leave" THEN People(Remaining(u)) ELSE People(ask.read) \cup {ask.of}
        heard   == {s \in up : Of[s] \in inHand}
    IN  /\ ask # NoAsk /\ ask.at = IF ask.op = "leave" THEN "telling" ELSE "written"
        /\ updates' = [s \in Socket |-> IF s \in heard THEN updates[s] + 1 ELSE updates[s]]
        /\ asks' = [asks EXCEPT ![u] = NoAsk]
        /\ shows' = IF ask.op = "leave" THEN shows \ {ask.from} ELSE shows \cup {ask.from}
        /\ entering' = IF ask.op = "join" /\ ask.from \in up /\ entering[ask.from] = "no"
                         THEN [entering EXCEPT ![ask.from] = "asked"] ELSE entering
        /\ misled' = IF ask.op # "leave" THEN misled
                     ELSE misled \cup IF In(u) THEN SocketsOf(u) ELSE (SocketsOf(u) \cap shows) \ {ask.from}
        /\ UNCHANGED <<document, inRoom, up, standing, crossed, asked, drops>>

------------------------------------------------------------------------------
(* A tab and its connection.                                                   *)

\* onGroupUpdated: a group not in the list is added to it and subscribed to.
Updated(s) ==
    /\ updates[s] > 0
    /\ updates' = [updates EXCEPT ![s] = @ - 1]
    /\ shows' = shows \cup {s}
    /\ entering' = IF s \notin shows /\ entering[s] = "no" THEN [entering EXCEPT ![s] = "asked"] ELSE entering
    /\ misled' = IF s \notin shows /\ ~In(Of[s]) THEN misled \cup {s} ELSE misled
    /\ UNCHANGED <<document, asks, inRoom, up, standing, crossed, asked, drops>>

\* group:subscribe, and the setup of a connection: the document is read ...
ReadsGroup(s) ==
    /\ entering[s] = "asked"
    /\ entering' = [entering EXCEPT ![s] = IF In(Of[s]) THEN "found" ELSE "no"]
    /\ UNCHANGED <<document, asks, inRoom, up, updates, shows, standing, crossed, misled, asked, drops>>

\* That read fails, or in a connection's setup an earlier one does: the socket stays
\* up, and nothing reads the document again.
ReadFails(s) ==
    /\ entering[s] = "asked"
    /\ entering' = [entering EXCEPT ![s] = "no"]
    /\ misled' = misled \cup {s}
    /\ UNCHANGED <<document, asks, inRoom, up, updates, shows, standing, crossed, asked, drops>>

\* ... and the room joined on what was read.
EntersRoom(s) ==
    /\ entering[s] = "found"
    /\ entering' = [entering EXCEPT ![s] = "no"]
    /\ inRoom' = inRoom \cup {s}
    /\ misled' = IF In(Of[s]) THEN misled ELSE misled \cup {s}
    /\ UNCHANGED <<document, asks, up, updates, shows, standing, crossed, asked, drops>>

LosesSocket(s) ==
    /\ s \in up /\ drops < MaxDrops /\ drops' = drops + 1
    /\ up' = up \ {s} /\ inRoom' = inRoom \ {s}
    /\ entering' = [entering EXCEPT ![s] = "no"] /\ updates' = [updates EXCEPT ![s] = 0]
    /\ UNCHANGED <<document, asks, shows, standing, crossed, misled, asked>>

Reconnects(s) ==
    /\ s \notin up
    /\ up' = up \cup {s} /\ entering' = [entering EXCEPT ![s] = "asked"]
    /\ UNCHANGED <<document, asks, inRoom, updates, shows, standing, crossed, misled, asked, drops>>

GroupsNext ==
    \/ \E s \in Socket :
          \/ AsksToJoin(s) \/ AsksToLeave(s) \/ \E u \in User : AsksToAdd(s, u)
          \/ Updated(s) \/ ReadsGroup(s) \/ ReadFails(s) \/ EntersRoom(s) \/ LosesSocket(s) \/ Reconnects(s)
    \/ \E u \in User : Fails(u) \/ Pushes(u) \/ WritesLeave(u) \/ DropsFromRoom(u) \/ Replies(u)

GroupsSpec == GroupsInit /\ [][GroupsNext]_groups

------------------------------------------------------------------------------
(* Properties.                                                                 *)

\* Whatever requests overlap, the owner is a member, and who was last told they are
\* in the group, or out of it, is: until a leave writes over another's change
\* (leaveGroup, addGroupMembers and joinViaInvite together).
AnswersStand ==
    crossed \/ ~exists \/ (owner \in People(members) /\ People(members) = {u \in User : standing[u]})

\* When nothing is on its way, a connection is in the group's room exactly if its
\* user is a member; apart from a tab whose list was wrong, that entered late, or whose
\* connection could not be set up.
GroupRoomFollows ==
    \A s \in up \ misled :
        crossed \/ entering[s] # "no" \/ updates[s] > 0 \/ (\E u \in User : asks[u] # NoAsk)
        \/ (s \in inRoom <=> In(Of[s]))
=============================================================================
