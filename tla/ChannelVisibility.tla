--------------------------- MODULE ChannelVisibility ---------------------------
(***************************************************************************)
(* Who receives a channel and who is shown it: server/sockets/visibility.ts*)
(* and the handlers that call it, the channel rooms a connection joins in  *)
(* server/sockets/chatSocket.ts, joining and removal of a member, and the  *)
(* client's copy of the channel list (src/composables/useServers.ts and    *)
(* the socket handlers of views/ChatApp.vue).                              *)
(*                                                                         *)
(* Nothing is locked: a handler writes, then reads the server and its      *)
(* roles, then the channels, and only then moves sockets between rooms,    *)
(* while others do the same; and any of its reads may fail.                *)
(*                                                                         *)
(* Abstracted: one member with one connection, one channel that hides when *)
(* denied; the overwrites of the channel and of its category are one; the  *)
(* server, its categories and its roles are one read; an event that is     *)
(* emitted arrives at once, an HTTP answer whenever.  What the permissions *)
(* resolve to is Permissions'.                                             *)
(***************************************************************************)
EXTENDS Naturals, Sequences, SequencesExt

CONSTANTS
    MaxChanges,     \* bound: connections, and changes to who sees what
    MaxGets         \* bound: GET /servers/:sid under way at once

ASSUME VisibilityAssumption == MaxChanges \in Nat /\ MaxGets \in Nat \ {0}

VARIABLES
    now,        \* what is stored: membership, what the roles give, the overwrites
    connected,  \* whether the connection is up, and so in the room user:<id>
    inRoom,     \* whether it is in the room chan:<id>
    jobs,       \* handlers at an await
    list,       \* channelsByServer: "none" until the server was opened
    coalescing, \* whether a timer of accessRefresh runs
    asked,      \* GETs the server has not read for yet
    answers,    \* answers under way, in the order they were read: whether the channel is in
    roomAstray, \* history: the socket was last put where it did not belong by then, or
                \* a handler that was to move it has failed since
    listAstray, \* history: the list was last told what did not hold by then, or not told
    changes

visibility == <<now, connected, inRoom, jobs, list, coalescing, asked, answers,
                roomAstray, listAstray, changes>>
client == <<list, coalescing, asked, answers, listAstray>>

Overwrite == {"none", "allow", "deny"}
Made(over) == over \in Overwrite

\* channelViewOf = 'full', for a member.
Full(v) == v.member /\ (v.over = "allow" \/ (v.over = "none" /\ v.base))

VisibilityTypeOK ==
    /\ now \in [member : BOOLEAN, base : BOOLEAN, over : Overwrite \cup {"unmade", "gone"}]
    /\ connected \in BOOLEAN /\ inRoom \in BOOLEAN /\ (inRoom => connected)
    /\ \A q \in jobs : q.at \in {"event", "emit", "view", "channels", "apply", "sweep"}
    /\ list \in {"none", "without", "with"} /\ coalescing \in BOOLEAN
    /\ asked \in 0..MaxGets /\ answers \in Seq(BOOLEAN)
    /\ changes \in 0..MaxChanges

VisibilityInit ==
    /\ now \in {[member |-> TRUE, base |-> TRUE, over |-> over] : over \in {"unmade", "none"}}
    /\ connected = TRUE /\ inRoom = Full(now) /\ jobs = {}
    /\ list = "none" /\ coalescing = FALSE /\ asked = 0 /\ answers = <<>>
    /\ roomAstray = FALSE /\ listAstray = FALSE /\ changes = 0

-----------------------------------------------------------------------------
Unread == [member |-> FALSE, base |-> FALSE, over |-> "unmade"]

Change == changes < MaxChanges /\ changes' = changes + 1

\* What is stored becomes v, and a handler starts.
Starts(v, job) == now' = v /\ jobs' = jobs \cup {job}
Ends(q) == jobs' = jobs \ {q}

Handler(kind, at, seen, announce) ==
    [kind |-> kind, at |-> at, seen |-> seen, announce |-> announce, id |-> changes]

\* refreshChannelAccess, which reads again.
Refresh(announce) == Handler("refresh", "view", Unread, announce)

\* The same, after an event about the channel as it was written.
RefreshAfterEvent(over, announce) ==
    Handler("refresh", "event", [Unread EXCEPT !.over = over], announce)

\* The member's sockets are put in the channel's room, or taken out.
Put(there) ==
    IF connected THEN inRoom' = there /\ roomAstray' = (there # Full(now))
    ELSE UNCHANGED <<inRoom, roomAstray>>

-----------------------------------------------------------------------------
(* Changes to who sees what. *)

Connects ==
    /\ Change /\ ~connected
    /\ connected' = TRUE
    /\ Starts(now, Handler("connect", "view", Unread, FALSE))
    /\ UNCHANGED <<inRoom, roomAstray, client>>

\* A setup that goes on for a connection that is gone joins nothing.
DisconnectsInRoom ==
    /\ connected /\ connected' = FALSE
    /\ jobs' = {q \in jobs : q.kind # "connect"}
    /\ UNCHANGED <<now, inRoom, roomAstray, client, changes>>

Disconnects ==
    /\ connected /\ connected' = FALSE
    /\ inRoom' = FALSE /\ roomAstray' = FALSE
    /\ jobs' = {q \in jobs : q.kind # "connect"}
    /\ UNCHANGED <<now, client, changes>>

\* A role's permissions, a role deleted, a member's roles.
ChangesRolesQuietly(gives) ==
    /\ Change /\ now.member /\ now.base # gives
    /\ Starts([now EXCEPT !.base = gives], Refresh(FALSE))
    /\ UNCHANGED <<connected, inRoom, roomAstray, client>>

ChangesRoles(gives) ==
    /\ Change /\ now.member /\ now.base # gives
    /\ Starts([now EXCEPT !.base = gives], Refresh(TRUE))
    /\ UNCHANGED <<connected, inRoom, roomAstray, client>>

\* updateChannel announces the channel first; a category's overwrites, its
\* deletion, refresh alone.
UpdatesOverwrites(over, ofChannel) ==
    /\ Change /\ Made(now.over) /\ over # now.over
    /\ Starts([now EXCEPT !.over = over],
              IF ofChannel THEN RefreshAfterEvent(over, TRUE) ELSE Refresh(TRUE))
    /\ UNCHANGED <<connected, inRoom, roomAstray, client>>

CreatesChannel ==
    /\ Change /\ now.over = "unmade"
    /\ \E over \in Overwrite :
          Starts([now EXCEPT !.over = over], RefreshAfterEvent(over, FALSE))
    /\ UNCHANGED <<connected, inRoom, roomAstray, client>>

DeletesChannel ==
    /\ Change /\ Made(now.over)
    /\ Starts([now EXCEPT !.over = "gone"], Handler("delete", "sweep", Unread, FALSE))
    /\ UNCHANGED <<connected, inRoom, roomAstray, client>>

\* Membership and roles go in one write; the rooms after another read.
DropsMember ==
    /\ Change /\ now.member
    /\ Starts([now EXCEPT !.member = FALSE, !.base = FALSE],
              Handler("removal", "sweep", Unread, FALSE))
    /\ UNCHANGED <<connected, inRoom, roomAstray, client>>

JoinsServer ==
    /\ Change /\ ~now.member
    /\ \E everyones \in BOOLEAN :
          LET v == [now EXCEPT !.member = TRUE, !.base = everyones]
          IN  Starts(v, Handler("join", "channels", v, FALSE))
    /\ UNCHANGED <<connected, inRoom, roomAstray, client>>

-----------------------------------------------------------------------------
(* The handlers' awaits. *)

\* loadView for an event about the channel as it was written.
ReadsForEvent(q) ==
    /\ q.at = "event"
    /\ jobs' = (jobs \ {q}) \cup
         {[q EXCEPT !.at = "emit", !.seen.member = now.member, !.seen.base = now.base]}
    /\ UNCHANGED <<now, connected, inRoom, roomAstray, client, changes>>

\* A list that has the channel, or was never loaded, takes nothing from it.
Emits(q) ==
    /\ q.at = "emit"
    /\ jobs' = (jobs \ {q}) \cup {[q EXCEPT !.at = "view", !.seen = Unread]}
    /\ IF Full(q.seen) /\ list = "without"
       THEN /\ list' = IF connected THEN "with" ELSE list
            /\ listAstray' = ~(connected /\ Full(now))
       ELSE UNCHANGED <<list, listAstray>>
    /\ UNCHANGED <<now, connected, inRoom, roomAstray, coalescing, asked, answers, changes>>

ReadsView(q) ==
    /\ q.at = "view"
    /\ jobs' = (jobs \ {q}) \cup
         {[q EXCEPT !.at = "channels", !.seen.member = now.member, !.seen.base = now.base]}
    /\ UNCHANGED <<now, connected, inRoom, roomAstray, client, changes>>

ReadsChannels(q) ==
    /\ q.at = "channels"
    /\ jobs' = (jobs \ {q}) \cup {[q EXCEPT !.at = "apply", !.seen.over = now.over]}
    /\ UNCHANGED <<now, connected, inRoom, roomAstray, client, changes>>

\* server:accessChanged, sent whether or not anything moved.
Announce ==
    /\ IF connected THEN coalescing' = TRUE /\ UNCHANGED listAstray
       ELSE listAstray' = (listAstray \/ list # "none") /\ UNCHANGED coalescing
    /\ UNCHANGED <<list, asked, answers>>

RefreshesJoiningOnly(q) ==
    /\ q.at = "apply" /\ q.kind = "refresh" /\ Ends(q)
    /\ IF q.seen.member
       THEN /\ IF Full(q.seen) THEN Put(TRUE) ELSE UNCHANGED <<inRoom, roomAstray>>
            /\ IF q.announce THEN Announce ELSE UNCHANGED client
       ELSE UNCHANGED <<inRoom, roomAstray, client>>
    /\ UNCHANGED <<now, connected, changes>>

\* Only members are targeted; the socket is moved to where what was read has it.
Refreshes(q) ==
    /\ q.at = "apply" /\ q.kind = "refresh" /\ Ends(q)
    /\ IF q.seen.member
       THEN /\ IF Made(q.seen.over) THEN Put(Full(q.seen))
               ELSE UNCHANGED <<inRoom, roomAstray>>
            /\ IF q.announce THEN Announce ELSE UNCHANGED client
       ELSE UNCHANGED <<inRoom, roomAstray, client>>
    /\ UNCHANGED <<now, connected, changes>>

\* The connection's setup: joins, never leaves.
SetsUp(q) ==
    /\ q.at = "apply" /\ q.kind = "connect" /\ Ends(q)
    /\ IF Full(q.seen) THEN Put(TRUE) ELSE UNCHANGED <<inRoom, roomAstray>>
    /\ UNCHANGED <<now, connected, client, changes>>

\* joinChannelRooms, and the answer that is the joiner's only detail.
Welcomes(q) ==
    /\ q.at = "apply" /\ q.kind = "join" /\ Ends(q)
    /\ IF Full(q.seen) THEN Put(TRUE) ELSE UNCHANGED <<inRoom, roomAstray>>
    /\ answers' = Append(answers, Full(q.seen))
    /\ UNCHANGED <<now, connected, list, coalescing, asked, listAstray, changes>>

\* A removed member's sockets leave every channel of the server; a deleted
\* channel's room is emptied, and channel:deleted sent.
Sweeps(q) ==
    /\ q.at = "sweep" /\ Ends(q)
    /\ IF q.kind = "removal" => Made(now.over) THEN Put(FALSE)
       ELSE UNCHANGED <<inRoom, roomAstray>>
    /\ IF q.kind = "delete" /\ list = "with"
       THEN /\ list' = IF connected THEN "without" ELSE list
            /\ listAstray' = ~connected
       ELSE UNCHANGED <<list, listAstray>>
    /\ UNCHANGED <<now, connected, coalescing, asked, answers, changes>>

\* The event's own read fails: it is not sent, and the refresh is still awaited.
EventFails(q) ==
    /\ q.at = "event"
    /\ jobs' = (jobs \ {q}) \cup {[q EXCEPT !.at = "view", !.seen = Unread]}
    /\ listAstray' = TRUE
    /\ UNCHANGED <<now, connected, inRoom, roomAstray, list, coalescing, asked, answers, changes>>

\* Any other await throws, and the handler ends there: a refresh logs it, a request
\* answers 500 with its write done, and a setup is given up while the connection
\* stays up.  Nobody is moved, and nobody is told.
HandlerFails(q) ==
    /\ q.at \notin {"event", "emit"} /\ (q.kind = "refresh" => q.at # "apply")
    /\ Ends(q)
    /\ roomAstray' = (roomAstray \/ connected)
    /\ listAstray' = (listAstray \/ q.kind # "connect")
    /\ UNCHANGED <<now, connected, inRoom, list, coalescing, asked, answers, changes>>

-----------------------------------------------------------------------------
(* The client. *)

server == <<now, connected, inRoom, jobs, roomAstray, changes>>

OpensServer ==
    /\ list = "none" /\ asked + Len(answers) < MaxGets
    /\ asked' = asked + 1
    /\ UNCHANGED <<server, list, coalescing, answers, listAstray>>

\* refreshServerAccess: "only for a server already loaded".
TimerFires ==
    /\ coalescing /\ coalescing' = FALSE
    /\ IF list = "none" THEN UNCHANGED asked
       ELSE asked + Len(answers) < MaxGets /\ asked' = asked + 1
    /\ UNCHANGED <<server, list, answers, listAstray>>

\* serverDetailFor reads; only members get an answer.
ReadsDetail ==
    /\ asked > 0 /\ asked' = asked - 1
    /\ answers' = IF now.member THEN Append(answers, Full(now)) ELSE answers
    /\ UNCHANGED <<server, list, coalescing, listAstray>>

GetFails ==
    /\ asked > 0 /\ asked' = asked - 1
    /\ listAstray' = TRUE
    /\ UNCHANGED <<server, list, coalescing, answers>>

\* receiveDetail: answers arrive in any order, and the last one stands.
Receives(i) ==
    /\ list' = IF answers[i] THEN "with" ELSE "without"
    /\ listAstray' = (answers[i] # Full(now))
    /\ answers' = RemoveAt(answers, i)
    /\ UNCHANGED <<server, coalescing, asked>>

-----------------------------------------------------------------------------
VisibilityNext ==
    \/ Connects \/ Disconnects \/ CreatesChannel \/ DeletesChannel \/ DropsMember \/ JoinsServer
    \/ \E gives \in BOOLEAN : ChangesRoles(gives)
    \/ \E over \in Overwrite, ofChannel \in BOOLEAN : UpdatesOverwrites(over, ofChannel)
    \/ \E q \in jobs :
          \/ ReadsForEvent(q) \/ Emits(q) \/ ReadsView(q) \/ ReadsChannels(q)
          \/ Refreshes(q) \/ SetsUp(q) \/ Welcomes(q) \/ Sweeps(q)
          \/ EventFails(q) \/ HandlerFails(q)
    \/ OpensServer \/ TimerFires \/ ReadsDetail \/ GetFails
    \/ \E i \in DOMAIN answers : Receives(i)

VisibilitySpec == VisibilityInit /\ [][VisibilityNext]_visibility

-----------------------------------------------------------------------------
(* Properties. *)

\* "Put members' sockets in exactly the channel rooms they may see": once every
\* handler is through, a connection is in the channel's room just when its
\* person may read the channel, whatever changed and in what order, unless the
\* handler that moved it last went by what no longer held, or one has failed since
\* (the setup of a connection, caught with the connection left up, among them).
RoomsFollow == jobs = {} /\ connected /\ ~roomAstray => inRoom = Full(now)

Quiet == jobs = {} /\ ~coalescing /\ asked = 0 /\ answers = <<>>

\* "That is how a sidebar drops a channel it may no longer show": a member's
\* open tab ends up listing exactly what they may see, unless the last word it
\* had was out of date when it came, was missed, or failed to be sent.
SidebarFollows ==
    Quiet /\ now.member /\ list # "none" /\ ~listAstray => (list = "with") = Full(now)
=============================================================================
