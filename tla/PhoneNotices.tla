------------------------------ MODULE PhoneNotices ------------------------------
(* The Android app's background connection (notify/NotifyService.kt,            *)
(* LiveConnection.kt): live messages over a socket that may die without a word, *)
(* and a catch-up over HTTP for what was missed, from a cursor that is kept when *)
(* the process is not.                                                         *)
(*                                                                             *)
(* One server and one person.  Everything on the phone runs on one worker      *)
(* thread, which a request blocks; what the socket says meanwhile waits in its  *)
(* queue, and is dropped with the socket.  The phone's estimate of the server's *)
(* clock is taken to be right.                                                 *)
EXTENDS Naturals, Sequences, FiniteSets

CONSTANTS
    Margin,             \* MARGIN_MS: a message is written, sent and received within it, or never
    MaxAge,             \* MAX_AGE_MS: how far back a catch-up goes
    PerConversation,    \* PER_CONVERSATION: how many of a conversation's messages it brings
    MaxTime,            \* bound on the clock
    MaxMessages,        \* bound on messages
    MaxFaults,          \* bound on sockets lost, restarts and changes of sign-in or network
    Never               \* no cursor, no packet heard

ASSUME PhoneAssumption ==
    /\ {Margin, MaxAge, PerConversation, MaxTime, MaxMessages, MaxFaults} \subseteq Nat
    /\ PerConversation > 0 /\ Never \notin Nat

VARIABLES
    clock,      \* the server's
    messages,   \* in the order created: kind, createdAt, and how far the server is with it
    line,       \* the phone's socket: "up", "dead" without anyone having noticed, "down"
    joined,     \* whether the server has joined it to its groups and channels
    inbox,      \* the worker's queue, each packet with the time it was heard
    connected, pending,     \* LiveConnection: connected; a retry is waiting
    worker,     \* what the worker is doing
    answer,     \* the answer of the catch-up it waits for
    again,      \* catchUpRetry is waiting
    cursor,     \* CatchUpCursor, kept across restarts
    lastPacket, caughtUp,
    handled,    \* history: messages shown, or left unshown by the rules
    excused,    \* history: messages no catch-up brings (Emits, StartsFresh, ReadsMissed)
    unmarked,   \* history: the socket was replaced while the phone said it had caught up
    slid,       \* history: the cursor moved on in such a gap
    losses

phone  == <<inbox, connected, pending, worker, answer, again, cursor, lastPacket, caughtUp>>
social  == <<line, joined>>
noted   == <<handled, excused, unmarked, slid>>
phoneNotices == <<clock, messages, social, phone, noted, losses>>

Conversation == {"dm", "group"}
Packet(is, m) == [is |-> is, m |-> m, heard |-> clock]
NoAnswer     == [now |-> 0, events |-> {}, gone |-> {}]
Numbers      == DOMAIN messages
Written(m)   == messages[m].at # "created"

\* A first run, or a process started again.
PhoneInit ==
    /\ clock = 0 /\ messages = <<>>
    /\ line = "down" /\ joined = FALSE
    /\ inbox = <<>> /\ connected = FALSE /\ pending = TRUE
    /\ worker = "idle" /\ answer = NoAnswer /\ again = FALSE
    /\ cursor \in {Never, 0} /\ lastPacket = Never /\ caughtUp = FALSE
    /\ handled = {} /\ excused = {} /\ unmarked = FALSE /\ slid = FALSE /\ losses = 0

------------------------------------------------------------------------------
(* The server.                                                                 *)

\* Nothing is older than Margin before it has reached the phone, or never will.
TimePasses ==
    /\ clock < MaxTime
    /\ \A m \in Numbers : messages[m].at = "sent" \/ clock < messages[m].createdAt + Margin
    /\ clock' = clock + 1
    /\ UNCHANGED <<messages, social, phone, noted, losses>>

Creates(kind) ==
    /\ Len(messages) < MaxMessages
    /\ messages' = Append(messages, [kind |-> kind, createdAt |-> clock, at |-> "created"])
    /\ UNCHANGED <<clock, social, phone, noted, losses>>

Writes(m) ==
    /\ messages[m].at = "created"
    /\ messages' = [messages EXCEPT ![m].at = "written"]
    /\ UNCHANGED <<clock, social, phone, noted, losses>>

\* To whoever is in the room, and onto the phone's queue: a connection is in its
\* person's own room at once, in those of its groups and channels when it is set up.
Emits(m) ==
    LET here == messages[m].kind = "dm" \/ joined
    IN  /\ messages[m].at = "written"
        /\ messages' = [messages EXCEPT ![m].at = "sent"]
        /\ inbox' = IF line = "up" /\ here THEN Append(inbox, Packet("message", m)) ELSE inbox
        /\ excused' = IF line = "up" /\ ~here THEN excused \cup {m} ELSE excused
        /\ UNCHANGED <<clock, social, connected, pending, worker, answer, again, cursor, lastPacket,
                       caughtUp, handled, unmarked, slid, losses>>

JoinsRooms ==
    /\ line = "up" /\ ~joined /\ joined' = TRUE
    /\ UNCHANGED <<clock, messages, line, phone, noted, losses>>

------------------------------------------------------------------------------
(* The socket.                                                                 *)

\* connect and open: the last socket's packets vouch for nothing of this one.
Opens ==
    /\ worker = "idle" /\ pending
    /\ pending' = FALSE /\ lastPacket' = Never
    /\ line' = "up" /\ joined' = FALSE /\ inbox' = <<Packet("connect", 0)>>
    /\ UNCHANGED <<clock, messages, connected, worker, answer, again, cursor, caughtUp, noted, losses>>

OpenFails ==
    /\ worker = "idle" /\ pending /\ lastPacket' = Never
    /\ UNCHANGED <<clock, messages, social, inbox, connected, pending, worker, answer, again,
                   cursor, caughtUp, noted, losses>>

\* It says nothing where another packet has, or is about to.
PingArrives ==
    /\ line = "up" /\ inbox = <<>> /\ lastPacket # clock
    /\ inbox' = Append(inbox, Packet("ping", 0))
    /\ UNCHANGED <<clock, messages, social, connected, pending, worker, answer, again,
                   cursor, lastPacket, caughtUp, noted, losses>>

DiesSilently ==
    /\ line = "up" /\ losses < MaxFaults /\ losses' = losses + 1
    /\ line' = "dead" /\ joined' = FALSE
    /\ UNCHANGED <<clock, messages, phone, noted>>

\* The disconnect takes its place in the queue.
LossIsNoticed ==
    /\ line # "down" /\ (line = "up" => losses < MaxFaults)
    /\ losses' = IF line = "up" THEN losses + 1 ELSE losses
    /\ line' = "down" /\ joined' = FALSE
    /\ inbox' = Append(inbox, Packet("disconnect", 0))
    /\ UNCHANGED <<clock, messages, connected, pending, worker, answer, again,
                   cursor, lastPacket, caughtUp, noted>>

\* closeSocket: what the old socket still says is dropped.
ClosesSocket ==
    /\ line' = "down" /\ joined' = FALSE /\ inbox' = <<>>
    /\ connected' = FALSE /\ pending' = TRUE

------------------------------------------------------------------------------
(* The cursor.                                                                 *)

\* Mutant: the clock vouches for what came before it.
AdvancedToNow == IF caughtUp /\ cursor # Never /\ clock > cursor + Margin THEN clock - Margin ELSE cursor

\* CursorPolicy.advance, of a cursor that may move at all.
Advanced ==
    IF caughtUp /\ cursor # Never /\ lastPacket # Never /\ lastPacket > cursor + Margin
    THEN lastPacket - Margin ELSE cursor

MovesCursor == cursor' = Advanced /\ slid' = (slid \/ (unmarked /\ Advanced # cursor))

\* openGap.
MarksGap == MovesCursor /\ caughtUp' = FALSE /\ again' = FALSE /\ unmarked' = FALSE

\* Once a minute, while connected.
CursorTimer ==
    /\ worker = "idle" /\ connected /\ Advanced # cursor
    /\ MovesCursor
    /\ UNCHANGED <<clock, messages, social, inbox, connected, pending, worker, answer, again,
                   lastPacket, caughtUp, handled, excused, unmarked, losses>>

------------------------------------------------------------------------------
(* The worker.                                                                 *)

Takes(what) == worker = "idle" /\ inbox # <<>> /\ Head(inbox).is \in what

HandlesPacket ==
    /\ Takes({"ping", "message"})
    /\ inbox' = Tail(inbox) /\ lastPacket' = Head(inbox).heard
    /\ handled' = handled \cup ({Head(inbox).m} \ {0})
    /\ UNCHANGED <<clock, messages, social, connected, pending, worker, answer, again,
                   cursor, caughtUp, excused, unmarked, slid, losses>>

HandlesConnect ==
    /\ Takes({"connect"})
    /\ inbox' = Tail(inbox) /\ lastPacket' = Head(inbox).heard
    /\ connected' = TRUE /\ worker' = "loading"
    /\ UNCHANGED <<clock, messages, social, pending, answer, again, cursor, caughtUp, noted, losses>>

\* onDisconnect, after the connect: a socket that never connects is OpenFails.
HandlesDisconnect ==
    /\ Takes({"disconnect"})
    /\ ClosesSocket /\ MarksGap
    /\ UNCHANGED <<clock, messages, worker, answer, lastPacket, handled, excused, losses>>

\* fail(): no gap is opened, for none was closed - but after a restart().
LoadFails ==
    /\ worker = "loading" /\ worker' = "idle"
    /\ ClosesSocket
    /\ UNCHANGED <<clock, messages, answer, again, cursor, lastPacket, caughtUp, noted, losses>>

\* The first time on this server: it starts from the server's now.
StartsFresh ==
    /\ worker = "loading" /\ cursor = Never
    /\ worker' = "idle" /\ cursor' = clock /\ caughtUp' = TRUE
    /\ excused' = excused \cup {m \in Numbers : messages[m].createdAt < clock \/ messages[m].at = "sent"}
    /\ UNCHANGED <<clock, messages, social, inbox, connected, pending, answer, again, lastPacket,
                   handled, unmarked, slid, losses>>

\* runCatchUp asks, getMissed takes its now ...
AsksWhatWasMissed ==
    /\ \/ worker = "loading" /\ cursor # Never /\ again' = again
       \/ worker = "idle" /\ again /\ connected /\ again' = FALSE
    /\ worker' = "asking" /\ answer' = [NoAnswer EXCEPT !.now = clock]
    /\ UNCHANGED <<clock, messages, social, inbox, connected, pending, cursor, lastPacket, caughtUp,
                   noted, losses>>

RetryForNothing ==
    /\ worker = "idle" /\ again /\ ~connected /\ again' = FALSE
    /\ UNCHANGED <<clock, messages, social, inbox, connected, pending, worker, answer, cursor,
                   lastPacket, caughtUp, noted, losses>>

Newest(S) ==
    {m \in S : Cardinality({k \in S : k > m /\ messages[k].kind = messages[m].kind}) < PerConversation}

\* ... and reads.  What it will never bring: too old, too many, or not written
\* when it was read though created before its now.
ReadsMissed ==
    LET oldest   == IF answer.now > cursor + MaxAge THEN answer.now - MaxAge ELSE cursor
        inWindow == {m \in Numbers : Written(m) /\ messages[m].createdAt >= oldest}
        tooOld   == {m \in Numbers : messages[m].createdAt < oldest /\ messages[m].createdAt >= cursor}
        slipped  == {m \in Numbers : ~Written(m) /\ messages[m].createdAt < answer.now}
    IN  /\ worker = "asking" /\ worker' = "answered"
        /\ answer' = [now |-> answer.now, events |-> Newest(inWindow),
                      gone |-> (inWindow \ Newest(inWindow)) \cup tooOld \cup slipped]
        /\ UNCHANGED <<clock, messages, social, inbox, connected, pending, again, cursor, lastPacket,
                       caughtUp, noted, losses>>

CatchesUp ==
    /\ worker = "answered" /\ worker' = "idle" /\ answer' = NoAnswer
    /\ handled' = handled \cup answer.events /\ excused' = excused \cup answer.gone
    /\ cursor' = (IF answer.now > cursor THEN answer.now ELSE cursor) /\ caughtUp' = TRUE /\ unmarked' = FALSE
    /\ UNCHANGED <<clock, messages, social, inbox, connected, pending, again, lastPacket, slid, losses>>

\* Tried again after a wait, up to MAX_CATCH_UP_TRIES times.
CatchUpFails(retry) ==
    /\ worker \in {"asking", "answered"} /\ worker' = "idle" /\ answer' = NoAnswer
    /\ caughtUp' = FALSE /\ unmarked' = FALSE /\ again' = retry
    /\ UNCHANGED <<clock, messages, social, inbox, connected, pending, cursor, lastPacket,
                   handled, excused, slid, losses>>

\* onNetworkAvailable, of another network.
NetworkChanges ==
    /\ worker = "idle" /\ connected /\ losses < MaxFaults /\ losses' = losses + 1
    /\ MarksGap /\ ClosesSocket
    /\ UNCHANGED <<clock, messages, worker, answer, lastPacket, handled, excused>>

\* checkSignIn: the sign-in is not the one the token came from.  No gap is opened.
SignInChanges ==
    /\ worker = "idle" /\ losses < MaxFaults /\ losses' = losses + 1
    /\ ClosesSocket /\ unmarked' = (unmarked \/ caughtUp)
    /\ UNCHANGED <<clock, messages, worker, answer, again, cursor, lastPacket, caughtUp,
                   handled, excused, slid>>

Forgets ==
    /\ ClosesSocket
    /\ worker' = "idle" /\ answer' = NoAnswer /\ again' = FALSE
    /\ lastPacket' = Never /\ caughtUp' = FALSE /\ unmarked' = FALSE

\* The process is killed, or the service stopped: nothing more is kept.
ProcessDies ==
    /\ losses < MaxFaults /\ losses' = losses + 1
    /\ Forgets
    /\ UNCHANGED <<clock, messages, cursor, handled, excused, slid>>

\* Turned off in Settings, or signed out: the next start is a fresh one.
TurnsOff ==
    /\ losses < MaxFaults /\ losses' = losses + 1 /\ cursor # Never
    /\ Forgets /\ cursor' = Never
    /\ UNCHANGED <<clock, messages, handled, excused, slid>>

\* Another server, and back before that one was reached (Session.close).
ServerSwitches ==
    /\ worker = "idle" /\ losses < MaxFaults /\ losses' = losses + 1
    /\ MovesCursor /\ Forgets
    /\ UNCHANGED <<clock, messages, handled, excused>>

PhoneNext ==
    \/ TimePasses \/ JoinsRooms
    \/ \E kind \in Conversation : Creates(kind)
    \/ \E m \in Numbers : Writes(m) \/ Emits(m)
    \/ Opens \/ OpenFails \/ PingArrives \/ DiesSilently \/ LossIsNoticed \/ CursorTimer
    \/ HandlesPacket \/ HandlesConnect \/ HandlesDisconnect
    \/ LoadFails \/ StartsFresh \/ AsksWhatWasMissed \/ RetryForNothing \/ ReadsMissed \/ CatchesUp
    \/ \E retry \in BOOLEAN : CatchUpFails(retry)
    \/ NetworkChanges \/ SignInChanges \/ ProcessDies \/ TurnsOff \/ ServerSwitches

------------------------------------------------------------------------------
(* Properties.                                                                 *)

\* "The cursor is the promise 'everything before this has been shown'", whatever
\* the socket, the process and the network did: no message from before it is left
\* unshown, but for those excused, and until a cursor slid in a gap that a change
\* of sign-in left unmarked (moveCursor, openGap, runCatchUp, getMissed together).
NothingLost ==
    slid \/ cursor = Never \/ \A m \in Numbers : messages[m].createdAt < cursor => m \in handled \cup excused

PhoneSpec == PhoneInit /\ [][PhoneNext]_phoneNotices
=============================================================================
