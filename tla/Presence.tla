------------------------------- MODULE Presence --------------------------------
(***************************************************************************)
(* What others are shown of one person: server/state/presence.ts, the      *)
(* connection, presence:set, presence:away and disconnect handlers of      *)
(* server/sockets/chatSocket.ts, and the two HTTP paths that write the     *)
(* status (PATCH /users/me and signing in).                                *)
(*                                                                         *)
(* Three facts make the status shown: the stored choice with its deadline, *)
(* whether a connection is registered, and whether the person is away.     *)
(* Every handler awaits a read or a write between changing one of them and *)
(* telling anybody, and several handlers run at once.  Any of those awaits *)
(* may fail, and then nobody is told: a setup that fails keeps its         *)
(* connection, and a disconnect that fails has lost it already.            *)
(*                                                                         *)
(* Abstracted: an audience is a friend and somebody who only shares a      *)
(* server; there is one deadline, which passes once.  A background         *)
(* connection registers nothing and tells nothing, and is left out.        *)
(***************************************************************************)
EXTENDS Naturals

CONSTANTS
    Tab,            \* the person's connections
    MaxEvents       \* bound: connects, choices and reports of idleness

Audience == {"friend", "coMember"}
Chosen   == {"online", "dnd", "invisible"}
Status   == [chosen : Chosen, timed : BOOLEAN]
NoTask   == [at |-> "none"]

VARIABLES
    stored,     \* User.status and statusUntil
    passed,     \* whether the deadline has passed
    registered, \* presence.sockets: the connections in the registry
    away,       \* presence.away
    copy,       \* copy[t]: myStatus and myStatusUntil
    touched,    \* touched[t]: statusTouched
    setup,      \* setup[t]: the connection's setup, at its await
    telling,    \* telling[t]: presence:set or presence:away, at its await
    leaving,    \* leaving[t]: disconnect, at its await
    patching,   \* PATCH /users/me, at its await
    shown,      \* shown[o]: the status o was last sent
    astray,     \* history: astray[o], o was last sent what no longer held, or a change was not sent
    events

tasks    == <<setup, telling, leaving, patching>>
presence == <<stored, passed, registered, away, copy, touched, tasks, shown, astray, events>>

PresenceTypeOK ==
    /\ stored \in Status /\ passed \in BOOLEAN /\ away \in BOOLEAN
    /\ registered \subseteq Tab
    /\ copy \in [Tab -> Status] /\ touched \in [Tab -> BOOLEAN]
    /\ \A t \in Tab :
          /\ setup[t].at \in {"none", "row", "joining", "audience"}
          /\ telling[t].at \in {"none", "write", "audience", "emit"}
          /\ leaving[t] \in {"none", "lastSeen", "audience"}
    /\ shown \in [Audience -> {"online", "idle", "dnd", "offline"}]
    /\ astray \in [Audience -> BOOLEAN]

\* chosenNow: a deadline is looked at when read.
ChosenNow(st) == IF st.timed /\ passed THEN "online" ELSE st.chosen

\* effectiveStatus.
ShowingInvisible(st, tabs, isAway) ==
    IF tabs = {} THEN "offline"
    ELSE IF ChosenNow(st) = "online" /\ isAway THEN "idle"
    ELSE ChosenNow(st)

Effective(st, tabs, isAway) ==
    IF tabs = {} \/ ChosenNow(st) = "invisible" THEN "offline"
    ELSE IF ChosenNow(st) = "online" /\ isAway THEN "idle"
    ELSE ChosenNow(st)

Due == Effective(stored, registered, away)

PresenceInit ==
    /\ stored \in {st \in Status : ~st.timed} /\ passed = FALSE
    /\ registered = {} /\ away = FALSE
    /\ copy = [t \in Tab |-> [chosen |-> "online", timed |-> FALSE]]
    /\ touched = [t \in Tab |-> FALSE]
    /\ setup = [t \in Tab |-> NoTask] /\ telling = [t \in Tab |-> NoTask]
    /\ leaving = [t \in Tab |-> "none"] /\ patching = NoTask
    /\ shown = [o \in Audience |-> "offline"]
    /\ astray = [o \in Audience |-> FALSE]
    /\ events = 0

-----------------------------------------------------------------------------
Event == events < MaxEvents /\ events' = events + 1

\* Those in `to` are sent `status`.
Sends(to, status) ==
    /\ shown'  = [o \in Audience |-> IF o \in to THEN status ELSE shown[o]]
    /\ astray' = [o \in Audience |->
                    IF o \in to THEN status # Effective(stored, registered, away) ELSE astray[o]]

\* What was to be said is not, for a query that failed.
Unsent == astray' = [o \in Audience |-> astray[o] \/ shown[o] # Due]

\* A change nobody is sent.
Unsaid == astray' = [o \in Audience |-> astray[o] \/ Due' # Due]

-----------------------------------------------------------------------------
(* Connecting. *)

ConnectTab(t) ==
    /\ Event
    /\ t \notin registered /\ setup[t] = NoTask /\ telling[t] = NoTask /\ leaving[t] = "none"
    /\ setup' = [setup EXCEPT ![t] = [at |-> "row", first |-> registered = {}, row |-> stored]]
    /\ registered' = registered \cup {t}
    /\ copy' = [copy EXCEPT ![t] = [chosen |-> "online", timed |-> FALSE]]
    /\ touched' = [touched EXCEPT ![t] = FALSE]
    /\ UNCHANGED <<stored, passed, away, telling, leaving, patching, shown, astray>>

\* The row arrives, unless presence:set was faster; rooms are looked up next.
RowArrives(t) ==
    /\ setup[t].at = "row"
    /\ copy' = IF touched[t] THEN copy ELSE [copy EXCEPT ![t] = setup[t].row]
    /\ setup' = [setup EXCEPT ![t] = [at |-> "joining", first |-> @.first]]
    /\ UNCHANGED <<stored, passed, registered, away, touched, telling, leaving, patching,
                   shown, astray, events>>

\* Only the first connection announces; the status is taken before the audience.
Joined(t) ==
    /\ setup[t].at = "joining"
    /\ setup' = [setup EXCEPT ![t] =
                    IF @.first THEN [at |-> "audience", status |-> Effective(copy[t], registered, away)]
                    ELSE NoTask]
    /\ UNCHANGED <<stored, passed, registered, away, copy, touched, telling, leaving, patching,
                   shown, astray, events>>

Announces(t) ==
    /\ setup[t].at = "audience"
    /\ setup' = [setup EXCEPT ![t] = NoTask]
    /\ Sends(Audience, setup[t].status)
    /\ UNCHANGED <<stored, passed, registered, away, copy, touched, telling, leaving, patching, events>>

\* The row, the rooms or the audience cannot be read: the connection is kept, with
\* the copy it has, and announces nothing.
SetupFails(t) ==
    /\ setup[t] # NoTask
    /\ setup' = [setup EXCEPT ![t] = NoTask]
    /\ IF setup[t].at = "audience" \/ setup[t].first THEN Unsent ELSE UNCHANGED astray
    /\ UNCHANGED <<stored, passed, registered, away, copy, touched, telling, leaving, patching,
                   shown, events>>

-----------------------------------------------------------------------------
(* presence:set and presence:away, and broadcastPresence. *)

Chooses(t, st) ==
    /\ Event
    /\ t \in registered /\ telling[t] = NoTask /\ (st.timed => ~passed)
    /\ copy' = [copy EXCEPT ![t] = st]
    /\ touched' = [touched EXCEPT ![t] = TRUE]
    /\ away' = FALSE
    /\ telling' = [telling EXCEPT ![t] = [at |-> "write", st |-> st]]
    /\ UNCHANGED <<stored, passed, registered, setup, leaving, patching, shown, astray>>

ChoiceSaved(t) ==
    /\ telling[t].at = "write"
    /\ stored' = telling[t].st
    /\ telling' = [telling EXCEPT ![t] = [at |-> "audience"]]
    /\ UNCHANGED <<passed, registered, away, copy, touched, setup, leaving, patching,
                   shown, astray, events>>

\* The write fails, or the audience's lookup: nobody is told, of the return from
\* being away either.
TellingFails(t) ==
    /\ telling[t].at \in {"write", "audience"}
    /\ telling' = [telling EXCEPT ![t] = NoTask]
    /\ Unsent
    /\ UNCHANGED <<stored, passed, registered, away, copy, touched, setup, leaving, patching,
                   shown, events>>

ReportsAway(t, isAway) ==
    /\ Event
    /\ t \in registered /\ telling[t] = NoTask /\ away # isAway
    /\ away' = isAway
    /\ telling' = [telling EXCEPT ![t] = [at |-> "audience"]]
    /\ UNCHANGED <<stored, passed, registered, copy, touched, setup, leaving, patching, shown, astray>>

\* refreshChosenStatus: the row is read last, and answers when it answers.
ReadsChoice(t) ==
    /\ telling[t].at = "audience"
    /\ telling' = [telling EXCEPT ![t] = [at |-> "emit", row |-> stored]]
    /\ UNCHANGED <<stored, passed, registered, away, copy, touched, setup, leaving, patching,
                   shown, astray, events>>

\* ... or fails, and the copy of the connection does.
KeepsCopy(t) ==
    /\ telling[t].at = "audience"
    /\ telling' = [telling EXCEPT ![t] = NoTask]
    /\ Sends(Audience, Effective(copy[t], registered, away))
    /\ UNCHANGED <<stored, passed, registered, away, copy, touched, setup, leaving, patching, events>>

Broadcasts(t) ==
    /\ telling[t].at = "emit"
    /\ copy' = [copy EXCEPT ![t] = telling[t].row]
    /\ telling' = [telling EXCEPT ![t] = NoTask]
    /\ Sends(Audience, Effective(telling[t].row, registered, away))
    /\ UNCHANGED <<stored, passed, registered, away, touched, setup, leaving, patching, events>>

-----------------------------------------------------------------------------
(* Disconnecting: only the last connection out says so, two awaits later. *)

DisconnectTab(t) ==
    /\ t \in registered /\ leaving[t] = "none"
    /\ registered' = registered \ {t}
    /\ IF registered' = {} THEN away' = FALSE /\ leaving' = [leaving EXCEPT ![t] = "lastSeen"]
       ELSE UNCHANGED <<away, leaving>>
    /\ UNCHANGED <<stored, passed, copy, touched, setup, telling, patching, shown, astray, events>>

LastSeenWritten(t) ==
    /\ leaving[t] = "lastSeen"
    /\ leaving' = [leaving EXCEPT ![t] = "audience"]
    /\ UNCHANGED <<stored, passed, registered, away, copy, touched, setup, telling, patching,
                   shown, astray, events>>

SaysOffline(t) ==
    /\ leaving[t] = "audience"
    /\ leaving' = [leaving EXCEPT ![t] = "none"]
    /\ Sends(Audience, "offline")
    /\ UNCHANGED <<stored, passed, registered, away, copy, touched, setup, telling, patching, events>>

\* Either await fails: the connection is gone, and nobody hears of it.
LeavingFails(t) ==
    /\ leaving[t] # "none"
    /\ leaving' = [leaving EXCEPT ![t] = "none"]
    /\ Unsent
    /\ UNCHANGED <<stored, passed, registered, away, copy, touched, setup, telling, patching,
                   shown, events>>

-----------------------------------------------------------------------------
(* HTTP. *)

\* PATCH /users/me: the choice is saved, with no deadline.
Patches(c) ==
    /\ Event
    /\ patching = NoTask
    /\ stored' = [chosen |-> c, timed |-> FALSE]
    /\ patching' = [at |-> "friends", status |-> Effective(stored', registered, away)]
    /\ UNCHANGED <<passed, registered, away, copy, touched, setup, telling, leaving, shown, astray>>

\* broadcastStatusToFriends: friends, and nobody else.
TellsFriends ==
    /\ patching.at = "friends"
    /\ patching' = NoTask
    /\ shown' = [shown EXCEPT !["friend"] = patching.status]
    /\ astray' = [o \in Audience |->
                    IF o = "friend" THEN patching.status # Due ELSE astray[o] \/ shown[o] # Due]
    /\ UNCHANGED <<stored, passed, registered, away, copy, touched, setup, telling, leaving, events>>

\* Their lookup fails, after the choice is saved.
FriendsUntold ==
    /\ patching.at = "friends"
    /\ patching' = NoTask
    /\ Unsent
    /\ UNCHANGED <<stored, passed, registered, away, copy, touched, setup, telling, leaving, shown, events>>

\* login.
SignsIn ==
    /\ Event
    /\ stored' = [chosen |-> "online", timed |-> FALSE]
    /\ UNCHANGED <<passed, registered, away, copy, touched, tasks, shown>>
    /\ Unsaid

DeadlinePasses ==
    /\ ~passed /\ passed' = TRUE
    /\ UNCHANGED <<stored, registered, away, copy, touched, tasks, shown, events>>
    /\ Unsaid

-----------------------------------------------------------------------------
TabStep(t) ==
    \/ RowArrives(t) \/ Joined(t) \/ Announces(t) \/ SetupFails(t)
    \/ ChoiceSaved(t) \/ TellingFails(t) \/ ReadsChoice(t) \/ KeepsCopy(t) \/ Broadcasts(t)
    \/ LastSeenWritten(t) \/ SaysOffline(t) \/ LeavingFails(t)

PresenceNext ==
    \/ \E t \in Tab :
          \/ ConnectTab(t) \/ DisconnectTab(t) \/ TabStep(t)
          \/ \E st \in Status : Chooses(t, st)
          \/ \E isAway \in BOOLEAN : ReportsAway(t, isAway)
    \/ \E c \in Chosen : Patches(c)
    \/ TellsFriends \/ FriendsUntold \/ SignsIn \/ DeadlinePasses

\* Awaits are answered.
PresenceFairness == WF_presence(TellsFriends \/ FriendsUntold \/ \E t \in Tab : TabStep(t))

PresenceSpec == PresenceInit /\ [][PresenceNext]_presence /\ PresenceFairness

-----------------------------------------------------------------------------
(* Properties. *)

Told ==
    /\ \A t \in Tab : setup[t] = NoTask /\ telling[t] = NoTask /\ leaving[t] = "none"
    /\ patching = NoTask

\* Once every handler is through, each person in the audience is shown what the
\* choice, the connections and the idleness make it, unless what they were sent
\* last was out of date when it was sent, or a change came that nobody is sent, or
\* the handler that was to send it failed.
\* "invisible is indistinguishable from being offline".
ShownIsEffective ==
    Told => \A o \in Audience : ~astray[o] =>
        /\ shown[o] = Due
        /\ stored.chosen = "invisible" /\ ~stored.timed => shown[o] = "offline"
=============================================================================
