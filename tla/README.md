# Skycord in TLA+

A model-checking and proof project for [Skycord](../src/README.md), a self-hosted
chat server with voice calls, music in them, a web, an Android and a desktop client.
Paths below are relative to the repository root, which `PROJECT.json` calls `src/`.

Contents: [1 the system](#1-the-system) · [2 the plan](#2-the-plan) ·
[3 the modules](#3-the-modules-and-the-code) · [4 the runs](#4-the-runs) ·
[5 fairness](#5-fairness) · [6 the proofs](#6-the-proofs) ·
[7 where the code and its comments disagree](#7-where-the-code-and-its-comments-disagree) ·
[8 what is not modelled](#8-what-is-not-modelled)

## 1. The system

One Node process serves HTTP (Express) and WebSockets (Socket.IO), keeps accounts,
messages and servers in MongoDB, and keeps everything about *live* calls in the
process's own memory. Voice itself goes through LiveKit, a separate media server that
admits whoever holds a token the process has signed. Music is decoded and published
into LiveKit by a second container, spoken to over HTTP.

| Part | Where | State it keeps | Operations |
|---|---|---|---|
| Call lifecycle | `server/sockets/chatSocket.ts`, `server/index.ts` | `activeCalls`, `callStartedAt`, `pendingCallEnd`, `callVoiceServer`, `voiceStates`, each connection's `joinedCallRooms` | `call:join`, `call:rejoin`, `call:leave`, `voice:state`, disconnect, the grace timer, shutdown |
| Voice tokens | `server/controllers/voiceController.ts`, `server/utils/resolveVoiceServer.ts` | none of its own; reads and writes the call's | mint a token, move a call to another media server |
| Voice moderation | `server/controllers/voiceModerationController.ts`, `server/utils/voiceModeration.ts` | `memberVoice` in MongoDB, the grants LiveKit holds | mute, deafen, disconnect a member |
| Music rooms | `server/sockets/musicState.ts` | channels: now, queue, history, listeners, pause | create, queue, skip, seek, pause, resume, previous, listen, close |
| Music coordination | `server/utils/musicService.ts`, `musicLimits.ts`, `routes/internalMusic.ts` | publishers started and stopped over HTTP | play, stop, ended callback, resync |
| Music service | `music/src/*` | one publisher per channel, playhead, ingest holds | the other end of the above |
| Presence | `server/state/presence.ts` | sockets per user, away flag | add, remove, set away, effective status |
| Sessions | `server/services/sessions.ts`, `authController.ts`, `utils/jwt.ts` | refresh sessions in MongoDB | sign in, refresh, revoke, change password |
| Permissions | `server/permissions.ts`, `server/utils/access.ts` | none (pure) | resolve roles and overwrites to bits |
| Channel visibility | `server/sockets/visibility.ts` | Socket.IO rooms per connection | refresh after a permission change |
| Messages | `messagesController.ts`, `missedController.ts`, `utils/historyWindow.ts` | messages | send with slow mode, history windows, what was missed since |
| Groups | `conversationsController.ts`, `chatSocket.ts` | the group's document, the sockets in its room | add, join by invite, leave, subscribe |
| Music library | `musicLibraryController.ts`; `uploadScheduler.ts`, `useMusicLibrary.ts` in the web client | tracks; the browser's queue of uploads | upload, retry, drop, convert |
| Servers, channels, roles, invites | `server/controllers/*` | single documents | CRUD, ordering |
| Web client | `src/composables/*` | reactive mirrors of the above, the attempt to join | join, leave, retry, switch; refetch |
| Android client | `android/.../core`, `notify` | the background socket, the cursor of what was shown, ring gate, seen messages | connect, catch up, notify, ring |
| Desktop client | `desktop/src` | updater state | |
| Deployment | `deploy/skycord` | container images | install, update, roll back |

### How the parts meet

* A client asks **voice tokens** for a token, connects to LiveKit with it, and only
  then tells the **call lifecycle** (`call:join`). Occupancy is therefore a third
  party's report of what LiveKit is doing, and the two can differ at any time.
* **Voice tokens** read the occupancy (the user limit) and fix the media server of a
  conversation's call; the **call lifecycle** lets go of it when the call ends.
* **Voice moderation** finds the member's room in the occupancy, changes the grant at
  LiveKit, and takes the member out of the occupancy (`dropFromCall`) after an eviction.
* Leaving a call leaves its **music** (`musicRooms.forget`); a music channel that
  closes stops its publisher in the **music service**, which reports a track's end
  over HTTP.
* **Presence**, **channel visibility** and the rooms of **groups** hang on the same
  connections: all run database lookups after the connect and the disconnect of a socket.
* The **Android client** hears messages on a socket of its own and asks over HTTP for what
  it missed; the time of the answer is where it asks from next.
* The **music library** takes one file at a time from the browser, limits how many, and
  goes on converting a file whatever becomes of the connection it came by.

### What is hard in each, and what makes it correct

| Part | Hard behaviour | Correct when |
|---|---|---|
| Call lifecycle | occupancy is per *user*, connections are many; handlers await a membership check and outlive their socket; a dropped socket is no hang-up, so a timer decides later; shutdown and restart empty the process's memory | a call begins and ends once and the conversation reads it so; no occupied room is waiting to be declared over; a resumed call keeps its start and its media server; no state outlives its occupant; what is broadcast is what is |
| Voice tokens | three awaits between reading the call's media server and fixing it; the limit is tested at the mint and used up at the join | everybody in a call is on the media server the call is kept at; a registry with entries has one default |
| Voice moderation | two database writes, then two calls to a media server that may fail, while tokens are minted and hoarded and other moderators act | what the participant may do is what is stored; nothing the channel denies is handed back; the moderator is told the truth |
| Music rooms | pausing asks the container between check and commit; a queue that runs dry, a grace timer a listener races | at most one channel per listener; a pause never freezes another song; an entry is played, queued or past, never two of these |
| Music coordination | commands and callbacks cross on the wire, the container restarts | the container publishes what the room shows |
| Presence | the last socket closes while another opens, with awaits before the broadcast | the last thing a friend hears is true |
| Sessions | a device is signed out between the reads and writes of its own refresh | a revoked session never yields another cookie that works |
| Permissions | category and channel overwrites, roles, an owner and administrators | the resolution equals its definition; nobody acts on an equal |
| Channel visibility | a permission changes while a connection is joining its rooms | no socket stays in a room its user may not see |
| Servers, channels, roles | a request weighs what it read a moment ago; documents that name each other are written one by one; only structure goes behind a lock | nothing names what is gone; no permission comes from nowhere; an order put stays; there is always somewhere to talk |
| Web client | an attempt to join crosses leaves, retries, drops and moves at four awaits | the tab is in one call, the one asked for last, with one media session, and the server lists it there |
| Groups | requests decide on the document they read, and a leave writes the whole list of members back; rooms and sidebars follow later | who was told they are in, or out, is; the owner is a member; the room holds the members' connections |
| Uploads | a limit, a lost connection, an expired token, a stop or a change of user meets a file at any point, with the server at work behind it | every file goes on or says why not; it lands once, in its owner's library |
| Phone notifications | a socket dies without a word, the process is killed, a catch-up fails half way, requests block the thread that packets queue for | nothing before the cursor is unshown |
| Messages | slow mode is test-then-write, windows are cut at limits | the gaps between messages hold; no message is missed or shown twice across windows |

The hazards, each at its line, are listed in `PROJECT.json` under `hazards`, with the
properties that would catch them going wrong.

## 2. The plan

In the order of importance. Rows 1 to 14 are done but for slow mode, row 15 is not.

| # | Module | Composes or refines | What it is for | Proved |
|---|---|---|---|---|
| 1 | `CallLifecycle` | implements `CallSpec` | a call is told once, grace, media server, ghost states | all safety, the refinement |
| 2 | `VoiceModeration` | occupancy as an environment | live grant = stored flags; the channel's denials hold | all safety |
| 3 | `VoiceTokens`, `VoiceServers` | the calls of `CallLifecycle`, seen from a token | one media server per call; one default per registry | `TogetherUnlessApart`; `OneDefault`, the pointer of `ReferencesLive` |
| 4 | `MusicChannel`, `MusicRooms` | occupancy as an environment | the queue and its history; listeners and the closing timer | all safety |
| 5 | `MusicSync` | `MusicChannel` and the service that plays it | what is heard is what is shown | no |
| 6 | `Presence` | connections | the last thing a friend hears is true | all safety |
| 7 | `Sessions` | - | a device signed out stays out; a cookie names a row | `SignedOutStaysOut`, `CookieNamesRow` |
| 8 | `Permissions`, `ServerRoles` | roles use the resolution | the resolution against a reference; stale weighing | all safety |
| 9 | `ChannelVisibility`, `ServerStructure` | `Permissions`; the lock | rooms and sidebars follow; structure behind the lock | all safety |
| 10 | `VoiceClient` | the client's side of 1 and 3 | one call, one session, the one asked for | all safety |
| 11 | `Groups` | the room of a conversation, as 9 has those of channels | the list of members, its owner, rooms and sidebars | all safety |
| 12 | `UploadQueue` | the browser and the server's side of a try | every file goes on; one copy each | all safety |
| 13 | `PhoneNotices` | the server's write and broadcast, the phone | nothing before the cursor is lost | all safety |
| 14 | `MessageWindow` (slow mode is left) | the pages the server cuts, the browser that joins them | no hole in what looks complete; nothing twice | no |
| 15 | updater, deployment | - | a rollback leaves what was there | - |

Every module takes its sets as `CONSTANTS` with a named assumption, has one action per
step between two awaits, and declares no `RECURSIVE` operator. Modules that are to be
proved about reach none either.

## 3. The modules and the code

The process is single threaded: code between two `await`s is atomic. So **an action is
the code from one await to the next**, and a handler that is waiting is part of the
state. `PROJECT.json` `map` gives the lines of every definition. Most modules write a
waiting handler as a record in a set (`asking`, `busy`, `jobs`, `edits`, ...) whose `at`
says at which await it stands.

Some variables are **histories**: nothing reads them but the properties. They record
that something happened after which the code does not, and does not claim to, keep a
promise (a handler acted on what no longer held, two requests met that no lock keeps
apart), so that the property says exactly what is left. Section 7 says what each excuses.

### `CallLifecycle`

One action per handler segment of `chatSocket.ts`:

| Code | Action |
|---|---|
| connection accepted | `Connect` |
| `call:join` / `call:rejoin` up to `await canJoinCall` | `JoinArrives`; then `JoinRefused`, `JoinProceeds` or `RejoinProceeds` |
| `call:join` after `await postCallSystem` | `JoinAnnounced` |
| `call:leave` = `leaveCall(room, 'hang-up')` | `HangUp` |
| `disconnect` = `leaveCall(room, 'socket-lost')` for every seat | `Disconnect` |
| the timer of `scheduleCallEnd` | `CallEndTimer` |
| `dropFromCall` | `DropFromCall` |
| `voice:state` | `ReportVoiceState` |
| `fixCallVoiceServer`, `setCallVoiceServer` | `FixCallVoiceServer`, `SetCallVoiceServer` |
| SIGTERM: `cancelAllCallEnds`, `httpServer.close()` | `ShutDown` |
| the process ends and another boots | `Restart` |

The maps of the module are the variables of the same names. `shown` is the occupancy
last broadcast, `lines` what the conversation has been told. A start time is reduced to
its presence, a voice state too; a system line is the *decision* to write it, which is
what the code orders (the write itself is not awaited on the way out). A handler whose
write fails stays where it is. The client is unconstrained: any connection may join,
rejoin or leave any room at any time, connections come and go, and a late handler acts
for a socket that has closed, as the code lets it. Two identical handlers of one socket
count as one.

`CallSpec` is what all this promises with no handlers, timers or media servers: connections
ask to join or to rejoin (`Ask`, `Answer`), and a room's call begins, is entered, is left and
ends. Whether its beginning is told is not a choice: the conversation reads "started" when
a *join* begins the call, and nothing when a rejoin does (to a process that has forgotten
it) or when anybody enters a call that is standing, in its grace period too. The mapping is
`members <- activeCalls`, `calls <- callStartedAt`, `told <- lines`, and `asking` the
handlers that await `canJoinCall`; an instance inside `CallLifecycle` (`Promise`).

### `VoiceModeration`

One member of one voice channel. `setMemberVoice` is `Load`, `Refuse`, `Pull`, `Push`,
`FindRoom`, `AskMedia`, `Apply`, `ApplyFails`, `Remove`, `DropEvicted`, one per await;
`StoreFails` is a query that throws. `disconnectMember` is `EvictFinds`, `EvictRemoves`,
`EvictDrops`. `Mint` is the part of `getVoiceToken` that reads the restriction and signs
the grant, `ConnectMedia` and `LeaveMedia` the client at the media server, `EnterCall`
and `LeaveCall` its effect on the occupancy of `CallLifecycle`. A restriction is the set
of its flags; a grant the set of what it allows, with screen-share audio apart because a
mute and a missing Speak treat it differently. A token remembers whether `memberVoice`
was written since it was minted (`old`): that is what the stored flags cannot reach.

The member stays in one channel and the channel's permissions do not change; what
`canActOnMember` answers is the constant `Power`. `ToldMutedIsSilent` looks at a member who
may speak: its trace starts from one who is connected, holds the microphone and is in no
room of the occupancy.

### `VoiceTokens`

A channel with a user limit and a conversation's call. `getVoiceToken` is `AsksForChannel`,
`ChecksLimit`, `GivesChannelToken` and, for a conversation, `AsksForChat` (which reads the
choice kept for the call) and `GivesChatToken` (three awaits later, where the choice is
fixed if there is none and the asker is given their *own* answer). `moveVoiceCall` is
`AsksToMove` and `Moves`; `Releases` is `releaseCallRoom`'s hold on the choice. A token is
used later, by `JoinsChannel` and `JoinsChat`. `apart` records what parts a call: a token
minted while another settled the choice, for somebody who may not have the server chosen,
or still out when the choice was moved or let go of.

### `VoiceServers`

The registry of a community: `createVoiceServer` is `AsksToCreate`, `Counts`, `Clears`,
`CreatesEntry` or `CreateRefused`; making an entry the default is `AsksForDefault`,
`ClearsOthers`, `SavesDefault` or `SaveRefused`; deleting is `AsksToDelete`, `Removes`,
`ClearsPointers`, `FindsHeir`, `Promotes`; `AsksToPoint` and `Points` are the part of
`updateChannel` that names one. `contended`: two requests that move the default met, or
one was refused after it had cleared the others. Entries are keyed by their age, as the
heir is the oldest. `misled`: an entry was deleted while a
channel was about to name it.

### `MusicChannel`, `MusicRooms`, `MusicSync`

`MusicChannel` is one channel of `musicState.ts`: `now`, `queue`, `history`, the pause and
the point the clock stands for, an action per operation. An entry is a number; a point in
a song is a mark, new whenever `startedAt` is set to another point. `forgotten` holds the
entries a full history has dropped: every other entry ever added is in one place
(`EachEntryOnce`). How far in a song is decides what `previous` does, and is a choice (`Restart` or `StepBack`).

`MusicRooms` is the rest of that file: which channels each call has, who listens, the
clock of a channel nobody listens to, the caps, and `music:create` with the await between
its gate and its caps, with the call's joins, leaves and evictions. `evicted` remembers
whom a moderator put out: `dropFromCall` does not touch the music.

`MusicSync` extends `MusicChannel` with the music service. What the API sends is a message
on `wire`: plays and closes it does not wait for, pauses and resumes it does, one press at a
time (`line`, `toggle`). The ticket of `pauseMusic` is `Ticket`; `resyncMusic` and
`holdOnceStarted` are `Resync` and `LoopTries`. The service's side is `TakePlay` ...
`TakeResume`, `Opened`, `Fetched`, `FetchFails`, `SongEnds`: a play claims the channel and is
fetched while the song before it plays on, and the callback of an ended song names no song
(`EndArrives`). The model assumes that requests
are taken in the order sent; the code numbers none of them. Faults are a restart of the
service, a request it never sees, an answer that comes too late, a fetch that fails, a hold that expires, a
track slow to be published. `adrift` is set when one of them, or one of the races section 7
names, has put the two out of line, and cleared when the last play sent arrives in a room
that plays.

### `Presence`

One person: the registry of sockets and the away flag (`state/presence.ts`), the stored
choice with its deadline, each connection's copy of it, and what two kinds of audience were
last sent. Each of `connection` (`ConnectTab`, `RowArrives`, `Joined`, `Announces`),
`presence:set` (`Chooses`, `ChoiceSaved`), `presence:away` (`ReportsAway`),
`broadcastPresence` (`ReadsChoice`, `Broadcasts`, or `KeepsCopy` where the row cannot be read),
`disconnect` (`DisconnectTab`, `LastSeenWritten`, `SaysOffline`) and `PATCH /users/me`
(`Patches`, `TellsFriends`) is its segments between awaits. Each of these awaits may fail:
`SetupFails` (caught, the connection kept), `TellingFails`, `LeavingFails` (caught, the
connection gone), `FriendsUntold`. `astray[o]`: o was last sent what no longer held when it was
sent, a failure kept a change from being sent, or a change came that the code tells nobody of
(signing in, a deadline).

### `Sessions`

One person's devices: cookies, the rows revocation deletes, the password version. `login`
is `Login`, `WritesRow`, `SetsCookie`; `refresh` is `Refresh`, `ReadsUser`, `FindsRow` or
`FindsNoRow`, `SavesRow`, then `Renews` or `GrantsAccess`; `changePassword` and
`resetPassword` are `SavesPassword`, `DropsOthers`; any request may die at an await
(`Dies`). Days pass only between requests: a cookie's end is not raced. `signedOut` and
`reissued` are histories.

### `Permissions`, `ServerRoles`

`Permissions` is `permissions.ts` and the pure half of `access.ts` over sets instead of
bitfields, with a reference definition beside it (`HasByPrecedence`). `ServerRoles` is who
is in a server, its roles and the overwrites of a channel: a request reads the server
(`Asks`), then the roles, where it is refused or let through (`Weighs`), then writes
(`CreatesRole`, `UpdatesRole`, `DeletesRole` and `PullsRole`, `SetsRow` or `PushesRow`,
`WritesOverwrite`, `RemovesMember`). Nothing here takes a lock. The rows are an
array in the code, where the first of two counts (`RowIndex`); here they are keyed by their
age. `handed` is everything the
owner ever handed out, `crossed` what went while a request was about to name it.

### `ChannelVisibility`, `ServerStructure`

`ChannelVisibility` has one member, one connection and one channel that hides: every change
of who sees what starts a job (`refreshChannelAccess`, `joinChannelRooms`, the setup of a
connection, the sweep after a removal), which reads the server, then the channels, then
moves sockets between rooms and announces; and the tab's copy of the list with its
coalescing timer and its refetches, whose answers come in any order. Any of the reads may fail:
`EventFails` (logged, the refresh goes on), `HandlerFails` (logged, answered with an error, or
caught at the end of the setup with the connection left up, in no channel's room).
`roomAstray` and `listAstray`: the last move, or the last word, went by what no longer held,
or a handler has failed since.

`ServerStructure` is channels and categories behind `withServerLock`, a queue. Requests
load their channel before they queue (`Queues`), read and write in awaits of their own when
at the head, and tell the members after they have let go (`EmitsRows`). A member told to
refetch asks for the server, which reads it (`ReadsList`), and puts the answer over the list
when it arrives (`Refetches`); events come between. `LockFails` and `TellingFails` are
reads and writes that throw; a write of several rows (`bulkWrite`, `updateMany`) is made whole or not at all. A
place in the queue is a record with what was loaded, what is asked and what was read; its
`id` stands for the promise. An
update that leaves the category alone does not queue (`Edits`). The places `slotsFor` hands out
are given in closed form (`SlotsFor`): the rows' own, sorted, each raised where it would meet the
one below. What a user last put in order is the set of pairs `ordered`, of the channels still
where they were. `echoed`: a channel was last announced, or last read for a refetch, as it no longer is, or
what was to announce it failed.

### `VoiceClient`

One tab (`useVoice.ts`). An attempt (`attemptConnect`) stands at its token, at the session,
at the microphone or at a phone's prompt, and each of these is a step that may find another
attempt begun meanwhile (`connectSeq`, `Latest`). `leave()` waits for its session to close;
retries and "Couldn't connect" are timers; sessions and the socket drop, and the call is
moved to another media server. `sessions` is what LiveKit holds, `seated` what the server
lists, with the messages a socket holds back while it is down. A session the tab closes
says so before anything else happens, and all the leaves that wait for one session go on
together. At the server, a `call:leave` is heard at once and means nothing for a tab that is
not listed (`HearsLeave`); a `call:join` or `call:rejoin` waits for `canJoinCall` (`gates`) and is let
through whatever has become of its socket (`JoinAdmitted`), or refused without a word
(`JoinRefused`). Sockets are numbered: a lost one is noticed when it is, by person, perhaps with the tab
back on the next (`LossNoticed`, by `holds`, the `joinedCallRooms` of each).
Histories: `overtaken` (the server refused the join of the call the tab is in, heard a leave while
the join it undoes was waiting, or noticed a lost socket after the tab was back: the runs
`late_join` and `overlap` from the other end), `wanted` (the call last asked for), `late` (an attempt went on though
no longer the latest or without its session, a leave cleaned up under an attempt, or a
call was replaced and not left), `misread` (permits of an answer nobody waited for).

### `Groups`

One group, the tabs of its members and of somebody who is none. `members` is the array, by
place: a `$push` takes the next place, a removal leaves the others' order. A request reads the
document (`AsksToAdd`, `AsksToJoin`, `AsksToLeave`, refused on what it read), writes it (`Pushes`, or
`WritesLeave`, which writes the list as read without the leaver, and the owner only if that
changed, as mongoose does; or deletes it), puts a leaver's sockets out of the room
(`DropsFromRoom`), and answers (`Replies`: `group:updated` to the members of the document in
hand). A tab adds a group it hears of and subscribes (`Updated`); subscribing, like the setup
of a connection, reads and then joins (`ReadsGroup`, `EntersRoom`), or cannot read and stays
outside with the socket up (`ReadFails`). `standing` is what each
user was last told; `crossed`: a leave wrote over another's change; `misled`: tabs whose list
was wrong, that entered the room late or could not read the group, or whose user was added
again before their leaving was over. Renaming, pictures and kinds of message touch none of this.

### `UploadQueue`

`uploadScheduler.ts` with the sender of `useMusicLibrary.ts`. Rows are `items`; `Pump` is
`pump()`, which sends, waits for the limit (`gate`, `timer`) or holds; a try (`tries`) is a
call of `send()`, at "sending", "sent" (every byte is in), "landed" or "refreshing" its token,
and outlives the row it is for (`Drop`) and the session it was begun in (`SessionChanges`,
`era`). `Judge` is `judge`. The ways a try ends are actions: `AnswersOk`, `Limited`, `Refused`,
`Stalls`, `Stopped`, `Unconfirmed`, `CutOff`, `SessionLost`. What the server makes of a file
after the browser has stopped listening is `orphans`. Time is the limit's only: the stall, the
backstop and the linger of a finished row may fire whenever they are armed.

### `PhoneNotices`

The background connection of the Android app. Everything on the phone runs on one worker
thread; a request blocks it (`worker`), and what the socket says meanwhile waits in `inbox`
with the time it was heard. `Opens` ... `LossIsNoticed` are the socket; `HandlesConnect`,
`LoadFails`, `StartsFresh`, `AsksWhatWasMissed`, `ReadsMissed`, `CatchesUp`, `CatchUpFails`
are `onSessionConnected` and `runCatchUp`, `getMissed` included, at each blocking call;
`MovesCursor` is `moveCursor` with `CursorPolicy.advance`, `MarksGap` is `openGap`. The server
creates, writes and sends messages (`Creates`, `Writes`, `Emits`), the first two apart because
`getMissed` reads by a time taken when the message was made. A tick is a `Margin` or less:
`TimePasses` lets nothing grow older than that before it has reached the phone, or never will,
which is what the 30 s are for. Histories: `handled` (shown, or left out by the rules),
`excused` (brought by no catch-up: too old, too many, slipped between the answer's clock and
its queries, or sent before the socket had joined its rooms), `slid` (a change of sign-in
marks no gap, and the cursor moved in one).

### `MessageWindow`

One browser's window of a channel's history (`useMessages.ts`), over the pages of
`historyWindow.ts` (`NewestPage`, `OlderPage`, `NewerPage`, `AroundPage`). A message is its
number. The person opens a channel, loads either way, jumps and sends (`OpensChannel`,
`LoadsOlder`, `LoadsNewer`, `JumpsToMessage`, `JumpsToPresent`, `SendsMessage`, which goes to
the present first); a request is read or written at the server (`Serves`) and its answer is
taken later, or fails (`AnswersNewest` ... `AnswersSend`, `FetchFails`): the page for a channel
no longer on screen is thrown away, but for the newest. Live messages arrive one by one
(`Receives`) on a socket that drops, or rests while the page is hidden, and is taken up again
(`Drops`, `Rests`, `Wakes`, `Connects`), with the catch-up noted at the waking. The catch-up is
asked for when the page hears that it is connected; the server puts the socket in its rooms
some awaits later (`JoinsRooms`), and not at all where its setup fails, which leaves it
"joining" for good. `LoadOver` is
the end of a load of the newest page, `evict` included: the performance level is "light", which
keeps one conversation. `passed` is the newest message that comes over the wire no more;
`lapses` names, per channel, the race that befell its window (section 7). A new load of the
newest page wipes the slate.

### The modules TLC runs

`MCCallLifecycle` and `MCVoiceModeration` name the model values. The others put together
modules that share nothing: in each behaviour one of them moves (`moving`, chosen at the
start) and the others rest in their initial states. The states of such a run are the sum,
not the product, of its parts.

| Module | Parts |
|---|---|
| `MCVoiceRooms` | `VoiceModeration` with one moderator, `MusicRooms`, `MusicChannel`, `VoiceClient` with fairness |
| `MCAccounts` | `Presence`, `Sessions`, `VoiceTokens`, `PhoneNotices` |
| `MCServers` | `ServerRoles`, `ChannelVisibility`, `ServerStructure`, `VoiceServers`, `UploadQueue`, and the questions put to `Permissions` |
| `MCClients` | `VoiceModeration` with two moderators, `VoiceClient`, `Groups`, `MessageWindow` |
| `MCMusicSync` | `MusicSync` alone |

## 4. The runs

| Run | Checks | Instance | Distinct states |
|---|---|---|---|
| `call_dm` | `TypeOK`, `PendingOnlyWhenEmpty`, `CallHasStart`, `ServerKeptThroughCall` | one conversation; Ann on two connections, Bob on one; drain and one restart | 224,664 |
| `call_lines` | `StartOnlyWhileLive`, `ShownOrAnnouncing`, `KeepsPromise` | a conversation and a voice channel; the process may be killed, not drained | 535,948 |
| `call_rooms` | `StatesOfOccupants`, `GraceConcludes`, `OccupancyIsShown` | the same with a background connection, voice states and moderators; fair, no restart | 133,126 |
| `voice_rooms` | `LiveIsStored`, `ClockRunsWhileEmpty`, `LeftIsTunedOut`, `EachEntryOnce`, `AbandonedCloses`, `ConnectingConcludes` | one moderator, three requests and tokens, every call may fail; two people, two calls, three channels, caps of two; a queue and a history of two, five songs; one tab, two calls, two attempts, two presses, two faults; fair | 713,274 |
| `music_sync` | `HeardIsShown`, `PausedIsHeld`, `PressesConclude` | three songs, queue and history of one, two presses, one fault; fair | 378,381 |
| `accounts` | `ShownIsEffective`, `SignedOutStaysOut`, `CookieNamesRow`, `TogetherUnlessApart`, `NothingLost` | two tabs and three events; two devices, two sids, one change of password, five days, two requests at once; three people, two media servers, three mints, a limit of one; a phone, two messages, two ticks, a margin and a window of one, one message a conversation, one fault | 3,054,780 |
| `servers` | `ReferencesLive`, `ResolvesByPrecedence`, `NothingFromNowhere`, `RoomsFollow`, `SidebarFollows`, `SomewhereToTalk`, `OrderHolds`, `CacheFollows`, `OneDefault`, `UploadsGoOn`, `OneCopyEach` | two members, two roles, two requests; three changes of who sees a channel; three channels, three categories, three requests; four entries, five edits; two files, two changes of session, two connections lost after the last byte, waits of two | 2,768,745 |
| `clients` | `WithinPermits`, `InOneCall`, `AnswersStand`, `GroupRoomFollows`, `WindowSound` | two moderators, one of whom may only mute, two requests, one token; one tab, two calls, two attempts, three presses, two faults; a group of at most two, three people, three tabs, three requests, one lost connection; two channels, one of four messages, pages of three, two fetches, three moves | 2,943,474 |
| `late_join`, `overlap`, `told_muted`, `cancelled_join` | one property each, violated: section 7 | as small as the counterexample allows | |

Why the bounds suffice. In the call runs two people, one of them on two connections (a
reconnect or a second tab), let an old connection race a new one of the same user while
somebody else keeps, or does not keep, the call alive; `MaxRequests = 3` allows a join, a
rejoin and one more entry in every order, `MaxRestarts = 1` one crash with everything that
was in flight; a socket id is used once. In the moderation runs three requests and three
tokens let one request undo another with a token of each age in hand (with two moderators
one token does: `PermitsKept` holds of any number). A queue of two and a
history of two fill and overflow with five songs. In `music_sync` one fault is enough to put
the two sides apart at every point, and two presses to queue one behind the other. In
`accounts` two requests at once are every race of two handlers; a third tab or device adds
another copy of the same race. In `servers` two stale requests are weighed against each
other; three changes let a refresh be overtaken twice. In `clients` three presses are a
join, a switch and a leave in any order, with two of everything that can go wrong (in
`voice_rooms`, where the same tab is checked for liveness, two presses are: an attempt and
what takes its place or leaves it, with an attempt and its retry failing); three
requests are two leaves and an addition between them, with a tab left over to be told. Four
messages behind a page of three are a window with more above it, and after an absence one with
more below; two fetches overlap, and the third move posts, drops or fails under them; a page
of fewer than three leaves out a side around a message without looking
(`historyWindow.ts:53`). Two files are one on its way and one behind it, with two of whatever
can go wrong; what is true of more files is proved. On the phone two ticks, with a
margin of one, are a packet heard, a silence and a cursor that could pass it; the excuses
that take two faults were found reachable with two.

What the passing runs show:

* However joins, drops, rejoins, timers and moderators interleave, no room with somebody
  in it is waiting to be declared over (the second test inside the timer is never
  needed), a call keeps its start from its first occupant to the end of its grace
  period, and the media server it settled on is let go of only with the call. The
  conversation reads "started" when a join begins a call and at no other time, and "ended"
  once (`KeepsPromise`), and what was last broadcast is the occupancy, except while a
  `call:join` writes its line.
* With one moderator at work, once the requests are answered the participant may do
  exactly what is stored, unless they came in on an older token or the moderator was
  told that nothing was done. With any number, nothing the channel denies is given back.
* A music channel holds every song added in one place until a full history drops it, its clock runs exactly
  while nobody listens, and what is heard is what is shown as soon as everything sent has
  been dealt with and no fault is outstanding.
* A friend is shown what the choice, the connections and the idleness make it; a device
  signed out before it asked gets nothing; everybody in a call is on one media server:
  each but for what its history excuses.
* No role carries a permission the owner never handed out; what refers to a member, a
  role, a category or a voice server refers to one there is; rooms, sidebars and caches
  follow the permissions and the structure once all is told.
* A tab at rest holds one session, in one call, and the server lists it there but for what
  reached it out of order (`overtaken`).
* Members of a group are whom the answers say, its room holds their connections: until a
  leave writes over another's change, and but for tabs that were late.
* A batch of uploads never stands still without a timer, a hold or a try, whatever is dropped
  and when; a file lands once, in the library of who added it.
* The phone's cursor never passes a message that was neither shown nor excused.
* A window of history shows nothing twice; once all is answered it has no hole, if live ends in
  the newest message, and what is older can be asked for: but for the races of `lapses`.

The type invariants of the modules put together are in no run: what they say of the state is
implied by, or of no use to, the properties checked there; the types a proof needs are
proved as parts of the inductive invariants, as are `OccupantHasSeat`, `OneChannelEach` and
`QueueBounded`, which no run repeats. `NothingWaits` and `PausedHasSong` of `MusicChannel` are parts of its inductive
invariant and are proved.

Deadlock is checked in the three call runs. The other configurations switch it off: where
the bounds are used up and nobody is connected, the system rests.

## 5. Fairness

`CallLifecycle!FairSpec` asks for weak fairness of each room's end timer and of each
socket's waiting handlers: Node fires armed timers and resumes answered awaits, and the
code arms a timer for every room it leaves in its grace period. Nothing is asked of
people, connections, moderators or the process. This excludes a membership check or a
system line's write that never answers; if the write *fails*, the code never broadcasts,
and `OccupancyIsShown` does not hold of it (`chatSocket.ts:1606`).
`VoiceModeration!FairSpec` says that every request gets its answers, if only failures.

`MusicRooms!FairRoomsSpec`: the grace timers fire; members listen, leave and close as they
please. `MusicSync!FairSyncSpec`: neither process stops for good, so that handlers go on
and what is asked is answered or times out, and the loop that holds a song runs out
(`RESYNC_FOR_MS`). `VoiceClient!FairClientSpec`:
requests, connects and closes are answered (the media client gives up on its own), the
browser's question about the microphone is, and timers run; presses, drops and moves are
free. A sum states the fairness of its parts again, as that of the part's actions while it
is the one that moves.

## 6. The proofs

Eight modules hold theorems. TLAPS checks them for every set of users, connections, tabs,
calls, rooms, media servers, moderators, channels, devices, sids, permissions, roles, members,
categories, entries and files, and every bound. They assume the assumption of the module they
are about (`CallAssumption`, `ModerationAssumption`, `TokensAssumption`, `RoomsAssumption`,
`ChannelAssumption`, `SessionsAssumption`, `RolesAssumption`, `StructureAssumption`,
`GroupsAssumption`, `VoiceClientAssumption`, `PhoneAssumption`, ...): the types of the
constants, that "no choice" is no media server, that a cookie is renewed before it ends, that a
server starts with a category. TLC evaluates each on its instances. Each history is a
hypothesis of the property it excuses, never of the theorem.

**The call** (`CallLifecycle_proofs`). `TypeCorrect` comes first. `PendingOnlyWhenEmpty`,
`CallHasStart`, `StartOnlyWhileLive` and `StatesOfOccupants` are then proved together as
`CallInv`, because they hold each other up: a hang-up releases the room's start, which keeps
`CallHasStart` only if the room is empty *and* nothing is pending in it; nothing is
pending because somebody was in it a step ago (`PendingOnlyWhenEmpty`); and the timer
may release the start because its room is empty. Two lemmas carry the argument,
`TakeSeatCall` for the two ways in and `ReleaseCall` for the two ways out that end a
call on the spot. `OccupantsAreSeated` is inductive with the types alone, but needs
`UnseatKeepsOthers`: a connection gives up one seat and keeps the others.
`ShownOrAnnouncing` is inductive too (`ShownIsTrue`): every step that changes a room's
occupants broadcasts it or leaves a handler that will.
`ServerKeptThroughCall` follows from `CallInv` step by step: whatever lets go of a media
server is a release, and a release leaves its room empty and nothing pending.

**The promise** (`CallPromise_proofs`). `PromiseIsKept` proves that `CallLifecycle` implements
`CallSpec` in a process that may be killed at any moment but is never drained
(`MayShutDown = FALSE`). Then `LiveInv` (`CallInv`, and the process is up) makes
`callStartedAt` exactly the rooms that are occupied or in their grace period, `Entry` and
`Exit` map the ways in and out to `Begin`, `Enter`, `Leave` and `End`, and every other step
leaves a room as it was. What ties a handler to the request it answers, and so a line to a
join, is that two waiting handlers with the same request are one (`AskedIsOfItsHandler`,
`Answered`). The drain is left out because there the theorem is false:
`cancelAllCallEnds` leaves starts behind, on purpose, and section 7 shows the rest.

**Moderation** (`VoiceModeration_proofs`). `PermitsKept` needs one strengthening, that the
tokens not yet used are within the channel's permissions too, and then follows from
`GrantShrinks`: a restriction only ever takes away. `OneModeratorAgrees` (one moderator: a
hypothesis of the theorem) uses `OneInv`, which follows a request: from "stored" on, what is
stored is what the request is about to enforce; unused tokens agree with the rows or are
old; the participant agrees until the pull and again after an eviction.

**Tokens** (`Accounts_proofs`). `Together` follows from `TokensInv`: as long as nothing has
parted the call, a choice is kept while anybody is in it, and whoever holds a token not yet
used, or is in the call and not told to move, is on the server kept. The request in flight
is the delicate part: it remembers the choice it read (`AsksForKept`), and `apart` is set
exactly when that is no longer the one.

**Music** (`MusicRooms_proofs`, `MusicChannel_proofs`). `RoomsInv` adds to the three properties
that a channel is in one call and its id was used once, and that nobody listens to a channel
that is gone; without the first, tuning somebody out of one call could start the clock of
another's channel. `TuningOut` is the step every way out shares. `ChannelInv` says that an
entry is in one place: the queue and the history have no duplicates, are disjoint, do not
hold the song that plays, hold nothing that was not added (so the next entry is new), and
leave out of what was added only what a full history dropped (`forgotten`).
Its lemmas say what taking the head, appending, putting in front, dropping the last and
removing one at a place do to the entries of a sequence, which is all the operations do.

**Sessions** (`Accounts_proofs`). `SignedOutGetsNothing` needs to know how far the refresh of a
device that was signed out can get (`DeadStops`): to the read of its row, and no further,
since the row is gone and *never comes back* (`RowsNotSignedOut`). That in turn needs every
sid to be made once and, while its row is yet to be written, known to nobody else
(`StartsAlone`), so that no sign-out can name it; and that versions only grow
(`VersionsBehind`), so that a cookie of another version is of an older one.
`CookiesHaveRows` adds `CookieRows`: the row of a cookie, in a jar or on its way, ends no
earlier than the cookie. A renewal moves the row's end before it sets the cookie; a day that
passes removes a row only when its cookies have ended too.

**Presence** (`Accounts_proofs`). `OthersAreShownWhatHolds` needs one strengthening,
`RightOrToBeSaid`: an audience that is not astray is shown what is due, or some handler is yet
to send. `DueStays` says when what is due cannot have changed; every step that changes it
leaves such a handler behind, whoever sends to everybody leaves each right or astray
(`SentIsRight`), and a handler that fails leaves astray whoever is not shown what is due.

**The phone** (`Accounts_proofs`). `NothingBeforeTheCursorIsLost` follows from `PhoneInv`. The
cursor may follow a packet because of what a packet vouches for: what was sent and is neither
shown, excused nor queued (`Lost`) was created no earlier than a margin before any packet that
was heard, or is to be (`Unvouched`, `GoneWhenMissed`). So a phone that says it has caught
up misses nothing while its socket is up, and moving the cursor passes nothing (`CursorMoves`).
That is true of a new socket because one is opened only by a phone that does not say so, or by
one whose sign-in changed, which is the history `slid` (`OneSocket`). An answer that is waited
for brings all that had been sent when it was read and all that was made before its `now`
(`AnswerCovers`): that is why it may be taken however late, and why the message still being
written has to be excused. Every way a socket is closed is one lemma, `SocketCloses`.

**Servers** (`Servers_proofs`). The parts of `MCServers` share nothing, so `ServersInv` is the
conjunction of one invariant each, and a step of one part leaves the others' alone.

* *Resolution.* `PrecedenceResolves` is about the operators alone: `RankDecides` shows that one
  rank of overwrites says of each permission what its verdict says, `LayerDecides` puts a
  rank on top of what is below, `ResolveDecides` stacks the layers.
* *Grants.* `NothingFromNowhere` needs what a request in flight will write: one let through
  (`Handing`) writes only bits that were handed out, because what it was weighed by was, and
  `handed` only grows. `ActorsHold` says so of every actor but the owner.
* *References.* A request to give roles names a member and roles there are, or that went since
  it asked (`Assigning`); a role that was deleted stays in rows only until its request has taken
  it off. For a channel's voice server `PointersInv` says that the pointer lives, or is one a
  deletion has yet to clear.
* *The default.* A request that moves the default meets no other, or `contended` is set; alone,
  it finds at each await what it left at the one before (`DefaultReady`): nobody's, its own, or
  the one there was. "The oldest is promoted" needs that the least of a set of ages is there
  (`LeastIs`), an induction over a bounded set of numbers done by well-foundedness.
* *The lock.* `LockInv`: only the first in the queue has begun, and ids are unique, so whoever
  lets go lets go of their own place. Then what the first has looked at still holds when it writes
  (`FirstReady`): the parent is there, the category is empty, another text channel is there.
  That is why one text channel is always left, and why no channel names a category that is gone.
* *The order.* `TreeInv` says that whoever has the lock and has read will write places that are
  one above another, of channels still in the bucket (`OrderReady`), so that what is put in front
  comes lower (`AnOrderHolds`). That the places are distinct though the stored ones may not be is
  a fact about `slotsFor`, and the reason why `SlotsFor` is written in closed form, as a maximum
  that grows by one at least from a place to the next.
* *The cache.* Whatever a client does not draw as it is stored, the holder of the lock, an event
  or a refetch on its way is to mend, or the last word on it was stale or failed (`Drawn`,
  `CacheSeenTo`). A refetch whose answer has been read mends nothing any more.
* *Rooms and sidebars.* `VisibilityInv` says the same of a socket that is not where it belongs
  (`RoomSeenTo`) and of a list that is not what it should be (`ListSeenTo`): some handler at an
  await will move it, or tell, given what it has read so far. A handler that has read what no
  longer holds is no such handler, and marks the move it makes as astray; so does one that fails.
* *Uploads.* `UploadInv` partitions the rows into waiting, under way and done (`Lined`), ties
  every try that was not stopped to the row that says so and to this session, and says that
  what has landed waits no more (`Copied`), which makes a second copy impossible short of a
  lost connection. `PumpKeeps` is proved once, for the `pump()` every way on ends with;
  `AnsweredKeeps` for every way a try ends.

**Groups** (`Clients_proofs`). `MembersStand` is what a leave that writes over another's change
breaks, and nothing else does: the owner is a member, and the members are whom the answers say.
`LeastPlace` finds the heir a leave needs, in an array of which places are gone. `TabsSeenTo`
says that a tab in the room, or with the group in its list, whose user is out, is about to be
put out; and that one not in the room, whose user is in, is about to get there or be told.

**The tab** (`Clients_proofs`). `TheTabIsInOneCall` follows from `ClientInv`: as long as nothing
was late, the attempt that counts finds the tab in no call but its own (`LatestAlone`), a retry
that is armed is for the active call, if any, and meets no session (`RetryAlone`), LiveKit
holds nothing but the tab's room (`OneSession`), and once the server has heard all that was sent it
lists the tab in the active call alone (`ListedOnce`: in what it lists and what waits for
`canJoinCall` together, until something overtook). `EmitsLists` is what makes the last
independent of the socket: messages held back while it is down leave the tab listed as if they
had been heard at once. `JoiningNumbers` numbers apart the attempts that a closing session sets off.

Only model-checked:

* liveness (`GraceConcludes`, `OccupancyIsShown`, `AbandonedCloses`, `PressesConclude`,
  `ConnectingConcludes`), which is beyond the prover;
* `WindowSound`: what a window holds is built by filtering pages out of sequences and folding
  missed messages into them (`SelectSeq`, `FoldLeft`), which are recursive, and what they return
  for every list is an induction the provers cannot instantiate;
* `HeardIsShown` and `PausedIsHeld`: what the requests on the wire will leave the service with is
  a fold over a sequence whose members undo one another (a close, a play, a hold), and `adrift`
  is reset when the two sides meet again, so that the invariant has to describe every state they
  can be apart in. It is not written.

## 7. Where the code and its comments disagree

Four runs end in a counterexample, on purpose: the comment is the property.

| Run | Comment | What happens |
|---|---|---|
| `late_join` | "Drop out of any calls this socket was in so presence doesn't go stale." (`chatSocket.ts:2006`) | the socket goes while its `call:join` awaits the membership check; `disconnect` has run, and the handler then seats a connection that nothing will take out |
| `overlap` | "`call:rejoin` puts them back within seconds" (`:455`) | the new connection rejoins before the server notices that the old one is gone; the old one's `disconnect` takes the user out, nothing rejoins, and the timer writes "Call ended" under a call that goes on |
| `told_muted` | "What must never happen is a moderator being told someone is muted while they are still talking." (`voiceModeration.ts:24`) | the occupancy does not list somebody who is connected to the media server and has not yet sent `call:join`, or whose socket has just dropped: the answer is `absent`, told as success |
| `cancelled_join` | "a join cancelled meanwhile must stay cancelled, as with the connect above." (`useVoice.ts:1240`) | only the branch for a phone's prompt looks again; a leave pressed while the microphone is being published is undone when that answers, and the tab tells the server it is in the call |

The following are reachable in the models and have no run of their own. A property that
passes says, by naming the history, that it does not claim them away.

* `call:join` into a second channel after a moderator's disconnect: the old room is still
  first in the socket's set, and reports from the next channel are dropped
  (`chatSocket.ts:1546`, "The one voice room this socket is actually in"). Two tabs of one
  person may be in two voice channels, against "One room per user by construction" (`:572`).
* `cancelAllCallEnds` runs once; a socket that drops later in the drain arms a new timer,
  which may fire (`:779`).
* Two moderators: pull, pull, push, push leaves two rows
  (`voiceModerationController.ts:168`, "a retry cannot produce two rows for one member");
  the flag a request does not change is written back as it was read (`:110`). A token minted
  between the pull and the push carries no restriction although one was in force before and
  after.
* Two tokens for the last place: the limit is tested when a token is minted
  (`voiceController.ts:154`) and used up by `call:join`.
* The default voice server is cleared on the others before the write that may be refused:
  a server may be left with entries and no default (`contended`,
  `voiceServersController.ts:142`).
* A rename announces the channel as it was loaded, after a move has announced it elsewhere
  (`echoed`, `channelsController.ts:335`).
* The row of a session whose cookie was issued anew by a change of password ends before the
  cookie does (`reissued`, `usersController.ts:428`).
* Who is disconnected by a moderator goes on listening to the music of the call
  (`evicted`, `chatSocket.ts:804`).
* An answer to an older request for a token writes its permits over those of a newer one,
  since they are written before the number is compared (`misread`, `useVoice.ts:1185-1199`).
* A call that replaces another and then cannot be reached leaves the server listing the tab
  in the first; a session that drops while the microphone is being published, and a leave
  that cleans up under an attempt begun meanwhile, leave the tab half in (`late`).
* Two people leave a group at once: each writes the list they read, without themselves, so the
  first is back in, and may be left an owner who is no member (`crossed`,
  `conversationsController.ts:494`; :506, "so the group never ends up ownerless").
* The other tabs of somebody who left a group keep it: `group:updated` goes to those who
  remain (`misled`), and "We were removed — close group view" (`ChatApp.vue:2772`) is not
  reached. A subscription that had read the document enters the room after they have left.
* A connection lost after the last byte of an upload, where the browser says so, is status 0,
  holds the batch and sends the file again; the first copy lands too (`cutOff`,
  `useMusicLibrary.ts:234`; :143, "a second copy would land beside the first").
* A message created before the answer's clock and written after its queries is in no catch-up:
  "everything before it was in the answer" (`NotifyService.kt:639`) holds only as far as the
  socket delivers it. So is one sent to a group or channel before the socket has joined it
  (`excused`; `CursorPolicy.kt:6`, "everything before this has been shown").
* A change of sign-in restarts the phone's connection without marking the gap that a change of
  network marks (`NotifyService.kt:514`, `:592`): if the account then cannot be loaded and the
  server is switched, the cursor moves over it (`slid`).
* A window of history keeps a hole, or ends short of what is newest, by `lapses`: a page is
  read before what arrives first (`overtaken`); it continues a window that has been replaced
  (`misplaced`), or closes one that has gone live (`misfit`); a message of one's own is added
  below a window that has moved meanwhile (`misfit`); the socket goes with a message on its way
  while a later one is shown (`outrun`); it comes back to a live window for which no catch-up
  was noted, as after a loss that was no rest, or the catch-up's page is read before the server
  has put the new socket in the channel's room, and a message is written between the two
  (`reconnected`; the phone's race is the same); a page fails (`failed`). At the
  level "light" a channel that finishes opening after the person has moved on is taken
  for the one on screen, and that one is dropped (`evicted`, `useMessages.ts:221`, "The
  conversation on screen is never touched").
* In `ServerStructure`, a channel's event that comes between the reading of a refetch and its
  answer is wiped by it, and nobody asks again (`echoed`, `useServers.ts:616`).
* In `VoiceClient`, the two runs of occupancy from the tab's end: a join refused or slow to be let through, and
  a lost socket noticed after the tab is back, leave the server listing the tab in no call,
  or in one it has left, with nothing to tell it (`overtaken`).
* The setup of a connection that fails (`chatSocket.ts:2137`, "A failed setup must not take the
  connection down") leaves a socket that hears nothing of its channels and groups and has
  announced nobody (`roomAstray`, `misled`, `astray`). A disconnect whose lookup fails leaves
  the person shown as online (`astray`, :2022).
* The music service and the API are out of step after a restart, a request that was lost or
  answered too late, a hold that ran out, and where the end of one song is taken for the end
  of the song that replaced it (`adrift`); the next play puts them right.

## 8. What is not modelled

* `call:decline`: it notifies and changes nothing.
* The order in which two system lines reach MongoDB; the decision to write them is
  ordered, the writes are not awaited.
* More than one API process: the code says throughout that its state is per process.
* Of messages, editing, reactions, pins and slow mode; users,
  friendships, gifs and search: queries and single-document writes, which MongoDB orders.
* The test call to a media server, the signing of track capabilities, the mailing of codes,
  decoding and encoding of audio: input and output with no state that outlives the call.
* The views of the web client: rendering and styling. Of its state, what follows the
  server by replacing what it holds with what it is sent.
* Of the Android client, which messages notify and how (mutes, Do Not Disturb, what is in
  front: a message left out by them counts as handled), ringing, an older server without a
  catch-up, a second server's cursor, and errors of the phone's estimate of the server's clock.
* Of the music library, the check and conversion of a file (it lands or it fails), storage
  caps, which are tested and then used, playlists and links.
* The desktop client and the deployment scripts: platform glue around windows, an updater
  and containers.
* The landing page, documentation, brand and generated assets have no behaviour.
