------------------------------- MODULE MusicSync ------------------------------
(***************************************************************************)
(* One music channel and the music service that plays it: the handlers of  *)
(* server/sockets/chatSocket.ts that tell the service what the channel of  *)
(* MusicChannel now does, server/utils/musicService.ts, and the service's  *)
(* music/src/server.ts and publisher.ts.                                   *)
(*                                                                         *)
(* The API answers its members before the service has heard of anything:   *)
(* plays and closes are sent without waiting, songs are fetched while the  *)
(* outgoing one plays on, ends come back by a callback that names no song, *)
(* and only pausing and resuming ask first, one press at a time.           *)
(*                                                                         *)
(* Abstracted: a request is a message on `wire`; a play is numbered when   *)
(* it is sent; audio, decoding and positions are a head with the mark of   *)
(* the point it was started from; a request that fails is one the service  *)
(* never saw, or whose answer came too late.                               *)
(***************************************************************************)
EXTENDS MusicChannel, FiniteSets, SequencesExt

CONSTANTS
    MaxPresses,     \* bound: presses of Pause and Resume
    MaxFaults       \* bound: restarts, requests that fail, tracks slow to open

VARIABLES
    wire,       \* requests on their way to the service, in the order sent
    plays,      \* plays sent so far
    line,       \* presses waiting for the one before them: musicToggles
    toggle,     \* the press being served
    loop,       \* the resync loop: resyncLoops, holdOnceStarted
    loops,      \* resyncSeq
    presses, faults,
    track,      \* the service: whether the channel's track is published
    opening,    \* play requests awaiting pub.open
    fetching,   \* plays whose song is being fetched: starting
    latest,     \* the play that claimed the channel last
    head,       \* the song playing, or Silence
    ends,       \* callbacks on their way back: the songs that ended
    adrift      \* history: something is known to have put the two out of line

api     == <<line, toggle, loop, loops, presses>>
service == <<track, opening, fetching, latest, head>>
musicSync    == <<channel, wire, plays, api, faults, service, ends, adrift>>

Play  == [n : Nat, song : Entry, mark : Nat, asked : BOOLEAN]
Idle  == [at |-> "idle"]
None  == [at |-> "none"]
Held(h) == h # Silence /\ h.held

SyncTypeOK ==
    /\ ChannelTypeOK
    /\ \A i \in DOMAIN wire :
          wire[i].do \in {"play", "close", "pause", "resume", "hold", "release"}
    /\ line \in Seq({"pause", "resume"})
    /\ toggle.at \in {"idle", "pausing", "resuming", "starting",
                      "held", "released", "notHeld", "started", "failed"}
    /\ loop.at \in {"none", "due", "asked"}
    /\ opening \subseteq Play /\ fetching \subseteq Play
    /\ track \in BOOLEAN /\ adrift \in BOOLEAN
    /\ latest \in Nat /\ plays \in Nat
    /\ head # Silence => head.song \in Entry /\ head.held \in BOOLEAN
    /\ ends \subseteq Play

PlayMsg(song, m, asked) ==
    [do |-> "play", play |-> [n |-> plays + 1, song |-> song, mark |-> m, asked |-> asked]]

\* startSource of what the channel now plays, if anything.
StartsNow ==
    IF now' = Silence THEN UNCHANGED <<wire, plays>>
    ELSE /\ wire' = Append(wire, PlayMsg(now', mark', FALSE))
         /\ plays' = plays + 1

SyncInit ==
    /\ ChannelInit
    /\ wire = <<[do |-> "play", play |-> [n |-> 1, song |-> 1, mark |-> 1, asked |-> FALSE]]>>
    /\ plays = 1
    /\ line = <<>> /\ toggle = Idle /\ loop = None
    /\ loops = 0 /\ presses = 0 /\ faults = 0
    /\ track = FALSE /\ opening = {} /\ fetching = {}
    /\ latest = 0 /\ head = Silence
    /\ ends = {} /\ adrift = FALSE

-----------------------------------------------------------------------------
(* Members: music:skip, music:queue, music:seek, music:previous, ... *)

\* A skip past the last song closes the service's half of the channel.
MemberSkips ==
    /\ Skip
    /\ IF now' = Silence
       THEN wire' = Append(wire, [do |-> "close"]) /\ UNCHANGED plays
       ELSE StartsNow
    /\ UNCHANGED <<api, faults, service, ends, adrift>>

MemberQueues ==
    /\ Enqueue
    /\ IF now = Silence THEN StartsNow ELSE UNCHANGED <<wire, plays>>
    /\ UNCHANGED <<api, faults, service, ends, adrift>>

\* Paused, nothing is sent: resume starts the song at the new point.
MemberSeeks ==
    /\ Seek
    /\ IF paused THEN UNCHANGED <<wire, plays>> ELSE StartsNow
    /\ UNCHANGED <<api, faults, service, ends, adrift>>

\* music:previous and music:play-now.
MemberStarts ==
    /\ Start
    /\ StartsNow
    /\ UNCHANGED <<api, faults, service, ends, adrift>>

ChannelCloses ==
    /\ Close
    /\ wire' = Append(wire, [do |-> "close"])
    /\ UNCHANGED <<plays, api, faults, service, ends, adrift>>

-----------------------------------------------------------------------------
(* Pause and resume: pauseMusic, resumeMusic, oneAtATime. *)

Press(what) ==
    /\ presses < MaxPresses /\ presses' = presses + 1
    /\ line' = Append(line, what)
    /\ UNCHANGED <<channel, wire, plays, toggle, loop, loops, faults, service, ends, adrift>>

Ticket == <<now, mark, paused>>
Asks(at) == toggle' = [at |-> at, ticket |-> Ticket, song |-> now]
Done     == toggle' = Idle

\* The next press looks at the channel as it is now.
Serve ==
    /\ toggle.at = "idle" /\ line # <<>>
    /\ line' = Tail(line)
    /\ IF ~open \/ now = Silence \/ paused = (Head(line) = "pause")
       THEN UNCHANGED <<toggle, wire, plays>>
       ELSE IF Head(line) = "pause"
       THEN Asks("pausing") /\ wire' = Append(wire, [do |-> "pause"]) /\ UNCHANGED plays
       ELSE IF moved
       THEN /\ Asks("starting")
            /\ wire' = Append(wire, PlayMsg(now, mark, TRUE)) /\ plays' = plays + 1
       ELSE Asks("resuming") /\ wire' = Append(wire, [do |-> "resume"]) /\ UNCHANGED plays
    /\ UNCHANGED <<channel, loop, loops, presses, faults, service, ends, adrift>>

\* resyncMusic: the loop before ends, and the service is told what the room says.
Resync ==
    /\ loops' = loops + 1
    /\ IF open /\ now # Silence /\ paused
       THEN /\ loop' = [at |-> "due", id |-> loops', song |-> now, late |-> FALSE]
            /\ UNCHANGED wire
       ELSE /\ loop' = None
            /\ wire' = IF open /\ now # Silence
                       THEN Append(wire, [do |-> "release"]) ELSE wire

\* The answer to a pause, and the commit: refused if the song moved meanwhile.
CommitPause ==
    /\ toggle.at = "held"
    /\ IF open /\ toggle.ticket = Ticket
       THEN Pause /\ UNCHANGED <<wire, loop, loops>>
       ELSE Resync /\ UNCHANGED channel
    /\ Done
    /\ UNCHANGED <<plays, line, presses, faults, service, ends, adrift>>

CommitResume ==
    /\ toggle.at \in {"released", "started"}
    /\ IF open /\ toggle.ticket = Ticket
       THEN Resume /\ UNCHANGED <<wire, loop, loops>>
       ELSE Resync /\ UNCHANGED channel
    /\ Done
    /\ UNCHANGED <<plays, line, presses, faults, service, ends, adrift>>

\* The service holds nothing: the song starts again where it froze, unless the
\* room has moved on.  A pause that found nothing is a refusal.
NotHeld ==
    /\ toggle.at = "notHeld"
    /\ IF toggle.ticket[3] /\ open /\ toggle.ticket = Ticket
       THEN /\ toggle' = [toggle EXCEPT !.at = "starting"]
            /\ wire' = Append(wire, PlayMsg(toggle.song, toggle.ticket[2], TRUE))
            /\ plays' = plays + 1
       ELSE Done /\ UNCHANGED <<wire, plays>>
    /\ UNCHANGED <<channel, line, loop, loops, presses, faults, service, ends, adrift>>

ToggleFails ==
    /\ toggle.at = "failed"
    /\ Done
    /\ UNCHANGED <<channel, wire, plays, line, loop, loops, presses, faults, service, ends, adrift>>

\* holdOnceStarted: ask again while this is still the loop and the song is
\* still paused.
LoopTries ==
    /\ loop.at = "due"
    /\ IF open /\ paused /\ now = loop.song
       THEN /\ loop' = [loop EXCEPT !.at = "asked"]
            /\ wire' = Append(wire, [do |-> "hold", id |-> loop.id])
       ELSE loop' = None /\ UNCHANGED wire
    /\ UNCHANGED <<channel, plays, line, toggle, loops, presses, faults, service, ends, adrift>>

\* RESYNC_FOR_MS: the next answer is the last one asked for.
LoopRunsLate ==
    /\ loop # None /\ ~loop.late
    /\ loop' = [loop EXCEPT !.late = TRUE]
    /\ UNCHANGED <<channel, wire, plays, line, toggle, loops, presses, faults, service, ends, adrift>>

-----------------------------------------------------------------------------
(* The service, which takes requests in the order they were sent. *)

\* cue and claim, and the answer: the song is fetched in the background.
Claims(p) ==
    /\ track' = TRUE
    /\ fetching' = fetching \cup {p}
    /\ latest' = p.n
    /\ toggle' = IF p.asked THEN [toggle EXCEPT !.at = "started"] ELSE toggle

TakePlay ==
    /\ wire # <<>> /\ Head(wire).do = "play"
    /\ wire' = Tail(wire)
    /\ Claims(Head(wire).play)
    /\ UNCHANGED <<channel, plays, line, loop, loops, presses, faults, opening, head, ends, adrift>>

\* pub.open takes its time, which it can only for a track that is not there yet.
TakePlaySlowly ==
    /\ faults < MaxFaults /\ faults' = faults + 1
    /\ wire # <<>> /\ Head(wire).do = "play" /\ ~track
    /\ wire' = Tail(wire)
    /\ opening' = opening \cup {Head(wire).play}
    /\ UNCHANGED <<channel, plays, api, track, fetching, latest, head, ends, adrift>>

\* The channel's track is published, which nothing waits for but this play: one
\* sent later may have been there before it, and then is the one forgotten.
Opened(p) ==
    /\ p \in opening /\ opening' = opening \ {p}
    /\ Claims(p)
    /\ adrift' = (adrift \/ p.n < latest)
    /\ UNCHANGED <<channel, wire, plays, line, loop, loops, presses, faults, head, ends>>

\* A close overtakes a play whose track is being published: it closes nothing.
TakeClose ==
    /\ wire # <<>> /\ Head(wire).do = "close"
    /\ wire' = Tail(wire)
    /\ latest' = 0 /\ track' = FALSE /\ head' = Silence
    /\ adrift' = (adrift \/ opening # {})
    /\ UNCHANGED <<channel, plays, api, faults, opening, fetching, ends>>

\* Nothing is held while a song is on its way in.
HoldsAnyway == head # Silence

Holds == fetching = {} /\ head # Silence

\* A play still publishing its track is not on its way in yet: what is held is
\* the song it replaces.
HoldsTooEarly == Holds /\ opening # {}

TakePauseUnanswered ==
    /\ wire # <<>> /\ Head(wire).do = "pause"
    /\ wire' = Tail(wire)
    /\ toggle' = IF Holds THEN [toggle EXCEPT !.at = "held"] ELSE toggle
    /\ head' = IF Holds THEN [head EXCEPT !.held = TRUE] ELSE head
    /\ UNCHANGED <<channel, plays, line, loop, loops, presses, faults,
                   track, opening, fetching, latest, ends, adrift>>

TakePause ==
    /\ wire # <<>> /\ Head(wire).do = "pause"
    /\ wire' = Tail(wire)
    /\ toggle' = [toggle EXCEPT !.at = IF Holds THEN "held" ELSE "notHeld"]
    /\ head' = IF Holds THEN [head EXCEPT !.held = TRUE] ELSE head
    /\ adrift' = (adrift \/ HoldsTooEarly)
    /\ UNCHANGED <<channel, plays, line, loop, loops, presses, faults,
                   track, opening, fetching, latest, ends>>

\* The answer reaches the loop that asked, if it is still the latest.
TakeHold ==
    /\ wire # <<>> /\ Head(wire).do = "hold"
    /\ wire' = Tail(wire)
    /\ head' = IF Holds THEN [head EXCEPT !.held = TRUE] ELSE head
    /\ IF loop = None \/ loop.id # Head(wire).id THEN UNCHANGED <<loop, adrift>>
       ELSE IF Holds \/ loop.late
       THEN loop' = None /\ adrift' = (adrift \/ ~Holds \/ HoldsTooEarly)
       ELSE loop' = [loop EXCEPT !.at = "due"] /\ UNCHANGED adrift
    /\ UNCHANGED <<channel, plays, line, toggle, loops, presses, faults,
                   track, opening, fetching, latest, ends>>

\* resume, of a press or of a resync, which does not wait for the answer.
TakeResume ==
    /\ wire # <<>> /\ Head(wire).do \in {"resume", "release"}
    /\ wire' = Tail(wire)
    /\ head' = IF head = Silence THEN head ELSE [head EXCEPT !.held = FALSE]
    /\ toggle' = IF Head(wire).do = "release" THEN toggle
                 ELSE [toggle EXCEPT !.at = IF head = Silence THEN "notHeld" ELSE "released"]
    /\ UNCHANGED <<channel, plays, line, loop, loops, presses, faults,
                   track, opening, fetching, latest, ends, adrift>>

\* The last play sent, wanted by a room that plays and is not about to pause.
Realigns(p) ==
    open /\ p.n = plays /\ (paused => toggle.at = "started") /\ toggle.at # "held"

FetchedInAnyOrder(p) ==
    /\ p \in fetching /\ fetching' = fetching \ {p}
    /\ head' = [n |-> p.n, song |-> p.song, mark |-> p.mark, held |-> FALSE]
    /\ adrift' = (adrift /\ ~Realigns(p))
    /\ UNCHANGED <<channel, wire, plays, api, faults, track, opening, latest, ends>>

\* The song arrives: it replaces what plays, unless a newer play or a close came.
Fetched(p) ==
    /\ p \in fetching /\ fetching' = fetching \ {p}
    /\ IF p.n = latest
       THEN /\ head' = [n |-> p.n, song |-> p.song, mark |-> p.mark, held |-> FALSE]
            /\ adrift' = (adrift /\ ~Realigns(p))
       ELSE UNCHANGED <<head, adrift>>
    /\ UNCHANGED <<channel, wire, plays, api, faults, track, opening, latest, ends>>

\* Nothing to play: reported as an end, while what played before plays on.
FetchFails(p) ==
    /\ faults < MaxFaults /\ faults' = faults + 1
    /\ p \in fetching /\ fetching' = fetching \ {p}
    /\ IF p.n = latest
       THEN ends' = ends \cup {p} /\ adrift' = (adrift \/ head # Silence)
       ELSE UNCHANGED <<ends, adrift>>
    /\ UNCHANGED <<channel, wire, plays, api, track, opening, latest, head>>

\* A held song reports no end.
SongEnds ==
    /\ head # Silence /\ ~head.held
    /\ head' = Silence
    /\ ends' = ends \cup {[n |-> head.n, song |-> head.song, mark |-> head.mark,
                           asked |-> FALSE]}
    /\ UNCHANGED <<channel, wire, plays, api, faults, track, opening, fetching, latest, adrift>>

\* musicTrackEnded: the channel moves on, whatever plays there by now.
EndArrives(e) ==
    /\ e \in ends /\ ends' = ends \ {e}
    /\ IF open /\ ~paused
       THEN /\ Skip /\ StartsNow
            /\ adrift' = (adrift \/ (now' = Silence /\ e.song # now))
       ELSE /\ adrift' = (adrift \/ (open /\ e.song = now))
            /\ UNCHANGED <<channel, wire, plays>>
    /\ UNCHANGED <<api, faults, service>>

-----------------------------------------------------------------------------
(* Faults. *)

Fault == faults < MaxFaults /\ faults' = faults + 1 /\ adrift' = TRUE

ServiceRestarts ==
    /\ Fault
    /\ track' = FALSE /\ opening' = {} /\ fetching' = {} /\ latest' = 0 /\ head' = Silence
    /\ toggle' = IF toggle.at = "starting" /\ (\E p \in opening : p.asked)
                 THEN [toggle EXCEPT !.at = "failed"] ELSE toggle
    /\ UNCHANGED <<channel, wire, plays, line, loop, loops, presses, ends>>

\* MAX_HOLD_MS: the song is let go, with no end reported.
HoldExpires ==
    /\ Fault
    /\ Held(head) /\ head' = Silence
    /\ UNCHANGED <<channel, wire, plays, api, track, opening, fetching, latest, ends>>

\* A request the service never sees.
RequestLost ==
    /\ Fault
    /\ wire # <<>> /\ wire' = Tail(wire)
    /\ LET m == Head(wire)
       IN  /\ toggle' = IF m.do \in {"pause", "resume"} \/ (m.do = "play" /\ m.play.asked)
                        THEN [toggle EXCEPT !.at = "failed"] ELSE toggle
           /\ loop' = IF m.do = "hold" /\ loop # None /\ loop.id = m.id THEN None ELSE loop
    /\ UNCHANGED <<channel, plays, line, loops, presses, service, ends>>

\* The service did it, and its answer comes after the timeout.
AnswerLost ==
    /\ Fault
    /\ toggle.at \in {"held", "released", "notHeld", "started"}
    /\ toggle' = [toggle EXCEPT !.at = "failed"]
    /\ UNCHANGED <<channel, wire, plays, line, loop, loops, presses, service, ends>>

-----------------------------------------------------------------------------
Member ==
    \/ MemberSkips \/ MemberQueues \/ MemberSeeks \/ MemberStarts \/ ChannelCloses
    \/ \E what \in {"pause", "resume"} : Press(what)

Api ==
    \/ Serve \/ CommitPause \/ CommitResume \/ NotHeld \/ ToggleFails \/ LoopTries \/ LoopRunsLate
    \/ \E e \in ends : EndArrives(e)

Service ==
    \/ TakePlay \/ TakeClose \/ TakePause \/ TakeHold \/ TakeResume
    \/ \E p \in opening : Opened(p)
    \/ \E p \in fetching : Fetched(p)

Trouble ==
    \/ SongEnds \/ TakePlaySlowly \/ ServiceRestarts \/ HoldExpires \/ RequestLost \/ AnswerLost
    \/ \E p \in fetching : FetchFails(p)

SyncNext == Member \/ Api \/ Service \/ Trouble

SyncSpec == SyncInit /\ [][SyncNext]_musicSync

\* Neither process stops for good: handlers go on, and what is asked is answered.
SyncFairness == WF_musicSync(Api) /\ WF_musicSync(Service) /\ WF_musicSync(LoopRunsLate)

FairSyncSpec == SyncSpec /\ SyncFairness

-----------------------------------------------------------------------------
(* Properties. *)

Quiet ==
    /\ wire = <<>> /\ line = <<>> /\ toggle = Idle /\ loop = None
    /\ opening = {} /\ fetching = {} /\ ends = {}

\* When everything sent has been dealt with, what is heard is what the room is
\* shown: the same song, from the same point unless resuming is to move it, and
\* held exactly if the room says Paused; and nothing once it is closed.
HeardIsShown ==
    Quiet /\ ~adrift =>
        /\ ~open => ~track
        /\ open /\ now # Silence =>
              /\ head # Silence /\ head.song = now
              /\ head.held = paused
              /\ moved \/ head.mark = mark

\* "a channel that said Paused while still playing would be worse than a
\* refusal": between presses, and once a resync has landed, Paused is held.
PausedIsHeld ==
    open /\ paused /\ ~adrift /\ toggle = Idle /\ loop = None =>
        Held(head) /\ head.song = now

\* Every press is answered, and every resync comes to an end.
PressesConclude ==
    /\ (line # <<>> \/ toggle # Idle) ~> (line = <<>> /\ toggle = Idle)
    /\ loop # None ~> loop = None
=============================================================================
