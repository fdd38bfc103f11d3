----------------------------- MODULE MusicChannel -----------------------------
(***************************************************************************)
(* The songs of one music channel: what plays, what is queued behind it    *)
(* and what played before.  server/sockets/musicState.ts, the operations   *)
(* of MusicRooms on one channel, with the part of the handlers of          *)
(* server/sockets/chatSocket.ts that runs without an await.                *)
(*                                                                         *)
(* Abstracted: an entry is the number of its entryId; a point in the song  *)
(* and the clock it is measured by are a mark, a new one for every time    *)
(* startedAt is set to another point.  How far a song is in is told apart  *)
(* only by `previous`, as a choice.  Who listens is MusicRooms'.           *)
(***************************************************************************)
EXTENDS Naturals, Sequences

CONSTANTS
    Silence,        \* nothing plays
    QueueCap,       \* caps.queuePerChannel
    HistoryCap,     \* HISTORY
    MaxEntries,     \* bound: entries ever added
    MaxMarks        \* bound: times a song is started or moved

Entry == Nat \ {0}

ASSUME ChannelAssumption ==
    /\ Silence \notin Entry
    /\ QueueCap \in Nat /\ HistoryCap \in Nat \ {0}
    /\ MaxEntries \in Nat \ {0} /\ MaxMarks \in Nat

VARIABLES
    open,       \* whether the channel exists; a closed one never comes back
    now,        \* what plays, or Silence
    queue,      \* what plays after it, in order
    history,    \* what played before, oldest first
    paused,     \* pausedAt is set
    moved,      \* movedWhilePaused
    mark,       \* the point startedAt stands for
    added,      \* entries added so far
    forgotten   \* history: the entries a full history has dropped

songs   == <<now, queue, history, added, forgotten>>
channel == <<open, songs, paused, moved, mark>>

ChannelTypeOK ==
    /\ open \in BOOLEAN
    /\ now \in Entry \cup {Silence}
    /\ queue \in Seq(Entry) /\ history \in Seq(Entry)
    /\ paused \in BOOLEAN /\ moved \in BOOLEAN
    /\ mark \in Nat /\ added \in Nat

\* create: the first song plays at once.
ChannelInit ==
    /\ open = TRUE
    /\ now = 1 /\ added = 1
    /\ queue = <<>> /\ history = <<>> /\ forgotten = {}
    /\ paused = FALSE /\ moved = FALSE
    /\ mark = 1

-----------------------------------------------------------------------------
\* The song that was playing goes into history, which forgets its oldest.
Retired ==
    IF now = Silence THEN history
    ELSE IF Len(history) < HistoryCap THEN Append(history, now)
    ELSE Append(Tail(history), now)

\* The one it forgets, for good.
Forgets ==
    forgotten' = IF now # Silence /\ Len(history) >= HistoryCap
                 THEN forgotten \cup {Head(history)} ELSE forgotten

\* A new song, or the same one from another point: either way it plays.
Unpaused ==
    /\ paused' = FALSE /\ moved' = FALSE
    /\ mark < MaxMarks /\ mark' = mark + 1

Skip ==
    /\ open
    /\ history' = Retired /\ Forgets
    /\ now' = IF queue = <<>> THEN Silence ELSE Head(queue)
    /\ queue' = IF queue = <<>> THEN <<>> ELSE Tail(queue)
    /\ Unpaused
    /\ UNCHANGED <<open, added>>

\* music:queue: a silent channel is started by what is queued.
Enqueue ==
    /\ open
    /\ added < MaxEntries /\ Len(queue) < QueueCap
    /\ added' = added + 1
    /\ IF now = Silence
       THEN LET queued == Append(queue, added')
            IN  now' = Head(queued) /\ queue' = Tail(queued) /\ Unpaused
       ELSE queue' = Append(queue, added') /\ UNCHANGED <<now, paused, moved, mark>>
    /\ UNCHANGED <<open, history, forgotten>>

\* Paused stays paused, at the new point.
Seek ==
    /\ open /\ now # Silence
    /\ mark < MaxMarks /\ mark' = mark + 1
    /\ moved' = paused
    /\ UNCHANGED <<open, songs, paused>>

\* Past RESTART_AFTER_MS in.
Restart ==
    /\ open /\ now # Silence
    /\ Unpaused
    /\ UNCHANGED <<open, songs>>

\* Mutant: the song that was playing makes way for good.
StepBackOver ==
    /\ open /\ history # <<>>
    /\ now' = history[Len(history)]
    /\ history' = SubSeq(history, 1, Len(history) - 1)
    /\ Unpaused
    /\ UNCHANGED <<open, added, queue, forgotten>>

\* Before it, or with nothing playing: the song played before, this one after it.
StepBack ==
    /\ open /\ history # <<>>
    /\ now' = history[Len(history)]
    /\ history' = SubSeq(history, 1, Len(history) - 1)
    /\ queue' = IF now = Silence THEN queue ELSE <<now>> \o queue
    /\ Unpaused
    /\ UNCHANGED <<open, added, forgotten>>

PlayNow(i) ==
    /\ open /\ i \in DOMAIN queue
    /\ history' = Retired /\ Forgets
    /\ now' = queue[i]
    /\ queue' = SubSeq(queue, 1, i - 1) \o SubSeq(queue, i + 1, Len(queue))
    /\ Unpaused
    /\ UNCHANGED <<open, added>>

\* pause and resume, once the service has done it.
Pause ==
    /\ open /\ now # Silence /\ ~paused
    /\ paused' = TRUE
    /\ UNCHANGED <<open, songs, moved, mark>>

Resume ==
    /\ open /\ now # Silence /\ paused
    /\ paused' = FALSE /\ moved' = FALSE
    /\ UNCHANGED <<open, songs, mark>>

\* close, or the grace period of a channel nobody listens to.
Close ==
    /\ open
    /\ open' = FALSE
    /\ UNCHANGED <<songs, paused, moved, mark>>

Start  == Restart \/ StepBack \/ \E i \in 1..Len(queue) : PlayNow(i)
ChannelNext == Skip \/ Enqueue \/ Seek \/ Start \/ Pause \/ Resume \/ Close

ChannelSpec == ChannelInit /\ [][ChannelNext]_channel

-----------------------------------------------------------------------------
(* Properties. *)

\* Stepping back puts a song in front of a queue that may be full: the cap on
\* what is queued holds only together with what is remembered.
QueueBounded == Len(queue) + Len(history) <= QueueCap + HistoryCap

\* Nothing waits behind silence: no queue stands still until somebody skips.
NothingWaits == now = Silence => queue = <<>>

\* Only a song that is there is paused, and only a paused one was moved while
\* paused, so that resuming never starts nothing.
PausedHasSong == (paused => now # Silence) /\ (moved => paused)

\* Every entry ever added is what plays, queued, past, or forgotten by a history
\* that was full, and in one place only: skipping, stepping back and playing out
\* of turn neither lose an entry nor make one play twice.
Places == (IF now = Silence THEN <<>> ELSE <<now>>) \o queue \o history
EachEntryOnce ==
    /\ \A i, j \in DOMAIN Places : Places[i] = Places[j] => i = j
    /\ {Places[i] : i \in DOMAIN Places} = (1 .. added) \ forgotten
=============================================================================
