----------------------------- MODULE MessageWindow -----------------------------
(* The stretch of a channel's history one browser holds (useMessages.ts,        *)
(* ChatApp.vue, backgroundSocket.ts) over the pages the server cuts             *)
(* (historyWindow.ts), while messages arrive live, the socket rests or drops,   *)
(* and up to MaxFetches requests are in flight.                                *)
(*                                                                             *)
(* The n-th message of a channel is the number n; it is written and announced   *)
(* in one step.  perf keeps one conversation (the level "light"), so that       *)
(* evict drops all but one, and has nothing to trim off that one.              *)
EXTENDS Integers, Sequences, FiniteSets

LOCAL INSTANCE SequencesExt

CONSTANTS
    Chan,
    Written,        \* Written[c]: the messages written before the page was opened
    Limit,          \* HISTORY_LIMIT
    MaxFetches,     \* bound on what the person asks
    MaxMoves        \* bound on that and on posts, losses of the socket and failures together

\* Below three, a page around a message leaves out a side without looking (historyWindow.ts:52).
ASSUME WindowAssumption == Written \in [Chan -> Nat] /\ Limit \in Nat /\ Limit >= 3

VARIABLES
    posted,         \* posted[c]: the messages of c in the database
    onScreen,       \* activeConv
    list, meta,     \* serverMessages and windowMeta, per channel
    link,           \* the socket: up, rested, being taken up (waking), or taken up and in
                    \* no room yet, for good if its setup fails (joining)
    wire,           \* channel:receive events on their way
    fetching,       \* history pages and sends in flight
    pendingCatchUp, \* {} or {what wake noted}
    passed,         \* history: the newest message of c that will not come over the wire any more
    lapses,         \* history: how c's window came to miss something
    moves, fetches

messageWindow == <<posted, onScreen, list, meta, link, wire, fetching, pendingCatchUp, passed, lapses, moves, fetches>>

Fresh == [hasOlder |-> FALSE, live |-> TRUE, awayCount |-> 0]

Top(a, b) == IF a > b THEN a ELSE b
Low(a, b) == IF a < b THEN a ELSE b
Stretch(i, j) == LET first == Top(i, 1) IN [k \in 1 .. Top(j - first + 1, 0) |-> first + k - 1]
Held(c) == ToSet(list[c])

Broken(messages) == \E i, j \in messages : ~(i .. j \subseteq messages)

------------------------------------------------------------------------------
(* historyWindow.ts: a page of a channel of n messages.                        *)

NewestPage(n)    == [msgs |-> Stretch(n - Limit + 1, n), hasOlder |-> n > Limit, hasNewer |-> FALSE]
OlderPage(k)     == [msgs |-> Stretch(k - Limit, k - 1), hasOlder |-> k - 1 > Limit, hasNewer |-> TRUE]
NewerPage(k, n)  == [msgs |-> Stretch(k + 1, Low(k + Limit, n)), hasOlder |-> TRUE, hasNewer |-> n > k + Limit]
AroundPage(k, n) ==
    LET older == Limit \div 2  newer == Limit - older - 1
    IN [msgs |-> Stretch(k - older, Low(k + newer, n)), hasOlder |-> k - 1 > older, hasNewer |-> n > k + newer]

PageOf(q) ==
    CASE q.what = "newest"              -> NewestPage(posted[q.of])
      [] q.what = "older"               -> OlderPage(q.cursor)
      [] q.what \in {"newer", "catchUp"} -> NewerPage(q.cursor, posted[q.of])
      [] q.what = "around"              -> AroundPage(q.cursor, posted[q.of])
      [] q.what = "send"                -> [msgs |-> <<posted[q.of] + 1>>, hasOlder |-> TRUE, hasNewer |-> FALSE]

NoPage == [msgs |-> <<>>, hasOlder |-> FALSE, hasNewer |-> FALSE]

\* next: what the caller does once a load of the newest page is over.
Fetch(what, c, cursor, next) ==
    [no |-> fetches + 1, what |-> what, of |-> c, cursor |-> cursor, next |-> next, served |-> FALSE, page |-> NoPage]

Moves == moves < MaxMoves /\ moves' = moves + 1

\* The page is open; or it rests (hidden for long enough), and more than a page was written since.
MessageWindowInit ==
    /\ link \in {"up", "rested"}
    /\ posted = [c \in Chan |-> IF link = "up" THEN Written[c] ELSE Written[c] + Limit + 1]
    /\ onScreen \in Chan
    /\ list = [c \in Chan |-> IF c = onScreen THEN NewestPage(Written[c]).msgs ELSE <<>>]
    /\ meta = [c \in Chan |-> [Fresh EXCEPT !.hasOlder = c = onScreen /\ NewestPage(Written[c]).hasOlder]]
    /\ wire = <<>> /\ fetching = {} /\ pendingCatchUp = {}
    /\ passed = Written /\ lapses = [c \in Chan |-> {}]
    /\ moves = 0 /\ fetches = 0

------------------------------------------------------------------------------
(* The server.                                                                 *)

\* Somebody else posts in c.
OtherPosts(c) ==
    /\ Moves
    /\ posted' = [posted EXCEPT ![c] = @ + 1]
    /\ wire' = IF link = "up" THEN Append(wire, [of |-> c, id |-> posted'[c]]) ELSE wire
    /\ UNCHANGED <<onScreen, list, meta, link, fetching, pendingCatchUp, passed, lapses, fetches>>

\* A request reaches the server: a page is read, or a message of the page's own is written,
\* which is announced to everybody else.
Serves(q) ==
    /\ ~q.served
    /\ fetching' = (fetching \ {q}) \cup {[q EXCEPT !.served = TRUE, !.page = PageOf(q)]}
    /\ posted' = IF q.what = "send" THEN [posted EXCEPT ![q.of] = @ + 1] ELSE posted
    /\ UNCHANGED <<onScreen, list, meta, link, wire, pendingCatchUp, passed, lapses, moves, fetches>>

------------------------------------------------------------------------------
(* The person.  Nobody is at a page whose socket rests.                        *)

FetchStarts(q) ==
    /\ Moves /\ fetches < MaxFetches /\ fetches' = fetches + 1 /\ link # "rested"
    /\ fetching' = fetching \cup {q}
    /\ UNCHANGED <<posted, list, meta, link, wire, pendingCatchUp, passed, lapses>>

InFlight(what) == \E q \in fetching : q.what = what

OpensChannel(c) == FetchStarts(Fetch("newest", c, 0, "evict")) /\ onScreen' = c

LoadsOlder ==
    /\ meta[onScreen].hasOlder /\ ~InFlight("older") /\ list[onScreen] # <<>>
    /\ FetchStarts(Fetch("older", onScreen, Head(list[onScreen]), "")) /\ UNCHANGED onScreen

LoadsNewer ==
    /\ ~meta[onScreen].live /\ ~InFlight("newer") /\ list[onScreen] # <<>>
    /\ FetchStarts(Fetch("newer", onScreen, Last(list[onScreen]), "")) /\ UNCHANGED onScreen

JumpsToMessage(k) ==
    /\ k \in 1 .. posted[onScreen] /\ k \notin Held(onScreen)
    /\ FetchStarts(Fetch("around", onScreen, k, "")) /\ UNCHANGED onScreen

JumpsToPresent ==
    /\ ~meta[onScreen].live
    /\ FetchStarts(Fetch("newest", onScreen, 0, "")) /\ UNCHANGED onScreen

\* Back in history it goes to the present first, and sends once that is loaded.
SendsMessage ==
    /\ ~InFlight("send")
    /\ FetchStarts(IF meta[onScreen].live THEN Fetch("send", onScreen, 0, "") ELSE Fetch("newest", onScreen, 0, "send"))
    /\ UNCHANGED onScreen

------------------------------------------------------------------------------
(* Answers.  A page for a channel no longer on screen is thrown away, but for   *)
(* the newest one.                                                             *)

\* Mutant: a page is taken whole.
WithKnown(c, msgs) == msgs

WithoutKnown(c, msgs) == SelectSeq(msgs, LAMBDA m : m \notin Held(c))

\* mergeCaughtUp: each missed message goes in behind the last one that is not newer.
SlottedIn(have, m) == InsertAt(have, Top(0, Cardinality({i \in 1 .. Len(have) : \E j \in i .. Len(have) : have[j] < m})) + 1, m)
MergeCaughtUp(c, msgs) == FoldLeft(SlottedIn, list[c], WithoutKnown(c, msgs))

Window(page) == [hasOlder |-> page.hasOlder, live |-> ~page.hasNewer, awayCount |-> 0]

EndOf(q) == IF q.page.msgs = <<>> THEN q.cursor ELSE Last(q.page.msgs)

\* The page says that nothing is newer, and was read before what has already been dealt with.
Overtaken(q) == IF ~q.page.hasNewer /\ passed[q.of] > EndOf(q) THEN {"overtaken"} ELSE {}
\* Nor does it help that the window is live by now: then what came since is in it.
HeldBack(q)  == IF meta[q.of].live THEN {} ELSE Overtaken(q)
\* The page continues a message that is no longer in the window.
Misplaced(q) == IF q.cursor \in Held(q.of) THEN {} ELSE {"misplaced"}
\* The window is live by now, and the page, read before, says it is not.
TurnedBack(q) == IF q.page.hasNewer /\ \E m \in Held(q.of) : m > EndOf(q) THEN {"misfit"} ELSE {}

Answered(q, follow) ==
    /\ q.served /\ fetching' = (fetching \ {q}) \cup follow
    /\ passed' = [passed EXCEPT ![q.of] = Top(@, EndOf(q))]
    /\ UNCHANGED <<posted, onScreen, link, wire, pendingCatchUp, moves, fetches>>

Lapse(c, why) == lapses' = [lapses EXCEPT ![c] = @ \cup why]
Unshown(q)    == q.of # onScreen /\ UNCHANGED <<list, meta, lapses>>

\* A load of the newest page is over; the channel it was for is then taken for the one on screen.
LoadOver(q, msgs, window, why) ==
    LET Evicted(d) == q.next = "evict" /\ d # q.of /\ list[d] # <<>>
    IN /\ list' = [d \in Chan |-> IF d = q.of THEN msgs ELSE IF Evicted(d) THEN <<>> ELSE list[d]]
       /\ meta' = [d \in Chan |-> IF d = q.of THEN window ELSE IF Evicted(d) THEN Fresh ELSE meta[d]]
       /\ lapses' = [d \in Chan |-> IF d = q.of THEN why
                                    ELSE lapses[d] \cup IF Evicted(d) THEN {"evicted"} ELSE {}]

\* What the send that waited for it then asks; it goes to the channel on screen by now.
ThenSends(q) == IF q.next = "send" THEN {[q EXCEPT !.what = "send", !.of = onScreen, !.next = "", !.served = FALSE, !.page = NoPage]}
                ELSE {}

AnswersNewest(q) ==
    /\ q.what = "newest" /\ Answered(q, ThenSends(q))
    /\ LoadOver(q, q.page.msgs, Window(q.page), Overtaken(q))

AnswersOlder(q) ==
    /\ q.what = "older" /\ Answered(q, {})
    /\ \/ Unshown(q)
       \/ /\ q.of = onScreen /\ Lapse(q.of, Misplaced(q))
          /\ list' = [list EXCEPT ![q.of] = WithoutKnown(q.of, q.page.msgs) \o @]
          /\ meta' = [meta EXCEPT ![q.of].hasOlder = q.page.hasOlder]

AnswersNewer(q) ==
    /\ q.what = "newer" /\ Answered(q, {})
    /\ \/ Unshown(q)
       \/ /\ q.of = onScreen /\ Lapse(q.of, Misplaced(q) \cup HeldBack(q) \cup TurnedBack(q))
          /\ list' = [list EXCEPT ![q.of] = @ \o WithoutKnown(q.of, q.page.msgs)]
          /\ meta' = [meta EXCEPT ![q.of].live = ~q.page.hasNewer, ![q.of].awayCount = IF q.page.hasNewer THEN @ ELSE 0]

AnswersAround(q) ==
    /\ q.what = "around" /\ Answered(q, {})
    /\ \/ Unshown(q)
       \/ /\ q.of = onScreen /\ lapses' = [lapses EXCEPT ![q.of] = Overtaken(q)]
          /\ list' = [list EXCEPT ![q.of] = q.page.msgs]
          /\ meta' = [meta EXCEPT ![q.of] = Window(q.page)]

AnswersCatchUp(q) ==
    LET goesOn == [q EXCEPT !.cursor = EndOf(q), !.served = FALSE, !.page = NoPage]
    IN /\ q.what = "catchUp" /\ Answered(q, IF q.of = onScreen /\ q.page.hasNewer THEN {goesOn} ELSE {})
       /\ \/ Unshown(q)
          \/ /\ q.of = onScreen /\ Lapse(q.of, Misplaced(q) \cup HeldBack(q) \cup TurnedBack(q))
             /\ list' = [list EXCEPT ![q.of] = MergeCaughtUp(q.of, q.page.msgs)]
             /\ meta' = [meta EXCEPT ![q.of] = [Window(q.page) EXCEPT !.hasOlder = meta[q.of].hasOlder]]

\* m is older than where the window begins.
Precedes(m, c) == list[c] # <<>> /\ m < Head(list[c])

\* A message of the page's own goes below whatever is in the window.
Misfits(q) ==
    LET c == q.of
    IN \/ ~meta[c].live
       \/ Precedes(EndOf(q), c)
       \/ link = "rested" /\ Broken(Held(c) \cup {EndOf(q)})

AnswersSend(q) ==
    LET new == WithoutKnown(q.of, q.page.msgs)
    IN /\ q.what = "send" /\ Answered(q, {})
       /\ list' = [list EXCEPT ![q.of] = @ \o new] /\ UNCHANGED meta
       /\ Lapse(q.of, IF new # <<>> /\ Misfits(q) THEN {"misfit"} ELSE {})

\* It fails, or its answer is lost.
FetchFails(q) ==
    /\ Moves
    /\ fetching' = (fetching \ {q}) \cup IF q.what = "newest" THEN ThenSends(q) ELSE {}
    /\ \/ q.what = "newest" /\ LoadOver(q, <<>>, Fresh, {"failed"})
       \/ /\ q.what # "newest" /\ UNCHANGED <<list, meta>>
          /\ Lapse(q.of, IF q.what = "catchUp" \/ (q.what = "send" /\ q.served) THEN {"failed"} ELSE {})
    /\ passed' = [passed EXCEPT ![q.of] = IF q.what = "send" THEN Top(@, EndOf(q)) ELSE @]
    /\ UNCHANGED <<posted, onScreen, link, wire, pendingCatchUp, fetches>>

------------------------------------------------------------------------------
(* The socket.                                                                 *)

Receives ==
    /\ wire # <<>> /\ wire' = Tail(wire)
    /\ LET c == Head(wire).of  n == Head(wire).id
       IN /\ list' = [list EXCEPT ![c] = IF meta[c].live /\ n \notin Held(c) THEN Append(@, n) ELSE @]
          /\ meta' = [meta EXCEPT ![c].awayCount = IF ~meta[c].live /\ n \notin Held(c) THEN @ + 1 ELSE @]
          /\ passed' = [passed EXCEPT ![c] = Top(@, n)]
          /\ Lapse(c, IF meta[c].live /\ Precedes(n, c) /\ n \notin Held(c) THEN {"misfit"} ELSE {})
    /\ UNCHANGED <<posted, onScreen, link, fetching, pendingCatchUp, moves, fetches>>

\* The socket goes, with what was on its way, while a later message may be in the list already.
Cut(to) ==
    /\ Moves /\ link' = to /\ wire' = <<>>
    /\ lapses' = [c \in Chan |-> lapses[c] \cup
          IF Broken(Held(c)) THEN {"outrun"} ELSE {}]
    /\ UNCHANGED <<posted, onScreen, list, meta, fetching, pendingCatchUp, passed, fetches>>

Drops == link \in {"up", "joining"} /\ Cut("waking")
Rests == link # "rested" /\ Cut("rested")

\* Where the conversation on screen stands, before anything new can arrive.
Noted == [of |-> onScreen, anchor |-> IF list[onScreen] = <<>> THEN 0 ELSE Last(list[onScreen])]

Wakes ==
    /\ link = "rested" /\ link' = "waking"
    /\ pendingCatchUp' = IF meta[onScreen].live THEN {Noted} ELSE pendingCatchUp
    /\ UNCHANGED <<posted, onScreen, list, meta, wire, fetching, passed, lapses, moves, fetches>>

\* What catchUpConversation asks first; with nothing to anchor on, the newest page.
CatchUp(p) ==
    CASE p.anchor # 0 -> {Fetch("catchUp", p.of, p.anchor, "")}
      [] p.anchor = 0 /\ p.of = onScreen -> {Fetch("newest", p.of, 0, "")}
      [] OTHER -> {}

\* Something newer than where the window begins is not in it.
Misses(c) == \E m \in (1 .. posted[c]) \ Held(c) : Held(c) # {} => \E n \in Held(c) : n < m

\* The page hears that it is connected, and asks for what it missed.
Connects ==
    /\ link = "waking" /\ link' = "joining"
    /\ fetching' = fetching \cup UNION {CatchUp(p) : p \in pendingCatchUp}
    /\ fetches' = fetches + Cardinality(pendingCatchUp)
    /\ pendingCatchUp' = {}
    /\ UNCHANGED <<posted, onScreen, list, meta, wire, passed, lapses, moves>>

\* What was written until now is being caught up with, or will be.
Covers(q, c) == q.what = "catchUp" /\ q.of = c /\ (~q.served \/ q.page.hasNewer \/ EndOf(q) = posted[c])

\* The server's setup has read what it needs and joins the rooms.  What was written
\* before is in no event; a live window that misses some of it was not caught up, or
\* from a page read too early.
JoinsRooms ==
    /\ link = "joining" /\ link' = "up"
    /\ passed' = posted
    /\ lapses' = [c \in Chan |-> lapses[c] \cup
          IF meta[c].live /\ Misses(c) /\ ~\E q \in fetching : Covers(q, c) THEN {"reconnected"} ELSE {}]
    /\ UNCHANGED <<posted, onScreen, list, meta, wire, fetching, pendingCatchUp, moves, fetches>>

MessageWindowNext ==
    \/ \E c \in Chan : OtherPosts(c) \/ OpensChannel(c)
    \/ LoadsOlder \/ LoadsNewer \/ JumpsToPresent \/ SendsMessage
    \/ \E k \in 1 .. posted[onScreen] : JumpsToMessage(k)
    \/ \E q \in fetching : \/ Serves(q) \/ FetchFails(q)
                           \/ AnswersNewest(q) \/ AnswersOlder(q) \/ AnswersNewer(q)
                           \/ AnswersAround(q) \/ AnswersCatchUp(q) \/ AnswersSend(q)
    \/ Receives \/ Drops \/ Rests \/ Wakes \/ Connects \/ JoinsRooms

------------------------------------------------------------------------------
\* No message is in the list twice, however pages, catch-ups, answered sends and live
\* messages overlap (withoutKnown and mergeCaughtUp, useMessages.ts:84-104).
ShownOnce == \A c \in Chan : IsInjective(list[c])

NothingComing(c) ==
    /\ link = "up" /\ \A m \in ToSet(wire) : m.of # c
    /\ \A q \in fetching : q.of # c

\* Once nothing is on its way for the conversation on screen, and none of the races named in
\* lapses befell it, its list has no hole, a live one holds the newest message, and what
\* is older can be asked for (useMessages.ts:134-146, 224-262; ChatApp.vue:2425-2473).
NothingSkipped ==
    LET c == onScreen
    IN NothingComing(c) /\ lapses[c] = {} =>
         /\ ~Broken(Held(c))
         /\ meta[c].live => posted[c] \in Held(c) \cup {0}
         /\ 1 \in Held(c) \/ meta[c].hasOlder \/ posted[c] = 0

\* What a reader of the list relies on.
WindowSound == ShownOnce /\ NothingSkipped

==============================================================================
