------------------------------ MODULE UploadQueue ------------------------------
(* The music library's uploads (uploadScheduler.ts, useMusicLibrary.ts): files *)
(* go up one after another under a server that limits them, with the XHR that  *)
(* carries one, its watchdogs and the refresh of an expired token, and what the *)
(* server makes of a file it has every byte of.                                *)
(*                                                                             *)
(* Files are numbered as they are added.  A row's state says where its file    *)
(* is; a try is one call of send(), which outlives its row when the row is     *)
(* dropped, and its session when the person signs out.                         *)
EXTENDS Naturals, FiniteSets, Sequences, Functions

CONSTANTS
    MaxFiles,       \* bound on files added
    MaxWait,        \* ticks a 429 may ask for; at least one (MIN_WAIT_MS)
    MaxSessions,    \* bound on changes of who is signed in
    MaxCuts,        \* bound on connections lost with every byte sent
    NoTimer

ASSUME UploadAssumption ==
    /\ {MaxFiles, MaxWait, MaxSessions, MaxCuts} \subseteq Nat /\ MaxWait > 0
    /\ NoTimer \notin Nat

VARIABLES
    items,      \* items: the state of each file's row
    files,      \* the ids whose File is kept
    tries,      \* calls of send() not answered yet
    total, done, held,      \* batch
    gate,       \* time left until gateUntil
    timer,      \* time left until the timer fires
    era,        \* sessions since the page was loaded
    owner,      \* the session each file was added in
    copies,     \* tracks the server has made of each file
    orphans,    \* files the server is still making tracks of for a try that has ended
    cutOff,     \* history: the connection was lost after the last byte
    strayed     \* history: a file went up for, or was shown to, another session

browser  == <<items, files, tries, total, done, held, gate, timer, era, owner>>
atServer == <<copies, orphans, cutOff, strayed>>
uploadVars == <<browser, atServer>>

FileIds == 1..MaxFiles

InFlight(r) == {i \in DOMAIN r : r[i] \in {"uploading", "converting"}}
Pending(r)  == {i \in DOMAIN r : r[i] \in {"waiting", "limited"}}
First(r)    == CHOOSE i \in Pending(r) : \A j \in Pending(r) : i <= j

\* nextAction: a lost connection and the limit both hold whatever is first.
MayGo(r, h)     == InFlight(r) = {} /\ Pending(r) # {} /\ ~h
Waits(r, h, g)  == MayGo(r, h) /\ g > 0
MaySend(r, h, g) == MayGo(r, h) /\ g = 0

Try(i) == [id |-> i, era |-> era, as |-> era, at |-> "sending", again |-> FALSE, stopped |-> FALSE]

\* pump(): only the first row says it waits for the limit.
Pump(r, h, g, ts) ==
    /\ gate' = g
    /\ held' = (h /\ Pending(r) \cup InFlight(r) # {})
    /\ timer' = IF Waits(r, h, g) THEN g ELSE NoTimer
    /\ items' = [i \in DOMAIN r |->
                   IF MaySend(r, h, g) /\ i = First(r) THEN "uploading"
                   ELSE IF Waits(r, h, g) /\ i = First(r) THEN "limited"
                   ELSE IF r[i] = "limited" THEN "waiting" ELSE r[i]]
    /\ tries' = IF MaySend(r, h, g) THEN ts \cup {Try(First(r))} ELSE ts

UploadInit ==
    /\ items = <<>> /\ files = {} /\ tries = {} /\ owner = <<>>
    /\ total = 0 /\ done = 0 /\ held = FALSE /\ gate = 0 /\ timer = NoTimer /\ era = 0
    /\ copies = [i \in FileIds |-> 0] /\ orphans = [i \in FileIds |-> 0]
    /\ cutOff = {} /\ strayed = FALSE

------------------------------------------------------------------------------
(* The person.                                                                 *)

AllBut(id) == Restrict(items, DOMAIN items \ {id})

\* A batch is counted from zero when nothing of the last one is left to send.
AddFiles(n, refused) ==
    LET new  == Len(owner) + 1 .. Len(owner) + n
        over == Pending(items) \cup InFlight(items) = {}
    IN  /\ Len(owner) + n <= MaxFiles /\ refused \subseteq new
        /\ owner' = [i \in 1..Len(owner) + n |-> IF i \in new THEN era ELSE owner[i]]
        /\ files' = files \cup (new \ refused)
        /\ total' = n + (IF over THEN 0 ELSE total)
        /\ done' = IF over THEN 0 ELSE done
        /\ Pump([i \in DOMAIN items \cup new |->
                    IF i \in refused THEN "failed" ELSE IF i \in new THEN "waiting" ELSE items[i]],
                held, gate, tries)
        /\ UNCHANGED <<era, atServer>>

\* Mutant: a dropped row is only taken off the list.
DropQuietly(id) ==
    /\ id \in DOMAIN items /\ items[id] # "converting"
    /\ items' = AllBut(id) /\ files' = files \ {id}
    /\ tries' = {IF t.id = id THEN [t EXCEPT !.stopped = TRUE] ELSE t : t \in tries}
    /\ UNCHANGED <<total, done, held, gate, timer, era, owner, atServer>>

\* A file that will now never go up leaves the count.
Drop(id) ==
    /\ id \in DOMAIN items /\ items[id] # "converting"
    /\ total' = IF items[id] \notin {"waiting", "limited", "uploading"} THEN total
                ELSE IF done > total - 1 THEN done ELSE total - 1
    /\ files' = files \ {id}
    /\ Pump(AllBut(id), held, gate,
            {IF t.id = id THEN [t EXCEPT !.stopped = TRUE] ELSE t : t \in tries})
    /\ UNCHANGED <<done, era, owner, atServer>>

\* Retry, or the browser's "online", which is listened for while held.
RetryPressed ==
    /\ held
    /\ Pump(items, FALSE, gate, tries)
    /\ UNCHANGED <<files, total, done, era, owner, atServer>>

\* Signing out, or in as someone else: clear(), before anything else can start.
SessionChanges ==
    /\ era < MaxSessions
    /\ era' = era + 1
    /\ items' = <<>> /\ files' = {} /\ total' = 0 /\ done' = 0 /\ held' = FALSE /\ gate' = 0
    /\ timer' = NoTimer
    /\ tries' = {[t EXCEPT !.stopped = TRUE] : t \in tries}
    /\ UNCHANGED <<owner, atServer>>

------------------------------------------------------------------------------
(* Time.                                                                       *)

Less(n) == IF n > 0 THEN n - 1 ELSE 0

SecondPasses ==
    /\ gate > 0 \/ (timer # NoTimer /\ timer # 0)
    /\ gate' = Less(gate) /\ timer' = IF timer = NoTimer THEN NoTimer ELSE Less(timer)
    /\ UNCHANGED <<items, files, tries, total, done, held, era, owner, atServer>>

GateTimerFires ==
    /\ timer = 0
    /\ Pump(items, held, gate, tries)
    /\ UNCHANGED <<files, total, done, era, owner, atServer>>

\* A finished row clears itself.
LingerEnds(id) ==
    /\ id \in DOMAIN items /\ items[id] = "done"
    /\ items' = AllBut(id)
    /\ UNCHANGED <<files, tries, total, done, held, gate, timer, era, owner, atServer>>

------------------------------------------------------------------------------
(* One try.                                                                    *)

\* The last byte is in, and the server goes to work.
BytesArrive(t) ==
    /\ t.at = "sending" /\ ~t.stopped
    /\ tries' = (tries \ {t}) \cup {[t EXCEPT !.at = "sent"]}
    /\ strayed' = (strayed \/ t.as # owner[t.id])
    /\ UNCHANGED <<items, files, total, done, held, gate, timer, era, owner, copies, orphans, cutOff>>

\* The browser says so: progress(1).
ShowsConverting(t) ==
    /\ t.at \in {"sent", "landed"} /\ t.era = era
    /\ t.id \in DOMAIN items /\ items[t.id] = "uploading"
    /\ items' = [items EXCEPT ![t.id] = "converting"]
    /\ UNCHANGED <<files, tries, total, done, held, gate, timer, era, owner, atServer>>

Lands(t) ==
    /\ t.at = "sent"
    /\ tries' = (tries \ {t}) \cup {[t EXCEPT !.at = "landed"]}
    /\ copies' = [copies EXCEPT ![t.id] = @ + 1]
    /\ UNCHANGED <<items, files, total, done, held, gate, timer, era, owner, orphans, cutOff, strayed>>

OrphanLands(id) ==
    /\ orphans[id] > 0
    /\ orphans' = [orphans EXCEPT ![id] = @ - 1]
    /\ copies' = [copies EXCEPT ![id] = @ + 1]
    /\ UNCHANGED <<browser, cutOff, strayed>>

OrphanFails(id) ==
    /\ orphans[id] > 0
    /\ orphans' = [orphans EXCEPT ![id] = @ - 1]
    /\ UNCHANGED <<browser, copies, cutOff, strayed>>

\* Mutant: no answer within the backstop is a lost connection, as the stall is.
JudgeUnsent(answer, stopped) ==
    CASE answer = "ok"    -> "done"
      [] answer = "limit" -> "retry"
      [] answer \in {"lost", "unconfirmed"} -> IF stopped THEN "failed" ELSE "held"
      [] OTHER            -> "failed"

\* judge.  Status 0 is the connection's fault, unless the try was stopped.
Judge(answer, stopped) ==
    CASE answer = "ok"    -> "done"
      [] answer = "limit" -> "retry"
      [] answer = "lost"  -> IF stopped THEN "failed" ELSE "held"
      [] OTHER            -> "failed"

\* A try is answered: nothing of it counts in a session it was not made in.
Answered(t, answer, wait) ==
    LET row     == t.id \in DOMAIN items
        verdict == Judge(answer, t.stopped \/ ~row)
        now     == IF verdict \in {"retry", "held"} THEN "waiting" ELSE verdict
    IN  /\ strayed' = (strayed \/ (t.era = era /\ verdict = "done" /\ owner[t.id] # era))
        /\ UNCHANGED <<total, era, owner, copies>>
        /\ IF t.era # era
             THEN tries' = tries \ {t} /\ UNCHANGED <<items, files, done, held, gate, timer>>
             ELSE /\ files' = IF verdict \in {"done", "failed"} THEN files \ {t.id} ELSE files
                  /\ done' = IF row /\ verdict = "done" THEN done + 1 ELSE done
                  /\ Pump(IF row THEN [items EXCEPT ![t.id] = now] ELSE items,
                          held \/ (row /\ verdict = "held"),
                          IF verdict = "retry" THEN wait ELSE gate, tries \ {t})

\* What the server goes on making of it once nobody listens.
ServerGoesOn(t, on) == orphans' = IF on THEN [orphans EXCEPT ![t.id] = @ + 1] ELSE orphans

AnswersOk(t) == t.at = "landed" /\ Answered(t, "ok", 0) /\ UNCHANGED <<orphans, cutOff>>

Limited(t, wait) ==
    /\ t.at \in {"sending", "sent"} /\ Answered(t, "limit", wait) /\ UNCHANGED <<orphans, cutOff>>

\* A refusal in the server's words; or a proxy's, with the server at work behind it.
Refused(t, on) ==
    /\ t.at # "refreshing" /\ (on => t.at = "sent")
    /\ Answered(t, "refused", 0) /\ ServerGoesOn(t, on) /\ UNCHANGED cutOff

\* The minute without a byte moving, or an error before the last one.
Stalls(t) == t.at = "sending" /\ Answered(t, "lost", 0) /\ UNCHANGED <<orphans, cutOff>>

\* xhr.abort() answers at once; a file the server had by then lands or not.
Stopped(t, on) ==
    /\ t.stopped /\ t.at # "refreshing" /\ (on => t.at = "sent")
    /\ Answered(t, "lost", 0) /\ ServerGoesOn(t, on) /\ UNCHANGED cutOff

\* Every byte is there, and no answer comes: UPLOAD_CONFIRM_MS.
Unconfirmed(t) ==
    /\ t.at \in {"sent", "landed"} /\ ~t.stopped
    /\ Answered(t, "unconfirmed", 0) /\ ServerGoesOn(t, t.at = "sent") /\ UNCHANGED cutOff

\* Every byte is there, and the connection is lost in a way the browser notices,
\* or falls silent before it has said that all is sent.
CutOff(t) ==
    /\ t.at \in {"sent", "landed"} /\ ~t.stopped /\ Cardinality(cutOff) < MaxCuts
    /\ cutOff' = cutOff \cup {t.id} /\ t.id \notin cutOff
    /\ Answered(t, "lost", 0) /\ ServerGoesOn(t, t.at = "sent")

\* 401: one refresh and one more go, unless the try was stopped meanwhile.
Expired(t) ==
    /\ t.at \in {"sending", "sent"} /\ ~t.again /\ ~t.stopped
    /\ tries' = (tries \ {t}) \cup {[t EXCEPT !.at = "refreshing"]}
    /\ UNCHANGED <<items, files, total, done, held, gate, timer, era, owner, atServer>>

GoesAgain(t) ==
    /\ t.at = "refreshing" /\ ~t.stopped
    /\ tries' = (tries \ {t}) \cup {[t EXCEPT !.at = "sending", !.again = TRUE, !.as = era]}
    /\ UNCHANGED <<items, files, total, done, held, gate, timer, era, owner, atServer>>

SessionLost(t) ==
    /\ t.at = "refreshing"
    /\ Answered(t, "refused", 0) /\ UNCHANGED <<orphans, cutOff>>

UploadNext ==
    \/ \E n \in 1..2 : \E refused \in SUBSET (Len(owner) + 1 .. Len(owner) + n) : AddFiles(n, refused)
    \/ RetryPressed \/ SessionChanges \/ SecondPasses \/ GateTimerFires
    \/ \E id \in FileIds : Drop(id) \/ LingerEnds(id) \/ OrphanLands(id) \/ OrphanFails(id)
    \/ \E t \in tries :
          \/ BytesArrive(t) \/ ShowsConverting(t) \/ Lands(t)
          \/ AnswersOk(t) \/ Stalls(t) \/ Unconfirmed(t) \/ CutOff(t)
          \/ Expired(t) \/ GoesAgain(t) \/ SessionLost(t)
          \/ \E wait \in 1..MaxWait : Limited(t, wait)
          \/ \E on \in BOOLEAN : Refused(t, on) \/ Stopped(t, on)

------------------------------------------------------------------------------
(* Properties.                                                                 *)

\* A file not gone yet is on its way, waits for a timer no earlier than the
\* limit, or is held for a Retry, with its File; one try at most is about, for
\* the row that says so; and the items left never outnumber what the batch says
\* is left (pump, run, drop, enqueue and clear together).
UploadsGoOn ==
    LET live == {t \in tries : ~t.stopped}
    IN  /\ Pending(items) # {} => InFlight(items) # {} \/ held \/ timer # NoTimer
        /\ held => Pending(items) # {} /\ live = {}
        /\ timer # NoTimer => timer >= gate
        /\ Pending(items) \subseteq files /\ files \subseteq Pending(items) \cup InFlight(items)
        /\ {t.id : t \in live} = InFlight(items) /\ Cardinality(live) <= 1
        /\ done + Cardinality(Pending(items) \cup InFlight(items)) <= total

\* However often a file is tried, the library gets it once, unless the connection
\* was lost after its last byte (UPLOAD_CONFIRM_MS: "a second copy would land
\* beside the first"); and it goes to, and is shown to, who added it.
OneCopyEach ==
    /\ ~strayed
    /\ \A i \in FileIds \ cutOff : copies[i] + orphans[i] <= 1

UploadSpec == UploadInit /\ [][UploadNext]_uploadVars
=============================================================================
