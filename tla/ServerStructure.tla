---------------------------- MODULE ServerStructure ----------------------------
(***************************************************************************)
(* The channels and categories of a server, their order, and the lock      *)
(* behind which they change: server/controllers/channelsController.ts,     *)
(* categoriesController.ts and reorderController.ts, with the copy of the  *)
(* list their events keep in a client (src/composables/useServers.ts).     *)
(*                                                                         *)
(* withServerLock is a queue of promises per server.  A handler loads its  *)
(* channel before it queues, reads and writes in awaits of its own when    *)
(* its turn comes, and tells the members after it has let go.  An update   *)
(* that leaves the category alone does not queue at all.  Any await may    *)
(* fail: a request that holds the lock lets go of it with what it has      *)
(* written, and what was still to be told is not.                          *)
(*                                                                         *)
(* Abstracted: a request is loaded and queued in one step; names and the   *)
(* other fields of a channel are the fact that one was edited; a write of  *)
(* several rows is made of all or of none; a client asks for the list      *)
(* anew once per announcement; every member sees every channel.            *)
(***************************************************************************)
EXTENDS Naturals, Sequences, FiniteSets, SequencesExt

CONSTANTS
    Channel, Category,  \* ids, each made once
    NoCategory,         \* a channel's category when it has none
    MaxCategories,      \* MAX_CATEGORIES
    MaxOrders           \* bound: requests

ASSUME StructureAssumption ==
    /\ Category # {} /\ NoCategory \notin Category
    /\ MaxCategories \in Nat \ {0} /\ MaxOrders \in Nat

VARIABLES
    channels,   \* the Channel documents: type, category and position, by id
    categories, \* the Category documents: position, by id
    queue,      \* the server's lock: who has it, and who waits
    loose,      \* requests at an await without it
    used,       \* ids made so far
    orders,
    shown,      \* a client's channelsByServer: the category it draws each channel in
    ordered,    \* history: who was put before whom in a bucket that neither has left
    echoed      \* history: channels a client was last told, by an event or an answer, as
                \* what they no longer were, or that it was to be told of and was not

structure == <<channels, categories, queue, loose, used, orders, shown, ordered, echoed>>

Type    == {"text", "voice"}
Parents == Category \cup {NoCategory}
Bucket  == [category : Parents, type : Type]

In(b) == {c \in DOMAIN channels : channels[c].category = b.category /\ channels[c].type = b.type}

StructureTypeOK ==
    /\ DOMAIN channels \subseteq Channel /\ DOMAIN categories \subseteq Category
    /\ \A c \in DOMAIN channels : channels[c] \in [type : Type, category : Parents, position : Nat]
    /\ \A k \in DOMAIN categories : categories[k] \in Nat
    /\ \A k, l \in DOMAIN categories : k # l => categories[k] # categories[l]
    /\ DOMAIN shown \subseteq Channel /\ echoed \subseteq Channel
    /\ used \subseteq Channel \cup Category /\ orders \in 0..MaxOrders

NewId(ids, taken) == CHOOSE x \in ids \ taken : TRUE

\* Two text channels, whose positions an old race may have made the same.
StructureInit ==
    /\ LET c == NewId(Channel, {})
           d == NewId(Channel, {c})
           k == NewId(Category, {})
       IN  /\ \E tie, together \in BOOLEAN :
                 channels = [x \in {c, d} |->
                   [type |-> "text", category |-> IF x = d \/ together THEN k ELSE NoCategory,
                    position |-> IF x = d /\ ~tie THEN 1 ELSE 0]]
           /\ categories = [x \in {k} |-> 0]
           /\ used = {c, d, k}
           /\ shown = [x \in {c, d} |-> channels[x].category]
    /\ queue = <<>> /\ loose = {} /\ orders = 0
    /\ ordered = {} /\ echoed = {}

-----------------------------------------------------------------------------
(* Asking. *)

Reshape ==
         [do : {"createChannel"}, type : Type, to : Parents]
    \cup [do : {"createCategory"}]
    \cup [do : {"deleteCategory"}, category : DOMAIN categories]
    \cup [do : {"move"}, channel : DOMAIN channels, to : Parents]
    \cup [do : {"deleteChannel"}, channel : DOMAIN channels]

\* A client sends the whole of a list it sees, in another order.
WithinBuckets == UNION {[do : {"reorder"}, bucket : {b}, order : SetToSeqs(In(b))] : b \in Bucket}

AmongCategories == [do : {"reorderCategories"}, order : SetToSeqs(DOMAIN categories)]

Reorder == WithinBuckets \cup AmongCategories

Document(what) ==
    IF what.do \in {"move", "deleteChannel", "edit"} THEN channels[what.channel] ELSE "none"

Queues ==
    /\ orders < MaxOrders /\ orders' = orders + 1
    /\ \E what \in Reshape \cup {r \in Reorder : Len(r.order) > 1} :
          queue' = Append(queue, [id |-> orders, at |-> "first", document |-> Document(what),
                                  what |-> what, got |-> "none"])
    /\ UNCHANGED <<channels, categories, loose, used, shown, ordered, echoed>>

\* A rename, or the overview fields.
Edits ==
    /\ orders < MaxOrders /\ orders' = orders + 1
    /\ \E c \in DOMAIN channels :
          loose' = loose \cup
            {[id |-> orders, at |-> "save", do |-> "edit", channel |-> c, document |-> channels[c]]}
    /\ UNCHANGED <<channels, categories, queue, used, shown, ordered, echoed>>

-----------------------------------------------------------------------------
(* Behind the lock. *)

RunsAnyway(q) == \E i \in DOMAIN queue : queue[i] = q
Runs(q) == queue # <<>> /\ q = Head(queue)

Place(q)   == CHOOSE i \in DOMAIN queue : queue[i].id = q.id
Without(q) == RemoveAt(queue, Place(q))
LetsGo(q) == queue' = Without(q) /\ UNCHANGED loose
GoesOn(q, r) == queue' = [queue EXCEPT ![Place(q)] = r] /\ UNCHANGED loose
\* Let go, with members still to tell.
Tells(q, r) == queue' = Without(q) /\ loose' = loose \cup {r}

Resolves(k) == k \in DOMAIN categories \cup {NoCategory}

\* Appended after the highest, which is read before the row is made: a count
\* "would reuse the position of a deleted category".
AfterCount(taken) == Cardinality(taken)

After(taken) == IF taken = {} THEN 0 ELSE 1 + Max(taken)

CreateReads(q) ==
    /\ q.what.do = "createChannel" /\ q.at = "first" /\ Runs(q)
    /\ IF Resolves(q.what.to)
       THEN GoesOn(q, [q EXCEPT !.at = "second", !.got = After({channels[c].position :
                                        c \in {d \in DOMAIN channels : channels[d].type = q.what.type}})])
       ELSE LetsGo(q)
    /\ UNCHANGED <<channels, categories, used, orders, shown, ordered, echoed>>

Creates(q) ==
    /\ q.what.do = "createChannel" /\ q.at = "second" /\ Runs(q)
    /\ Channel \ used # {}
    /\ LET c   == NewId(Channel, used)
           row == [type |-> q.what.type, category |-> q.what.to, position |-> q.got]
       IN  /\ channels' = [x \in DOMAIN channels \cup {c} |-> IF x = c THEN row ELSE channels[x]]
           /\ used' = used \cup {c}
           /\ Tells(q, [id |-> q.id, at |-> "emit", do |-> "create", channel |-> c, document |-> row])
    /\ UNCHANGED <<categories, orders, shown, ordered, echoed>>

\* updateChannel with a category: mongoose saves what differs from what it loaded.
MoveReads(q) ==
    /\ q.what.do = "move" /\ q.at = "first" /\ Runs(q)
    /\ IF Resolves(q.what.to) THEN GoesOn(q, [q EXCEPT !.at = "second"]) ELSE LetsGo(q)
    /\ UNCHANGED <<channels, categories, used, orders, shown, ordered, echoed>>

LeavesOrders(cs) == ordered' = {p \in ordered : p[1] \notin cs /\ p[2] \notin cs}

Moves(q) ==
    /\ q.what.do = "move" /\ q.at = "second" /\ Runs(q)
    /\ IF q.what.channel \in DOMAIN channels
       THEN /\ Tells(q, [id |-> q.id, at |-> "emit", do |-> "move", channel |-> q.what.channel,
                         document |-> [q.document EXCEPT !.category = q.what.to]])
            /\ IF q.what.to # q.document.category
               THEN channels' = [channels EXCEPT ![q.what.channel].category = q.what.to]
                    /\ LeavesOrders({q.what.channel})
               ELSE UNCHANGED <<channels, ordered>>
       ELSE LetsGo(q) /\ UNCHANGED <<channels, ordered>>
    /\ UNCHANGED <<categories, used, orders, shown, echoed>>

\* "A server always has somewhere to talk."
DeleteCounts(q) ==
    /\ q.what.do = "deleteChannel" /\ q.at = "first" /\ Runs(q)
    /\ LET texts == {c \in DOMAIN channels : channels[c].type = "text"}
       IN  IF q.document.type = "text" /\ Cardinality(texts) <= 1
           THEN LetsGo(q) ELSE GoesOn(q, [q EXCEPT !.at = "second"])
    /\ UNCHANGED <<channels, categories, used, orders, shown, ordered, echoed>>

Deletes(q) ==
    /\ q.what.do = "deleteChannel" /\ q.at = "second" /\ Runs(q)
    /\ channels' = [c \in DOMAIN channels \ {q.what.channel} |-> channels[c]]
    /\ LeavesOrders({q.what.channel})
    /\ GoesOn(q, [q EXCEPT !.at = "third"])
    /\ UNCHANGED <<categories, used, orders, shown, echoed>>

\* Its messages are deleted, and channel:deleted is sent, still behind the lock.
DeleteTells(q) ==
    /\ q.what.do = "deleteChannel" /\ q.at = "third" /\ Runs(q) /\ LetsGo(q)
    /\ shown' = [c \in DOMAIN shown \ {q.what.channel} |-> shown[c]]
    /\ echoed' = echoed \ {q.what.channel}
    /\ UNCHANGED <<channels, categories, used, orders, ordered>>

CategoryCounts(q) ==
    /\ q.what.do = "createCategory" /\ q.at = "first" /\ Runs(q)
    /\ IF Cardinality(DOMAIN categories) >= MaxCategories THEN LetsGo(q)
       ELSE GoesOn(q, [q EXCEPT !.at = "second", !.got = After({categories[k] : k \in DOMAIN categories})])
    /\ UNCHANGED <<channels, categories, used, orders, shown, ordered, echoed>>

CreatesCategory(q) ==
    /\ q.what.do = "createCategory" /\ q.at = "second" /\ Runs(q) /\ LetsGo(q)
    /\ Category \ used # {}
    /\ LET k == NewId(Category, used)
       IN  /\ categories' = [x \in DOMAIN categories \cup {k} |->
                               IF x = k THEN q.got ELSE categories[x]]
           /\ used' = used \cup {k}
    /\ UNCHANGED <<channels, orders, shown, ordered, echoed>>

\* "Reparent first, then delete."
Reparents(q) ==
    /\ q.what.do = "deleteCategory" /\ q.at = "first" /\ Runs(q)
    /\ LET inside == {c \in DOMAIN channels : channels[c].category = q.what.category}
       IN  /\ channels' = [c \in DOMAIN channels |->
                             [channels[c] EXCEPT !.category = IF c \in inside THEN NoCategory ELSE @]]
           /\ LeavesOrders(inside)
    /\ GoesOn(q, [q EXCEPT !.at = "second"])
    /\ UNCHANGED <<categories, used, orders, shown, echoed>>

\* The client reparents its own copy; a refetch is announced as well.
DeletesCategory(q) ==
    /\ q.what.do = "deleteCategory" /\ q.at = "second" /\ Runs(q)
    /\ categories' = [k \in DOMAIN categories \ {q.what.category} |-> categories[k]]
    /\ shown' = [c \in DOMAIN shown |-> IF shown[c] = q.what.category THEN NoCategory ELSE shown[c]]
    /\ Tells(q, [id |-> q.id, at |-> "refetch", do |-> "deleteCategory"])
    /\ UNCHANGED <<channels, used, orders, ordered, echoed>>

-----------------------------------------------------------------------------
(* Ordering. *)

\* How many rows are placed lower than r.
Lower(places, r) == Cardinality({s \in DOMAIN places : places[s] < places[r]})

\* slotsFor: the places the rows hold already, in order ...
SlotsTied(places) ==
    [i \in 1..Cardinality(DOMAIN places) |->
       Max({places[r] : r \in {s \in DOMAIN places : Lower(places, s) < i}})]

\* ... ties broken upward: each place at least one above the place before it.
SlotsFor(places) ==
    [i \in 1..Cardinality(DOMAIN places) |->
       Max({places[r] + (i - 1 - Lower(places, r)) : r \in {s \in DOMAIN places : Lower(places, s) < i}})]

\* orderRows: every row there is, each once.
InOrder(order, places) == ToSet(order) = DOMAIN places /\ Len(order) = Cardinality(DOMAIN places)

PlacedIn(order, places) ==
    LET slots == SlotsFor(places)
    IN  [r \in DOMAIN places |-> slots[CHOOSE i \in DOMAIN order : order[i] = r]]

ReorderReads(q) ==
    /\ q.what.do \in {"reorder", "reorderCategories"} /\ q.at = "first" /\ Runs(q)
    /\ LET places == IF q.what.do = "reorder" THEN [c \in In(q.what.bucket) |-> channels[c].position]
                     ELSE categories
       IN  IF /\ InOrder(q.what.order, places)
              /\ q.what.do = "reorder" => Resolves(q.what.bucket.category)
           THEN GoesOn(q, [q EXCEPT !.at = "second", !.got = PlacedIn(q.what.order, places)])
           ELSE LetsGo(q)
    /\ UNCHANGED <<channels, categories, used, orders, shown, ordered, echoed>>

\* Who comes before whom.
Pairs(order) ==
    {p \in ToSet(order) \X ToSet(order) :
        \E i, j \in DOMAIN order : i < j /\ p = <<order[i], order[j]>>}

\* channels:reordered carries the rows as they were read.
Reorders(q) ==
    /\ q.what.do = "reorder" /\ q.at = "second" /\ Runs(q)
    /\ channels' = [c \in DOMAIN channels |->
         [channels[c] EXCEPT !.position = IF c \in DOMAIN q.got THEN q.got[c] ELSE @]]
    /\ ordered' = {p \in ordered : p[1] \notin ToSet(q.what.order)} \cup Pairs(q.what.order)
    /\ Tells(q, [id |-> q.id, at |-> "emit", do |-> "reorder", bucket |-> q.what.bucket, order |-> q.what.order])
    /\ UNCHANGED <<categories, used, orders, shown, echoed>>

ReordersCategories(q) ==
    /\ q.what.do = "reorderCategories" /\ q.at = "second" /\ Runs(q) /\ LetsGo(q)
    /\ categories' = [k \in DOMAIN categories |->
                        IF k \in DOMAIN q.got THEN q.got[k] ELSE categories[k]]
    /\ UNCHANGED <<channels, used, orders, shown, ordered, echoed>>

-----------------------------------------------------------------------------
(* Without the lock. *)

\* A deleted channel has nothing to save; fields not edited are not written.
SavesEdit(q) ==
    /\ q.at = "save"
    /\ loose' = (loose \ {q}) \cup (IF q.channel \in DOMAIN channels THEN {[q EXCEPT !.at = "emit"]} ELSE {})
    /\ UNCHANGED <<channels, categories, queue, used, orders, shown, ordered, echoed>>

AnnouncedKnownOnly(rows) ==
    /\ shown' = [c \in DOMAIN shown |-> IF c \in DOMAIN rows THEN rows[c] ELSE shown[c]]
    /\ echoed' = (echoed \ DOMAIN rows) \cup
         {c \in DOMAIN rows : c \notin DOMAIN channels \/ channels[c].category # rows[c]}

\* upsertChannel: the row replaces the client's, or is added to it.
Announced(rows) ==
    /\ shown' = [c \in DOMAIN shown \cup DOMAIN rows |->
                   IF c \in DOMAIN rows THEN rows[c] ELSE shown[c]]
    /\ echoed' = (echoed \ DOMAIN rows) \cup
         {c \in DOMAIN rows : c \notin DOMAIN channels \/ channels[c].category # rows[c]}

Rows(q) ==
    IF q.do = "reorder" THEN [c \in ToSet(q.order) |-> q.bucket.category]
    ELSE [c \in {q.channel} |-> q.document.category]

\* emitChannelEvent, emitChannelsReordered: after loadView's reads.
EmitsRows(q) ==
    /\ q.at = "emit"
    /\ Announced(Rows(q))
    /\ loose' = (loose \ {q}) \cup
         (IF q.do = "move" THEN {[id |-> q.id, at |-> "refetch", do |-> "move"]} ELSE {})
    /\ UNCHANGED <<channels, categories, queue, used, orders, ordered>>

\* refreshChannelAccess has announced, the client asks, and serverDetailFor reads
\* the list for its answer.
ReadsList(q) ==
    /\ q.at = "refetch"
    /\ loose' = (loose \ {q}) \cup
         {[id |-> q.id, at |-> "answer", do |-> q.do, got |-> [c \in DOMAIN channels |-> channels[c].category]]}
    /\ UNCHANGED <<channels, categories, queue, used, orders, shown, ordered, echoed>>

\* receiveDetail: the answer replaces the list, with whatever was heard since.
Refetches(q) ==
    /\ q.at = "answer" /\ loose' = loose \ {q}
    /\ shown' = q.got
    /\ echoed' = {c \in Channel : \/ (c \in DOMAIN q.got) # (c \in DOMAIN channels)
                                  \/ c \in DOMAIN channels /\ q.got[c] # channels[c].category}
    /\ UNCHANGED <<channels, categories, queue, used, orders, ordered>>

-----------------------------------------------------------------------------
(* Failures. *)

\* What a client draws otherwise than it is, if this request goes no further.
Untold(q) ==
    {c \in Channel :
        \/ q.what.do = "deleteChannel" /\ q.at = "third" /\ c = q.what.channel
        \/ q.what.do = "deleteCategory" /\ q.at = "second" /\ c \in DOMAIN shown
                                        /\ shown[c] = q.what.category}

\* A read or a write behind the lock throws: the next request gets it all the same.
LockFails(q) ==
    /\ Runs(q) /\ LetsGo(q)
    /\ echoed' = echoed \cup Untold(q)
    /\ UNCHANGED <<channels, categories, used, orders, shown, ordered>>

\* So does an edit's save, the read before an event (the refresh after it goes
\* on), the refresh, or the client's request.
TellingFails(q) ==
    /\ loose' = (loose \ {q}) \cup
         (IF q.at = "emit" /\ q.do = "move" THEN {[id |-> q.id, at |-> "refetch", do |-> "move"]} ELSE {})
    /\ echoed' = echoed \cup (IF q.at = "emit" THEN DOMAIN Rows(q) ELSE {})
    /\ UNCHANGED <<channels, categories, queue, used, orders, shown, ordered>>

-----------------------------------------------------------------------------
Locked(q) ==
    \/ CreateReads(q) \/ Creates(q) \/ MoveReads(q) \/ Moves(q)
    \/ DeleteCounts(q) \/ Deletes(q) \/ DeleteTells(q)
    \/ CategoryCounts(q) \/ CreatesCategory(q) \/ Reparents(q) \/ DeletesCategory(q)
    \/ ReorderReads(q) \/ Reorders(q) \/ ReordersCategories(q) \/ LockFails(q)

StructureNext ==
    \/ Queues \/ Edits
    \/ \E i \in DOMAIN queue : Locked(queue[i])
    \/ \E q \in loose :
          SavesEdit(q) \/ EmitsRows(q) \/ ReadsList(q) \/ Refetches(q) \/ TellingFails(q)

StructureSpec == StructureInit /\ [][StructureNext]_structure

-----------------------------------------------------------------------------
(* Properties. *)

\* "A server always has somewhere to talk": whatever is deleted at once, a text
\* channel is left.
SomewhereToTalk == \E c \in DOMAIN channels : channels[c].type = "text"

\* "never something in between": no channel points at a category that is gone,
\* however creations, moves and deletions meet.
NoDanglingCategory == \A c \in DOMAIN channels : Resolves(channels[c].category)

\* "Assigning a duplicate slot to two rows would leave their order undefined": an
\* order put on a bucket stays the order of those of its channels that stay in it.
OrderHolds ==
    \A p \in ordered : channels[p[1]].position < channels[p[2]].position

Settled == queue = <<>> /\ loose = {}

\* Once all is told, a client draws the channels there are, each in its category,
\* but for those it was last told of, by an event or by an answer that was read
\* before one, as they were before, or should have been told of when it failed.
CacheFollows ==
    Settled => \A c \in Channel \ echoed :
        /\ (c \in DOMAIN shown) = (c \in DOMAIN channels)
        /\ c \in DOMAIN channels => shown[c] = channels[c].category
=============================================================================
