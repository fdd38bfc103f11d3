----------------------------- MODULE VoiceServers ------------------------------
(***************************************************************************)
(* The media servers a community registers and which of them is its        *)
(* default: server/controllers/voiceServersController.ts, and the one a    *)
(* channel names (updateChannel of channelsController.ts).                 *)
(*                                                                         *)
(* Every handler is a few awaited reads and writes, and no lock is taken.  *)
(*                                                                         *)
(* Abstracted: names, addresses and keys; one channel; a default is never  *)
(* edited away, as the code ignores isDefault: false.                      *)
(***************************************************************************)
EXTENDS Naturals, FiniteSetsExt

CONSTANTS
    Entry,          \* ids, each made once
    NoEntry,        \* a channel that follows the default
    MaxEntries,     \* MAX_VOICE_SERVERS
    MaxEdits        \* bound: requests

ASSUME VoiceServersAssumption ==
    NoEntry \notin Entry /\ MaxEntries \in Nat \ {0} /\ MaxEdits \in Nat

VARIABLES
    entries,    \* the VoiceServer documents by age: id and isDefault
    pointer,    \* Channel.voiceServer
    edits,      \* requests at an await
    registered, \* ids made so far
    edited,
    contended,  \* history: two requests that move the default met, or one failed half way
    misled      \* history: ids deleted while a channel was about to name them

voiceServers == <<entries, pointer, edits, registered, edited, contended, misled>>

Ids      == {entries[i].id : i \in DOMAIN entries}
Oldest   == Min(DOMAIN entries)
Newest   == Max({0} \cup DOMAIN entries)
Defaults == {entries[i] : i \in {j \in DOMAIN entries : entries[j].isDefault}}

VoiceServersTypeOK ==
    /\ Ids \subseteq registered /\ registered \subseteq Entry
    /\ \A i, j \in DOMAIN entries : i # j => entries[i].id # entries[j].id
    /\ pointer \in registered \cup {NoEntry}
    /\ \A q \in edits : q.at \in {"count", "clear", "create", "save", "others", "find", "promote",
                                  "pointers", "point", "remove"}
    /\ edited \in 0..MaxEdits /\ contended \in BOOLEAN /\ misled \subseteq Entry

VoiceServersInit ==
    /\ entries = <<>> /\ pointer = NoEntry /\ edits = {} /\ registered = {}
    /\ edited = 0 /\ contended = FALSE /\ misled = {}

-----------------------------------------------------------------------------
\* What a request that moves the default, or may, is met by.
Contends == contended' = (contended \/ \E q \in edits : q.at # "point")

EditBegins(q) ==
    /\ edited < MaxEdits /\ edited' = edited + 1
    /\ edits' = edits \cup {q}
EditGoes(q, at) == edits' = (edits \ {q}) \cup {[q EXCEPT !.at = at]}
EditEnds(q) == edits' = edits \ {q}

NobodysDefault(es, keep) ==
    [i \in DOMAIN es |-> [es[i] EXCEPT !.isDefault = @ /\ es[i].id = keep]]

AsksToCreate ==
    /\ \E wants \in BOOLEAN : EditBegins([id |-> edited, at |-> "count", default |-> wants])
    /\ Contends
    /\ UNCHANGED <<entries, pointer, registered, misled>>

\* The first becomes the default; the cap is looked at here only.
Counts(q) ==
    /\ q.at = "count"
    /\ IF Cardinality(DOMAIN entries) >= MaxEntries THEN EditEnds(q)
       ELSE LET default == q.default \/ Ids = {}
            IN  edits' = (edits \ {q}) \cup
                  {[q EXCEPT !.at = IF default THEN "clear" ELSE "create", !.default = default]}
    /\ UNCHANGED <<entries, pointer, registered, edited, contended, misled>>

Clears(q) ==
    /\ q.at = "clear" /\ EditGoes(q, "create")
    /\ entries' = NobodysDefault(entries, NoEntry)
    /\ UNCHANGED <<pointer, registered, edited, contended, misled>>

CreatesEntry(q) ==
    /\ q.at = "create" /\ EditEnds(q)
    /\ Entry \ registered # {}
    /\ LET e == CHOOSE x \in Entry \ registered : TRUE
       IN  /\ entries' = [i \in DOMAIN entries \cup {Newest + 1} |->
                           IF i = Newest + 1 THEN [id |-> e, isDefault |-> q.default] ELSE entries[i]]
           /\ registered' = registered \cup {e}
    /\ UNCHANGED <<pointer, edited, contended, misled>>

\* Another entry has the name: the unique index refuses, after the others were
\* cleared.
CreateRefused(q) ==
    /\ q.at = "create" /\ Ids # {} /\ EditEnds(q)
    /\ contended' = (contended \/ q.default)
    /\ UNCHANGED <<entries, pointer, registered, edited, misled>>

-----------------------------------------------------------------------------
(* An entry is made the default: the others first, then its own row, which is *)
(* written only where it differs from what was loaded.                        *)

AsksForDefault ==
    /\ \E i \in DOMAIN entries :
          EditBegins([id |-> edited, at |-> "others", entry |-> entries[i].id, was |-> entries[i].isDefault])
    /\ Contends
    /\ UNCHANGED <<entries, pointer, registered, misled>>

ClearsOthers(q) ==
    /\ q.at = "others" /\ EditGoes(q, "save")
    /\ entries' = NobodysDefault(entries, q.entry)
    /\ UNCHANGED <<pointer, registered, edited, contended, misled>>

MadeDefault(es, e) == [i \in DOMAIN es |-> [es[i] EXCEPT !.isDefault = @ \/ es[i].id = e]]

SavesDefault(q) ==
    /\ q.at = "save" /\ EditEnds(q)
    /\ entries' = IF q.was THEN entries ELSE MadeDefault(entries, q.entry)
    /\ UNCHANGED <<pointer, registered, edited, contended, misled>>

\* Renamed in the same request to a name that is taken.
SaveRefused(q) ==
    /\ q.at = "save" /\ Cardinality(Ids \ {q.entry}) > 0 /\ EditEnds(q)
    /\ contended' = TRUE
    /\ UNCHANGED <<entries, pointer, registered, edited, misled>>

-----------------------------------------------------------------------------
(* Deleting: the row, the channels that name it, and the default's heir. *)

AsksToDelete ==
    /\ \E e \in Ids : EditBegins([id |-> edited, at |-> "remove", entry |-> e, was |-> FALSE])
    /\ Contends
    /\ UNCHANGED <<entries, pointer, registered, misled>>

Removes(q) ==
    /\ q.at = "remove"
    /\ IF q.entry \in Ids
       THEN edits' = (edits \ {q}) \cup
              {[q EXCEPT !.at = "pointers", !.was = \E d \in Defaults : d.id = q.entry]}
       ELSE EditEnds(q)
    /\ entries' = [i \in {j \in DOMAIN entries : entries[j].id # q.entry} |-> entries[i]]
    /\ misled' = misled \cup {e \in {q.entry} : \E r \in edits : r.at = "point" /\ r.entry = e}
    /\ UNCHANGED <<pointer, registered, edited, contended>>

ClearsPointersOnly(q) ==
    /\ q.at = "pointers" /\ EditEnds(q)
    /\ pointer' = IF pointer = q.entry THEN NoEntry ELSE pointer
    /\ UNCHANGED <<entries, registered, edited, contended, misled>>

ClearsPointers(q) ==
    /\ q.at = "pointers" /\ IF q.was THEN EditGoes(q, "find") ELSE EditEnds(q)
    /\ pointer' = IF pointer = q.entry THEN NoEntry ELSE pointer
    /\ UNCHANGED <<entries, registered, edited, contended, misled>>

\* The oldest that is left, if any.
FindsHeir(q) ==
    /\ q.at = "find"
    /\ IF Ids = {} THEN EditEnds(q)
       ELSE edits' = (edits \ {q}) \cup
              {[q EXCEPT !.at = "promote", !.entry = entries[Oldest].id, !.was = entries[Oldest].isDefault]}
    /\ UNCHANGED <<entries, pointer, registered, edited, contended, misled>>

Promotes(q) ==
    /\ q.at = "promote" /\ EditEnds(q)
    /\ entries' = IF q.was THEN entries ELSE MadeDefault(entries, q.entry)
    /\ UNCHANGED <<pointer, registered, edited, contended, misled>>

-----------------------------------------------------------------------------
(* updateChannel: the entry is found to exist, and the channel saved later. *)

AsksToPoint ==
    /\ \E e \in Ids : EditBegins([id |-> edited, at |-> "point", entry |-> e])
    /\ UNCHANGED <<entries, pointer, registered, contended, misled>>

Points(q) ==
    /\ q.at = "point" /\ EditEnds(q)
    /\ pointer' = q.entry
    /\ UNCHANGED <<entries, registered, edited, contended, misled>>

-----------------------------------------------------------------------------
VoiceServersNext ==
    \/ AsksToCreate \/ AsksForDefault \/ AsksToDelete \/ AsksToPoint
    \/ \E q \in edits :
          \/ Counts(q) \/ Clears(q) \/ CreatesEntry(q) \/ CreateRefused(q)
          \/ ClearsOthers(q) \/ SavesDefault(q) \/ SaveRefused(q)
          \/ Removes(q) \/ ClearsPointers(q) \/ FindsHeir(q) \/ Promotes(q)
          \/ Points(q)

VoiceServersSpec == VoiceServersInit /\ [][VoiceServersNext]_voiceServers

-----------------------------------------------------------------------------
(* Properties. *)

\* "A server never ends up with entries but no default", nor with two, after
\* requests that each ran alone and were not refused half way, whatever they
\* created, chose and deleted.
OneDefault ==
    edits = {} /\ Ids # {} /\ ~contended => Cardinality(Defaults) = 1

\* "Channels pointing here are cleared rather than left dangling", by every
\* deletion that did not meet the channel's own update.
PointerLives == edits = {} => pointer \in Ids \cup misled \cup {NoEntry}
=============================================================================
