------------------------------ MODULE VoiceTokens ------------------------------
(***************************************************************************)
(* Which media server a call is on and who may enter it:                   *)
(* server/controllers/voiceController.ts (getVoiceToken, moveVoiceCall),   *)
(* server/utils/resolveVoiceServer.ts and the choice that                  *)
(* server/sockets/chatSocket.ts keeps for a call (fixCallVoiceServer,      *)
(* setCallVoiceServer, releaseCallRoom).                                   *)
(*                                                                         *)
(* One voice channel with a user limit, and one conversation.  A token is  *)
(* minted over several awaits and used later, when call:join seats its     *)
(* holder; between the two nothing is held for them.                       *)
(*                                                                         *)
(* Abstracted: permissions and the restriction in the grant, which are     *)
(* VoiceModeration's; the grace period, so that a call that empties may be *)
(* released at any time until somebody is seated.                          *)
(***************************************************************************)
EXTENDS Naturals, FiniteSets

CONSTANTS
    Person,
    MediaServer,    \* the servers there are
    Instance,       \* the instance's own, for whoever cannot have another
    May,            \* May[p]: the servers p may be sent to
    Unsettled,      \* no choice is kept for the conversation
    Limit,          \* userLimit; 0 is no limit
    MaxMints        \* bound: tokens asked for

ASSUME TokensAssumption ==
    /\ Instance \in MediaServer /\ Unsettled \notin MediaServer
    /\ May \in [Person -> SUBSET MediaServer]
    /\ Limit \in Nat /\ MaxMints \in Nat

VARIABLES
    seated,     \* seated[r]: the occupancy of "channel" and of "chat"
    on,         \* on[p]: the server p's chat connection is at
    settled,    \* callVoiceServer of the conversation
    minting,    \* getVoiceToken and moveVoiceCall at an await
    token,      \* token[p]: what p holds for each room, not used yet
    told,       \* who has been told the call moved, and not rejoined
    mints,
    apart       \* history: the choice moved under a token, or its holder may not have it

tokens == <<seated, on, settled, minting, token, told, mints, apart>>

Holding == [channel : BOOLEAN, chat : MediaServer \cup {Unsettled}]

TokensTypeOK ==
    /\ seated \in [channel : SUBSET Person, chat : SUBSET Person]
    /\ on \in [Person -> MediaServer \cup {Unsettled}]
    /\ settled \in MediaServer \cup {Unsettled}
    /\ minting \subseteq [do : {"limit", "channel"}, p : Person]
          \cup [do : {"resolve", "move"}, p : Person, wants : MediaServer, was : MediaServer \cup {Unsettled}]
    /\ token \in [Person -> Holding]
    /\ told \subseteq seated.chat
    /\ mints \in Nat /\ apart \in BOOLEAN

\* resolveForConversation: what cannot be had falls back on the instance's own.
Resolved(p, wants) == IF wants \in May[p] THEN wants ELSE Instance

TokensInit ==
    /\ seated = [channel |-> {}, chat |-> {}]
    /\ on = [p \in Person |-> Unsettled]
    /\ settled = Unsettled /\ minting = {} /\ told = {}
    /\ token = [p \in Person |-> [channel |-> FALSE, chat |-> Unsettled]]
    /\ mints = 0 /\ apart = FALSE

Mints(m) ==
    /\ mints < MaxMints /\ mints' = mints + 1
    /\ \A n \in minting : n.p # m.p
    /\ minting' = minting \cup {m}

-----------------------------------------------------------------------------
(* The channel. *)

AsksForChannel(p) ==
    /\ Mints([do |-> "limit", p |-> p])
    /\ UNCHANGED <<seated, on, settled, token, told, apart>>

HasRoom(p) == Limit = 0 \/ p \in seated.channel \/ Cardinality(seated.channel) < Limit

\* The limit is looked at here, and the server is resolved over further awaits.
ChecksLimit(p) ==
    /\ [do |-> "limit", p |-> p] \in minting
    /\ minting' = (minting \ {[do |-> "limit", p |-> p]})
                     \cup IF HasRoom(p) THEN {[do |-> "channel", p |-> p]} ELSE {}
    /\ UNCHANGED <<seated, on, settled, token, told, mints, apart>>

GivesChannelToken(p) ==
    /\ [do |-> "channel", p |-> p] \in minting
    /\ minting' = minting \ {[do |-> "channel", p |-> p]}
    /\ token' = [token EXCEPT ![p].channel = TRUE]
    /\ UNCHANGED <<seated, on, settled, told, mints, apart>>

JoinsChannel(p) ==
    /\ token[p].channel
    /\ token' = [token EXCEPT ![p].channel = FALSE]
    /\ seated' = [seated EXCEPT !.channel = @ \cup {p}]
    /\ UNCHANGED <<on, settled, minting, told, mints, apart>>

LeavesChannel(p) ==
    /\ p \in seated.channel
    /\ seated' = [seated EXCEPT !.channel = @ \ {p}]
    /\ UNCHANGED <<on, settled, minting, token, told, mints, apart>>

-----------------------------------------------------------------------------
(* The conversation. *)

Wanted(prefers) == IF settled # Unsettled THEN settled ELSE prefers

\* The choice kept is read first, before the servers p may have are.
AsksPreferring(p, prefers) ==
    /\ Mints([do |-> "resolve", p |-> p, wants |-> prefers, was |-> settled])
    /\ UNCHANGED <<seated, on, settled, token, told, apart>>

AsksForChat(p, prefers) ==
    /\ Mints([do |-> "resolve", p |-> p, wants |-> Wanted(prefers), was |-> settled])
    /\ UNCHANGED <<seated, on, settled, token, told, apart>>

\* The first answer is kept, and whoever asked is given their own.
GivesChatToken(m) ==
    /\ m \in minting /\ m.do = "resolve"
    /\ minting' = minting \ {m}
    /\ LET mine == Resolved(m.p, m.wants)
       IN  /\ settled' = IF settled = Unsettled THEN mine ELSE settled
           /\ token' = [token EXCEPT ![m.p].chat = mine]
           /\ apart' = (apart \/ m.was # settled \/ settled \notin May[m.p] \cup {Unsettled})
    /\ UNCHANGED <<seated, on, told, mints>>

\* Connecting, and call:join.
JoinsChat(p) ==
    /\ token[p].chat # Unsettled
    /\ on' = [on EXCEPT ![p] = token[p].chat]
    /\ token' = [token EXCEPT ![p].chat = Unsettled]
    /\ seated' = [seated EXCEPT !.chat = @ \cup {p}]
    /\ told' = told \ {p}
    /\ UNCHANGED <<settled, minting, mints, apart>>

LeavesChat(p) ==
    /\ p \in seated.chat
    /\ seated' = [seated EXCEPT !.chat = @ \ {p}]
    /\ on' = [on EXCEPT ![p] = Unsettled]
    /\ told' = told \ {p}
    /\ UNCHANGED <<settled, minting, token, mints, apart>>

\* Tokens that are out, or being made of the old choice, outlive the choice.
Outstanding == \E p \in Person : token[p].chat # Unsettled
InTheMaking == \E m \in minting : m.do = "resolve" /\ m.was = settled

Releases ==
    /\ seated.chat = {}
    /\ settled # Unsettled /\ settled' = Unsettled
    /\ apart' = (apart \/ Outstanding \/ InTheMaking)
    /\ UNCHANGED <<seated, on, minting, token, told, mints>>

AsksToMove(p, to) ==
    /\ Mints([do |-> "move", p |-> p, wants |-> to, was |-> settled])
    /\ UNCHANGED <<seated, on, settled, token, told, apart>>

\* Everybody listed is told; nobody looks whether anybody is.
Moves(m) ==
    /\ m \in minting /\ m.do = "move"
    /\ minting' = minting \ {m}
    /\ settled' = Resolved(m.p, m.wants)
    /\ told' = seated.chat
    /\ apart' = (apart \/ (settled' # settled /\ (Outstanding \/ InTheMaking)))
    /\ UNCHANGED <<seated, on, token, mints>>

-----------------------------------------------------------------------------
TokensNext ==
    \/ \E p \in Person :
          \/ AsksForChannel(p) \/ ChecksLimit(p) \/ GivesChannelToken(p)
          \/ JoinsChannel(p) \/ LeavesChannel(p)
          \/ JoinsChat(p) \/ LeavesChat(p)
          \/ \E v \in MediaServer : AsksForChat(p, v) \/ AsksToMove(p, v)
    \/ \E m \in minting : GivesChatToken(m) \/ Moves(m)
    \/ Releases

TokensSpec == TokensInit /\ [][TokensNext]_tokens

-----------------------------------------------------------------------------
(* Properties. *)

\* "Without this, two people ... join same-named rooms on each, and hear nothing
\* while the UI shows a call in progress": everybody in the conversation's call
\* who has not been told to come over is on the server the call is kept at,
\* unless a token was minted while another was settling the choice, for somebody
\* who may not have it, or was still out when the choice was moved or let go of.
TogetherUnlessApart ==
    ~apart => \A p \in seated.chat \ told : on[p] = settled
=============================================================================
