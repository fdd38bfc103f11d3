------------------------------ MODULE MCVoiceRooms -----------------------------
(* Instances of VoiceModeration, with one moderator, of MusicRooms, of         *)
(* MusicChannel and of VoiceClient, with its fairness, for TLC.  They share    *)
(* nothing: in each behaviour one of them moves, and the others rest.          *)
EXTENDS VoiceModeration, MusicRooms, MusicChannel, VoiceClient

CONSTANT kim

VARIABLE moving

All == <<moving, vars, musicRooms, channel, voiceClient>>

JustKim   == {kim}
AllPowers == [m \in Moderator |-> {"mute", "deafen", "move"}]

VoiceRoomsInit ==
    /\ moving \in {"moderation", "rooms", "songs", "client"}
    /\ Init /\ RoomsInit /\ ChannelInit /\ VoiceClientInit
    /\ moving # "moderation" => permits = {}

VoiceRoomsNext ==
    \/ moving = "moderation" /\ Next        /\ UNCHANGED <<moving, musicRooms, channel, voiceClient>>
    \/ moving = "rooms"      /\ RoomsNext   /\ UNCHANGED <<moving, vars, channel, voiceClient>>
    \/ moving = "songs"      /\ ChannelNext /\ UNCHANGED <<moving, vars, musicRooms, voiceClient>>
    \/ moving = "client"     /\ VoiceClientNext /\ UNCHANGED <<moving, vars, musicRooms, channel>>

ClientMoves(A) == moving = "client" /\ A /\ UNCHANGED <<moving, vars, musicRooms, channel>>

VoiceRoomsSpec ==
    /\ VoiceRoomsInit /\ [][VoiceRoomsNext]_All
    /\ \A r \in Room, c \in Channel :
          WF_All(moving = "rooms" /\ GraceEnds(r, c) /\ UNCHANGED <<moving, vars, channel, voiceClient>>)
    /\ WF_All(ClientMoves(SessionClosed)) /\ WF_All(ClientMoves(RetryTimerFires))
    /\ WF_All(ClientMoves(\E a \in attempts : AttemptStep(a)))
=============================================================================
