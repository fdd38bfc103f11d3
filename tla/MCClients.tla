------------------------------- MODULE MCClients -------------------------------
(* Instances of VoiceModeration, with two moderators, of VoiceClient, of       *)
(* Groups and of MessageWindow for TLC.  They share nothing: in each behaviour *)
(* one of them moves, and the others rest.                                     *)
EXTENDS MCVoiceModeration, VoiceClient, Groups, MessageWindow

CONSTANTS ann, bob, cy, a1, a2, b1, busy, quiet

VARIABLE moving

All == <<moving, vars, voiceClient, groups, messageWindow>>

Three  == {ann, bob, cy}
Tabs   == {a1, a2, b1}
TabsOf == [s \in Socket |-> IF s = b1 THEN bob ELSE ann]

TwoChannels == {busy, quiet}
History     == [c \in Chan |-> IF c = busy THEN 4 ELSE 1]

\* The group is of ann and bob; cy is there to be added, and has no tab.
ClientsInit ==
    /\ moving \in {"moderation", "client", "groups", "window"}
    /\ Init /\ VoiceClientInit /\ GroupsInit /\ MessageWindowInit
    /\ onScreen = busy /\ (moving # "window" => link = "up")
    /\ moving # "moderation" => permits = {}
    /\ members = <<ann, bob>>

ClientsNext ==
    \/ moving = "moderation" /\ Next            /\ UNCHANGED <<moving, voiceClient, groups, messageWindow>>
    \/ moving = "client" /\ VoiceClientNext     /\ UNCHANGED <<moving, vars, groups, messageWindow>>
    \/ moving = "groups" /\ GroupsNext          /\ UNCHANGED <<moving, vars, voiceClient, messageWindow>>
    \/ moving = "window" /\ MessageWindowNext   /\ UNCHANGED <<moving, vars, voiceClient, groups>>

ClientsSpec == ClientsInit /\ [][ClientsNext]_All
=============================================================================
