------------------------- MODULE MCVoiceModeration ---------------------------
(* Instances of VoiceModeration for TLC: one moderator with every power, or  *)
(* two, of whom one may do everything and the other mute.                    *)
EXTENDS VoiceModeration

CONSTANTS kim, lee

JustKim == {kim}
Both    == {kim, lee}
AllPowers     == [m \in Moderator |-> {"mute", "deafen", "move"}]
UnequalPowers == [AllPowers EXCEPT ![lee] = {"mute"}]
=============================================================================
