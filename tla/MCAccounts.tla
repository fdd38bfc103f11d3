------------------------------ MODULE MCAccounts -------------------------------
(* Instances of Presence, Sessions, VoiceTokens and PhoneNotices for TLC.      *)
(* They share nothing: in each behaviour one of them moves, and the others     *)
(* rest.                                                                       *)
EXTENDS Presence, Sessions, VoiceTokens, PhoneNotices

CONSTANTS x, y, z, v0, v1

VARIABLE moving

All == <<moving, presence, sessions, tokens, phoneNotices>>

ThreePeople == {x, y, z}
TwoServers  == {v0, v1}
MaySome     == [p \in Person |-> IF p = y THEN {v0} ELSE MediaServer]

AccountsInit ==
    /\ moving \in {"presence", "sessions", "tokens", "phone"}
    /\ PresenceInit /\ SessionsInit /\ TokensInit /\ PhoneInit
    /\ moving # "presence" => stored.chosen = "online"
    /\ moving # "sessions" => jar = [d \in Device |-> NoCookie]
    /\ moving # "phone" => cursor = Never

AccountsNext ==
    \/ /\ moving = "presence" /\ PresenceNext
       /\ UNCHANGED <<moving, sessions, tokens, phoneNotices>>
    \/ /\ moving = "sessions" /\ SessionsNext
       /\ UNCHANGED <<moving, presence, tokens, phoneNotices>>
    \/ /\ moving = "tokens" /\ TokensNext
       /\ UNCHANGED <<moving, presence, sessions, phoneNotices>>
    \/ /\ moving = "phone" /\ PhoneNext
       /\ UNCHANGED <<moving, presence, sessions, tokens>>

AccountsSpec == AccountsInit /\ [][AccountsNext]_All
=============================================================================
