------------------------------- MODULE MCServers -------------------------------
(* Instances of ServerRoles, ChannelVisibility, ServerStructure, VoiceServers  *)
(* and UploadQueue for TLC, and the resolution of permissions over bounded     *)
(* inputs.                                                                     *)
(* They share no state: in each behaviour one of them moves, and the others    *)
(* rest.                                                                       *)
EXTENDS ServerRoles, ChannelVisibility, ServerStructure, VoiceServers, UploadQueue

VARIABLES moving, question

All == <<moving, question, serverRoles, visibility, structure, voiceServers, uploadVars>>

FourPermissions == {"ViewChannels", "ManageRoles", "KickMembers", "Administrator"}
SeesOnly == {"ViewChannels"}
TwoWants == {{"KickMembers"}, {"ViewChannels", "ManageRoles"}}

\* What can be asked of resolveChannel: who, the bitfields held, and two layers
\* of entries for everyone, for a role, held or not, and for the member.
Entries == [allow : {{"ViewChannels"}}, deny : {{}}]
               \cup [allow : {{}, {"Administrator"}}, deny : {{"ViewChannels"}}]
Targets == {Everyone, CHOOSE r \in Role : TRUE, CHOOSE m \in Member : TRUE}
Layers  == UNION {[T -> Entries] : T \in SUBSET Targets}
Helds   == {{{}}, {{"ViewChannels"}}, {{}, {"Administrator"}},
            {{"ViewChannels", "ManageRoles"}, {"KickMembers"}}}

NoQuestion == [isOwner |-> TRUE, held |-> {}, roles |-> {}, outer |-> <<>>, inner |-> <<>>]
Questions ==
    [isOwner : {FALSE}, held : Helds, roles : {{}, Targets \cap Role}, outer : Layers, inner : Layers]

Me == CHOOSE m \in Member : TRUE

\* What resolveChannel gives is, permission by permission, the last word of the
\* entry that ranks highest.
ResolvesByPrecedence ==
    \A p \in Permission :
        p \in ResolveChannel(question.isOwner, question.held, Me, question.roles,
                             question.outer, question.inner)
        <=> HasByPrecedence(p, question.isOwner, question.held, Me, question.roles,
                            question.outer, question.inner)

ServersInit ==
    /\ moving \in {"question", "roles", "visibility", "structure", "voiceServers", "uploads"}
    /\ RolesInit /\ VisibilityInit /\ StructureInit /\ VoiceServersInit /\ UploadInit
    /\ moving # "roles" => members = {} /\ made = {CHOOSE r \in Role : TRUE}
                           /\ handed = {"KickMembers", "ViewChannels"}
    /\ moving # "visibility" => now.over = "none"
    /\ moving # "structure" =>
          \A c, d \in DOMAIN channels : c # d => /\ channels[c].category = channels[d].category
                                                 /\ channels[c].position # channels[d].position
    /\ question \in IF moving = "question" THEN Questions ELSE {NoQuestion}

ServersNext ==
    \/ /\ moving = "roles" /\ RolesNext
       /\ UNCHANGED <<moving, question, visibility, structure, voiceServers, uploadVars>>
    \/ /\ moving = "visibility" /\ VisibilityNext
       /\ UNCHANGED <<moving, question, serverRoles, structure, voiceServers, uploadVars>>
    \/ /\ moving = "structure" /\ StructureNext
       /\ UNCHANGED <<moving, question, serverRoles, visibility, voiceServers, uploadVars>>
    \/ /\ moving = "voiceServers" /\ VoiceServersNext
       /\ UNCHANGED <<moving, question, serverRoles, visibility, structure, uploadVars>>
    \/ /\ moving = "uploads" /\ UploadNext
       /\ UNCHANGED <<moving, question, serverRoles, visibility, structure, voiceServers>>

\* What names a member, a role, a category or a voice server names one there is:
\* the rows of roles held, the channels, and the channels again.
ReferencesLive == LeaverHoldsNothing /\ HeldExist /\ NoDanglingCategory /\ PointerLives

ServersSpec == ServersInit /\ [][ServersNext]_All
=============================================================================
