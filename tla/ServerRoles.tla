----------------------------- MODULE ServerRoles ------------------------------
(***************************************************************************)
(* Who is in a server, which roles it has and who holds them:              *)
(* server/controllers/rolesController.ts, removeMember of                  *)
(* serversController.ts, joinViaInvite of invitesController.ts and the     *)
(* overwrites of one channel (validateOverwrites of utils/access.ts, saved *)
(* by updateChannel).                                                      *)
(*                                                                         *)
(* A request reads the server's document, then the roles, then writes; any *)
(* other request may run between.  Nothing here takes the server's lock.   *)
(*                                                                         *)
(* Abstracted: names, colours and the other fields of a role; a list of    *)
(* overwrites has one entry; the reads of the roles of one request are one *)
(* step.  Who is told is ChannelVisibility's.                              *)
(***************************************************************************)
EXTENDS Permissions, FiniteSetsExt

CONSTANTS
    Owner, Member,      \* the owner, and everybody else
    Role,               \* ids of roles but Everyone, each made once
    KickMembers,
    Default,            \* DEFAULT_EVERYONE
    Wants,              \* the bitfields a request may name
    MaxAsks             \* bound: requests

ASSUME RolesAssumption ==
    /\ Owner \notin Member /\ Everyone \notin Role
    /\ KickMembers \in Permission
    /\ Default \subseteq Permission /\ Wants \subseteq SUBSET Permission
    /\ MaxAsks \in Nat

VARIABLES
    members,    \* Server.members, but the owner
    roles,      \* the Role documents, by id
    rows,       \* Server.memberRoles: the rows by age, which orders them as the array does
    over,       \* the channel's overwrites
    asking,     \* requests at an await
    made,       \* ids used so far
    asks,
    handed,     \* history: what the owner ever put in a role or an overwrite
    crossed     \* history: roles and members that went while a request was about to name them

serverRoles == <<members, roles, rows, over, asking, made, asks, handed, crossed>>

Person == Member \cup {Owner}

With(f, x, v) == [y \in DOMAIN f \cup {x} |-> IF y = x THEN v ELSE f[y]]

RolesTypeOK ==
    /\ members \subseteq Member
    /\ Everyone \in DOMAIN roles /\ DOMAIN roles \subseteq Role \cup {Everyone}
    /\ \A r \in DOMAIN roles :
          /\ roles[r].bits \subseteq Permission
          /\ roles[r].position \in Nat /\ (roles[r].position = 0 <=> r = Everyone)
    /\ \A i \in DOMAIN rows : rows[i].user \in Member /\ rows[i].roles \subseteq Role
    /\ \A t \in DOMAIN over : over[t].allow \cap over[t].deny = {}
    /\ made \subseteq Role /\ crossed \subseteq Role \cup Member
    /\ handed \subseteq Permission /\ asks \in Nat

\* A server the owner has begun to set up: one role, which one member may hold.
RolesInit ==
    /\ members \in {Member, {}}
    /\ \E r \in Role, bits \in Wants :
          /\ roles = [x \in {Everyone, r} |-> IF x = Everyone THEN [position |-> 0, bits |-> Default]
                                              ELSE [position |-> 1, bits |-> bits]]
          /\ made = {r} /\ handed = Default \cup bits
          /\ rows \in {<<>>} \cup {<<[user |-> m, roles |-> {r}]>> : m \in members}
    /\ over = <<>> /\ asking = {} /\ asks = 0 /\ crossed = {}

-----------------------------------------------------------------------------
(* Reading. *)

RowsOf(u) == {i \in DOMAIN rows : rows[i].user = u}

\* The first row is the one that counts.
RowIndex(u) == IF RowsOf(u) = {} THEN 0 ELSE Min(RowsOf(u))
Listed(u)   == IF RowIndex(u) = 0 THEN {} ELSE rows[RowIndex(u)].roles

Highest(rs) ==
    IF rs = {} THEN -1
    ELSE CHOOSE n \in {roles[r].position : r \in rs} : \A r \in rs : roles[r].position <= n

\* actorContext and loadAccess: the roles listed that exist when looked up.
Actor(u, listed) ==
    LET held == listed \cap DOMAIN roles
    IN  [isOwner |-> u = Owner, highest |-> Highest(held),
         bits |-> Resolve(u = Owner, {roles[r].bits : r \in held \cup {Everyone}})]

\* loadServer: only members get in; the document is a copy from here on.
Asks(by, what, theirs) ==
    /\ by \in members \cup {Owner}
    /\ asks < MaxAsks /\ asks' = asks + 1
    /\ asking' = asking \cup
         {[id |-> asks, at |-> "read", by |-> by, mine |-> Listed(by),
           theirs |-> theirs, what |-> what]}
    /\ UNCHANGED <<members, roles, rows, over, made, handed, crossed>>

Request ==
         [do : {"create"}, wants : Wants]
    \cup [do : {"update"}, role : Role \cup {Everyone}, wants : Wants]
    \cup [do : {"delete"}, role : Role]
    \cup [do : {"overwrite"}, target : Role \cup {Everyone} \cup Member, allow : Wants]

\* What a request does with the server's members reads their rows too.
About == [do : {"assign"}, user : Member, roles : SUBSET Role] \cup [do : {"remove"}, user : Member]

Asked ==
    \E by \in Person :
       \/ \E what \in Request : Asks(by, what, {})
       \/ \E what \in About :
             /\ what.do = "assign" => what.user \in members
             /\ Asks(by, what, Listed(what.user))

-----------------------------------------------------------------------------
(* Weighing: the roles are read, and the request refused or let through. *)

Top == Highest(DOMAIN roles)

AtLeast(n, m) == IF n > m THEN n ELSE m
AtMost(n, m)  == IF n < m THEN n ELSE m

\* createRole: above every role but below the maker's own, and never at the floor.
NewPosition(actor) ==
    AtLeast(1, AtMost(Top + 1, IF actor.isOwner THEN Top + 1 ELSE actor.highest - 1))

MayManageRoles(actor) == actor.isOwner \/ ManageRoles \in actor.bits

MayUpdateFreely(actor, what) ==
    what.role \in DOMAIN roles /\ CanManageRole(actor, roles[what.role].position)

MayUpdate(actor, what) ==
    /\ what.role \in DOMAIN roles
    /\ CanManageRole(actor, roles[what.role].position)
    /\ Grantable(actor, what.wants)
    /\ Grantable(actor, roles[what.role].bits \ what.wants)

MayAssign(actor, what, theirs) ==
    /\ MayManageRoles(actor)
    /\ what.roles \subseteq DOMAIN roles
    /\ actor.isOwner \/ Actor(what.user, theirs).highest < actor.highest
    /\ \A r \in what.roles : CanManageRole(actor, roles[r].position)

\* validateOverwrites, behind updateChannel's Manage Roles.
MayOverwrite(actor, what) ==
    /\ MayManageRoles(actor) /\ Grantable(actor, what.allow)
    /\ what.target \in DOMAIN roles \cup members
    /\ ~actor.isOwner /\ what.target \in DOMAIN roles =>
          CanManageRole(actor, roles[what.target].position)

MayRemove(by, actor, what, theirs) ==
    by = what.user \/ CanActOnMember(actor, [Actor(what.user, theirs) EXCEPT !.isOwner = FALSE], KickMembers)

Passes(by, actor, what, theirs) ==
    \/ what.do = "create" /\ MayManageRoles(actor) /\ Grantable(actor, what.wants)
    \/ what.do = "update" /\ MayUpdate(actor, what)
    \/ what.do = "delete" /\ what.role \in DOMAIN roles /\ CanManageRole(actor, roles[what.role].position)
    \/ what.do = "assign" /\ MayAssign(actor, what, theirs)
    \/ what.do = "overwrite" /\ MayOverwrite(actor, what)
    \/ what.do = "remove" /\ MayRemove(by, actor, what, theirs)

\* From here on only what will be written matters.
Weighs(q) ==
    /\ q.at = "read"
    /\ LET actor == Actor(q.by, q.mine)
       IN  asking' = (asking \ {q}) \cup
             IF Passes(q.by, actor, q.what, q.theirs)
             THEN {[id |-> q.id, at |-> "write", by |-> q.by, what |-> q.what,
                    position |-> NewPosition(actor)]}
             ELSE {}
    /\ UNCHANGED <<members, roles, rows, over, made, asks, handed, crossed>>

-----------------------------------------------------------------------------
(* Writing. *)

Answers(q)  == asking' = asking \ {q}
Writing(q, do) == q.at = "write" /\ q.what.do = do
Hands(q, bits) == handed' = IF q.by = Owner THEN handed \cup bits ELSE handed

CreatesRole(q) ==
    /\ Writing(q, "create") /\ Answers(q)
    /\ \E r \in Role \ made :
          /\ made' = made \cup {r}
          /\ roles' = With(roles, r, [position |-> q.position, bits |-> q.what.wants])
    /\ Hands(q, q.what.wants)
    /\ UNCHANGED <<members, rows, over, asks, crossed>>

\* role.save(): a role deleted meanwhile is an error.
UpdatesRole(q) ==
    /\ Writing(q, "update") /\ Answers(q)
    /\ IF q.what.role \in DOMAIN roles
       THEN roles' = [roles EXCEPT ![q.what.role].bits = q.what.wants] /\ Hands(q, q.what.wants)
       ELSE UNCHANGED <<roles, handed>>
    /\ UNCHANGED <<members, rows, over, made, asks, crossed>>

\* A request that has let r through, or found the member, before it went.
NamesRole(r) ==
    \E q \in asking : q.at \in {"write", "push"} /\ q.what.do = "assign" /\ r \in q.what.roles
NamesMember(m) ==
    \E q \in asking : q.what.do = "assign" /\ m = q.what.user

\* The document first, then the rows of whoever held it.
DeletesRole(q) ==
    /\ Writing(q, "delete")
    /\ asking' = (asking \ {q}) \cup {[q EXCEPT !.at = "pull"]}
    /\ roles' = [r \in DOMAIN roles \ {q.what.role} |-> roles[r]]
    /\ crossed' = IF NamesRole(q.what.role) THEN crossed \cup {q.what.role} ELSE crossed
    /\ UNCHANGED <<members, rows, over, made, asks, handed>>

PullsRole(q) ==
    /\ q.at = "pull" /\ Answers(q)
    /\ rows' = [i \in DOMAIN rows |-> [rows[i] EXCEPT !.roles = @ \ {q.what.role}]]
    /\ UNCHANGED <<members, roles, over, made, asks, handed, crossed>>

\* $set where the member has a row ...
SetsRow(q) ==
    /\ Writing(q, "assign")
    /\ IF RowIndex(q.what.user) # 0
       THEN /\ Answers(q)
            /\ rows' = [rows EXCEPT ![RowIndex(q.what.user)].roles = q.what.roles]
       ELSE /\ asking' = (asking \ {q}) \cup {[q EXCEPT !.at = "push"]}
            /\ UNCHANGED rows
    /\ UNCHANGED <<members, roles, over, made, asks, handed, crossed>>

\* ... and a write of its own where they had none, whether or not they are a member.
PushesRow(q) ==
    /\ q.at = "push" /\ Answers(q)
    /\ rows' = With(rows, 1 + Max({0} \cup DOMAIN rows),
                    [user |-> q.what.user, roles |-> q.what.roles])
    /\ UNCHANGED <<members, roles, over, made, asks, handed, crossed>>

WritesOverwrite(q) ==
    /\ Writing(q, "overwrite") /\ Answers(q)
    /\ over' = [t \in {q.what.target} |-> [allow |-> q.what.allow, deny |-> {}]]
    /\ Hands(q, q.what.allow)
    /\ UNCHANGED <<members, roles, rows, made, asks, crossed>>

\* removeMember: membership and rows go together.
RemovesOnlyMember(q) ==
    /\ Writing(q, "remove") /\ Answers(q)
    /\ members' = members \ {q.what.user}
    /\ UNCHANGED <<roles, over, made, asks, handed, rows, crossed>>

RemovesMember(q) ==
    /\ Writing(q, "remove") /\ Answers(q)
    /\ LET m == q.what.user
       IN  IF m \in members
           THEN /\ members' = members \ {m}
                /\ rows' = [i \in DOMAIN rows \ RowsOf(m) |-> rows[i]]
                /\ crossed' = IF NamesMember(m) THEN crossed \cup {m} ELSE crossed
           ELSE UNCHANGED <<members, rows, crossed>>
    /\ UNCHANGED <<roles, over, made, asks, handed>>

\* joinViaInvite, joinPublicServer: one conditional update.
Joins(m) ==
    /\ m \in Member \ members /\ asks < MaxAsks /\ asks' = asks + 1
    /\ members' = members \cup {m}
    /\ UNCHANGED <<roles, rows, over, asking, made, handed, crossed>>

-----------------------------------------------------------------------------
RolesNext ==
    \/ Asked
    \/ \E q \in asking :
          \/ Weighs(q)
          \/ CreatesRole(q) \/ UpdatesRole(q) \/ DeletesRole(q) \/ PullsRole(q)
          \/ SetsRow(q) \/ PushesRow(q) \/ WritesOverwrite(q) \/ RemovesMember(q)
    \/ \E m \in Member : Joins(m)

RolesSpec == RolesInit /\ [][RolesNext]_serverRoles

-----------------------------------------------------------------------------
(* Properties. *)

\* "You cannot grant a permission you do not hold": until the owner has handed
\* out Administrator, no role and no overwrite carries a permission the owner
\* never handed out, whoever makes, edits and assigns roles, and however stale
\* what their requests were weighed by.
NothingFromNowhere ==
    Administrator \in handed
    \/ /\ \A r \in DOMAIN roles : roles[r].bits \subseteq handed
       /\ \A t \in DOMAIN over : over[t].allow \subseteq handed

\* "Take it off everyone who held it, in the same breath": a member's row names
\* only roles that exist, but for one being taken off, and one that went while a
\* request was about to give it.
HeldExist ==
    \A i \in DOMAIN rows : rows[i].roles \subseteq
        DOMAIN roles \cup crossed \cup {q.what.role : q \in {p \in asking : p.at = "pull"}}

\* "orphans that silently hand the roles back": whoever is not a member has no
\* row, unless they went while a request was about to write one.
LeaverHoldsNothing ==
    \A i \in DOMAIN rows : rows[i].user \in members \cup crossed
=============================================================================
