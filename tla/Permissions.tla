----------------------------- MODULE Permissions ------------------------------
(***************************************************************************)
(* What a member may do: server/permissions.ts and the pure part of        *)
(* server/utils/access.ts.                                                 *)
(*                                                                         *)
(* A bitfield is the set of permissions whose bits are set.  A layer of    *)
(* overwrites is a function from its targets (roles and members, at most   *)
(* one entry each, which validateOverwrites sees to) to what it allows and *)
(* denies; layers are given outermost first, the category's and then the   *)
(* channel's.                                                              *)
(***************************************************************************)
EXTENDS Integers

CONSTANTS
    Permission,
    Administrator, ManageRoles, ViewChannels,
    Everyone        \* the role every member has, at position 0

ASSUME PermissionsAssumption ==
    {Administrator, ManageRoles, ViewChannels} \subseteq Permission

\* `held` is the set of the bitfields of everyone's role and of the roles held.
Resolve(isOwner, held) ==
    IF isOwner \/ Administrator \in UNION held THEN Permission ELSE UNION held

\* Deny before allow.
Apply(perms, deny, allow) == (perms \ deny) \cup allow

EntriesOf(layer, targets) == {layer[t] : t \in DOMAIN layer \cap targets}
Denied(entries)  == UNION {e.deny : e \in entries}
Allowed(entries) == UNION {e.allow : e \in entries}
Overwritten(perms, entries) == Apply(perms, Denied(entries), Allowed(entries))

\* One layer: everyone's entry, then those of the roles held, together, then the
\* member's own.
ThroughRolesFirst(perms, layer, me, roles) ==
    LET r == Overwritten(perms, EntriesOf(layer, roles))
        e == Overwritten(r, EntriesOf(layer, {Everyone}))
    IN  Overwritten(e, EntriesOf(layer, {me}))

Through(perms, layer, me, roles) ==
    LET e == Overwritten(perms, EntriesOf(layer, {Everyone}))
        r == Overwritten(e, EntriesOf(layer, roles))
    IN  Overwritten(r, EntriesOf(layer, {me}))

\* resolveChannel: overwrites reach neither the owner nor an administrator.
ResolveChannel(isOwner, held, me, roles, category, channel) ==
    LET base == Resolve(isOwner, held)
    IN  IF base = Permission THEN Permission
        ELSE Through(Through(base, category, me, roles), channel, me, roles)

\* channelViewOf.
ViewOf(bits, hideWhenDenied) ==
    IF ViewChannels \in bits THEN "full" ELSE IF hideWhenDenied THEN "none" ELSE "locked"

-----------------------------------------------------------------------------
(* Rank.  An actor is [isOwner, bits, highest]; with no role, highest = -1. *)

Outranks(actor, position) == actor.isOwner \/ actor.highest > position

CanManageRole(actor, position) ==
    actor.isOwner \/ (ManageRoles \in actor.bits /\ Outranks(actor, position))

CanActOnMember(actor, target, perm) ==
    /\ ~target.isOwner
    /\ actor.isOwner \/ (perm \in actor.bits /\ actor.highest > target.highest)

\* grantable.
Grantable(actor, wanted) == actor.isOwner \/ wanted \subseteq actor.bits

-----------------------------------------------------------------------------
(* What the documentation promises, permission by permission.              *)

\* The last of these that mentions a permission decides it: the base, then for
\* each layer everyone's, the roles' and the member's entries, an allow after a
\* deny of the same rank.
Verdict(p, before, entries) ==
    IF p \in Allowed(entries) THEN TRUE ELSE IF p \in Denied(entries) THEN FALSE ELSE before

VerdictOf(p, before, layer, me, roles) ==
    Verdict(p, Verdict(p, Verdict(p, before, EntriesOf(layer, {Everyone})),
                       EntriesOf(layer, roles)),
            EntriesOf(layer, {me}))

HasByPrecedence(p, isOwner, held, me, roles, category, channel) ==
    \/ isOwner \/ Administrator \in UNION held
    \/ UNION held = Permission
    \/ VerdictOf(p, VerdictOf(p, p \in UNION held, category, me, roles), channel, me, roles)
=============================================================================
