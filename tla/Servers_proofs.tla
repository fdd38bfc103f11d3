---------------------------- MODULE Servers_proofs -----------------------------
(* Proofs about Permissions, ServerRoles, ChannelVisibility, ServerStructure,  *)
(* VoiceServers and UploadQueue, for every set of permissions, roles, members, *)
(* entries, categories, channels and files, whatever is asked and in whatever  *)
(* order.                                                                      *)
EXTENDS MCServers, SequenceTheorems, FiniteSetTheorems, WellFoundedInduction, TLAPS

-----------------------------------------------------------------------------
(* The resolution of a channel's permissions.                                 *)

\* One rank of entries says, of every permission, what Verdict says.
LEMMA RankDecides ==
    ASSUME NEW perms, NEW es, NEW p
    PROVE  p \in Overwritten(perms, es) <=> Verdict(p, p \in perms, es)
BY Zenon DEF Overwritten, Apply, Verdict

\* And so does a layer, everyone's entry ranking below the roles' and the member's.
LEMMA LayerDecides ==
    ASSUME NEW perms, NEW layer, NEW me, NEW rs, NEW p
    PROVE  p \in Through(perms, layer, me, rs) <=> VerdictOf(p, p \in perms, layer, me, rs)
<1> DEFINE E == EntriesOf(layer, {Everyone})
           R == EntriesOf(layer, rs)
           M == EntriesOf(layer, {me})
           e == Overwritten(perms, E)
           r == Overwritten(e, R)
<1>1. p \in e <=> Verdict(p, p \in perms, E)
  BY RankDecides
<1>2. p \in r <=> Verdict(p, p \in e, R)
  BY RankDecides
<1>3. p \in Overwritten(r, M) <=> Verdict(p, p \in r, M)
  BY RankDecides
<1>4. Through(perms, layer, me, rs) = Overwritten(r, M)
  BY DEF Through
<1>5. VerdictOf(p, p \in perms, layer, me, rs)
        = Verdict(p, Verdict(p, Verdict(p, p \in perms, E), R), M)
  BY DEF VerdictOf
<1> QED
  BY Zenon, <1>1, <1>2, <1>3, <1>4, <1>5 DEF Verdict

\* Whoever asks, whatever they hold, and whatever two layers say.
LEMMA ResolveDecides ==
    ASSUME NEW isOwner, NEW bitfields, NEW me, NEW rs,
           NEW outer, NEW inner, NEW p \in Permission
    PROVE  p \in ResolveChannel(isOwner, bitfields, me, rs, outer, inner)
           <=> HasByPrecedence(p, isOwner, bitfields, me, rs, outer, inner)
<1> DEFINE base == Resolve(isOwner, bitfields)
           mid  == Through(base, outer, me, rs)
<1>1. CASE base = Permission
  <2>1. isOwner \/ Administrator \in UNION bitfields \/ UNION bitfields = Permission
    BY <1>1 DEF Resolve
  <2> QED
    BY <1>1, <2>1 DEF ResolveChannel, HasByPrecedence
<1>2. CASE base # Permission
  <2>1. ~isOwner /\ Administrator \notin UNION bitfields /\ base = UNION bitfields
    BY <1>2 DEF Resolve
  <2>2. ResolveChannel(isOwner, bitfields, me, rs, outer, inner) = Through(mid, inner, me, rs)
    BY <1>2 DEF ResolveChannel
  <2>3. p \in Through(mid, inner, me, rs) <=> VerdictOf(p, p \in mid, inner, me, rs)
    BY LayerDecides
  <2>4. p \in mid <=> VerdictOf(p, p \in base, outer, me, rs)
    BY LayerDecides
  <2>5. HasByPrecedence(p, isOwner, bitfields, me, rs, outer, inner)
          <=> VerdictOf(p, VerdictOf(p, p \in base, outer, me, rs), inner, me, rs)
    BY <1>2, <2>1 DEF HasByPrecedence
  <2>6. VerdictOf(p, p \in mid, inner, me, rs)
          <=> VerdictOf(p, VerdictOf(p, p \in base, outer, me, rs), inner, me, rs)
    BY Zenon, <2>4 DEF VerdictOf, Verdict
  <2> QED
    BY Zenon, <2>2, <2>3, <2>5, <2>6
<1> QED
  BY <1>1, <1>2

\* Of every question that can be asked, in every state: the last word of the entry
\* that ranks highest is what the member is given, permission by permission.
THEOREM PrecedenceResolves == ServersSpec => []ResolvesByPrecedence
<1>1. ResolvesByPrecedence
  BY ResolveDecides DEF ResolvesByPrecedence
<1> QED
  BY <1>1, PTL

-----------------------------------------------------------------------------
(* Roles.                                                                      *)

\* What a request names is of the kind its handler takes.
What(w) ==
    /\ w.do \in {"create", "update", "delete", "overwrite", "assign", "remove"}
    /\ w.do \in {"create", "update"} => w.wants \subseteq Permission
    /\ w.do = "overwrite" => w.allow \subseteq Permission
    /\ w.do = "delete" => w.role \in Role

Record(f, fields) == f = [x \in DOMAIN f |-> f[x]] /\ fields \subseteq DOMAIN f

Asking(q) ==
    /\ Record(q, {"at", "by", "what"}) /\ What(q.what)
    /\ q.at \in {"read", "write", "push", "pull"}
    /\ q.at = "push" => q.what.do = "assign"
    /\ q.at = "pull" => q.what.do = "delete"

RolesTypes ==
    /\ \A q \in asking : Asking(q)
    /\ \A i \in DOMAIN rows : Record(rows[i], {"user", "roles"})
    /\ Everyone \in DOMAIN roles
    /\ \A r \in DOMAIN roles : Record(roles[r], {"bits"}) /\ roles[r].bits \subseteq Permission
    /\ handed \subseteq Permission

\* A request that was let through writes only what the owner has handed out
\* before, unless it is the owner's.
Handing(q) ==
    q.at = "write" /\ q.by # Owner =>
        /\ q.what.do \in {"create", "update"} => q.what.wants \subseteq handed
        /\ q.what.do = "overwrite" => q.what.allow \subseteq handed

HandedInv ==
    Administrator \notin handed => NothingFromNowhere /\ \A q \in asking : Handing(q)

\* A request that gives roles names somebody who is a member, or went since it
\* asked, and from when it is let through, roles that exist or went since.
Assigning(q) ==
    q.what.do = "assign" =>
        /\ q.what.user \in members \cup crossed
        /\ q.at \in {"write", "push"} => q.what.roles \subseteq DOMAIN roles \cup crossed

RowsInv == HeldExist /\ LeaverHoldsNothing /\ \A q \in asking : Assigning(q)

RolesInv == RolesTypes /\ HandedInv /\ RowsInv

LEMMA WhatsTyped ==
    ASSUME RolesAssumption, NEW w \in Request \cup About
    PROVE  What(w)
<1>1. CASE w \in Request
  BY <1>1 DEF Request, What, RolesAssumption
<1>2. CASE w \in About
  BY <1>2 DEF About, What
<1> QED
  BY <1>1, <1>2

\* Until Administrator is handed out, nobody but the owner has a bit that was not.
LEMMA ActorsHold ==
    ASSUME RolesTypes, NothingFromNowhere, Administrator \notin handed,
           NEW u, u # Owner, NEW listed
    PROVE  /\ Actor(u, listed).isOwner = FALSE
           /\ Actor(u, listed).bits \subseteq handed
<1> DEFINE had == listed \cap DOMAIN roles
           bitfields == {roles[r].bits : r \in had \cup {Everyone}}
<1>1. \A r \in DOMAIN roles : roles[r].bits \subseteq handed
  BY DEF NothingFromNowhere
<1>2. UNION bitfields \subseteq handed
  BY <1>1 DEF RolesTypes
<1>3. Resolve(u = Owner, bitfields) = UNION bitfields
  BY <1>2 DEF Resolve
<1>4. Actor(u, listed).bits = Resolve(u = Owner, bitfields)
  BY DEF Actor
<1>5. Actor(u, listed).isOwner = (u = Owner)
  BY DEF Actor
<1> QED
  BY <1>2, <1>3, <1>4, <1>5

\* What a step of a request makes of the requests there are: the same less its
\* own, and at most one more, which asks the same.
LEMMA OneMovesOn ==
    ASSUME RolesTypes, NEW q \in asking,
           \/ Weighs(q) \/ CreatesRole(q) \/ UpdatesRole(q) \/ DeletesRole(q) \/ PullsRole(q)
           \/ SetsRow(q) \/ PushesRow(q) \/ WritesOverwrite(q) \/ RemovesMember(q)
    PROVE  \/ asking' = asking \ {q}
           \/ \E r : /\ asking' = (asking \ {q}) \cup {r}
                     /\ Asking(r) /\ r.what = q.what /\ r.by = q.by
                     /\ \/ /\ Weighs(q) /\ q.at = "read" /\ r.at = "write"
                           /\ Passes(q.by, Actor(q.by, q.mine), q.what, q.theirs)
                        \/ DeletesRole(q) /\ r.at = "pull"
                        \/ SetsRow(q) /\ r.at = "push"
<1>1. Asking(q)
  BY DEF RolesTypes
<1>2. CASE Weighs(q)
  <2> DEFINE r == [id |-> q.id, at |-> "write", by |-> q.by, what |-> q.what,
                   position |-> NewPosition(Actor(q.by, q.mine))]
  <2>1. Asking(r) /\ r.what = q.what /\ r.by = q.by /\ r.at = "write"
    BY <1>1 DEF Asking, Record
  <2>2. asking' = (asking \ {q}) \cup
          IF Passes(q.by, Actor(q.by, q.mine), q.what, q.theirs) THEN {r} ELSE {}
    BY <1>2 DEF Weighs
  <2>3. q.at = "read"
    BY <1>2 DEF Weighs
  <2> HIDE DEF r
  <2> QED
    BY <1>2, <2>1, <2>2, <2>3
<1>3. ASSUME DeletesRole(q) \/ SetsRow(q),
             NEW at \in {"pull", "push"}, asking' = (asking \ {q}) \cup {[q EXCEPT !.at = at]},
             DeletesRole(q) => at = "pull", SetsRow(q) => at = "push"
      PROVE  \E r : /\ asking' = (asking \ {q}) \cup {r}
                    /\ Asking(r) /\ r.what = q.what /\ r.by = q.by
                    /\ (DeletesRole(q) /\ r.at = "pull") \/ (SetsRow(q) /\ r.at = "push")
  <2> DEFINE r == [q EXCEPT !.at = at]
  <2>1. r.what = q.what /\ r.by = q.by /\ r.at = at /\ Record(r, {"at", "by", "what"})
    BY <1>1 DEF Asking, Record
  <2>2. (DeletesRole(q) => q.what.do = "delete") /\ (SetsRow(q) => q.what.do = "assign")
    BY DEF DeletesRole, SetsRow, Writing
  <2>3. Asking(r)
    BY <1>1, <1>3, <2>1, <2>2 DEF Asking
  <2>4. asking' = (asking \ {q}) \cup {r}
    BY <1>3
  <2>5. (DeletesRole(q) /\ r.at = "pull") \/ (SetsRow(q) /\ r.at = "push")
    BY <1>3, <2>1
  <2> HIDE DEF r
  <2> QED
    BY <2>1, <2>3, <2>4, <2>5
<1>4. CASE DeletesRole(q)
  BY <1>3, <1>4 DEF DeletesRole, SetsRow, Writing
<1>5. CASE SetsRow(q)
  BY <1>3, <1>5 DEF SetsRow, DeletesRole, Writing, Answers
<1> QED
  BY <1>2, <1>4, <1>5 DEF CreatesRole, UpdatesRole, PullsRole, PushesRow, WritesOverwrite,
     RemovesMember, Answers

\* A member's new request.
LEMMA OneMoreAsks ==
    ASSUME RolesAssumption, Asked
    PROVE  \E r : /\ asking' = asking \cup {r}
                  /\ Asking(r) /\ r.at = "read"
                  /\ r.what.do = "assign" => r.what.user \in members
                  /\ UNCHANGED <<members, roles, rows, over, made, handed, crossed>>
<1>1. ASSUME NEW by, NEW what \in Request \cup About, NEW theirs, Asks(by, what, theirs),
             what.do = "assign" => what.user \in members
      PROVE  \E r : /\ asking' = asking \cup {r}
                    /\ Asking(r) /\ r.at = "read"
                    /\ r.what.do = "assign" => r.what.user \in members
                    /\ UNCHANGED <<members, roles, rows, over, made, handed, crossed>>
  <2> DEFINE r == [id |-> asks, at |-> "read", by |-> by, mine |-> Listed(by),
                   theirs |-> theirs, what |-> what]
  <2>1. What(what)
    BY WhatsTyped
  <2>2. r.at = "read" /\ r.what = what /\ Asking(r)
    BY <2>1 DEF Asking, Record
  <2>3. asking' = asking \cup {r} /\ UNCHANGED <<members, roles, rows, over, made, handed, crossed>>
    BY <1>1 DEF Asks
  <2> HIDE DEF r
  <2> QED
    BY <1>1, <2>2, <2>3
<1>2. \A what \in Request : what.do # "assign"
  BY DEF Request
<1> QED
  BY <1>1, <1>2 DEF Asked

LEMMA TypesStep ==
    ASSUME RolesAssumption, RolesTypes, RolesNext
    PROVE  RolesTypes'
<1>1. CASE Asked
  <2>1. PICK r : /\ asking' = asking \cup {r} /\ Asking(r)
                 /\ UNCHANGED <<roles, rows, handed>>
    BY <1>1, OneMoreAsks
  <2> QED
    BY <2>1 DEF RolesTypes, Asking, What
<1>2. ASSUME NEW m \in Member, Joins(m) PROVE RolesTypes'
  BY <1>2 DEF Joins, RolesTypes, Asking, What
<1>3. ASSUME NEW q \in asking,
             \/ Weighs(q) \/ CreatesRole(q) \/ UpdatesRole(q) \/ DeletesRole(q) \/ PullsRole(q)
             \/ SetsRow(q) \/ PushesRow(q) \/ WritesOverwrite(q) \/ RemovesMember(q)
      PROVE  RolesTypes'
  <2>1. (\A r \in asking : Asking(r))'
    <3>1. \A r \in asking' : Asking(r)
      BY <1>3, OneMovesOn DEF RolesTypes
    <3> QED
      BY <3>1 DEF Asking, What
  <2>2. What(q.what)
    BY DEF RolesTypes, Asking
  <2>3. ( /\ Everyone \in DOMAIN roles
          /\ \A r \in DOMAIN roles : Record(roles[r], {"bits"}) /\ roles[r].bits \subseteq Permission
          /\ handed \subseteq Permission)'
    <3>1. CASE CreatesRole(q)
      <4>1. q.what.wants \subseteq Permission
        BY <2>2, <3>1 DEF What, CreatesRole, Writing
      <4>2. PICK r \in Role : roles' = With(roles, r, [position |-> q.position, bits |-> q.what.wants])
        BY <3>1 DEF CreatesRole
      <4> DEFINE row == [position |-> q.position, bits |-> q.what.wants]
      <4>3. Record(row, {"bits"}) /\ row.bits \subseteq Permission
        BY <4>1 DEF Record
      <4> HIDE DEF row
      <4>4. /\ DOMAIN roles' = DOMAIN roles \cup {r}
            /\ \A x \in DOMAIN roles' : roles'[x] = row \/ (x \in DOMAIN roles /\ roles'[x] = roles[x])
        BY <4>2 DEF With, row
      <4>5. handed' \subseteq Permission
        BY <3>1, <4>1 DEF CreatesRole, Hands, RolesTypes
      <4>6. Everyone \in DOMAIN roles'
        BY <4>4 DEF RolesTypes
      <4>7. \A x \in DOMAIN roles' : Record(roles'[x], {"bits"}) /\ roles'[x].bits \subseteq Permission
        BY <4>3, <4>4 DEF RolesTypes
      <4> QED
        BY <4>5, <4>6, <4>7 DEF Record
    <3>2. CASE UpdatesRole(q)
      <4>1. q.what.wants \subseteq Permission
        BY <2>2, <3>2 DEF What, UpdatesRole, Writing
      <4> QED
        BY <3>2, <4>1 DEF UpdatesRole, Hands, RolesTypes, Record
    <3>3. CASE DeletesRole(q)
      BY <2>2, <3>3 DEF What, DeletesRole, Writing, RolesTypes, RolesAssumption
    <3>4. CASE WritesOverwrite(q)
      BY <2>2, <3>4 DEF What, WritesOverwrite, Writing, Hands, RolesTypes
    <3> QED
      BY <1>3, <3>1, <3>2, <3>3, <3>4 DEF Weighs, PullsRole, SetsRow, PushesRow, RemovesMember, RolesTypes
  <2>4. (\A i \in DOMAIN rows : Record(rows[i], {"user", "roles"}))'
    <3>1. CASE PullsRole(q)
      BY <3>1 DEF PullsRole, RolesTypes, Record
    <3>2. CASE SetsRow(q)
      BY <3>2 DEF SetsRow, RolesTypes, Record
    <3>3. CASE PushesRow(q)
      BY <3>3 DEF PushesRow, With, RolesTypes, Record
    <3>4. CASE RemovesMember(q)
      BY <3>4 DEF RemovesMember, RolesTypes, Record
    <3> QED
      BY <1>3, <3>1, <3>2, <3>3, <3>4 DEF Weighs, CreatesRole, UpdatesRole, DeletesRole,
         WritesOverwrite, RolesTypes, Record
  <2> QED
    BY <2>1, <2>3, <2>4 DEF RolesTypes
<1> QED
  BY <1>1, <1>2, <1>3 DEF RolesNext

\* Until the owner hands out Administrator, whatever is let through was weighed by
\* bits of roles that carry only what the owner handed out.
LEMMA HandedStep ==
    ASSUME PermissionsAssumption, RolesAssumption, RolesTypes, HandedInv, RolesNext
    PROVE  HandedInv'
<1> SUFFICES ASSUME Administrator \notin handed'
             PROVE  NothingFromNowhere' /\ (\A q \in asking : Handing(q))'
  BY DEF HandedInv
<1> DEFINE Still == handed \subseteq handed'
<1>1. Still => Administrator \notin handed /\ NothingFromNowhere /\ \A q \in asking : Handing(q)
  BY DEF HandedInv
<1>2. CASE Asked
  <2>1. PICK r : /\ asking' = asking \cup {r} /\ r.at = "read"
                 /\ UNCHANGED <<roles, over, handed>>
    BY <1>2, OneMoreAsks
  <2> QED
    BY <1>1, <2>1 DEF Handing, NothingFromNowhere
<1>3. ASSUME NEW m \in Member, Joins(m)
      PROVE  NothingFromNowhere' /\ (\A q \in asking : Handing(q))'
  BY <1>1, <1>3 DEF Joins, Handing, NothingFromNowhere
<1>4. ASSUME NEW q \in asking,
             \/ Weighs(q) \/ CreatesRole(q) \/ UpdatesRole(q) \/ DeletesRole(q) \/ PullsRole(q)
             \/ SetsRow(q) \/ PushesRow(q) \/ WritesOverwrite(q) \/ RemovesMember(q)
      PROVE  NothingFromNowhere' /\ (\A p \in asking : Handing(p))'
  <2>1. Still
    BY <1>4 DEF Weighs, CreatesRole, UpdatesRole, DeletesRole, PullsRole, SetsRow, PushesRow,
       WritesOverwrite, RemovesMember, Hands
  <2>2. Administrator \notin handed /\ NothingFromNowhere /\ \A p \in asking : Handing(p)
    BY <1>1, <2>1
  <2>3. (\A p \in asking : Handing(p))'
    <3>1. \A p \in asking : p \in asking' => Handing(p)'
      BY <2>1, <2>2 DEF Handing
    <3>2. ASSUME Weighs(q), q.by # Owner, Passes(q.by, Actor(q.by, q.mine), q.what, q.theirs)
          PROVE  /\ q.what.do \in {"create", "update"} => q.what.wants \subseteq handed
                 /\ q.what.do = "overwrite" => q.what.allow \subseteq handed
      <4> DEFINE actor == Actor(q.by, q.mine)
      <4>1. actor.isOwner = FALSE /\ actor.bits \subseteq handed
        BY <2>2, <3>2, ActorsHold
      <4> HIDE DEF actor
      <4>2. Passes(q.by, actor, q.what, q.theirs)
        BY <3>2 DEF actor
      <4> QED
        BY <4>1, <4>2 DEF Passes, MayUpdate, MayOverwrite, Grantable
    <3>3. ASSUME NEW r, asking' = (asking \ {q}) \cup {r}, r.what = q.what, r.by = q.by,
                 \/ /\ Weighs(q) /\ q.at = "read" /\ r.at = "write"
                    /\ Passes(q.by, Actor(q.by, q.mine), q.what, q.theirs)
                 \/ DeletesRole(q) /\ r.at = "pull"
                 \/ SetsRow(q) /\ r.at = "push"
          PROVE  Handing(r)'
      BY <2>1, <3>2, <3>3 DEF Handing
    <3> QED
      BY <1>4, <3>1, <3>3, OneMovesOn
  <2>4. NothingFromNowhere'
    <3>1. q.at = "write" /\ q.what.do \in {"create", "update"} => q.what.wants \subseteq handed \/ q.by = Owner
      BY <2>2 DEF Handing
    <3>2. q.at = "write" /\ q.what.do = "overwrite" => q.what.allow \subseteq handed \/ q.by = Owner
      BY <2>2 DEF Handing
    <3>3. /\ \A r \in DOMAIN roles : roles[r].bits \subseteq handed
          /\ \A t \in DOMAIN over : over[t].allow \subseteq handed
      BY <2>2 DEF NothingFromNowhere
    <3>4. CASE CreatesRole(q)
      <4>1. q.what.wants \subseteq handed'
        BY <3>1, <3>4 DEF CreatesRole, Writing, Hands
      <4>2. PICK r \in Role : roles' = With(roles, r, [position |-> q.position, bits |-> q.what.wants])
        BY <3>4 DEF CreatesRole
      <4>3. \A x \in DOMAIN roles' : roles'[x].bits \subseteq handed'
        BY <2>1, <3>3, <4>1, <4>2 DEF With
      <4> QED
        BY <2>1, <3>3, <3>4, <4>3 DEF CreatesRole, NothingFromNowhere
    <3>5. CASE UpdatesRole(q)
      <4>1. q.what.role \in DOMAIN roles => q.what.wants \subseteq handed'
        BY <3>1, <3>5 DEF UpdatesRole, Writing, Hands
      <4>2. \A x \in DOMAIN roles' : roles'[x].bits \subseteq handed'
        BY <2>1, <3>3, <3>5, <4>1 DEF UpdatesRole, RolesTypes, Record
      <4> QED
        BY <2>1, <3>3, <3>5, <4>2 DEF UpdatesRole, NothingFromNowhere
    <3>6. CASE WritesOverwrite(q)
      <4>1. q.what.allow \subseteq handed'
        BY <3>2, <3>6 DEF WritesOverwrite, Writing, Hands
      <4> QED
        BY <2>1, <3>3, <3>6, <4>1 DEF WritesOverwrite, NothingFromNowhere
    <3>7. CASE DeletesRole(q)
      BY <2>1, <3>3, <3>7 DEF DeletesRole, NothingFromNowhere
    <3> QED
      BY <1>4, <2>1, <3>3, <3>4, <3>5, <3>6, <3>7 DEF Weighs, PullsRole, SetsRow, PushesRow,
         RemovesMember, NothingFromNowhere
  <2> QED
    BY <2>3, <2>4
<1> QED
  BY <1>2, <1>3, <1>4 DEF RolesNext

\* Roles that are going: deleted, and yet to be taken off whoever holds them.
Going == {q.what.role : q \in {p \in asking : p.at = "pull"}}

LEMMA RowsStep ==
    ASSUME RolesAssumption, RolesTypes, RowsInv, RolesNext
    PROVE  RowsInv'
<1>1. /\ \A i \in DOMAIN rows : rows[i].roles \subseteq DOMAIN roles \cup crossed \cup Going
      /\ \A i \in DOMAIN rows : rows[i].user \in members \cup crossed
      /\ \A q \in asking : Assigning(q)
  BY DEF RowsInv, HeldExist, LeaverHoldsNothing, Going
<1> SUFFICES /\ \A i \in DOMAIN rows' : rows'[i].roles \subseteq DOMAIN roles' \cup crossed' \cup Going'
             /\ \A i \in DOMAIN rows' : rows'[i].user \in members' \cup crossed'
             /\ \A q \in asking' : Assigning(q)'
  BY DEF RowsInv, HeldExist, LeaverHoldsNothing, Going
<1>2. CASE Asked
  <2>1. PICK r : /\ asking' = asking \cup {r} /\ r.at = "read"
                 /\ r.what.do = "assign" => r.what.user \in members
                 /\ UNCHANGED <<members, roles, rows, crossed>>
    BY <1>2, OneMoreAsks
  <2> QED
    BY <1>1, <2>1 DEF Assigning, Going
<1>3. ASSUME NEW m \in Member, Joins(m)
      PROVE  /\ UNCHANGED <<roles, rows, crossed, asking>> /\ members \subseteq members'
  BY <1>3 DEF Joins
<1>4. CASE \E m \in Member : Joins(m)
  BY <1>1, <1>3, <1>4 DEF Assigning, Going
<1>5. ASSUME NEW q \in asking,
             \/ Weighs(q) \/ CreatesRole(q) \/ UpdatesRole(q) \/ DeletesRole(q) \/ PullsRole(q)
             \/ SetsRow(q) \/ PushesRow(q) \/ WritesOverwrite(q) \/ RemovesMember(q)
      PROVE  /\ \A i \in DOMAIN rows' : rows'[i].roles \subseteq DOMAIN roles' \cup crossed' \cup Going'
             /\ \A i \in DOMAIN rows' : rows'[i].user \in members' \cup crossed'
             /\ \A p \in asking' : Assigning(p)'
  <2> DEFINE Named(p) == p.what.do = "assign" /\ p.at \in {"write", "push"}
  <2>1. crossed \subseteq crossed'
    BY <1>5 DEF Weighs, CreatesRole, UpdatesRole, DeletesRole, PullsRole, SetsRow, PushesRow,
       WritesOverwrite, RemovesMember
  <2>2. \A m \in members : m \in members' \/ m \in crossed'
                           \/ (/\ \A p \in asking : p.what.do = "assign" => p.what.user # m
                               /\ \A i \in DOMAIN rows' : rows'[i].user # m
                               /\ RemovesMember(q))
    BY <1>5 DEF Weighs, CreatesRole, UpdatesRole, DeletesRole, PullsRole, SetsRow, PushesRow,
       WritesOverwrite, RemovesMember, NamesMember, RowsOf
  <2>3. \A r \in DOMAIN roles : r \in DOMAIN roles' \/ r \in crossed'
                                \/ (/\ \A p \in asking : Named(p) => r \notin p.what.roles
                                    /\ DeletesRole(q) /\ r = q.what.role)
    BY <1>5 DEF Weighs, CreatesRole, UpdatesRole, DeletesRole, PullsRole, SetsRow, PushesRow,
       WritesOverwrite, RemovesMember, NamesRole, With
  \* The requests that stay, and the one that goes on.
  <2>4. \A p \in asking : Assigning(p)'
    BY <1>1, <2>1, <2>2, <2>3 DEF Assigning
  <2>5. ASSUME NEW r, r.what = q.what,
               \/ /\ Weighs(q) /\ q.at = "read" /\ r.at = "write"
                  /\ Passes(q.by, Actor(q.by, q.mine), q.what, q.theirs)
               \/ DeletesRole(q) /\ r.at = "pull"
               \/ SetsRow(q) /\ r.at = "push"
        PROVE  Assigning(r)'
    <3>1. CASE Weighs(q) /\ Passes(q.by, Actor(q.by, q.mine), q.what, q.theirs)
      <4>1. q.what.do = "assign" => q.what.roles \subseteq DOMAIN roles
        BY <3>1 DEF Passes, MayAssign
      <4> QED
        BY <1>1, <2>5, <3>1, <4>1 DEF Weighs, Assigning
    <3>2. CASE DeletesRole(q)
      BY <2>5, <3>2 DEF DeletesRole, Writing, Assigning
    <3>3. CASE SetsRow(q)
      BY <1>1, <2>5, <3>3 DEF SetsRow, Writing, Assigning
    <3> QED
      BY <2>5, <3>1, <3>2, <3>3
  <2>6. \A p \in asking' : Assigning(p)'
    BY <1>5, <2>4, <2>5, OneMovesOn
  <2>7. \A i \in DOMAIN rows' : rows'[i].user \in members' \cup crossed'
    <3>1. CASE PullsRole(q)
      BY <1>1, <3>1 DEF PullsRole, RolesTypes, Record
    <3>2. CASE SetsRow(q)
      BY <1>1, <3>2 DEF SetsRow, RolesTypes, Record
    <3>3. CASE PushesRow(q)
      <4>1. q.what.user \in members \cup crossed
        BY <1>1, <3>3 DEF PushesRow, Assigning, RolesTypes, Asking
      <4> QED
        BY <1>1, <3>3, <4>1 DEF PushesRow, With
    <3>4. CASE RemovesMember(q)
      BY <1>1, <2>1, <2>2, <3>4 DEF RemovesMember
    <3> QED
      BY <1>1, <1>5, <3>1, <3>2, <3>3, <3>4 DEF Weighs, CreatesRole, UpdatesRole, DeletesRole,
         WritesOverwrite
  <2>8. \A i \in DOMAIN rows' : rows'[i].roles \subseteq DOMAIN roles' \cup crossed' \cup Going'
    \* What is going still goes, until it is taken off.
    <3>1. \A r \in Going : r \in Going' \/ (PullsRole(q) /\ r = q.what.role)
      <4>1. ASSUME NEW p \in asking, p.at = "pull"
            PROVE  p.what.role \in Going' \/ (PullsRole(q) /\ p = q)
        BY <1>5, <4>1, OneMovesOn DEF Going, CreatesRole, UpdatesRole, DeletesRole, SetsRow,
           PushesRow, WritesOverwrite, RemovesMember, Weighs, Writing
      <4> QED
        BY <4>1 DEF Going
    <3>2. CASE PullsRole(q)
      BY <1>1, <3>1, <3>2 DEF PullsRole, RolesTypes, Record
    <3>3. CASE SetsRow(q)
      <4>1. rows' # rows => q.what.roles \subseteq DOMAIN roles \cup crossed
        BY <1>1, <3>3 DEF SetsRow, Writing, Assigning
      <4>2. Going \subseteq Going'
        BY <3>1, <3>3 DEF PullsRole, SetsRow, Writing
      <4> QED
        BY <1>1, <3>3, <4>1, <4>2 DEF SetsRow, RolesTypes, Record
    <3>4. CASE PushesRow(q)
      <4>1. q.what.roles \subseteq DOMAIN roles \cup crossed
        BY <1>1, <3>4 DEF PushesRow, Assigning, RolesTypes, Asking
      <4>2. Going \subseteq Going'
        BY <3>1, <3>4 DEF PullsRole, PushesRow
      <4> QED
        BY <1>1, <3>4, <4>1, <4>2 DEF PushesRow, With
    <3>5. CASE DeletesRole(q)
      <4>1. q.what.role \in Going'
        <5> DEFINE r == [q EXCEPT !.at = "pull"]
        <5>1. r \in asking' /\ r.at = "pull" /\ r.what = q.what
          BY <3>5 DEF DeletesRole, RolesTypes, Asking, Record
        <5> QED
          BY <5>1 DEF Going
      <4>2. Going \subseteq Going'
        BY <3>1, <3>5 DEF PullsRole, DeletesRole, Writing
      <4> QED
        BY <1>1, <2>1, <2>3, <3>5, <4>1, <4>2 DEF DeletesRole
    <3>6. CASE RemovesMember(q)
      <4>1. Going \subseteq Going'
        BY <3>1, <3>6 DEF PullsRole, RemovesMember, Writing
      <4> QED
        BY <1>1, <2>1, <3>6, <4>1 DEF RemovesMember
    <3>7. CASE Weighs(q) \/ CreatesRole(q) \/ UpdatesRole(q) \/ WritesOverwrite(q)
      <4>1. Going \subseteq Going'
        BY <3>1, <3>7 DEF PullsRole, Weighs, CreatesRole, UpdatesRole, WritesOverwrite, Writing
      <4>2. DOMAIN roles \subseteq DOMAIN roles' /\ UNCHANGED <<rows, crossed>>
        BY <3>7 DEF Weighs, CreatesRole, UpdatesRole, WritesOverwrite, With
      <4> QED
        BY <1>1, <4>1, <4>2
    <3> QED
      BY <1>5, <3>2, <3>3, <3>4, <3>5, <3>6, <3>7
  <2> QED
    BY <2>6, <2>7, <2>8
<1> QED
  BY <1>2, <1>4, <1>5 DEF RolesNext

LEMMA RolesStart ==
    ASSUME PermissionsAssumption, RolesAssumption, RolesInit
    PROVE  RolesInv
<1>1. PICK r \in Role, bits \in Wants :
        /\ roles = [x \in {Everyone, r} |-> IF x = Everyone THEN [position |-> 0, bits |-> Default]
                                            ELSE [position |-> 1, bits |-> bits]]
        /\ handed = Default \cup bits
        /\ rows \in {<<>>} \cup {<<[user |-> m, roles |-> {r}]>> : m \in members}
  BY DEF RolesInit
<1>2. asking = {} /\ over = <<>> /\ crossed = {}
  BY DEF RolesInit
<1>3. \A i \in DOMAIN rows : \E m \in members : rows[i] = [user |-> m, roles |-> {r}]
  BY <1>1
<1>4. RolesTypes
  BY <1>1, <1>2, <1>3 DEF RolesTypes, Record, RolesAssumption
<1>5. \A x \in DOMAIN roles : roles[x].bits \subseteq handed
  BY <1>1
<1>6. HandedInv
  BY <1>2, <1>5 DEF HandedInv, NothingFromNowhere
<1>7. r \in DOMAIN roles
  BY <1>1
<1>8. RowsInv
  BY <1>2, <1>3, <1>7 DEF RowsInv, HeldExist, LeaverHoldsNothing
<1> QED
  BY <1>4, <1>6, <1>8 DEF RolesInv

LEMMA RolesStep ==
    ASSUME PermissionsAssumption, RolesAssumption, RolesInv, [RolesNext]_serverRoles
    PROVE  RolesInv'
<1>1. CASE RolesNext
  BY <1>1, TypesStep, HandedStep, RowsStep DEF RolesInv
<1>2. CASE UNCHANGED serverRoles
  BY <1>2 DEF serverRoles, RolesInv, RolesTypes, Asking, What, Record, HandedInv, Handing,
     NothingFromNowhere, RowsInv, HeldExist, LeaverHoldsNothing, Assigning
<1> QED
  BY <1>1, <1>2

-----------------------------------------------------------------------------
(* Voice servers.                                                              *)

\* A channel that names a server is about to be cleared, and a request that is about
\* to make it name one names one there is, or one that was deleted meanwhile.
Clearing == {q.entry : q \in {r \in edits : r.at = "pointers"}}

EntryRecords ==
    /\ \A i \in DOMAIN entries : Record(entries[i], {"id", "isDefault"})
    /\ \E n \in Nat : DOMAIN entries \subseteq 0 .. n

PointersInv ==
    /\ EntryRecords
    /\ \A q \in edits : /\ Record(q, {"at"})
                        /\ q.at \in {"remove", "pointers", "point"} => "entry" \in DOMAIN q
                        /\ q.at = "point" => q.entry \in Ids \cup misled
    /\ pointer \in Ids \cup misled \cup {NoEntry} \cup Clearing

\* A field written leaves the others.
LEMMA OneField ==
    ASSUME NEW f, NEW fields, Record(f, fields), NEW x, NEW v
    PROVE  /\ Record([f EXCEPT ![x] = v], fields)
           /\ \A y \in DOMAIN f : y # x => [f EXCEPT ![x] = v][y] = f[y]
           /\ DOMAIN [f EXCEPT ![x] = v] = DOMAIN f
           /\ x \in DOMAIN f => [f EXCEPT ![x] = v][x] = v
BY DEF Record

\* The least of some naturals, and the greatest of those that have a bound.
LEMMA LeastIs ==
    ASSUME NEW S \in SUBSET Nat, S # {}
    PROVE  Min(S) \in S /\ \A n \in S : Min(S) <= n
<1> DEFINE R == {ss \in Nat \X Nat : ss[1] < ss[2]}
<1>1. IsWellFoundedOn(R, Nat)
  BY NatLessThanWellFounded, Zenon DEF OpToRel
<1>2. \A x, y \in Nat : y < x => <<y, x>> \in R
  OBVIOUS
<1> HIDE DEF R
<1>3. PICK x \in S : \A y \in S : ~(<<y, x>> \in R)
  BY <1>1, WFMin
<1>4. \A y \in S : x <= y
  <2>1. ASSUME NEW y \in S PROVE ~(y < x)
    <3>1. x \in Nat /\ y \in Nat /\ ~(<<y, x>> \in R)
      BY <1>3
    <3> QED
      BY <1>2, <3>1, Zenon
  <2> QED
    BY <2>1
<1> QED
  BY <1>3, <1>4 DEF Min

LEMMA GreatestIs ==
    ASSUME NEW S \in SUBSET Nat, S # {}, NEW b \in Nat, \A n \in S : n <= b
    PROVE  Max(S) \in S /\ \A n \in S : Max(S) >= n
<1> DEFINE U == {u \in Nat : \A n \in S : n <= u}
           m == Min(U)
<1>1. m \in U /\ \A u \in U : m <= u
  <2>1. b \in U /\ U \in SUBSET Nat
    OBVIOUS
  <2> QED
    BY <2>1, LeastIs
<1> HIDE DEF m
<1>2. m \in S
  <2> SUFFICES ASSUME m \notin S PROVE FALSE
    OBVIOUS
  <2>1. \A n \in S : n <= m - 1
    BY <1>1
  <2>2. m - 1 \in U
    <3>1. PICK n \in S : TRUE
      OBVIOUS
    <3>2. m \in Nat /\ n \in Nat /\ n <= m - 1
      BY <1>1, <2>1
    <3>3. m - 1 \in Nat
      BY <3>2
    <3> QED
      BY <2>1, <3>3
  <2> QED
    BY <1>1, <2>2
<1> QED
  BY <1>1, <1>2 DEF Max

\* Moving the default renames nobody.
LEMMA SameIds ==
    ASSUME EntryRecords, NEW e,
           \/ entries' = entries
           \/ entries' = NobodysDefault(entries, e)
           \/ entries' = MadeDefault(entries, e)
    PROVE  EntryRecords' /\ Ids' = Ids
<1>0. SUFFICES /\ \A i \in DOMAIN entries' : Record(entries'[i], {"id", "isDefault"})
               /\ \A i \in DOMAIN entries' : entries'[i].id = entries[i].id
               /\ DOMAIN entries' = DOMAIN entries
  BY DEF EntryRecords, Ids, Record
<1>1. CASE entries' = NobodysDefault(entries, e)
  <2> DEFINE flag == [i \in DOMAIN entries |-> entries[i].isDefault /\ entries[i].id = e]
  <2>1. entries' = [i \in DOMAIN entries |-> [entries[i] EXCEPT !.isDefault = flag[i]]]
    BY <1>1, Zenon DEF NobodysDefault
  <2> HIDE DEF flag
  <2> QED
    BY <2>1 DEF EntryRecords, Record
<1>2. CASE entries' = MadeDefault(entries, e)
  <2> DEFINE flag == [i \in DOMAIN entries |-> entries[i].isDefault \/ entries[i].id = e]
  <2>1. entries' = [i \in DOMAIN entries |-> [entries[i] EXCEPT !.isDefault = flag[i]]]
    BY <1>2, Zenon DEF MadeDefault
  <2> HIDE DEF flag
  <2> QED
    BY <2>1 DEF EntryRecords, Record
<1>3. CASE entries' = entries
  BY <1>3 DEF EntryRecords
<1> QED
  BY <1>1, <1>2, <1>3

\* Whatever leaves the ids there are, the ids deleted in passing and the pointer as
\* they were, adds no request that points, and ends none that clears.
LEMMA PointersKept ==
    ASSUME PointersInv, UNCHANGED <<pointer, misled>>, Ids \subseteq Ids',
           EntryRecords',
           \A r \in edits : r \in edits' \/ r.at # "pointers",
           \A r \in edits' : r \in edits \/ (Record(r, {"at"}) /\ r.at \notin {"remove", "pointers", "point"})
    PROVE  PointersInv'
<1>1. (\A r \in edits : /\ Record(r, {"at"})
                        /\ r.at \in {"remove", "pointers", "point"} => "entry" \in DOMAIN r
                        /\ r.at = "point" => r.entry \in Ids \cup misled)'
  BY DEF PointersInv, Record
<1>2. Clearing \subseteq Clearing'
  BY DEF Clearing
<1>3. (pointer \in Ids \cup misled \cup {NoEntry} \cup Clearing)'
  BY <1>2 DEF PointersInv
<1> QED
  BY <1>1, <1>3 DEF PointersInv, Record

\* A request that goes on.
LEMMA GoesOnAt ==
    ASSUME NEW q \in edits, Record(q, {"at"}), NEW at, EditGoes(q, at)
    PROVE  /\ \A r \in edits' : r \in edits \/ (Record(r, {"at"}) /\ r.at = at)
           /\ \A r \in edits : r \in edits' \/ r = q
<1>1. Record([q EXCEPT !.at = at], {"at"}) /\ [q EXCEPT !.at = at].at = at
  BY DEF Record
<1> QED
  BY <1>1 DEF EditGoes

LEMMA PointersStep ==
    ASSUME VoiceServersAssumption, PointersInv, VoiceServersNext
    PROVE  PointersInv'
<1> USE DEF EditEnds
<1>0. EntryRecords /\ (UNCHANGED entries => EntryRecords' /\ Ids' = Ids)
  BY DEF PointersInv, EntryRecords, Ids, Record
<1>1. CASE AsksToCreate
  <2>1. PICK wants : edits' = edits \cup {[id |-> edited, at |-> "count", default |-> wants]}
    BY <1>1 DEF AsksToCreate, EditBegins
  <2>2. LET r == [id |-> edited, at |-> "count", default |-> wants] IN Record(r, {"at"}) /\ r.at = "count"
    BY DEF Record
  <2> QED
    BY <1>0, <1>1, <2>1, <2>2, PointersKept DEF AsksToCreate, Ids
<1>2. CASE AsksForDefault
  <2>1. PICK i \in DOMAIN entries :
          edits' = edits \cup {[id |-> edited, at |-> "others", entry |-> entries[i].id, was |-> entries[i].isDefault]}
    BY <1>2 DEF AsksForDefault, EditBegins
  <2>2. LET r == [id |-> edited, at |-> "others", entry |-> entries[i].id, was |-> entries[i].isDefault]
        IN  Record(r, {"at"}) /\ r.at = "others"
    BY DEF Record
  <2> QED
    BY <1>0, <1>2, <2>1, <2>2, PointersKept DEF AsksForDefault, Ids
<1>3. CASE AsksToDelete
  <2>1. PICK e \in Ids : edits' = edits \cup {[id |-> edited, at |-> "remove", entry |-> e, was |-> FALSE]}
    BY <1>3 DEF AsksToDelete, EditBegins
  <2> DEFINE r == [id |-> edited, at |-> "remove", entry |-> e, was |-> FALSE]
  <2>2. Record(r, {"at"}) /\ r.at = "remove" /\ "entry" \in DOMAIN r
    BY DEF Record
  <2>3. edits' = edits \cup {r} /\ UNCHANGED <<entries, pointer, misled>>
    BY <1>3, <2>1 DEF AsksToDelete
  <2> HIDE DEF r
  <2> QED
    BY <1>0, <2>2, <2>3 DEF PointersInv, Clearing
<1>4. CASE AsksToPoint
  <2>1. PICK e \in Ids : edits' = edits \cup {[id |-> edited, at |-> "point", entry |-> e]}
    BY <1>4 DEF AsksToPoint, EditBegins
  <2> DEFINE r == [id |-> edited, at |-> "point", entry |-> e]
  <2>2. Record(r, {"at"}) /\ r.at = "point" /\ "entry" \in DOMAIN r /\ r.entry \in Ids
    BY <2>1 DEF Record
  <2>3. edits' = edits \cup {r} /\ UNCHANGED <<entries, pointer, misled>>
    BY <1>4, <2>1 DEF AsksToPoint
  <2> HIDE DEF r
  <2> QED
    BY <1>0, <2>2, <2>3 DEF PointersInv, Clearing
<1> SUFFICES ASSUME NEW q \in edits,
                    \/ Counts(q) \/ Clears(q) \/ CreatesEntry(q) \/ CreateRefused(q)
                    \/ ClearsOthers(q) \/ SavesDefault(q) \/ SaveRefused(q)
                    \/ Removes(q) \/ ClearsPointers(q) \/ FindsHeir(q) \/ Promotes(q)
                    \/ Points(q)
             PROVE  PointersInv'
  BY <1>1, <1>2, <1>3, <1>4 DEF VoiceServersNext
<1>5. Record(q, {"at"})
  BY DEF PointersInv
<1>6. CASE Counts(q)
  <2> DEFINE default == q.default \/ Ids = {}
             r == [q EXCEPT !.at = IF default THEN "clear" ELSE "create", !.default = default]
  <2>1. edits' = edits \ {q} \/ edits' = (edits \ {q}) \cup {r}
    BY <1>6, Zenon DEF Counts
  <2>2. q.at = "count" /\ UNCHANGED <<entries, pointer, misled>>
    BY <1>6 DEF Counts
  <2> HIDE DEF default
  <2>3. Record(r, {"at"}) /\ r.at \in {"clear", "create"}
    BY <1>5 DEF Record
  <2> HIDE DEF r
  <2> QED
    BY <1>0, <2>1, <2>2, <2>3, PointersKept DEF Ids
<1>7. CASE Clears(q)
  <2>1. EntryRecords' /\ Ids' = Ids
    BY <1>0, <1>7, SameIds DEF Clears
  <2> QED
    BY <1>5, <1>7, <2>1, GoesOnAt, PointersKept DEF Clears
<1>8. CASE CreatesEntry(q)
  <2>1. PICK e : entries' = [i \in DOMAIN entries \cup {Newest + 1} |->
                    IF i = Newest + 1 THEN [id |-> e, isDefault |-> q.default] ELSE entries[i]]
    BY <1>8 DEF CreatesEntry
  <2>2. Record([id |-> e, isDefault |-> q.default], {"id", "isDefault"})
    BY DEF Record
  <2>3. Newest \in Nat /\ \A i \in DOMAIN entries : i <= Newest
    <3>1. PICK n \in Nat : DOMAIN entries \subseteq 0 .. n
      BY <1>0 DEF EntryRecords
    <3> DEFINE S == {0} \cup DOMAIN entries
    <3>2. S \in SUBSET Nat /\ S # {} /\ \A m \in S : m <= n
      BY <3>1
    <3>3. Max(S) \in S /\ \A m \in S : Max(S) >= m
      BY <3>2, GreatestIs
    <3>4. Newest = Max(S)
      BY DEF Newest
    <3> HIDE DEF S
    <3>5. Newest \in Nat
      BY <3>2, <3>3, <3>4
    <3> QED
      BY <3>2, <3>3, <3>4, <3>5 DEF S
  <2>4. Newest + 1 \notin DOMAIN entries
    BY <2>3 DEF EntryRecords
  <2>6. EntryRecords'
    <3>1. DOMAIN entries' \subseteq 0 .. Newest + 1
      BY <1>0, <2>1, <2>3 DEF EntryRecords
    <3> QED
      BY <1>0, <2>1, <2>2, <2>3, <3>1 DEF EntryRecords
  <2>5. Ids \subseteq Ids'
    BY <2>1, <2>4 DEF Ids
  <2> QED
    BY <1>8, <2>5, <2>6, PointersKept DEF CreatesEntry
<1>9. CASE CreateRefused(q)
  BY <1>0, <1>9, PointersKept DEF CreateRefused, Ids
<1>10. CASE ClearsOthers(q)
  <2>1. EntryRecords' /\ Ids' = Ids
    BY <1>0, <1>10, SameIds DEF ClearsOthers
  <2> QED
    BY <1>5, <1>10, <2>1, GoesOnAt, PointersKept DEF ClearsOthers
<1>11. CASE SavesDefault(q)
  <2>1. EntryRecords' /\ Ids' = Ids
    BY <1>0, <1>11, SameIds DEF SavesDefault
  <2> QED
    BY <1>11, <2>1, PointersKept DEF SavesDefault
<1>12. CASE SaveRefused(q)
  BY <1>0, <1>12, PointersKept DEF SaveRefused, Ids
<1>13. CASE Removes(q)
  <2> DEFINE was == \E d \in Defaults : d.id = q.entry
             r == [q EXCEPT !.at = "pointers", !.was = was]
  <2>1. IF q.entry \in Ids THEN edits' = (edits \ {q}) \cup {r} ELSE edits' = edits \ {q}
    BY <1>13, Zenon DEF Removes
  <2>2. /\ q.at = "remove" /\ "entry" \in DOMAIN q /\ pointer' = pointer
        /\ entries' = [i \in {j \in DOMAIN entries : entries[j].id # q.entry} |-> entries[i]]
        /\ misled \subseteq misled'
        /\ (\E p \in edits : p.at = "point" /\ p.entry = q.entry) => q.entry \in misled'
    BY <1>13 DEF Removes, PointersInv
  <2> HIDE DEF was
  <2>3. Record(r, {"at"}) /\ r.at = "pointers" /\ "entry" \in DOMAIN r /\ r.entry = q.entry
    BY <1>5, <2>2 DEF Record
  <2> HIDE DEF r
  <2>4. Ids' = Ids \ {q.entry} /\ EntryRecords'
    <3>1. DOMAIN entries' = {j \in DOMAIN entries : entries[j].id # q.entry}
      BY <2>2
    <3>2. \A i \in DOMAIN entries' : entries'[i] = entries[i]
      BY <2>2
    <3>3. Ids' = Ids \ {q.entry}
      BY <3>1, <3>2 DEF Ids
    <3>4. PICK n \in Nat : DOMAIN entries \subseteq 0 .. n
      BY <1>0 DEF EntryRecords
    <3>5. DOMAIN entries' \subseteq 0 .. n
      BY <3>1, <3>4
    <3>6. \A i \in DOMAIN entries' : Record(entries'[i], {"id", "isDefault"})
      BY <1>0, <3>1, <3>2 DEF EntryRecords
    <3> QED
      BY <3>3, <3>5, <3>6 DEF EntryRecords, Record
  <2>5. Clearing \subseteq Clearing' /\ (q.entry \in Ids => q.entry \in Clearing')
    BY <2>1, <2>2, <2>3 DEF Clearing
  <2>6. pointer' \in Ids' \cup misled' \cup {NoEntry} \cup Clearing'
    BY <2>2, <2>4, <2>5 DEF PointersInv
  <2>7. \A p \in edits' : /\ Record(p, {"at"})
                          /\ p.at \in {"remove", "pointers", "point"} => "entry" \in DOMAIN p
                          /\ p.at = "point" => p.entry \in Ids' \cup misled'
    BY <2>1, <2>2, <2>3, <2>4 DEF PointersInv
  <2> QED
    BY <2>4, <2>6, <2>7 DEF PointersInv, Record
<1>14. CASE ClearsPointers(q)
  <2>1. \A p \in edits' : p \in edits \/ (Record(p, {"at"}) /\ p.at = "find")
    BY <1>5, <1>14, GoesOnAt DEF ClearsPointers
  <2>2. UNCHANGED <<entries, misled>> /\ pointer' = IF pointer = q.entry THEN NoEntry ELSE pointer
    BY <1>14 DEF ClearsPointers
  <2>3. \A p \in edits : p \in edits' \/ p = q
    BY <1>14 DEF ClearsPointers, EditGoes
  <2>4. \A e \in Clearing : e \in Clearing' \/ e = q.entry
    BY <2>3 DEF Clearing
  <2> QED
    BY <1>0, <2>1, <2>2, <2>4 DEF PointersInv
<1>15. CASE FindsHeir(q)
  <2> DEFINE r == [q EXCEPT !.at = "promote", !.entry = entries[Oldest].id, !.was = entries[Oldest].isDefault]
  <2>1. Record(r, {"at"}) /\ r.at = "promote"
    BY <1>5 DEF Record
  <2>2. edits' = edits \ {q} \/ edits' = (edits \ {q}) \cup {r}
    BY <1>15 DEF FindsHeir
  <2>3. q.at = "find" /\ UNCHANGED <<entries, pointer, misled>>
    BY <1>15 DEF FindsHeir
  <2> HIDE DEF r
  <2> QED
    BY <1>0, <2>1, <2>2, <2>3, PointersKept DEF Ids
<1>16. CASE Promotes(q)
  <2>1. EntryRecords' /\ Ids' = Ids
    BY <1>0, <1>16, SameIds DEF Promotes
  <2> QED
    BY <1>16, <2>1, PointersKept DEF Promotes
<1>17. CASE Points(q)
  <2>1. q.at = "point" /\ edits' = edits \ {q} /\ pointer' = q.entry /\ UNCHANGED <<entries, misled>>
    BY <1>17 DEF Points
  <2>2. Clearing \subseteq Clearing'
    BY <2>1 DEF Clearing
  <2> QED
    BY <1>0, <2>1, <2>2 DEF PointersInv
<1> QED
  BY <1>6, <1>7, <1>8, <1>9, <1>10, <1>11, <1>12, <1>13, <1>14, <1>15, <1>16, <1>17

LEMMA PointersStart == VoiceServersInit => PointersInv
<1>1. VoiceServersInit => entries = <<>> /\ DOMAIN entries = {} /\ edits = {} /\ pointer = NoEntry
  BY DEF VoiceServersInit
<1>2. DOMAIN entries = {} => EntryRecords
  <2>1. DOMAIN entries = {} => DOMAIN entries \subseteq 0 .. 0
    OBVIOUS
  <2> QED
    BY <2>1 DEF EntryRecords, Record
<1> QED
  BY <1>1, <1>2 DEF PointersInv, Ids, Clearing

\* Between requests nothing is being cleared.
LEMMA PointersEnd == PointersInv => PointerLives
BY DEF PointersInv, PointerLives, Clearing

-----------------------------------------------------------------------------
(* Voice servers: the default.                                                 *)

Nobodys == \A i \in DOMAIN entries : ~entries[i].isDefault
IsOnly(i) == \A j \in DOMAIN entries : entries[j].isDefault <=> j = i
Chosen == Ids = {} \/ \E i \in DOMAIN entries : IsOnly(i)

\* What a request that moves the default, or may, relies on at each await when it
\* meets no other.
DefaultReady(q) ==
    /\ q.at \in {"count", "remove"} => Chosen
    /\ q.at = "clear" => q.default
    /\ q.at = "create" => IF q.default THEN Nobodys ELSE Ids # {} /\ Chosen
    /\ q.at = "others" =>
          Chosen /\ \E i \in DOMAIN entries : entries[i].id = q.entry /\ (entries[i].isDefault <=> q.was)
    /\ q.at = "save" =>
          \E i \in DOMAIN entries : /\ entries[i].id = q.entry
                                    /\ \A j \in DOMAIN entries : entries[j].isDefault <=> j = i /\ q.was
    /\ q.at = "pointers" => IF q.was THEN Nobodys ELSE Chosen
    /\ q.at = "find" => Nobodys
    /\ q.at = "promote" => Nobodys /\ ~q.was /\ q.entry \in Ids

AskedTyped(q) ==
    /\ Record(q, {"at"})
    /\ q.at \in {"count", "clear", "create", "save", "others", "find", "promote", "pointers", "point", "remove"}
    /\ q.at \in {"count", "clear", "create"} => "default" \in DOMAIN q /\ q.default \in BOOLEAN
    /\ q.at \in {"save", "others", "find", "promote", "pointers", "remove"} =>
          {"entry", "was"} \subseteq DOMAIN q /\ q.was \in BOOLEAN

EntriesTyped ==
    /\ EntryRecords
    /\ \A i \in DOMAIN entries : entries[i].isDefault \in BOOLEAN
    /\ \A i, j \in DOMAIN entries : entries[i].id = entries[j].id => i = j
    /\ Ids \subseteq registered /\ registered \subseteq Entry

\* One request at a time moves the default, or else the history says they met.
Alone ==
    /\ \A q, r \in edits : q.at # "point" /\ r.at # "point" => q = r
    /\ \A q \in edits : q.at # "point" => DefaultReady(q)
    /\ (\A q \in edits : q.at = "point") => Chosen

DefaultsInv ==
    /\ EntriesTyped
    /\ contended \in BOOLEAN
    /\ \A q \in edits : AskedTyped(q)
    /\ ~contended => Alone

\* A request that ends, goes on, or comes when there is no other.
LEMMA AloneEnds ==
    ASSUME Alone, NEW q \in edits, q.at # "point", edits' = edits \ {q}, Chosen'
    PROVE  Alone'
BY DEF Alone

LEMMA AloneGoes ==
    ASSUME Alone, NEW q \in edits, q.at # "point", NEW r, r.at # "point",
           edits' = (edits \ {q}) \cup {r}, DefaultReady(r)'
    PROVE  Alone'
BY DEF Alone

LEMMA AloneComes ==
    ASSUME \A q \in edits : q.at = "point", NEW r, r.at # "point",
           edits' = edits \cup {r}, DefaultReady(r)'
    PROVE  Alone'
BY DEF Alone

\* A request at its next await.
LEMMA AskedOn ==
    ASSUME NEW q, AskedTyped(q), NEW at, DOMAIN q # {},
           \/ q.at = "clear" /\ at = "create"
           \/ q.at = "others" /\ at = "save"
           \/ q.at = "pointers" /\ at = "find"
    PROVE  /\ AskedTyped([q EXCEPT !.at = at])
           /\ [q EXCEPT !.at = at].at = at
           /\ at = "create" => [q EXCEPT !.at = at].default = q.default
           /\ at \in {"save", "find"} => /\ [q EXCEPT !.at = at].entry = q.entry
                                         /\ [q EXCEPT !.at = at].was = q.was
BY DEF AskedTyped, Record

\* What the two writes of the flag do to it.
LEMMA FlagsFall ==
    ASSUME EntriesTyped, NEW e, entries' = NobodysDefault(entries, e), registered' = registered
    PROVE  /\ EntriesTyped' /\ Ids' = Ids /\ DOMAIN entries' = DOMAIN entries
           /\ \A i \in DOMAIN entries : /\ entries'[i].id = entries[i].id
                                        /\ entries'[i].isDefault <=> entries[i].isDefault /\ entries[i].id = e
<1> DEFINE flag == [i \in DOMAIN entries |-> entries[i].isDefault /\ entries[i].id = e]
<1>1. entries' = [i \in DOMAIN entries |-> [entries[i] EXCEPT !.isDefault = flag[i]]]
  BY Zenon DEF NobodysDefault
<1>2. \A i \in DOMAIN entries : flag[i] \in BOOLEAN /\ (flag[i] <=> entries[i].isDefault /\ entries[i].id = e)
  BY Zenon
<1> HIDE DEF flag
<1>3. EntryRecords' /\ Ids' = Ids
  BY SameIds DEF EntriesTyped
<1>4. DOMAIN entries' = DOMAIN entries
  BY <1>1
<1>5. \A i \in DOMAIN entries : entries'[i].id = entries[i].id /\ entries'[i].isDefault = flag[i]
  BY <1>1 DEF EntriesTyped, EntryRecords, Record
<1> QED
  BY <1>2, <1>3, <1>4, <1>5 DEF EntriesTyped

LEMMA FlagsRise ==
    ASSUME EntriesTyped, NEW e, entries' = MadeDefault(entries, e), registered' = registered
    PROVE  /\ EntriesTyped' /\ Ids' = Ids /\ DOMAIN entries' = DOMAIN entries
           /\ \A i \in DOMAIN entries : /\ entries'[i].id = entries[i].id
                                        /\ entries'[i].isDefault <=> entries[i].isDefault \/ entries[i].id = e
<1> DEFINE flag == [i \in DOMAIN entries |-> entries[i].isDefault \/ entries[i].id = e]
<1>1. entries' = [i \in DOMAIN entries |-> [entries[i] EXCEPT !.isDefault = flag[i]]]
  BY Zenon DEF MadeDefault
<1>2. \A i \in DOMAIN entries : flag[i] \in BOOLEAN /\ (flag[i] <=> entries[i].isDefault \/ entries[i].id = e)
  BY Zenon
<1> HIDE DEF flag
<1>3. EntryRecords' /\ Ids' = Ids
  BY SameIds DEF EntriesTyped
<1>4. DOMAIN entries' = DOMAIN entries
  BY <1>1
<1>5. \A i \in DOMAIN entries : entries'[i].id = entries[i].id /\ entries'[i].isDefault = flag[i]
  BY <1>1 DEF EntriesTyped, EntryRecords, Record
<1> QED
  BY <1>2, <1>3, <1>4, <1>5 DEF EntriesTyped

\* A step that writes no entry and moves one request.
LEMMA EntriesStay ==
    ASSUME DefaultsInv, UNCHANGED <<entries, registered>>, contended' \in BOOLEAN,
           \A r \in edits' : r \in edits \/ AskedTyped(r),
           ~contended' => Alone'
    PROVE  DefaultsInv'
<1>1. EntriesTyped'
  BY DEF DefaultsInv, EntriesTyped, EntryRecords, Ids, Record
<1> QED
  BY <1>1 DEF DefaultsInv, AskedTyped, Record

LEMMA NothingMoved ==
    ASSUME UNCHANGED entries
    PROVE  /\ Chosen' <=> Chosen
           /\ \A p : DefaultReady(p)' <=> DefaultReady(p)
<1>1. /\ Chosen' <=> Chosen
      /\ Nobodys' <=> Nobodys
      /\ Ids' = Ids
  BY DEF Chosen, IsOnly, Nobodys, Ids
<1>2. ASSUME NEW p
      PROVE  DefaultReady(p)' <=> DefaultReady(p)
  BY <1>1 DEF DefaultReady
<1> QED
  BY <1>1, <1>2

LEMMA NewestIs ==
    ASSUME EntryRecords
    PROVE  Newest \in Nat /\ Newest + 1 \notin DOMAIN entries /\ DOMAIN entries \subseteq 0 .. Newest
<1>1. PICK n \in Nat : DOMAIN entries \subseteq 0 .. n
  BY DEF EntryRecords
<1> DEFINE S == {0} \cup DOMAIN entries
<1>2. S \in SUBSET Nat /\ S # {} /\ \A m \in S : m <= n
  BY <1>1
<1>3. Max(S) \in S /\ \A m \in S : Max(S) >= m
  BY <1>2, GreatestIs
<1>4. Newest = Max(S)
  BY DEF Newest
<1> HIDE DEF S
<1>5. Newest \in Nat
  BY <1>2, <1>3, <1>4
<1> QED
  BY <1>2, <1>3, <1>4, <1>5 DEF S

LEMMA OldestIs ==
    ASSUME EntryRecords, Ids # {}
    PROVE  Oldest \in DOMAIN entries
<1>1. DOMAIN entries \in SUBSET Nat /\ DOMAIN entries # {}
  BY DEF EntryRecords, Ids
<1> QED
  BY <1>1, LeastIs DEF Oldest

\* Asking.
LEMMA DefaultsAsked ==
    ASSUME DefaultsInv, AsksToCreate \/ AsksForDefault \/ AsksToDelete \/ AsksToPoint
    PROVE  DefaultsInv'
<1>1. SUFFICES ASSUME NEW r, edits' = edits \cup {r}, AskedTyped(r), contended' \in BOOLEAN,
                      UNCHANGED <<entries, registered>>,
                      ~contended' => ~contended,
                      \/ r.at = "point"
                      \/ /\ ~contended' => \A q \in edits : q.at = "point"
                         /\ ~contended' => (Chosen => DefaultReady(r)) /\ r.at # "point"
               PROVE  DefaultsInv'
  <2>1. contended' \in BOOLEAN /\ (~contended' => ~contended)
    BY DEF DefaultsInv, AsksToCreate, AsksForDefault, AsksToDelete, AsksToPoint, Contends
  <2>2. CASE AsksToPoint
    <3>1. PICK e : edits' = edits \cup {[id |-> edited, at |-> "point", entry |-> e]}
      BY <2>2 DEF AsksToPoint, EditBegins
    <3>2. PICK r : r = [id |-> edited, at |-> "point", entry |-> e]
      OBVIOUS
    <3>3. AskedTyped(r) /\ r.at = "point"
      BY <3>2 DEF AskedTyped, Record
    <3> QED
      BY <1>1, <2>1, <2>2, <3>1, <3>2, <3>3 DEF AsksToPoint
  <2>3. CASE AsksToCreate
    <3>1. PICK wants \in BOOLEAN : edits' = edits \cup {[id |-> edited, at |-> "count", default |-> wants]}
      BY <2>3 DEF AsksToCreate, EditBegins
    <3>2. PICK r : r = [id |-> edited, at |-> "count", default |-> wants]
      OBVIOUS
    <3>3. AskedTyped(r) /\ r.at = "count"
      BY <3>2 DEF AskedTyped, Record
    <3>4. Chosen => DefaultReady(r)
      BY <3>3 DEF DefaultReady
    <3>5. ~contended' => \A q \in edits : q.at = "point"
      BY <2>3 DEF AsksToCreate, Contends
    <3> QED
      BY <1>1, <2>1, <2>3, <3>1, <3>2, <3>3, <3>4, <3>5 DEF AsksToCreate
  <2>4. CASE AsksForDefault
    <3>1. PICK i \in DOMAIN entries : edits' = edits \cup
            {[id |-> edited, at |-> "others", entry |-> entries[i].id, was |-> entries[i].isDefault]}
      BY <2>4 DEF AsksForDefault, EditBegins
    <3>2. PICK r : r = [id |-> edited, at |-> "others", entry |-> entries[i].id, was |-> entries[i].isDefault]
      OBVIOUS
    <3>3. AskedTyped(r) /\ r.at = "others" /\ r.entry = entries[i].id /\ r.was = entries[i].isDefault
      BY <3>2 DEF AskedTyped, Record, DefaultsInv, EntriesTyped
    <3>4. Chosen => DefaultReady(r)
      BY <3>3 DEF DefaultReady
    <3>5. ~contended' => \A q \in edits : q.at = "point"
      BY <2>4 DEF AsksForDefault, Contends
    <3> QED
      BY <1>1, <2>1, <2>4, <3>1, <3>2, <3>3, <3>4, <3>5 DEF AsksForDefault
  <2>5. CASE AsksToDelete
    <3>1. PICK e \in Ids : edits' = edits \cup {[id |-> edited, at |-> "remove", entry |-> e, was |-> FALSE]}
      BY <2>5 DEF AsksToDelete, EditBegins
    <3>2. PICK r : r = [id |-> edited, at |-> "remove", entry |-> e, was |-> FALSE]
      OBVIOUS
    <3>3. AskedTyped(r) /\ r.at = "remove"
      BY <3>2 DEF AskedTyped, Record
    <3>4. Chosen => DefaultReady(r)
      BY <3>3 DEF DefaultReady
    <3>5. ~contended' => \A q \in edits : q.at = "point"
      BY <2>5 DEF AsksToDelete, Contends
    <3> QED
      BY <1>1, <2>1, <2>5, <3>1, <3>2, <3>3, <3>4, <3>5 DEF AsksToDelete
  <2> QED
    BY <2>2, <2>3, <2>4, <2>5
<1>2. DefaultReady(r)' <=> DefaultReady(r)
  BY <1>1, NothingMoved
<1>3. ASSUME ~contended' PROVE Alone'
  <2>1. Alone
    BY <1>1, <1>3 DEF DefaultsInv
  <2>2. CASE r.at = "point"
    <3>1. (\A q \in edits : q.at # "point" => DefaultReady(q)) => (\A q \in edits : q.at # "point" => DefaultReady(q)')
      BY <1>1, NothingMoved
    <3>2. Chosen' <=> Chosen
      BY <1>1, NothingMoved
    <3> QED
      BY <1>1, <2>1, <2>2, <3>1, <3>2 DEF Alone
  <2>3. CASE r.at # "point"
    <3>1. (\A q \in edits : q.at = "point") /\ (Chosen => DefaultReady(r))
      BY <1>1, <1>3, <2>3
    <3>2. DefaultReady(r)
      BY <2>1, <3>1 DEF Alone
    <3> QED
      BY <1>1, <1>2, <2>3, <3>1, <3>2, AloneComes
  <2> QED
    BY <2>2, <2>3
<1> QED
  BY <1>1, <1>3, EntriesStay

\* Creating.
LEMMA DefaultsCreated ==
    ASSUME VoiceServersAssumption, DefaultsInv, NEW q \in edits,
           Counts(q) \/ Clears(q) \/ CreatesEntry(q) \/ CreateRefused(q)
    PROVE  DefaultsInv'
<1> USE DEF EditEnds
<1>0. EntriesTyped /\ contended \in BOOLEAN /\ AskedTyped(q) /\ (~contended => Alone)
  BY DEF DefaultsInv
<1>1. CASE Counts(q)
  <2>0. q.at = "count" /\ UNCHANGED <<entries, registered, contended>>
    BY <1>1 DEF Counts
  <2>1. ~contended => Chosen
    BY <1>0, <2>0 DEF Alone, DefaultReady
  <2>2. CASE edits' = edits \ {q}
    <3>1. Chosen => Chosen'
      BY <2>0 DEF Chosen, IsOnly, Ids
    <3>2. ~contended' => Alone'
      BY <1>0, <2>0, <2>1, <2>2, <3>1, AloneEnds
    <3> QED
      BY <1>0, <2>0, <2>2, <3>2, EntriesStay
  <2>3. CASE edits' # edits \ {q}
    <3>1. PICK d : d = (q.default \/ Ids = {})
      OBVIOUS
    <3>2. d \in BOOLEAN /\ (d <=> q.default \/ Ids = {})
      BY Zenon, <3>1
    <3>3. edits' = (edits \ {q}) \cup {[q EXCEPT !.at = IF d THEN "clear" ELSE "create", !.default = d]}
      BY Zenon, <1>1, <2>3, <3>1 DEF Counts
    <3>4. PICK r : r = [q EXCEPT !.at = IF d THEN "clear" ELSE "create", !.default = d]
      OBVIOUS
    <3>5. AskedTyped(r) /\ r.default = d /\ r.at = IF d THEN "clear" ELSE "create"
      BY <1>0, <2>0, <3>2, <3>4 DEF AskedTyped, Record
    <3>6. Chosen => DefaultReady(r)'
      BY <2>0, <3>2, <3>5 DEF DefaultReady, Chosen, IsOnly, Ids
    <3>7. edits' = (edits \ {q}) \cup {r}
      BY Zenon, <3>3, <3>4
    <3>8. r.at \in {"clear", "create"}
      BY <3>5
    <3>9. ~contended' => Alone'
      BY <1>0, <2>0, <2>1, <3>6, <3>7, <3>8, AloneGoes
    <3> QED
      BY <1>0, <2>0, <3>5, <3>7, <3>9, EntriesStay
  <2> QED
    BY <2>2, <2>3
<1>2. CASE Clears(q)
  <2>0. /\ q.at = "clear" /\ entries' = NobodysDefault(entries, NoEntry)
        /\ UNCHANGED <<registered, contended>> /\ EditGoes(q, "create")
    BY <1>2 DEF Clears
  <2>1. /\ EntriesTyped'
        /\ DOMAIN entries' = DOMAIN entries
        /\ \A i \in DOMAIN entries : entries'[i].isDefault <=> entries[i].isDefault /\ entries[i].id = NoEntry
    BY <1>0, <2>0, FlagsFall
  <2>2. \A i \in DOMAIN entries : entries[i].id # NoEntry
    BY <1>0 DEF EntriesTyped, Ids, VoiceServersAssumption
  <2>3. Nobodys'
    BY <2>1, <2>2 DEF Nobodys
  <2>4. PICK r : r = [q EXCEPT !.at = "create"]
    OBVIOUS
  <2>5. AskedTyped(r) /\ r.at = "create" /\ r.default = q.default
    BY <1>0, <2>0, <2>4, AskedOn DEF AskedTyped
  <2>6. edits' = (edits \ {q}) \cup {r}
    BY <2>0, <2>4 DEF EditGoes
  <2>7. ~contended => q.default
    BY <1>0, <2>0 DEF Alone, DefaultReady
  <2>8. ~contended => DefaultReady(r)'
    BY <2>3, <2>5, <2>7 DEF DefaultReady
  <2>9. ~contended' => Alone'
    BY <1>0, <2>0, <2>5, <2>6, <2>8, AloneGoes
  <2>10. \A p \in edits' : AskedTyped(p)
    BY <2>5, <2>6 DEF DefaultsInv
  <2> QED
    BY <1>0, <2>0, <2>1, <2>9, <2>10 DEF DefaultsInv, AskedTyped, Record
<1>3. CASE CreatesEntry(q)
  <2> DEFINE e == CHOOSE x \in Entry \ registered : TRUE
  <2>0. /\ q.at = "create" /\ edits' = edits \ {q} /\ contended' = contended
        /\ e \in Entry \ registered /\ registered' = registered \cup {e}
        /\ entries' = [i \in DOMAIN entries \cup {Newest + 1} |->
                          IF i = Newest + 1 THEN [id |-> e, isDefault |-> q.default] ELSE entries[i]]
    BY <1>3 DEF CreatesEntry
  <2> HIDE DEF e
  <2>1. PICK n : n = Newest + 1
    OBVIOUS
  <2>2. n \in Nat /\ n \notin DOMAIN entries /\ DOMAIN entries \subseteq 0 .. n
    BY <1>0, <2>1, NewestIs DEF EntriesTyped
  <2>3. PICK new : new = [id |-> e, isDefault |-> q.default]
    OBVIOUS
  <2>4. Record(new, {"id", "isDefault"}) /\ new.id = e /\ new.isDefault = q.default
    BY <2>3 DEF Record
  <2>5. /\ DOMAIN entries' = DOMAIN entries \cup {n} /\ entries'[n] = new
        /\ \A i \in DOMAIN entries : entries'[i] = entries[i]
    BY <2>0, <2>1, <2>2, <2>3
  <2>6. q.default \in BOOLEAN
    BY <1>0, <2>0 DEF AskedTyped
  <2>7. Ids' = Ids \cup {e} /\ e \notin Ids
    BY <1>0, <2>0, <2>4, <2>5 DEF Ids, EntriesTyped
  <2>8. EntriesTyped'
    <3>1. DOMAIN entries' \subseteq 0 .. n
      BY <2>2, <2>5
    <3>2. EntryRecords'
      BY <1>0, <2>2, <2>4, <2>5, <3>1 DEF EntriesTyped, EntryRecords, Record
    <3>3. \A i \in DOMAIN entries : entries[i].id # e
      BY <2>7 DEF Ids
    <3>4. \A i, j \in DOMAIN entries' : entries'[i].id = entries'[j].id => i = j
      BY <1>0, <2>4, <2>5, <3>3 DEF EntriesTyped
    <3> QED
      BY <1>0, <2>0, <2>4, <2>5, <2>6, <2>7, <3>2, <3>4 DEF EntriesTyped
  <2>9. ~contended => Chosen'
    <3>1. ~contended => IF q.default THEN Nobodys ELSE Ids # {} /\ Chosen
      BY <1>0, <2>0 DEF Alone, DefaultReady
    <3>2. q.default /\ Nobodys => IsOnly(n)' /\ n \in DOMAIN entries'
      BY <2>2, <2>4, <2>5 DEF Nobodys, IsOnly
    <3>3. ~q.default => \A i \in DOMAIN entries : IsOnly(i) => IsOnly(i)' /\ i \in DOMAIN entries'
      BY <2>2, <2>4, <2>5 DEF IsOnly
    <3> QED
      BY <3>1, <3>2, <3>3 DEF Chosen
  <2>10. ~contended' => Alone'
    BY <1>0, <2>0, <2>9, AloneEnds
  <2> QED
    BY <1>0, <2>0, <2>8, <2>10 DEF DefaultsInv, AskedTyped, Record
<1>4. CASE CreateRefused(q)
  <2>0. /\ q.at = "create" /\ edits' = edits \ {q} /\ contended' = (contended \/ q.default)
        /\ UNCHANGED <<entries, registered>>
    BY <1>4 DEF CreateRefused
  <2>1. q.default \in BOOLEAN
    BY <1>0, <2>0 DEF AskedTyped
  <2>2. ~contended' => ~contended /\ ~q.default
    BY <1>0, <2>0, <2>1
  <2>3. ~contended' => Chosen
    BY <1>0, <2>0, <2>2 DEF Alone, DefaultReady
  <2>4. Chosen => Chosen'
    BY <2>0 DEF Chosen, IsOnly, Ids
  <2>5. ~contended' => Alone'
    BY <1>0, <2>0, <2>2, <2>3, <2>4, AloneEnds
  <2> QED
    BY <1>0, <2>0, <2>1, <2>5, EntriesStay
<1> QED
  BY <1>1, <1>2, <1>3, <1>4

\* Making the default of one there is, and refusing to half way.
LEMMA DefaultsMoved ==
    ASSUME DefaultsInv, NEW q \in edits,
           ClearsOthers(q) \/ SavesDefault(q) \/ SaveRefused(q) \/ Promotes(q)
    PROVE  DefaultsInv'
<1> USE DEF EditEnds
<1>0. EntriesTyped /\ contended \in BOOLEAN /\ AskedTyped(q) /\ (~contended => Alone)
  BY DEF DefaultsInv
<1>1. CASE ClearsOthers(q)
  <2>0. /\ q.at = "others" /\ entries' = NobodysDefault(entries, q.entry)
        /\ UNCHANGED <<registered, contended>> /\ EditGoes(q, "save")
    BY <1>1 DEF ClearsOthers
  <2>1. /\ EntriesTyped'
        /\ DOMAIN entries' = DOMAIN entries
        /\ \A i \in DOMAIN entries : /\ entries'[i].id = entries[i].id
                                     /\ entries'[i].isDefault <=> entries[i].isDefault /\ entries[i].id = q.entry
    BY <1>0, <2>0, FlagsFall
  <2>2. PICK r : r = [q EXCEPT !.at = "save"]
    OBVIOUS
  <2>3. AskedTyped(r) /\ r.at = "save" /\ r.entry = q.entry /\ r.was = q.was
    BY <1>0, <2>0, <2>2, AskedOn DEF AskedTyped
  <2>4. edits' = (edits \ {q}) \cup {r}
    BY <2>0, <2>2 DEF EditGoes
  <2>5. ~contended => DefaultReady(r)'
    <3> SUFFICES ASSUME ~contended PROVE DefaultReady(r)'
      OBVIOUS
    <3>1. PICK i \in DOMAIN entries : entries[i].id = q.entry /\ (entries[i].isDefault <=> q.was)
      BY <1>0, <2>0 DEF Alone, DefaultReady
    <3>2. \A j \in DOMAIN entries : entries[j].id = q.entry <=> j = i
      BY <1>0, <3>1 DEF EntriesTyped
    <3>3. \A j \in DOMAIN entries' : entries'[j].isDefault <=> j = i /\ r.was
      BY <2>1, <2>3, <3>1, <3>2
    <3>4. i \in DOMAIN entries' /\ entries'[i].id = r.entry
      BY <2>1, <2>3, <3>1
    <3> QED
      BY <2>3, <3>3, <3>4 DEF DefaultReady
  <2>6. ~contended' => Alone'
    BY <1>0, <2>0, <2>3, <2>4, <2>5, AloneGoes
  <2>7. \A p \in edits' : AskedTyped(p)
    BY <2>3, <2>4 DEF DefaultsInv
  <2> QED
    BY <1>0, <2>0, <2>1, <2>6, <2>7 DEF DefaultsInv, AskedTyped, Record
<1>2. CASE SavesDefault(q) \/ Promotes(q)
  <2>0. /\ q.at \in {"save", "promote"} /\ edits' = edits \ {q} /\ UNCHANGED <<registered, contended>>
        /\ entries' = IF q.was THEN entries ELSE MadeDefault(entries, q.entry)
    BY <1>2 DEF SavesDefault, Promotes
  <2>1. EntriesTyped' /\ DOMAIN entries' = DOMAIN entries
    BY <1>0, <2>0, FlagsRise DEF EntriesTyped, EntryRecords, Ids, Record
  <2>2. ~q.was => \A i \in DOMAIN entries :
          entries'[i].isDefault <=> entries[i].isDefault \/ entries[i].id = q.entry
    BY <1>0, <2>0, FlagsRise
  <2>3. ~contended => Chosen'
    <3> SUFFICES ASSUME ~contended PROVE Chosen'
      OBVIOUS
    <3>1. PICK i \in DOMAIN entries :
            entries[i].id = q.entry /\ \A j \in DOMAIN entries : entries[j].isDefault <=> j = i /\ q.was
      BY <1>0, <2>0 DEF Alone, DefaultReady, Nobodys, Ids
    <3>2. \A j \in DOMAIN entries : entries[j].id = q.entry <=> j = i
      BY <1>0, <3>1 DEF EntriesTyped
    <3>3. \A j \in DOMAIN entries' : entries'[j].isDefault <=> j = i
      <4>1. CASE q.was
        BY <2>0, <3>1, <4>1
      <4>2. CASE ~q.was
        BY <2>1, <2>2, <3>1, <3>2, <4>2
      <4> QED
        BY <4>1, <4>2
    <3> QED
      BY <2>1, <3>1, <3>3 DEF Chosen, IsOnly
  <2>4. ~contended' => Alone'
    BY <1>0, <2>0, <2>3, AloneEnds
  <2> QED
    BY <1>0, <2>0, <2>1, <2>4 DEF DefaultsInv, AskedTyped, Record
<1>3. CASE SaveRefused(q)
  BY <1>0, <1>3, EntriesStay DEF SaveRefused
<1> QED
  BY <1>1, <1>2, <1>3

\* Deleting, and the heir; and a channel's own update.
LEMMA DefaultsRemoved ==
    ASSUME DefaultsInv, NEW q \in edits,
           Removes(q) \/ ClearsPointers(q) \/ FindsHeir(q) \/ Points(q)
    PROVE  DefaultsInv'
<1> USE DEF EditEnds
<1>0. EntriesTyped /\ contended \in BOOLEAN /\ AskedTyped(q) /\ (~contended => Alone)
  BY DEF DefaultsInv
<1>1. CASE Removes(q)
  <2>0. /\ q.at = "remove" /\ UNCHANGED <<registered, contended>>
        /\ entries' = [i \in {j \in DOMAIN entries : entries[j].id # q.entry} |-> entries[i]]
    BY <1>1 DEF Removes
  <2>1. /\ DOMAIN entries' = {j \in DOMAIN entries : entries[j].id # q.entry}
        /\ \A i \in DOMAIN entries' : entries'[i] = entries[i]
    BY <2>0
  <2>2. EntriesTyped'
    <3>1. Ids' \subseteq Ids
      BY <2>1 DEF Ids
    <3>2. EntryRecords'
      BY <1>0, <2>1 DEF EntriesTyped, EntryRecords, Record
    <3> QED
      BY <1>0, <2>0, <2>1, <3>1, <3>2 DEF EntriesTyped
  <2>3. ~contended => Chosen
    BY <1>0, <2>0 DEF Alone, DefaultReady
  <2>4. CASE q.entry \notin Ids
    <3>1. edits' = edits \ {q}
      BY <1>1, <2>4 DEF Removes
    <3>2. DOMAIN entries' = DOMAIN entries
      BY <2>1, <2>4 DEF Ids
    <3>3. Chosen => Chosen'
      <4>1. \A i \in DOMAIN entries : IsOnly(i) => IsOnly(i)'
        BY <2>1, <3>2 DEF IsOnly
      <4> QED
        BY <2>1, <3>2, <4>1 DEF Chosen, Ids
    <3>4. ~contended' => Alone'
      BY <1>0, <2>0, <2>3, <3>1, <3>3, AloneEnds
    <3> QED
      BY <1>0, <2>0, <2>2, <3>1, <3>4 DEF DefaultsInv, AskedTyped, Record
  <2>5. CASE q.entry \in Ids
    <3>1. PICK was : was = (\E d \in Defaults : d.id = q.entry)
      OBVIOUS
    <3>2. was \in BOOLEAN /\ (was <=> \E d \in Defaults : d.id = q.entry)
      BY Zenon, <3>1
    <3>3. edits' = (edits \ {q}) \cup {[q EXCEPT !.at = "pointers", !.was = was]}
      BY Zenon, <1>1, <2>5, <3>1 DEF Removes
    <3>4. PICK r : r = [q EXCEPT !.at = "pointers", !.was = was]
      OBVIOUS
    <3>5. AskedTyped(r) /\ r.was = was /\ r.at = "pointers"
      BY <1>0, <2>0, <3>2, <3>4 DEF AskedTyped, Record
    <3>6. was <=> \E i \in DOMAIN entries : entries[i].isDefault /\ entries[i].id = q.entry
      BY <3>2 DEF Defaults
    <3>7. Chosen => DefaultReady(r)'
      <4> SUFFICES ASSUME Chosen PROVE DefaultReady(r)'
        OBVIOUS
      <4>1. PICK i \in DOMAIN entries : IsOnly(i)
        BY <2>5 DEF Chosen, Ids
      <4>2. CASE entries[i].id = q.entry
        <5>1. was
          BY <3>6, <4>1, <4>2 DEF IsOnly
        <5>2. Nobodys'
          BY <2>1, <4>1, <4>2 DEF Nobodys, IsOnly
        <5> QED
          BY <3>5, <5>1, <5>2 DEF DefaultReady
      <4>3. CASE entries[i].id # q.entry
        <5>1. ~was
          BY <3>6, <4>1, <4>3 DEF IsOnly
        <5>2. i \in DOMAIN entries' /\ IsOnly(i)'
          BY <2>1, <4>1, <4>3 DEF IsOnly
        <5>3. Chosen'
          BY <5>2 DEF Chosen
        <5> QED
          BY <3>5, <5>1, <5>3 DEF DefaultReady
      <4> QED
        BY <4>2, <4>3
    <3>8. ~contended' => Alone'
      BY <1>0, <2>0, <2>3, <3>3, <3>4, <3>5, <3>7, AloneGoes
    <3>9. \A p \in edits' : AskedTyped(p)
      BY <3>3, <3>4, <3>5 DEF DefaultsInv
    <3> QED
      BY <1>0, <2>0, <2>2, <3>8, <3>9 DEF DefaultsInv, AskedTyped, Record
  <2> QED
    BY <2>4, <2>5
<1>2. CASE ClearsPointers(q)
  <2>0. /\ q.at = "pointers" /\ UNCHANGED <<entries, registered, contended>>
        /\ IF q.was THEN EditGoes(q, "find") ELSE edits' = edits \ {q}
    BY <1>2 DEF ClearsPointers
  <2>1. ~contended => IF q.was THEN Nobodys ELSE Chosen
    BY <1>0, <2>0 DEF Alone, DefaultReady
  <2>2. (Chosen => Chosen') /\ (Nobodys => Nobodys')
    BY <2>0 DEF Chosen, IsOnly, Ids, Nobodys
  <2>3. CASE q.was
    <3>1. PICK r : r = [q EXCEPT !.at = "find"]
      OBVIOUS
    <3>2. AskedTyped(r) /\ r.at = "find"
      BY <1>0, <2>0, <3>1, AskedOn DEF AskedTyped
    <3>3. edits' = (edits \ {q}) \cup {r}
      BY <2>0, <2>3, <3>1 DEF EditGoes
    <3>4. Nobodys => DefaultReady(r)'
      BY <2>2, <3>2 DEF DefaultReady
    <3>5. ~contended' => Alone'
      BY <1>0, <2>0, <2>1, <2>3, <3>2, <3>3, <3>4, AloneGoes
    <3> QED
      BY <1>0, <2>0, <3>2, <3>3, <3>5, EntriesStay
  <2>4. CASE ~q.was
    <3>1. ~contended' => Alone'
      BY <1>0, <2>0, <2>1, <2>2, <2>4, AloneEnds
    <3> QED
      BY <1>0, <2>0, <2>4, <3>1, EntriesStay
  <2> QED
    BY <2>3, <2>4
<1>3. CASE FindsHeir(q)
  <2>0. q.at = "find" /\ UNCHANGED <<entries, registered, contended>>
    BY <1>3 DEF FindsHeir
  <2>1. ~contended => Nobodys
    BY <1>0, <2>0 DEF Alone, DefaultReady
  <2>2. CASE Ids = {}
    <3>1. edits' = edits \ {q}
      BY <1>3, <2>2 DEF FindsHeir
    <3>2. Chosen'
      BY <2>0, <2>2 DEF Chosen, Ids
    <3>3. ~contended' => Alone'
      BY <1>0, <2>0, <3>1, <3>2, AloneEnds
    <3> QED
      BY <1>0, <2>0, <3>1, <3>3, EntriesStay
  <2>3. CASE Ids # {}
    <3>1. Oldest \in DOMAIN entries
      BY <1>0, <2>3, OldestIs DEF EntriesTyped
    <3>2. PICK e, was : e = entries[Oldest].id /\ was = entries[Oldest].isDefault
      OBVIOUS
    <3>3. e \in Ids /\ was \in BOOLEAN /\ (Nobodys => ~was)
      BY <1>0, <3>1, <3>2 DEF Ids, EntriesTyped, Nobodys
    <3>4. edits' = (edits \ {q}) \cup {[q EXCEPT !.at = "promote", !.entry = e, !.was = was]}
      BY Zenon, <1>3, <2>3, <3>2 DEF FindsHeir
    <3>5. PICK r : r = [q EXCEPT !.at = "promote", !.entry = e, !.was = was]
      OBVIOUS
    <3>6. AskedTyped(r) /\ r.at = "promote" /\ r.entry = e /\ r.was = was
      BY <1>0, <2>0, <3>3, <3>5 DEF AskedTyped, Record
    <3>7. Nobodys => DefaultReady(r)'
      BY <2>0, <3>3, <3>6 DEF DefaultReady, Nobodys, Ids
    <3>8. ~contended' => Alone'
      BY <1>0, <2>0, <2>1, <3>4, <3>5, <3>6, <3>7, AloneGoes
    <3> QED
      BY <1>0, <2>0, <3>4, <3>5, <3>6, <3>8, EntriesStay
  <2> QED
    BY <2>2, <2>3
<1>4. CASE Points(q)
  <2>0. q.at = "point" /\ edits' = edits \ {q} /\ UNCHANGED <<entries, registered, contended>>
    BY <1>4 DEF Points
  <2>1. \A p \in edits : DefaultReady(p) => DefaultReady(p)'
    BY <2>0, NothingMoved
  <2>2. Chosen => Chosen'
    BY <2>0, NothingMoved
  <2>3. Alone => Alone'
    BY <2>0, <2>1, <2>2 DEF Alone
  <2> QED
    BY <1>0, <2>0, <2>3, EntriesStay
<1> QED
  BY <1>1, <1>2, <1>3, <1>4

LEMMA DefaultsStep ==
    ASSUME VoiceServersAssumption, DefaultsInv, VoiceServersNext
    PROVE  DefaultsInv'
BY DefaultsAsked, DefaultsCreated, DefaultsMoved, DefaultsRemoved DEF VoiceServersNext

LEMMA DefaultsStart == VoiceServersInit => DefaultsInv
<1> SUFFICES ASSUME VoiceServersInit PROVE DefaultsInv
  OBVIOUS
<1>1. entries = <<>> /\ DOMAIN entries = {} /\ edits = {} /\ registered = {} /\ contended = FALSE
  BY DEF VoiceServersInit
<1>2. EntryRecords
  <2>1. DOMAIN entries \subseteq 0 .. 0
    BY <1>1
  <2> QED
    BY <1>1, <2>1 DEF EntryRecords, Record
<1>3. Ids = {}
  BY <1>1 DEF Ids
<1> QED
  BY <1>1, <1>2, <1>3 DEF DefaultsInv, EntriesTyped, Alone, Chosen

\* One entry with the flag is one document in the set.
LEMMA DefaultsEnd == DefaultsInv => OneDefault
<1> SUFFICES ASSUME DefaultsInv, edits = {}, Ids # {}, ~contended PROVE Cardinality(Defaults) = 1
  BY DEF OneDefault
<1>1. PICK i \in DOMAIN entries : IsOnly(i)
  BY DEF DefaultsInv, Alone, Chosen
<1>2. Defaults = {entries[i]}
  BY <1>1 DEF Defaults, IsOnly
<1> QED
  BY <1>2, FS_Singleton

-----------------------------------------------------------------------------
(* Channels and categories: the lock.                                          *)

\* Whoever has the lock is first; nobody else has begun.
LockInv ==
    /\ queue \in Seq(ToSet(queue))
    /\ \A i \in DOMAIN queue :
          /\ Record(queue[i], {"id", "at", "document", "what", "got"})
          /\ queue[i].id \in Nat /\ queue[i].id < orders
          /\ i # 1 => queue[i].at = "first"
    /\ \A i, j \in DOMAIN queue : queue[i].id = queue[j].id => i = j
    /\ orders \in Nat

\* What a step makes of the queue: one joins it, the first goes on, or leaves.
Queued(q) ==
    /\ DOMAIN queue' = 1 .. Len(queue) + 1
    /\ \A i \in DOMAIN queue : queue'[i] = queue[i]
    /\ queue'[Len(queue) + 1] = q
FirstGoesOn(q, r) ==
    /\ DOMAIN queue' = DOMAIN queue /\ queue[1] = q /\ queue'[1] = r
    /\ \A i \in DOMAIN queue : i # 1 => queue'[i] = queue[i]
FirstLeaves(q) ==
    /\ DOMAIN queue' = 1 .. Len(queue) - 1 /\ queue[1] = q
    /\ \A i \in DOMAIN queue' : i + 1 \in DOMAIN queue /\ queue'[i] = queue[i + 1]

LEMMA FirstIsHead ==
    ASSUME LockInv, NEW q, Runs(q)
    PROVE  Len(queue) \in Nat \ {0} /\ DOMAIN queue = 1 .. Len(queue) /\ q = queue[1] /\ Place(q) = 1
<1>1. Len(queue) \in Nat \ {0} /\ DOMAIN queue = 1 .. Len(queue) /\ q = queue[1]
  BY DEF LockInv, Runs
<1>2. \A i \in DOMAIN queue : queue[i].id = q.id => i = 1
  BY <1>1 DEF LockInv
<1> QED
  BY <1>1, <1>2 DEF Place

LEMMA Leaves ==
    ASSUME LockInv, NEW q, Runs(q), queue' = Without(q)
    PROVE  FirstLeaves(q) /\ Len(queue) \in Nat /\ queue' \in Seq(ToSet(queue))
<1>1. Len(queue) \in Nat \ {0} /\ DOMAIN queue = 1 .. Len(queue) /\ q = queue[1] /\ Place(q) = 1
  BY FirstIsHead
<1> DEFINE S    == ToSet(queue)
           rest == SubSeq(queue, 2, Len(queue))
<1>2. \A i \in DOMAIN queue : queue[i] \in S
  BY DEF ToSet
<1> HIDE DEF S
<1>3. rest \in Seq(S) /\ Len(rest) = Len(queue) - 1
      /\ \A i \in 1 .. Len(queue) - 1 : rest[i] = queue[i + 1]
  <2>1. \A i \in 2 .. Len(queue) : queue[i] \in S
    BY <1>1, <1>2
  <2>2. /\ rest \in Seq(S) /\ Len(rest) = IF 2 <= Len(queue) THEN Len(queue) - 2 + 1 ELSE 0
        /\ \A i \in 1 .. Len(queue) - 2 + 1 : rest[i] = queue[2 + i - 1]
    BY <1>1, <2>1, SubSeqProperties
  <2> HIDE DEF rest
  <2>3. Len(rest) = Len(queue) - 1
    <3>1. CASE 2 <= Len(queue)
      <4>1. Len(rest) = Len(queue) - 2 + 1
        BY <2>2, <3>1
      <4> QED
        BY <1>1, <4>1
    <3>2. CASE ~(2 <= Len(queue))
      <4>1. Len(rest) = 0
        BY <2>2, <3>2
      <4>2. Len(queue) = 1
        BY <1>1, <3>2
      <4> QED
        BY <4>1, <4>2
    <3> QED
      BY <3>1, <3>2
  <2>4. ASSUME NEW i \in 1 .. Len(queue) - 1 PROVE rest[i] = queue[i + 1]
    <3>1. i \in 1 .. Len(queue) - 2 + 1 /\ 2 + i - 1 = i + 1
      BY <1>1
    <3>2. rest[i] = queue[2 + i - 1]
      BY <2>2, <3>1
    <3> QED
      BY <3>1, <3>2
  <2> QED
    BY <2>2, <2>3, <2>4
<1>4. queue' = rest
  <2>1. queue' = SubSeq(queue, 1, 0) \o rest
    BY <1>1 DEF Without, RemoveAt
  <2>2. SubSeq(queue, 1, 0) = << >>
    BY SubSeqEmpty
  <2> HIDE DEF rest
  <2> QED
    BY <1>3, <2>1, <2>2, ConcatEmptySeq
<1> HIDE DEF rest
<1>5. DOMAIN rest = 1 .. Len(queue) - 1
  BY <1>3, LenProperties
<1> QED
  BY <1>1, <1>3, <1>4, <1>5 DEF FirstLeaves, S

LEMMA OfItsOwn ==
    ASSUME NEW S, NEW s \in Seq(S)
    PROVE  s \in Seq(ToSet(s))
<1>1. Len(s) \in Nat /\ s \in [1 .. Len(s) -> S]
  BY LenProperties
<1>2. s \in [1 .. Len(s) -> ToSet(s)]
  BY <1>1 DEF ToSet
<1> QED
  BY <1>1, <1>2, SeqDef

LEMMA GoesFirst ==
    ASSUME LockInv, NEW q, Runs(q), NEW r, GoesOn(q, r)
    PROVE  FirstGoesOn(q, r) /\ queue' \in Seq(ToSet(queue) \cup {r})
<1>1. Len(queue) \in Nat \ {0} /\ DOMAIN queue = 1 .. Len(queue) /\ q = queue[1] /\ Place(q) = 1
  BY FirstIsHead
<1>2. queue' = [queue EXCEPT ![1] = r]
  BY <1>1 DEF GoesOn
<1> DEFINE S == ToSet(queue) \cup {r}
<1>3. queue \in [1 .. Len(queue) -> S]
  <2>1. queue \in [1 .. Len(queue) -> ToSet(queue)]
    BY LenProperties DEF LockInv
  <2> QED
    BY <2>1
<1>4. r \in S
  OBVIOUS
<1> HIDE DEF S
<1>5. queue' \in [1 .. Len(queue) -> S]
  BY <1>2, <1>3, <1>4
<1>6. queue' \in Seq(S)
  BY <1>1, <1>5, SeqDef
<1>7. FirstGoesOn(q, r)
  BY <1>1, <1>2, <1>3 DEF FirstGoesOn
<1> QED
  BY <1>6, <1>7 DEF S

LEMMA JoinsLast ==
    ASSUME LockInv, NEW r, queue' = Append(queue, r)
    PROVE  Queued(r) /\ queue' \in Seq(ToSet(queue) \cup {r})
<1> DEFINE S == ToSet(queue) \cup {r}
<1>1. queue \in Seq(S)
  <2>1. queue \in Seq(ToSet(queue)) /\ Len(queue) \in Nat /\ queue \in [1 .. Len(queue) -> ToSet(queue)]
    BY LenProperties DEF LockInv
  <2>2. queue \in [1 .. Len(queue) -> S]
    BY <2>1
  <2> QED
    BY <2>1, <2>2, SeqDef
<1>2. r \in S
  OBVIOUS
<1> HIDE DEF S
<1>3. DOMAIN queue = 1 .. Len(queue) /\ Len(queue) \in Nat
  BY <1>1, LenProperties
<1>4. /\ queue' \in Seq(S) /\ Len(queue') = Len(queue) + 1
      /\ \A i \in 1 .. Len(queue) : queue'[i] = queue[i]
      /\ queue'[Len(queue) + 1] = r
  BY <1>1, <1>2, AppendProperties
<1>5. DOMAIN queue' = 1 .. Len(queue) + 1
  BY <1>4, LenProperties
<1> QED
  BY <1>3, <1>4, <1>5 DEF Queued, S

\* The lock: nobody but the first gets on.
LEMMA LockKept ==
    ASSUME LockInv, orders' \in Nat, orders' >= orders,
           \/ queue' = queue
           \/ \E q : Runs(q) /\ queue' = Without(q)
           \/ \E q, r : Runs(q) /\ GoesOn(q, r) /\ r.id = q.id
                        /\ Record(r, {"id", "at", "document", "what", "got"})
           \/ \E r : /\ queue' = Append(queue, r) /\ r.id = orders /\ r.at = "first" /\ orders' = orders + 1
                     /\ Record(r, {"id", "at", "document", "what", "got"})
    PROVE  LockInv'
<1> DEFINE Fine(s, o) ==
      /\ \A i \in DOMAIN s : /\ Record(s[i], {"id", "at", "document", "what", "got"})
                             /\ s[i].id \in Nat /\ s[i].id < o
                             /\ i # 1 => s[i].at = "first"
      /\ \A i, j \in DOMAIN s : s[i].id = s[j].id => i = j
<1>1. Fine(queue, orders) /\ orders \in Nat /\ queue \in Seq(ToSet(queue))
  BY DEF LockInv
<1>2. ASSUME queue' = queue PROVE LockInv'
  <2>1. Fine(queue', orders')
    BY <1>1, <1>2
  <2> QED
    BY <1>1, <1>2, <2>1 DEF LockInv, Record
<1> SUFFICES (queue' # queue) => Fine(queue', orders') /\ queue' \in Seq(ToSet(queue'))
  BY <1>2 DEF LockInv, Record
<1>3. ASSUME NEW q, Runs(q), queue' = Without(q)
      PROVE  Fine(queue', orders') /\ queue' \in Seq(ToSet(queue'))
  <2>1. FirstLeaves(q) /\ Len(queue) \in Nat /\ queue' \in Seq(ToSet(queue))
    BY <1>3, Leaves
  <2>2. queue' \in Seq(ToSet(queue'))
    BY <2>1, OfItsOwn
  <2>3. DOMAIN queue' \subseteq Nat \ {0}
    BY <2>1 DEF FirstLeaves
  <2>4. \A i \in DOMAIN queue' : i + 1 \in DOMAIN queue /\ queue'[i] = queue[i + 1] /\ i + 1 # 1
    BY <2>1, <2>3 DEF FirstLeaves
  <2>5. \A i \in DOMAIN queue' : /\ Record(queue'[i], {"id", "at", "document", "what", "got"})
                                 /\ queue'[i].id \in Nat /\ queue'[i].id < orders'
                                 /\ queue'[i].at = "first"
    BY <1>1, <2>4
  <2>6. \A i, j \in DOMAIN queue' : queue'[i].id = queue'[j].id => i = j
    <3>1. \A i, j \in DOMAIN queue' : queue'[i].id = queue'[j].id => i + 1 = j + 1
      BY <1>1, <2>4
    <3> QED
      BY <2>3, <3>1
  <2> QED
    BY <2>2, <2>5, <2>6
<1>4. ASSUME NEW q, NEW r, Runs(q), GoesOn(q, r), r.id = q.id,
             Record(r, {"id", "at", "document", "what", "got"})
      PROVE  Fine(queue', orders') /\ queue' \in Seq(ToSet(queue'))
  <2>1. FirstGoesOn(q, r) /\ queue' \in Seq(ToSet(queue) \cup {r})
    BY <1>4, GoesFirst
  <2>2. queue' \in Seq(ToSet(queue'))
    BY <2>1, OfItsOwn
  <2>3. \A i \in DOMAIN queue' : i \in DOMAIN queue /\ queue'[i].id = queue[i].id
    BY <1>4, <2>1 DEF FirstGoesOn
  <2>4. Fine(queue', orders')
    BY <1>1, <1>4, <2>1, <2>3 DEF FirstGoesOn
  <2> QED
    BY <2>2, <2>4
<1>5. ASSUME NEW r, queue' = Append(queue, r), r.id = orders, r.at = "first", orders' = orders + 1,
             Record(r, {"id", "at", "document", "what", "got"})
      PROVE  Fine(queue', orders') /\ queue' \in Seq(ToSet(queue'))
  <2>1. Queued(r) /\ queue' \in Seq(ToSet(queue) \cup {r})
    BY <1>5, JoinsLast
  <2>2. queue' \in Seq(ToSet(queue'))
    BY <2>1, OfItsOwn
  <2>3. DOMAIN queue = 1 .. Len(queue) /\ Len(queue) \in Nat
    BY <1>1, LenProperties
  <2>4. \A i \in DOMAIN queue' : (i \in DOMAIN queue /\ queue'[i] = queue[i])
                                 \/ (i = Len(queue) + 1 /\ queue'[i] = r)
    BY <2>1, <2>3 DEF Queued
  <2>5. Fine(queue', orders')
    BY <1>1, <1>5, <2>4
  <2> QED
    BY <2>2, <2>5
<1> QED
  BY <1>3, <1>4, <1>5

-----------------------------------------------------------------------------
(* Channels and categories: what is asked, and what is there.                  *)

\* What is deleted is not what an orphan goes to, and is of the type it was loaded with.
EntryKnown(q) ==
    /\ q.what.do = "deleteCategory" => q.what.category # NoCategory
    /\ q.what.do = "deleteChannel" =>
          /\ q.what.channel \in used
          /\ q.what.channel \in DOMAIN channels => q.document.type = channels[q.what.channel].type

\* Whoever has looked, and has the lock, writes what still holds.
FirstReady(q) ==
    q.at = "second" =>
        /\ q.what.do \in {"createChannel", "move"} => Resolves(q.what.to)
        /\ q.what.do = "deleteCategory" => \A c \in DOMAIN channels : channels[c].category # q.what.category
        /\ q.what.do = "deleteChannel" =>
              \E c \in DOMAIN channels : c # q.what.channel /\ channels[c].type = "text"

Grounded ==
    /\ DOMAIN channels \subseteq used /\ NoCategory \notin DOMAIN categories
    /\ \A c \in DOMAIN channels : Record(channels[c], {"type", "category", "position"})
    /\ NoDanglingCategory /\ SomewhereToTalk

AllKnown  == \A i \in DOMAIN queue : EntryKnown(queue[i])
HeadReady == 1 \in DOMAIN queue => FirstReady(queue[1])

PlacesInv ==
    /\ LockInv /\ Grounded
    /\ AllKnown /\ HeadReady

\* An id is made once, and a channel is of one type.
Steady ==
    /\ used \subseteq used'
    /\ \A c \in used : c \in DOMAIN channels' => c \in DOMAIN channels /\ channels'[c].type = channels[c].type

LEMMA StillKnown ==
    ASSUME Steady, NEW q, NEW r, EntryKnown(q), r.what = q.what, r.document = q.document
    PROVE  EntryKnown(r)'
BY DEF Steady, EntryKnown

LEMMA PlacesKept ==
    ASSUME PlacesInv, LockInv', Grounded', Steady,
           \/ \E q : FirstLeaves(q)
           \/ \E q, r : FirstGoesOn(q, r) /\ r.what = q.what /\ r.document = q.document /\ FirstReady(r)'
           \/ /\ UNCHANGED <<channels, categories, used>>
              /\ queue' = queue \/ \E r : Queued(r) /\ r.at = "first" /\ EntryKnown(r)
    PROVE  PlacesInv'
<1>1. /\ \A i \in DOMAIN queue : EntryKnown(queue[i])
      /\ 1 \in DOMAIN queue => FirstReady(queue[1])
      /\ \A i \in DOMAIN queue : i # 1 => queue[i].at = "first"
      /\ Len(queue) \in Nat /\ DOMAIN queue = 1 .. Len(queue)
  BY LenProperties DEF PlacesInv, LockInv, AllKnown, HeadReady
\* It is enough to look at whatever is in the queue afterwards.
<1> DEFINE Later(r) == \E i \in DOMAIN queue' : queue'[i] = r
           AtHead(r) == 1 \in DOMAIN queue' /\ queue'[1] = r
<1>2. (\A r : Later(r) => EntryKnown(r)') => AllKnown'
  BY DEF AllKnown, EntryKnown
<1>3. (\A r : AtHead(r) => FirstReady(r)') => HeadReady'
  BY DEF HeadReady, FirstReady, Resolves
<1> SUFFICES \A r : (Later(r) => EntryKnown(r)') /\ (AtHead(r) => FirstReady(r)')
  BY <1>2, <1>3 DEF PlacesInv
<1>4. ASSUME NEW q, FirstLeaves(q), NEW r
      PROVE  (Later(r) => EntryKnown(r)') /\ (AtHead(r) => FirstReady(r)')
  <2>1. \A i \in DOMAIN queue' : i + 1 \in DOMAIN queue /\ queue'[i] = queue[i + 1]
    BY <1>4 DEF FirstLeaves
  <2>2. Later(r) => EntryKnown(r)
    BY <1>1, <2>1
  <2>3. AtHead(r) => r.at = "first"
    BY <1>1, <2>1
  <2> QED
    BY <2>2, <2>3, StillKnown DEF FirstReady
<1>5. ASSUME NEW q, NEW s, FirstGoesOn(q, s), s.what = q.what, s.document = q.document, FirstReady(s)',
             NEW r
      PROVE  (Later(r) => EntryKnown(r)') /\ (AtHead(r) => FirstReady(r)')
  <2>1. Later(r) => \E p : EntryKnown(p) /\ r.what = p.what /\ r.document = p.document
    BY <1>1, <1>5 DEF FirstGoesOn
  <2>2. AtHead(r) => r = s
    BY <1>5 DEF FirstGoesOn
  <2> QED
    BY <1>5, <2>1, <2>2, StillKnown
<1>6. ASSUME UNCHANGED <<channels, categories, used>>,
             queue' = queue \/ \E p : Queued(p) /\ p.at = "first" /\ EntryKnown(p),
             NEW r
      PROVE  (Later(r) => EntryKnown(r)') /\ (AtHead(r) => FirstReady(r)')
  <2>1. (EntryKnown(r) => EntryKnown(r)') /\ (FirstReady(r) => FirstReady(r)')
    BY <1>6 DEF EntryKnown, FirstReady, Resolves
  <2>2. CASE queue' = queue
    BY <1>1, <2>1, <2>2
  <2>3. ASSUME NEW p, Queued(p), p.at = "first", EntryKnown(p)
        PROVE  (Later(r) => EntryKnown(r)) /\ (AtHead(r) => FirstReady(r))
    <3>1. \A i \in DOMAIN queue' : (i \in DOMAIN queue /\ queue'[i] = queue[i]) \/ queue'[i] = p
      BY <1>1, <2>3 DEF Queued
    <3>2. FirstReady(p)
      BY <2>3 DEF FirstReady
    <3> QED
      BY <1>1, <2>3, <3>1, <3>2
  <2> QED
    BY <1>6, <2>1, <2>2, <2>3
<1> QED
  BY <1>4, <1>5, <1>6

\* The same request, further on.
Further(q, r) ==
    /\ Record(r, {"id", "at", "document", "what", "got"})
    /\ r.id = q.id /\ r.what = q.what /\ r.document = q.document

LEMMA GotFurther ==
    ASSUME NEW q, Record(q, {"id", "at", "document", "what", "got"}), NEW at, NEW got
    PROVE  /\ Further(q, [q EXCEPT !.at = at]) /\ [q EXCEPT !.at = at].at = at
           /\ Further(q, [q EXCEPT !.at = at, !.got = got]) /\ [q EXCEPT !.at = at, !.got = got].at = at
BY DEF Further, Record

\* What becomes of the lock when its holder lets go, tells, or goes on to what it
\* does next.
LEMMA HolderMoves ==
    ASSUME LockInv, orders' = orders, NEW q, Runs(q)
    PROVE  /\ Record(q, {"id", "at", "document", "what", "got"}) /\ q = queue[1] /\ 1 \in DOMAIN queue
           /\ queue' = Without(q) => LockInv' /\ FirstLeaves(q)
           /\ \A r : GoesOn(q, r) /\ Further(q, r) => LockInv' /\ FirstGoesOn(q, r)
<1>1. Len(queue) \in Nat \ {0} /\ DOMAIN queue = 1 .. Len(queue) /\ q = queue[1]
  BY FirstIsHead
<1>2. Record(q, {"id", "at", "document", "what", "got"}) /\ orders \in Nat
  BY <1>1 DEF LockInv
<1>3. orders' \in Nat /\ orders' >= orders
  BY <1>2
<1>4. queue' = Without(q) => LockInv' /\ FirstLeaves(q)
  BY <1>3, Leaves, LockKept
<1>5. ASSUME NEW r, GoesOn(q, r), Further(q, r) PROVE LockInv' /\ FirstGoesOn(q, r)
  <2>1. r.id = q.id /\ Record(r, {"id", "at", "document", "what", "got"})
    BY <1>5 DEF Further
  <2> QED
    BY <1>3, <1>5, <2>1, GoesFirst, LockKept
<1> QED
  BY <1>1, <1>2, <1>4, <1>5

\* What its holder does with the lock, once it is known what it leaves behind.
LEMMA HolderActs ==
    ASSUME PlacesInv, orders' = orders, Grounded', Steady, NEW q, Runs(q),
           queue' = Without(q) \/ \E r : GoesOn(q, r) /\ Further(q, r) /\ FirstReady(r)'
    PROVE  PlacesInv'
<1>1. LockInv
  BY DEF PlacesInv
<1>2. CASE queue' = Without(q)
  BY <1>1, <1>2, HolderMoves, PlacesKept
<1>3. ASSUME NEW r, GoesOn(q, r), Further(q, r), FirstReady(r)' PROVE PlacesInv'
  <2>1. LockInv' /\ FirstGoesOn(q, r)
    BY <1>1, <1>3, HolderMoves
  <2>2. r.what = q.what /\ r.document = q.document
    BY <1>3 DEF Further
  <2> QED
    BY <1>3, <2>1, <2>2, PlacesKept
<1> QED
  BY <1>2, <1>3

\* Looking changes nothing but whether the holder goes on.
LEMMA NothingWritten ==
    ASSUME Grounded, UNCHANGED <<channels, categories, used>>
    PROVE  Grounded' /\ Steady
BY DEF Grounded, NoDanglingCategory, SomewhereToTalk, Resolves, Record, Steady

-----------------------------------------------------------------------------
(* Channels and categories: the steps.                                         *)

LEMMA LocksStep ==
    ASSUME StructureAssumption, PlacesInv, NEW q, Locked(q)
    PROVE  PlacesInv'
<1>0. LockInv /\ Grounded /\ Runs(q) /\ orders' = orders
  BY DEF PlacesInv, Locked, CreateReads, Creates, MoveReads, Moves, DeleteCounts, Deletes, DeleteTells,
     CategoryCounts, CreatesCategory, Reparents, DeletesCategory, ReorderReads, Reorders, ReordersCategories,
     LockFails, LetsGo
<1>1. Record(q, {"id", "at", "document", "what", "got"}) /\ EntryKnown(q) /\ FirstReady(q)
  BY <1>0, HolderMoves DEF PlacesInv, AllKnown, HeadReady
<1> USE DEF LetsGo
<1>2. CASE CreateReads(q)
  <2>0. PICK got : queue' = Without(q) \/ (/\ GoesOn(q, [q EXCEPT !.at = "second", !.got = got])
                                           /\ Resolves(q.what.to))
    BY <1>2 DEF CreateReads
  <2> DEFINE r == [q EXCEPT !.at = "second", !.got = got]
  <2>1. queue' = Without(q) \/ (GoesOn(q, r) /\ Resolves(q.what.to))
    BY <2>0
  <2>2. q.what.do = "createChannel" /\ UNCHANGED <<channels, categories, used>>
    BY <1>2 DEF CreateReads
  <2>3. Further(q, r)
    BY <1>1, GotFurther
  <2> HIDE DEF r
  <2>4. Resolves(q.what.to) => FirstReady(r)'
    BY <2>2, <2>3 DEF FirstReady, Resolves, Further
  <2> QED
    BY <1>0, <2>1, <2>2, <2>3, <2>4, NothingWritten, HolderActs
<1>3. CASE Creates(q)
  <2> DEFINE c   == NewId(Channel, used)
             row == [type |-> q.what.type, category |-> q.what.to, position |-> q.got]
  <2>1. /\ Channel \ used # {} /\ q.what.do = "createChannel" /\ q.at = "second"
        /\ channels' = [x \in DOMAIN channels \cup {c} |-> IF x = c THEN row ELSE channels[x]]
        /\ used' = used \cup {c} /\ categories' = categories /\ queue' = Without(q)
    BY <1>3 DEF Creates, Tells
  <2>2. c \notin used
    BY <2>1 DEF NewId
  <2>3. row.category = q.what.to /\ Record(row, {"type", "category", "position"})
    BY DEF Record
  <2>4. Resolves(q.what.to)
    BY <1>1, <2>1 DEF FirstReady
  <2> HIDE DEF c, row
  <2>5. Steady
    BY <1>0, <2>1, <2>2 DEF Steady, Grounded
  <2>6. /\ \A x \in DOMAIN channels' : channels'[x] = row \/ (x \in DOMAIN channels /\ channels'[x] = channels[x])
        /\ \A x \in DOMAIN channels : x \in DOMAIN channels' /\ channels'[x] = channels[x]
    BY <1>0, <2>1, <2>2 DEF Grounded
  <2>7. Grounded'
    <3>1. DOMAIN channels' \subseteq used' /\ NoCategory \notin DOMAIN categories'
      BY <1>0, <2>1 DEF Grounded
    <3>2. \A x \in DOMAIN channels' : Record(channels'[x], {"type", "category", "position"})
      BY <1>0, <2>3, <2>6 DEF Grounded
    <3>3. NoDanglingCategory'
      BY <1>0, <2>1, <2>3, <2>4, <2>6 DEF Grounded, NoDanglingCategory, Resolves
    <3>4. SomewhereToTalk'
      BY <1>0, <2>6 DEF Grounded, SomewhereToTalk
    <3> QED
      BY <3>1, <3>2, <3>3, <3>4 DEF Grounded, Record
  <2> QED
    BY <1>0, <2>1, <2>5, <2>7, HolderActs
<1>4. CASE MoveReads(q)
  <2> DEFINE r == [q EXCEPT !.at = "second"]
  <2>1. queue' = Without(q) \/ (GoesOn(q, r) /\ Resolves(q.what.to))
    BY <1>4 DEF MoveReads
  <2>2. q.what.do = "move" /\ UNCHANGED <<channels, categories, used>>
    BY <1>4 DEF MoveReads
  <2>3. Further(q, r)
    BY <1>1, GotFurther
  <2> HIDE DEF r
  <2>4. Resolves(q.what.to) => FirstReady(r)'
    BY <2>2, <2>3 DEF FirstReady, Resolves, Further
  <2> QED
    BY <1>0, <2>1, <2>2, <2>3, <2>4, NothingWritten, HolderActs
<1>5. CASE Moves(q)
  <2>1. q.what.do = "move" /\ q.at = "second" /\ queue' = Without(q) /\ UNCHANGED <<categories, used>>
    BY <1>5 DEF Moves, Tells
  <2>2. channels' = channels \/ channels' = [channels EXCEPT ![q.what.channel].category = q.what.to]
    BY <1>5 DEF Moves
  <2>3. Resolves(q.what.to)
    BY <1>1, <2>1 DEF FirstReady
  <2>4. /\ DOMAIN channels' = DOMAIN channels
        /\ \A c \in DOMAIN channels : /\ channels'[c].type = channels[c].type
                                      /\ channels'[c].category \in {channels[c].category, q.what.to}
                                      /\ Record(channels'[c], {"type", "category", "position"})
    BY <1>0, <2>2 DEF Grounded, Record
  <2>5. Steady
    BY <1>0, <2>1, <2>4 DEF Steady, Grounded
  <2>6. Grounded'
    BY <1>0, <2>1, <2>3, <2>4 DEF Grounded, NoDanglingCategory, SomewhereToTalk, Resolves, Record
  <2> QED
    BY <1>0, <2>1, <2>5, <2>6, HolderActs
<1>6. CASE DeleteCounts(q)
  <2> DEFINE r     == [q EXCEPT !.at = "second"]
             texts == {c \in DOMAIN channels : channels[c].type = "text"}
  <2>1. q.what.do = "deleteChannel" /\ UNCHANGED <<channels, categories, used>>
    BY <1>6 DEF DeleteCounts
  <2>2. queue' = Without(q) \/ (GoesOn(q, r) /\ (q.document.type # "text" \/ ~(Cardinality(texts) <= 1)))
    BY <1>6 DEF DeleteCounts
  <2>3. Further(q, r)
    BY <1>1, GotFurther
  <2> HIDE DEF r
  <2>4. ASSUME q.document.type # "text" \/ ~(Cardinality(texts) <= 1)
        PROVE  \E c \in DOMAIN channels : c # q.what.channel /\ channels[c].type = "text"
    <3>1. CASE ~(Cardinality(texts) <= 1)
      <4>1. ~(texts \subseteq {q.what.channel})
        <5> SUFFICES ASSUME texts \subseteq {q.what.channel} PROVE Cardinality(texts) <= 1
          BY <3>1
        <5>1. IsFiniteSet({q.what.channel}) /\ Cardinality({q.what.channel}) = 1
          BY FS_Singleton
        <5> HIDE DEF texts
        <5> QED
          BY <5>1, FS_Subset
      <4> QED
        BY <4>1
    <3>2. CASE q.document.type # "text"
      BY <1>0, <1>1, <2>1, <3>2 DEF EntryKnown, Grounded, SomewhereToTalk
    <3> QED
      BY <2>4, <3>1, <3>2
  <2>5. q.document.type # "text" \/ ~(Cardinality(texts) <= 1) => FirstReady(r)'
    BY <2>1, <2>3, <2>4 DEF FirstReady, Further
  <2> QED
    BY <1>0, <2>1, <2>2, <2>3, <2>5, NothingWritten, HolderActs
<1>7. CASE Deletes(q)
  <2> DEFINE r == [q EXCEPT !.at = "third"]
  <2>1. /\ q.what.do = "deleteChannel" /\ q.at = "second" /\ UNCHANGED <<categories, used>>
        /\ channels' = [c \in DOMAIN channels \ {q.what.channel} |-> channels[c]] /\ GoesOn(q, r)
    BY <1>7 DEF Deletes
  <2>2. Further(q, r) /\ r.at = "third"
    BY <1>1, GotFurther
  <2> HIDE DEF r
  <2>3. FirstReady(r)'
    BY <2>2 DEF FirstReady
  <2>4. Steady
    BY <2>1 DEF Steady
  <2>5. \E c \in DOMAIN channels : c # q.what.channel /\ channels[c].type = "text"
    BY <1>1, <2>1 DEF FirstReady
  <2>6. Grounded'
    BY <1>0, <2>1, <2>5 DEF Grounded, NoDanglingCategory, SomewhereToTalk, Resolves, Record
  <2> QED
    BY <1>0, <2>1, <2>2, <2>3, <2>4, <2>6, HolderActs
<1>8. CASE DeleteTells(q)
  <2>1. queue' = Without(q) /\ UNCHANGED <<channels, categories, used>>
    BY <1>8 DEF DeleteTells
  <2> QED
    BY <1>0, <2>1, NothingWritten, HolderActs
<1>9. CASE CategoryCounts(q)
  <2>0. PICK got : queue' = Without(q) \/ GoesOn(q, [q EXCEPT !.at = "second", !.got = got])
    BY <1>9 DEF CategoryCounts
  <2> DEFINE r == [q EXCEPT !.at = "second", !.got = got]
  <2>1. queue' = Without(q) \/ GoesOn(q, r)
    BY <2>0
  <2>2. q.what.do = "createCategory" /\ UNCHANGED <<channels, categories, used>>
    BY <1>9 DEF CategoryCounts
  <2>3. Further(q, r)
    BY <1>1, GotFurther
  <2> HIDE DEF r
  <2>4. FirstReady(r)'
    BY <2>2, <2>3 DEF FirstReady, Further
  <2> QED
    BY <1>0, <2>1, <2>2, <2>3, <2>4, NothingWritten, HolderActs
<1>10. CASE CreatesCategory(q)
  <2> DEFINE k == NewId(Category, used)
  <2>1. /\ Category \ used # {} /\ queue' = Without(q) /\ channels' = channels
        /\ used' = used \cup {k} /\ DOMAIN categories' = DOMAIN categories \cup {k}
    BY <1>10 DEF CreatesCategory
  <2>2. k # NoCategory
    BY <2>1 DEF NewId, StructureAssumption
  <2> HIDE DEF k
  <2>3. Steady
    BY <2>1 DEF Steady
  <2>4. Grounded'
    BY <1>0, <2>1, <2>2 DEF Grounded, NoDanglingCategory, SomewhereToTalk, Resolves, Record
  <2> QED
    BY <1>0, <2>1, <2>3, <2>4, HolderActs
<1>11. CASE Reparents(q)
  <2> DEFINE inside == {c \in DOMAIN channels : channels[c].category = q.what.category}
             r      == [q EXCEPT !.at = "second"]
  <2>1. /\ q.what.do = "deleteCategory" /\ UNCHANGED <<categories, used>> /\ GoesOn(q, r)
        /\ channels' = [c \in DOMAIN channels |-> [channels[c] EXCEPT !.category =
                          IF c \in inside THEN NoCategory ELSE channels[c].category]]
    BY <1>11 DEF Reparents
  <2>2. Further(q, r)
    BY <1>1, GotFurther
  <2> HIDE DEF r
  <2>3. /\ DOMAIN channels' = DOMAIN channels
        /\ \A c \in DOMAIN channels :
              /\ channels'[c].type = channels[c].type
              /\ channels'[c].category = IF c \in inside THEN NoCategory ELSE channels[c].category
              /\ Record(channels'[c], {"type", "category", "position"})
    BY <1>0, <2>1 DEF Grounded, Record
  <2>4. q.what.category # NoCategory
    BY <1>1, <2>1 DEF EntryKnown
  <2>5. \A c \in DOMAIN channels' : channels'[c].category # q.what.category
    BY <2>3, <2>4
  <2>6. FirstReady(r)'
    BY <2>1, <2>2, <2>5 DEF FirstReady, Further
  <2>7. Steady
    BY <1>0, <2>1, <2>3 DEF Steady, Grounded
  <2>8. Grounded'
    BY <1>0, <2>1, <2>3 DEF Grounded, NoDanglingCategory, SomewhereToTalk, Resolves, Record
  <2> QED
    BY <1>0, <2>1, <2>2, <2>6, <2>7, <2>8, HolderActs
<1>12. CASE DeletesCategory(q)
  <2>1. /\ q.what.do = "deleteCategory" /\ q.at = "second" /\ queue' = Without(q)
        /\ UNCHANGED <<channels, used>> /\ DOMAIN categories' = DOMAIN categories \ {q.what.category}
    BY <1>12 DEF DeletesCategory, Tells
  <2>2. \A c \in DOMAIN channels : channels[c].category # q.what.category
    BY <1>1, <2>1 DEF FirstReady
  <2>3. Steady
    BY <2>1 DEF Steady
  <2>4. Grounded'
    BY <1>0, <2>1, <2>2 DEF Grounded, NoDanglingCategory, SomewhereToTalk, Resolves, Record
  <2> QED
    BY <1>0, <2>1, <2>3, <2>4, HolderActs
<1>13. CASE ReorderReads(q)
  <2>1. PICK got : queue' = Without(q) \/ GoesOn(q, [q EXCEPT !.at = "second", !.got = got])
    BY <1>13 DEF ReorderReads
  <2> DEFINE r == [q EXCEPT !.at = "second", !.got = got]
  <2>2. q.what.do \in {"reorder", "reorderCategories"} /\ UNCHANGED <<channels, categories, used>>
    BY <1>13 DEF ReorderReads
  <2>3. Further(q, r)
    BY <1>1, GotFurther
  <2> HIDE DEF r
  <2>4. FirstReady(r)'
    BY <2>2, <2>3 DEF FirstReady, Further
  <2>5. queue' = Without(q) \/ GoesOn(q, r)
    BY <2>1 DEF r
  <2> QED
    BY <1>0, <2>2, <2>3, <2>4, <2>5, NothingWritten, HolderActs
<1>14. CASE Reorders(q)
  <2>1. /\ queue' = Without(q) /\ UNCHANGED <<categories, used>>
        /\ channels' = [c \in DOMAIN channels |-> [channels[c] EXCEPT !.position =
                          IF c \in DOMAIN q.got THEN q.got[c] ELSE channels[c].position]]
    BY <1>14 DEF Reorders, Tells
  <2>2. /\ DOMAIN channels' = DOMAIN channels
        /\ \A c \in DOMAIN channels :
              /\ channels'[c].type = channels[c].type
              /\ channels'[c].category = channels[c].category
              /\ Record(channels'[c], {"type", "category", "position"})
    BY <1>0, <2>1 DEF Grounded, Record
  <2>3. Steady
    BY <1>0, <2>1, <2>2 DEF Steady, Grounded
  <2>4. Grounded'
    BY <1>0, <2>1, <2>2 DEF Grounded, NoDanglingCategory, SomewhereToTalk, Resolves, Record
  <2> QED
    BY <1>0, <2>1, <2>3, <2>4, HolderActs
<1>15. CASE ReordersCategories(q)
  <2>1. queue' = Without(q) /\ UNCHANGED <<channels, used>> /\ DOMAIN categories' = DOMAIN categories
    BY <1>15 DEF ReordersCategories
  <2>2. Grounded' /\ Steady
    BY <1>0, <2>1 DEF Grounded, NoDanglingCategory, SomewhereToTalk, Resolves, Record, Steady
  <2> QED
    BY <1>0, <2>1, <2>2, HolderActs
<1>16. CASE LockFails(q)
  <2>1. queue' = Without(q) /\ UNCHANGED <<channels, categories, used>>
    BY <1>16 DEF LockFails
  <2> QED
    BY <1>0, <2>1, NothingWritten, HolderActs
<1> QED
  BY <1>2, <1>3, <1>4, <1>5, <1>6, <1>7, <1>8, <1>9, <1>10, <1>11, <1>12, <1>13, <1>14, <1>15, <1>16 DEF Locked

LEMMA PlacesStep ==
    ASSUME StructureAssumption, PlacesInv, [StructureNext]_structure
    PROVE  PlacesInv'
<1>1. CASE Queues
  <2>1. PICK what \in Reshape \cup {w \in Reorder : Len(w.order) > 1} :
          queue' = Append(queue, [id |-> orders, at |-> "first", document |-> Document(what),
                                  what |-> what, got |-> "none"])
    BY <1>1 DEF Queues
  <2>2. orders' = orders + 1 /\ UNCHANGED <<channels, categories, used>>
    BY <1>1 DEF Queues
  <2>3. PICK document : document = Document(what)
    OBVIOUS
  <2>4. PICK id : id = orders
    OBVIOUS
  <2> DEFINE r == [id |-> id, at |-> "first", document |-> document, what |-> what, got |-> "none"]
  <2>5. /\ Record(r, {"id", "at", "document", "what", "got"}) /\ r.id = orders /\ r.at = "first"
        /\ r.what = what /\ r.document = Document(what)
    BY <2>3, <2>4 DEF Record
  <2>6. queue' = Append(queue, r)
    BY <2>1, <2>3, <2>4
  <2>7. \A w \in Reorder : w.do \in {"reorder", "reorderCategories"}
    <3>1. ASSUME NEW w \in WithinBuckets
          PROVE  w.do = "reorder"
      <4>1. PICK b \in Bucket : w \in [do : {"reorder"}, bucket : {b}, order : SetToSeqs(In(b))]
        BY Zenon DEF WithinBuckets
      <4> QED
        BY <4>1
    <3>2. \A w \in AmongCategories : w.do = "reorderCategories"
      BY DEF AmongCategories
    <3> QED
      BY <3>1, <3>2 DEF Reorder
  <2>8. \A w \in Reshape : /\ w.do = "deleteCategory" => w.category \in DOMAIN categories
                           /\ w.do = "deleteChannel" => w.channel \in DOMAIN channels
    BY DEF Reshape
  <2> HIDE DEF r
  <2>9. LockInv /\ orders \in Nat /\ Grounded
    BY DEF PlacesInv, LockInv
  <2>10. EntryKnown(r)
    BY <2>5, <2>7, <2>8, <2>9 DEF EntryKnown, Grounded, Document
  <2>11. Queued(r)
    BY <2>6, <2>9, JoinsLast
  <2>12. LockInv'
    <3>1. orders' \in Nat /\ orders' >= orders
      BY <2>2, <2>9
    <3> QED
      BY <2>2, <2>5, <2>6, <2>9, <3>1, LockKept
  <2> QED
    BY <2>2, <2>5, <2>9, <2>10, <2>11, <2>12, NothingWritten, PlacesKept
<1>2. ASSUME UNCHANGED <<channels, categories, used, queue>>, orders' = orders \/ orders' = orders + 1
      PROVE  PlacesInv'
  <2>1. LockInv /\ orders \in Nat /\ Grounded
    BY DEF PlacesInv, LockInv
  <2>2. orders' \in Nat /\ orders' >= orders
    BY <1>2, <2>1
  <2>3. LockInv'
    BY <1>2, <2>1, <2>2, LockKept
  <2> QED
    BY <1>2, <2>1, <2>3, NothingWritten, PlacesKept
<1>3. CASE \E i \in DOMAIN queue : Locked(queue[i])
  BY <1>3, LocksStep
<1>4. CASE Edits
  BY <1>2, <1>4 DEF Edits
<1>5. CASE \E q \in loose :
              SavesEdit(q) \/ EmitsRows(q) \/ ReadsList(q) \/ Refetches(q) \/ TellingFails(q)
  BY <1>2, <1>5 DEF SavesEdit, EmitsRows, ReadsList, Refetches, TellingFails
<1>6. CASE UNCHANGED structure
  BY <1>2, <1>6 DEF structure
<1> QED
  BY <1>1, <1>3, <1>4, <1>5, <1>6 DEF StructureNext

LEMMA PlacesStart ==
    ASSUME StructureAssumption, StructureInit
    PROVE  PlacesInv
<1> DEFINE c == NewId(Channel, {})
           d == NewId(Channel, {c})
           k == NewId(Category, {})
<1>1. k \in Category
  BY DEF NewId, StructureAssumption
<1>2. PICK tie \in BOOLEAN, together \in BOOLEAN :
        channels = [x \in {c, d} |-> [type |-> "text",
                      category |-> IF x = d \/ together THEN k ELSE NoCategory,
                      position |-> IF x = d /\ ~tie THEN 1 ELSE 0]]
  BY Zenon DEF StructureInit
<1>3. DOMAIN categories = {k} /\ used = {c, d, k} /\ queue = <<>> /\ orders = 0
  BY DEF StructureInit
<1> HIDE DEF c, d, k
<1>4. /\ DOMAIN channels = {c, d}
      /\ \A x \in DOMAIN channels : /\ channels[x].type = "text"
                                    /\ channels[x].category \in {k, NoCategory}
                                    /\ Record(channels[x], {"type", "category", "position"})
  BY <1>2 DEF Record
<1>5. Grounded
  BY <1>1, <1>3, <1>4 DEF Grounded, NoDanglingCategory, SomewhereToTalk, Resolves, StructureAssumption
<1>6. LockInv /\ AllKnown /\ HeadReady
  <2>1. queue \in Seq(ToSet(queue)) /\ DOMAIN queue = {}
    BY <1>3, EmptySeq
  <2> QED
    BY <1>3, <2>1 DEF LockInv, AllKnown, HeadReady
<1> QED
  BY <1>5, <1>6 DEF PlacesInv

-----------------------------------------------------------------------------
(* Places: what slotsFor hands out.                                            *)

\* The places are one above another, whatever the rows held.
LEMMA SlotsRise ==
    ASSUME NEW places, NEW b \in Nat, IsFiniteSet(DOMAIN places),
           \A r \in DOMAIN places : places[r] \in 0 .. b
    PROVE  LET n == Cardinality(DOMAIN places) IN
           /\ n \in Nat
           /\ \A i \in 1 .. n : SlotsFor(places)[i] \in 0 .. b + n
           /\ \A i, j \in 1 .. n : i < j => SlotsFor(places)[i] < SlotsFor(places)[j]
<1> DEFINE D    == DOMAIN places
           n    == Cardinality(D)
           L(r) == Lower(places, r)
           S(i) == {places[r] + (i - 1 - L(r)) : r \in {s \in D : L(s) < i}}
<1>1. n \in Nat
  BY FS_CardinalityType
<1>2. \A r \in D : L(r) \in 0 .. n
  <2>1. \A r \in D : LET B == {s \in D : places[s] < places[r]}
                     IN  IsFiniteSet(B) /\ Cardinality(B) <= n
    BY FS_Subset
  <2> QED
    BY <1>1, <2>1, FS_CardinalityType DEF Lower
<1>3. ASSUME NEW i \in 1 .. n PROVE \E r \in D : L(r) = 0
  <2>1. D # {}
    BY <1>3, FS_EmptySet
  <2> DEFINE V == {places[r] : r \in D}
  <2>2. V \in SUBSET Nat /\ V # {}
    BY <2>1
  <2>3. Min(V) \in V /\ \A v \in V : Min(V) <= v
    BY <2>2, LeastIs
  <2>4. PICK r \in D : places[r] = Min(V)
    BY <2>3
  <2>5. {s \in D : places[s] < places[r]} = {}
    <3>1. ASSUME NEW s \in D PROVE ~(places[s] < places[r])
      <4>1. places[s] \in V /\ places[s] \in Nat /\ places[r] \in Nat
        OBVIOUS
      <4>2. places[r] <= places[s]
        BY <2>3, <2>4, <4>1
      <4> QED
        BY <4>1, <4>2
    <3> QED
      BY <3>1
  <2>6. L(r) = 0
    BY <2>5, FS_EmptySet DEF Lower
  <2> QED
    BY <2>6
<1> HIDE DEF L
<1>4. ASSUME NEW i \in 1 .. n
      PROVE  /\ Max(S(i)) \in S(i) /\ \A m \in S(i) : Max(S(i)) >= m
             /\ \A m \in S(i) : m \in 0 .. b + n
  <2>1. \A m \in S(i) : m \in 0 .. b + n
    <3>1. ASSUME NEW r \in D, L(r) < i PROVE places[r] + (i - 1 - L(r)) \in 0 .. b + n
      BY <1>1, <1>2, <3>1
    <3> QED
      BY <3>1
  <2>2. S(i) # {}
    BY <1>1, <1>3
  <2>3. S(i) \in SUBSET Nat /\ b + n \in Nat /\ \A m \in S(i) : m <= b + n
    BY <1>1, <2>1
  <2> HIDE DEF S
  <2> QED
    BY <2>1, <2>2, <2>3, GreatestIs
<1>5. \A i \in 1 .. n : SlotsFor(places)[i] = Max(S(i))
  BY DEF SlotsFor, L
<1>6. ASSUME NEW i \in 1 .. n, NEW j \in 1 .. n, i < j PROVE Max(S(i)) < Max(S(j))
  <2>1. PICK r \in D : L(r) < i /\ Max(S(i)) = places[r] + (i - 1 - L(r))
    BY <1>4
  <2>2. places[r] + (j - 1 - L(r)) \in S(j)
    BY <1>1, <1>2, <1>6, <2>1
  <2>3. Max(S(j)) >= places[r] + (j - 1 - L(r))
    BY <1>4, <2>2
  <2>4. Max(S(j)) \in Nat /\ L(r) \in Nat /\ places[r] \in Nat
    BY <1>1, <1>2, <1>4
  <2> QED
    BY <1>1, <1>6, <2>1, <2>3, <2>4
<1> QED
  BY <1>1, <1>4, <1>5, <1>6

\* An order that has everybody once puts whoever is in front lower.
LEMMA PlacedRises ==
    ASSUME NEW places, NEW b \in Nat, IsFiniteSet(DOMAIN places),
           \A r \in DOMAIN places : places[r] \in 0 .. b,
           NEW order, DOMAIN order = 1 .. Len(order), IsInjective(order), InOrder(order, places)
    PROVE  LET got == PlacedIn(order, places) IN
           /\ DOMAIN got = DOMAIN places
           /\ \A r \in DOMAIN got : got[r] \in 0 .. b + Cardinality(DOMAIN places)
           /\ \A i, j \in DOMAIN order : i < j => got[order[i]] < got[order[j]]
<1> DEFINE n   == Cardinality(DOMAIN places)
           got == PlacedIn(order, places)
<1>1. /\ n \in Nat /\ DOMAIN order = 1 .. n
      /\ \A i \in 1 .. n : SlotsFor(places)[i] \in 0 .. b + n
      /\ \A i, j \in 1 .. n : i < j => SlotsFor(places)[i] < SlotsFor(places)[j]
  BY SlotsRise DEF InOrder
<1>2. \A r \in DOMAIN places : \E i \in DOMAIN order : order[i] = r
  BY DEF InOrder, ToSet
<1>3. \A i \in DOMAIN order : order[i] \in DOMAIN places
  BY DEF InOrder, ToSet
<1>4. DOMAIN got = DOMAIN places
  BY DEF PlacedIn
<1>5. \A i \in DOMAIN order : got[order[i]] = SlotsFor(places)[i]
  <2>1. ASSUME NEW i \in DOMAIN order PROVE (CHOOSE k \in DOMAIN order : order[k] = order[i]) = i
    BY DEF IsInjective
  <2> QED
    BY <1>3, <2>1 DEF PlacedIn
<1>6. \A r \in DOMAIN got : got[r] \in 0 .. b + n
  <2> HIDE DEF got, n
  <2> QED
    BY <1>1, <1>2, <1>4, <1>5
<1>7. \A i, j \in DOMAIN order : i < j => got[order[i]] < got[order[j]]
  <2> HIDE DEF got, n
  <2> QED
    BY <1>1, <1>5
<1> QED
  BY <1>4, <1>6, <1>7

-----------------------------------------------------------------------------
(* Channels: their order, and what a client draws.                             *)

Positioned ==
    /\ IsFiniteSet(DOMAIN channels)
    /\ \E b \in Nat : \A c \in DOMAIN channels : channels[c].position \in 0 .. b

\* What is asked is each row once.
OrderKnown(q) ==
    q.what.do = "reorder" =>
        DOMAIN q.what.order = 1 .. Len(q.what.order) /\ IsInjective(q.what.order)

\* Whoever has the lock and has read: the places it will write are one above
\* another, of the channels that are in the bucket still; what it deleted is gone.
OrderReady(q) ==
    /\ q.at = "second" /\ q.what.do = "createChannel" => q.got \in Nat
    /\ q.at = "second" /\ q.what.do = "reorder" =>
          /\ ToSet(q.what.order) = In(q.what.bucket) /\ DOMAIN q.got = In(q.what.bucket)
          /\ \E b \in Nat : \A r \in DOMAIN q.got : q.got[r] \in 0 .. b
          /\ \A i, j \in DOMAIN q.what.order : i < j => q.got[q.what.order[i]] < q.got[q.what.order[j]]
    /\ q.at = "third" /\ q.what.do = "deleteChannel" => q.what.channel \notin DOMAIN channels

\* Those of whom one was put before the other are in one bucket, in that order.
SameBucket(c, d) == channels[c].category = channels[d].category /\ channels[c].type = channels[d].type

OrderKept ==
    \A p \in ordered : /\ p[1] \in DOMAIN channels /\ p[2] \in DOMAIN channels /\ SameBucket(p[1], p[2])
                       /\ channels[p[1]].position < channels[p[2]].position

\* Who is yet to make the client draw c as it is, or to be the last word it had.
WillShow(q, c)  == q.at = "emit" /\ c \in DOMAIN Rows(q)
HeadShows(q, c) ==
    /\ c \in Untold(q)
    /\ q.what.do = "deleteCategory" => c \in DOMAIN channels /\ channels[c].category = NoCategory

Drawn(c) ==
    /\ c \in DOMAIN shown <=> c \in DOMAIN channels
    /\ c \in DOMAIN channels => shown[c] = channels[c].category

CacheSeenTo ==
    \A c \in Channel \ echoed :
        \/ Drawn(c)
        \/ \E q \in loose : WillShow(q, c)
        \/ 1 \in DOMAIN queue /\ HeadShows(queue[1], c)

OrdersKnown == \A i \in DOMAIN queue : OrderKnown(queue[i])
HeadInOrder == 1 \in DOMAIN queue => OrderReady(queue[1])

TreeInv == Positioned /\ OrdersKnown /\ HeadInOrder /\ OrderKept /\ CacheSeenTo

\* The queue: what is asked stays, and whoever comes first has not begun.
LEMMA LeftBehind ==
    ASSUME LockInv, OrdersKnown, NEW q, FirstLeaves(q)
    PROVE  /\ OrdersKnown' /\ HeadInOrder'
           /\ \A c : ~(1 \in DOMAIN queue' /\ HeadShows(queue'[1], c))
<1>1. \A i \in DOMAIN queue' : i + 1 \in DOMAIN queue /\ queue'[i] = queue[i + 1]
  BY DEF FirstLeaves
<1>2. 1 \in DOMAIN queue' => queue'[1].at = "first"
  <2>1. 1 \in DOMAIN queue' => 2 \in DOMAIN queue /\ queue'[1] = queue[2]
    BY <1>1
  <2> QED
    BY <2>1 DEF LockInv
<1>3. OrdersKnown'
  BY <1>1 DEF OrdersKnown, OrderKnown
<1> QED
  BY <1>2, <1>3 DEF HeadInOrder, OrderReady, HeadShows, Untold

LEMMA WentOn ==
    ASSUME OrdersKnown, NEW q, NEW r, FirstGoesOn(q, r), 1 \in DOMAIN queue, r.what = q.what, OrderReady(r)'
    PROVE  OrdersKnown' /\ HeadInOrder' /\ queue'[1] = r /\ 1 \in DOMAIN queue'
BY DEF OrdersKnown, OrderKnown, FirstGoesOn, HeadInOrder

\* What the holder does next.
LEMMA HolderDoes ==
    ASSUME LockInv, TreeInv, orders' = orders, NEW q, Runs(q)
    PROVE  /\ OrderKnown(q) /\ OrderReady(q) /\ Record(q, {"id", "at", "document", "what", "got"})
           /\ queue' = Without(q) => /\ OrdersKnown' /\ HeadInOrder'
                                     /\ \A c : ~(1 \in DOMAIN queue' /\ HeadShows(queue'[1], c))
           /\ \A r : GoesOn(q, r) /\ Further(q, r) /\ OrderReady(r)' =>
                        OrdersKnown' /\ HeadInOrder' /\ queue'[1] = r /\ 1 \in DOMAIN queue'
<1>1. Record(q, {"id", "at", "document", "what", "got"}) /\ q = queue[1] /\ 1 \in DOMAIN queue
  BY HolderMoves
<1>2. OrderKnown(q) /\ OrderReady(q) /\ OrdersKnown
  BY <1>1 DEF TreeInv, OrdersKnown, HeadInOrder
<1>3. ASSUME queue' = Without(q)
      PROVE  /\ OrdersKnown' /\ HeadInOrder'
             /\ \A c : ~(1 \in DOMAIN queue' /\ HeadShows(queue'[1], c))
  <2>1. FirstLeaves(q)
    BY <1>3, HolderMoves
  <2> QED
    BY <1>2, <2>1, LeftBehind
<1>4. ASSUME NEW r, GoesOn(q, r), Further(q, r), OrderReady(r)'
      PROVE  OrdersKnown' /\ HeadInOrder' /\ queue'[1] = r /\ 1 \in DOMAIN queue'
  <2>1. FirstGoesOn(q, r) /\ r.what = q.what
    BY <1>4, HolderMoves DEF Further
  <2> QED
    BY <1>1, <1>2, <1>4, <2>1, WentOn
<1> QED
  BY <1>1, <1>2, <1>3, <1>4

\* The client, where the holder changes nothing of what is drawn.
LEMMA CacheKept ==
    ASSUME LockInv, CacheSeenTo, NEW q, Runs(q), \A c : ~HeadShows(q, c),
           UNCHANGED <<shown, echoed>>, loose \subseteq loose', DOMAIN channels' = DOMAIN channels,
           \A c \in DOMAIN channels : channels'[c].category = channels[c].category
    PROVE  CacheSeenTo'
<1>1. q = queue[1]
  BY FirstIsHead
<1>2. \A c : Drawn(c) => Drawn(c)'
  BY DEF Drawn
<1> QED
  BY <1>1, <1>2 DEF CacheSeenTo, WillShow, Rows

\* The order, where positions and buckets stay.
LEMMA OrderStays ==
    ASSUME OrderKept, Positioned, DOMAIN channels' = DOMAIN channels, ordered' \subseteq ordered,
           \A c \in DOMAIN channels : channels'[c].position = channels[c].position,
           \A p \in ordered' : SameBucket(p[1], p[2]) => SameBucket(p[1], p[2])'
    PROVE  OrderKept' /\ Positioned'
BY DEF OrderKept, Positioned

\* Looking, and making or ordering categories, leave the channels and the client.
LEMMA TreeRests ==
    ASSUME LockInv, TreeInv, orders' = orders, NEW q, Runs(q), \A c : ~HeadShows(q, c),
           UNCHANGED <<channels, shown, echoed, ordered, loose>>,
           queue' = Without(q) \/ \E r : GoesOn(q, r) /\ Further(q, r) /\ OrderReady(r)'
    PROVE  TreeInv'
<1>1. OrderKept' /\ Positioned'
  BY DEF TreeInv, OrderKept, Positioned, SameBucket
<1>2. CacheSeenTo'
  BY CacheKept DEF TreeInv
<1>3. OrdersKnown' /\ HeadInOrder'
  BY HolderDoes
<1> QED
  BY <1>1, <1>2, <1>3 DEF TreeInv

\* It goes on with what it read.
Looked(q, got) == [q EXCEPT !.at = "second", !.got = got]

LEMMA ThenGot ==
    ASSUME NEW q, Record(q, {"id", "at", "document", "what", "got"}), NEW got
    PROVE  Further(q, Looked(q, got)) /\ Looked(q, got).at = "second" /\ Looked(q, got).got = got
<1> DEFINE r == Looked(q, got)
<1>1. q = [x \in DOMAIN q |-> q[x]] /\ {"id", "at", "document", "what", "got"} \subseteq DOMAIN q
  BY DEF Record
<1>2. DOMAIN r = DOMAIN q /\ r = [x \in DOMAIN r |-> r[x]]
  BY DEF Looked
<1>3. /\ r.at = "second" /\ r.got = got
      /\ r.id = q.id /\ r.what = q.what /\ r.document = q.document
  BY <1>1 DEF Looked
<1> QED
  BY <1>1, <1>2, <1>3 DEF Further, Record

LEMMA TreeLocked ==
    ASSUME StructureAssumption, PlacesInv, TreeInv, NEW q, Locked(q)
    PROVE  TreeInv'
<1>0. LockInv /\ Grounded /\ Runs(q) /\ orders' = orders
  BY DEF PlacesInv, Locked, CreateReads, Creates, MoveReads, Moves, DeleteCounts, Deletes, DeleteTells,
     CategoryCounts, CreatesCategory, Reparents, DeletesCategory, ReorderReads, Reorders, ReordersCategories,
     LockFails, LetsGo
<1>1. /\ OrderKnown(q) /\ OrderReady(q) /\ Record(q, {"id", "at", "document", "what", "got"})
      /\ q = queue[1]
  BY <1>0, HolderDoes, HolderMoves
<1>2. Positioned /\ OrderKept /\ CacheSeenTo
  BY DEF TreeInv
<1>3. queue' = Without(q) => /\ OrdersKnown' /\ HeadInOrder'
                             /\ \A c : ~(1 \in DOMAIN queue' /\ HeadShows(queue'[1], c))
  BY <1>0, HolderDoes
<1>4. ASSUME NEW r, GoesOn(q, r), Further(q, r), OrderReady(r)'
      PROVE  OrdersKnown' /\ HeadInOrder' /\ queue'[1] = r /\ 1 \in DOMAIN queue'
  BY <1>0, <1>4, HolderDoes
<1> USE DEF LetsGo
<1>5. CASE CreateReads(q)
  <2> DEFINE taken == {channels[c].position : c \in {d \in DOMAIN channels : channels[d].type = q.what.type}}
  <2>3. After(taken) \in Nat
    <3>1. PICK b \in Nat : \A c \in DOMAIN channels : channels[c].position \in 0 .. b
      BY <1>2 DEF Positioned
    <3>2. taken \in SUBSET Nat /\ \A n \in taken : n <= b
      BY <3>1
    <3> HIDE DEF taken
    <3>3. taken # {} => Max(taken) \in taken
      BY <3>1, <3>2, GreatestIs
    <3>4. ASSUME taken # {} PROVE 1 + Max(taken) \in Nat
      <4>1. Max(taken) \in Nat
        BY <3>2, <3>3, <3>4, Zenon
      <4> QED
        BY <4>1
    <3>5. CASE taken = {}
      BY <3>5 DEF After
    <3>6. CASE taken # {}
      BY <3>4, <3>6 DEF After
    <3> QED
      BY <3>5, <3>6
  <2> HIDE DEF taken
  <2>0. PICK got : got = After(taken)
    OBVIOUS
  <2> PICK r : r = Looked(q, got)
    OBVIOUS
  <2>1. /\ q.what.do = "createChannel" /\ q.at = "first"
        /\ UNCHANGED <<channels, shown, echoed, ordered, loose>>
        /\ queue' = Without(q) \/ GoesOn(q, r)
    BY <1>5, <2>0 DEF CreateReads, GoesOn, Looked, taken
  <2>2. Further(q, r) /\ r.at = "second" /\ r.got = got
    BY <1>1, ThenGot
  <2>4. OrderReady(r)'
    BY <2>0, <2>1, <2>2, <2>3 DEF OrderReady, Further
  <2>5. \A c : ~HeadShows(q, c)
    BY <2>1 DEF HeadShows, Untold
  <2> QED
    BY <1>0, <2>1, <2>2, <2>4, <2>5, TreeRests
<1>6. CASE Creates(q)
  <2> PICK c : c = NewId(Channel, used)
    OBVIOUS
  <2> PICK row : row = [type |-> q.what.type, category |-> q.what.to, position |-> q.got]
    OBVIOUS
  <2> PICK r : r = [id |-> q.id, at |-> "emit", do |-> "create", channel |-> c, document |-> row]
    OBVIOUS
  <2>1. /\ q.what.do = "createChannel" /\ q.at = "second" /\ c \in Channel \ used
        /\ channels' = [x \in DOMAIN channels \cup {c} |-> IF x = c THEN row ELSE channels[x]]
        /\ queue' = Without(q) /\ loose' = loose \cup {r} /\ UNCHANGED <<shown, echoed, ordered>>
    BY <1>6 DEF Creates, Tells, NewId
  <2>2. /\ c \notin DOMAIN channels /\ DOMAIN channels' = DOMAIN channels \cup {c}
        /\ channels'[c].position = q.got /\ \A x \in DOMAIN channels : channels'[x] = channels[x]
    BY <1>0, <2>1 DEF Grounded
  <2>3. Positioned'
    <3>1. PICK b \in Nat : \A x \in DOMAIN channels : channels[x].position \in 0 .. b
      BY <1>2 DEF Positioned
    <3>2. q.got \in Nat
      BY <1>1, <2>1 DEF OrderReady
    <3>3. b + q.got \in Nat /\ \A x \in DOMAIN channels' : channels'[x].position \in 0 .. b + q.got
      BY <2>2, <3>1, <3>2
    <3>4. IsFiniteSet(DOMAIN channels')
      BY <1>2, <2>2, FS_AddElement DEF Positioned
    <3> QED
      BY <3>3, <3>4 DEF Positioned
  <2>4. OrderKept'
    BY <1>2, <2>1, <2>2 DEF OrderKept, SameBucket
  <2>5. CacheSeenTo'
    <3>1. WillShow(r, c) /\ r \in loose'
      BY <2>1 DEF WillShow, Rows
    <3>2. \A x : x # c => (Drawn(x) => Drawn(x)')
      BY <2>1, <2>2 DEF Drawn
    <3>3. \A x : ~HeadShows(q, x)
      BY <2>1 DEF HeadShows, Untold
    <3> QED
      BY <1>1, <1>2, <2>1, <3>1, <3>2, <3>3 DEF CacheSeenTo, WillShow, Rows
  <2> QED
    BY <1>3, <2>1, <2>3, <2>4, <2>5 DEF TreeInv
<1>7. CASE MoveReads(q) \/ DeleteCounts(q)
  <2> PICK r : r = [q EXCEPT !.at = "second"]
    OBVIOUS
  <2>1. /\ q.what.do \in {"move", "deleteChannel"} /\ q.at = "first"
        /\ UNCHANGED <<channels, shown, echoed, ordered, loose>>
        /\ queue' = Without(q) \/ GoesOn(q, r)
    BY <1>7 DEF MoveReads, DeleteCounts, GoesOn
  <2>2. Further(q, r) /\ r.at = "second"
    BY <1>1, GotFurther
  <2>3. OrderReady(r)'
    BY <2>1, <2>2 DEF OrderReady, Further
  <2>4. \A c : ~HeadShows(q, c)
    BY <2>1 DEF HeadShows, Untold
  <2> QED
    BY <1>0, <2>1, <2>2, <2>3, <2>4, TreeRests
<1>8. CASE Moves(q)
  <2> DEFINE c == q.what.channel
  <2>0. /\ q.what.do = "move" /\ q.at = "second" /\ queue' = Without(q) /\ UNCHANGED <<shown, echoed>>
        /\ loose \subseteq loose'
    BY <1>8 DEF Moves, Tells
  <2>1. \A x : ~HeadShows(q, x)
    BY <2>0 DEF HeadShows, Untold
  <2>2. CASE UNCHANGED <<channels, ordered>>
    <3>1. OrderKept' /\ Positioned'
      BY <1>2, <2>2 DEF OrderKept, Positioned, SameBucket
    <3>2. CacheSeenTo'
      BY <1>0, <1>2, <2>0, <2>1, <2>2, CacheKept
    <3> QED
      BY <1>3, <2>0, <3>1, <3>2 DEF TreeInv
  <2>3. CASE ~UNCHANGED <<channels, ordered>>
    <3> PICK r : r = [id |-> q.id, at |-> "emit", do |-> "move", channel |-> c,
                      document |-> [q.document EXCEPT !.category = q.what.to]]
      OBVIOUS
    <3>1. /\ c \in DOMAIN channels /\ loose' = loose \cup {r}
          /\ channels' = [channels EXCEPT ![c].category = q.what.to] /\ LeavesOrders({c})
      BY <1>8, <2>3 DEF Moves, Tells
    <3>2. /\ DOMAIN channels' = DOMAIN channels
          /\ \A x \in DOMAIN channels : /\ channels'[x].position = channels[x].position
                                        /\ channels'[x].type = channels[x].type
                                        /\ x # c => channels'[x].category = channels[x].category
      BY <1>0, <3>1 DEF Grounded, Record
    <3>3. ordered' \subseteq ordered /\ \A p \in ordered' : p[1] # c /\ p[2] # c
      BY <3>1 DEF LeavesOrders
    <3>4. \A p \in ordered' : SameBucket(p[1], p[2]) => SameBucket(p[1], p[2])'
      BY <1>2, <3>2, <3>3 DEF SameBucket, OrderKept
    <3>5. OrderKept' /\ Positioned'
      BY <1>2, <3>2, <3>3, <3>4, OrderStays
    <3>6. WillShow(r, c) /\ r \in loose'
      BY <3>1 DEF WillShow, Rows
    <3>7. \A x : x # c => (Drawn(x) => Drawn(x)')
      BY <2>0, <3>2 DEF Drawn
    <3>8. CacheSeenTo'
      BY <1>1, <1>2, <2>0, <2>1, <3>1, <3>6, <3>7 DEF CacheSeenTo, WillShow, Rows
    <3> QED
      BY <1>3, <2>0, <3>5, <3>8 DEF TreeInv
  <2> QED
    BY <2>2, <2>3
<1>9. CASE Deletes(q)
  <2> DEFINE c == q.what.channel
  <2> PICK r : r = [q EXCEPT !.at = "third"]
    OBVIOUS
  <2>1. /\ q.what.do = "deleteChannel" /\ q.at = "second" /\ GoesOn(q, r) /\ UNCHANGED <<shown, echoed, loose>>
        /\ channels' = [x \in DOMAIN channels \ {c} |-> channels[x]] /\ LeavesOrders({c})
    BY <1>9 DEF Deletes, GoesOn
  <2>2. Further(q, r) /\ r.at = "third"
    BY <1>1, GotFurther
  <2>3. OrderReady(r)'
    BY <2>1, <2>2 DEF OrderReady, Further
  <2>4. OrdersKnown' /\ HeadInOrder' /\ queue'[1] = r /\ 1 \in DOMAIN queue'
    BY <1>4, <2>1, <2>2, <2>3
  <2>5. OrderKept'
    BY <1>2, <2>1 DEF OrderKept, SameBucket, LeavesOrders
  <2>6. Positioned'
    <3>1. DOMAIN channels' \subseteq DOMAIN channels /\ \A x \in DOMAIN channels' : channels'[x] = channels[x]
      BY <2>1
    <3> QED
      BY <1>2, <3>1, FS_Subset DEF Positioned
  <2>7. CacheSeenTo'
    <3>1. c \in Channel => HeadShows(r, c)'
      BY <2>1, <2>2 DEF HeadShows, Further, Untold
    <3>2. \A x : x # c => (Drawn(x) => Drawn(x)')
      BY <2>1 DEF Drawn
    <3>3. \A x : ~HeadShows(q, x)
      BY <2>1 DEF HeadShows, Untold
    <3> QED
      BY <1>1, <1>2, <2>1, <2>4, <3>1, <3>2, <3>3 DEF CacheSeenTo, WillShow, Rows
  <2> QED
    BY <2>4, <2>5, <2>6, <2>7 DEF TreeInv
<1>10. CASE DeleteTells(q)
  <2> DEFINE c == q.what.channel
  <2>1. /\ q.what.do = "deleteChannel" /\ q.at = "third" /\ queue' = Without(q)
        /\ UNCHANGED <<channels, ordered, loose>>
        /\ shown' = [x \in DOMAIN shown \ {c} |-> shown[x]] /\ echoed' = echoed \ {c}
    BY <1>10 DEF DeleteTells
  <2>2. c \notin DOMAIN channels
    BY <1>1, <2>1 DEF OrderReady
  <2>3. OrderKept' /\ Positioned'
    BY <1>2, <2>1 DEF OrderKept, Positioned, SameBucket
  <2>4. CacheSeenTo'
    <3>1. Drawn(c)'
      BY <2>1, <2>2 DEF Drawn
    <3>2. \A x : x # c => (Drawn(x) => Drawn(x)') /\ ~HeadShows(q, x)
      BY <2>1 DEF Drawn, HeadShows, Untold
    <3> QED
      BY <1>1, <1>2, <2>1, <3>1, <3>2 DEF CacheSeenTo, WillShow, Rows
  <2> QED
    BY <1>3, <2>1, <2>3, <2>4 DEF TreeInv
<1>11. CASE CategoryCounts(q) \/ CreatesCategory(q) \/ ReordersCategories(q)
  <2> PICK got : queue' = Without(q) \/ GoesOn(q, Looked(q, got))
    BY <1>11 DEF CategoryCounts, CreatesCategory, ReordersCategories, Looked
  <2> PICK r : r = Looked(q, got)
    OBVIOUS
  <2>1. /\ q.what.do \in {"createCategory", "reorderCategories"}
        /\ UNCHANGED <<channels, shown, echoed, ordered, loose>>
    BY <1>11 DEF CategoryCounts, CreatesCategory, ReordersCategories, GoesOn
  <2>2. Further(q, r) /\ r.at = "second"
    BY <1>1, ThenGot
  <2>3. OrderReady(r)'
    BY <2>1, <2>2 DEF OrderReady, Further
  <2>4. \A c : ~HeadShows(q, c)
    BY <2>1 DEF HeadShows, Untold
  <2> QED
    BY <1>0, <2>1, <2>2, <2>3, <2>4, TreeRests
<1>12. CASE Reparents(q)
  <2> DEFINE inside == {c \in DOMAIN channels : channels[c].category = q.what.category}
  <2> PICK r : r = [q EXCEPT !.at = "second"]
    OBVIOUS
  <2>1. /\ q.what.do = "deleteCategory" /\ GoesOn(q, r) /\ UNCHANGED <<shown, echoed, loose>>
        /\ channels' = [c \in DOMAIN channels |-> [channels[c] EXCEPT !.category =
                          IF c \in inside THEN NoCategory ELSE channels[c].category]]
        /\ LeavesOrders(inside) /\ q.at = "first"
    BY <1>12 DEF Reparents, GoesOn
  <2>2. Further(q, r) /\ r.at = "second"
    BY <1>1, GotFurther
  <2>3. OrderReady(r)'
    BY <2>1, <2>2 DEF OrderReady, Further
  <2>4. OrdersKnown' /\ HeadInOrder' /\ queue'[1] = r /\ 1 \in DOMAIN queue'
    BY <1>4, <2>1, <2>2, <2>3
  <2>5. /\ DOMAIN channels' = DOMAIN channels
        /\ \A c \in DOMAIN channels : /\ channels'[c].position = channels[c].position
                                      /\ channels'[c].type = channels[c].type
                                      /\ c \notin inside => channels'[c].category = channels[c].category
    BY <1>0, <2>1 DEF Grounded, Record
  <2>12. \A c \in inside : channels[c].category = q.what.category
    OBVIOUS
  <2>6. ordered' \subseteq ordered /\ \A p \in ordered' : p[1] \notin inside /\ p[2] \notin inside
    BY <2>1 DEF LeavesOrders
  <2> HIDE DEF inside
  <2>7. \A p \in ordered' : SameBucket(p[1], p[2]) => SameBucket(p[1], p[2])'
    BY <1>2, <2>5, <2>6 DEF SameBucket, OrderKept
  <2>8. OrderKept' /\ Positioned'
    BY <1>2, <2>5, <2>6, <2>7, OrderStays
  <2>9. \A c \in Channel : Drawn(c) => Drawn(c)' \/ HeadShows(r, c)'
    BY <2>1, <2>2, <2>5, <2>12 DEF HeadShows, Further, Untold, Drawn
  <2>10. \A c : ~HeadShows(q, c)
    BY <2>1 DEF HeadShows, Untold
  <2>11. CacheSeenTo'
    BY <1>1, <1>2, <2>1, <2>4, <2>9, <2>10 DEF CacheSeenTo, WillShow, Rows
  <2> QED
    BY <2>4, <2>8, <2>11 DEF TreeInv
<1>13. CASE DeletesCategory(q)
  <2>1. /\ q.what.do = "deleteCategory" /\ q.at = "second" /\ queue' = Without(q) /\ loose \subseteq loose'
        /\ UNCHANGED <<channels, ordered, echoed>>
        /\ shown' = [c \in DOMAIN shown |-> IF shown[c] = q.what.category THEN NoCategory ELSE shown[c]]
    BY <1>13 DEF DeletesCategory, Tells
  <2>2. OrderKept' /\ Positioned'
    BY <1>2, <2>1 DEF OrderKept, Positioned, SameBucket
  <2>3. \A c \in DOMAIN channels : channels[c].category # q.what.category
    BY <1>0, <1>1, <2>1, HolderMoves DEF PlacesInv, HeadReady, FirstReady
  <2>4. \A c : Drawn(c) => Drawn(c)'
    BY <2>1, <2>3 DEF Drawn
  <2>5. \A c : HeadShows(q, c) => Drawn(c)'
    BY <2>1 DEF HeadShows, Untold, Drawn
  <2> QED
    BY <1>1, <1>3, <2>1, <2>2, <2>4, <2>5 DEF TreeInv, CacheSeenTo, WillShow, Rows
<1>14. CASE ReorderReads(q)
  <2> PICK places : places = IF q.what.do = "reorder" THEN [c \in In(q.what.bucket) |-> channels[c].position]
                             ELSE categories
    OBVIOUS
  <2> PICK got : got = PlacedIn(q.what.order, places)
    OBVIOUS
  <2> PICK r : r = Looked(q, got)
    OBVIOUS
  <2>1. /\ q.what.do \in {"reorder", "reorderCategories"} /\ q.at = "first"
        /\ UNCHANGED <<channels, shown, echoed, ordered, loose>>
        /\ queue' = Without(q) \/ (GoesOn(q, r) /\ InOrder(q.what.order, places))
    BY <1>14 DEF ReorderReads, GoesOn, Looked
  <2>2. Further(q, r) /\ r.at = "second" /\ r.got = PlacedIn(q.what.order, places)
    BY <1>1, ThenGot
  <2>3. ASSUME InOrder(q.what.order, places), q.what.do = "reorder"
        PROVE  /\ ToSet(q.what.order) = In(q.what.bucket) /\ DOMAIN r.got = In(q.what.bucket)
               /\ \E b \in Nat : \A x \in DOMAIN r.got : r.got[x] \in 0 .. b
               /\ \A i, j \in DOMAIN q.what.order : i < j => r.got[q.what.order[i]] < r.got[q.what.order[j]]
    <3>1. DOMAIN places = In(q.what.bucket) /\ \A x \in DOMAIN places : places[x] = channels[x].position
      BY <2>3
    <3>2. In(q.what.bucket) \subseteq DOMAIN channels
      BY DEF In
    <3>3. PICK b \in Nat : \A x \in DOMAIN places : places[x] \in 0 .. b
      BY <1>2, <3>1, <3>2 DEF Positioned
    <3>4. IsFiniteSet(DOMAIN places) /\ Cardinality(DOMAIN places) \in Nat
      BY <1>2, <3>1, <3>2, FS_Subset, FS_CardinalityType DEF Positioned
    <3>5. DOMAIN q.what.order = 1 .. Len(q.what.order) /\ IsInjective(q.what.order)
      BY <1>1, <2>3 DEF OrderKnown
    <3>9. /\ DOMAIN got = DOMAIN places
          /\ \A x \in DOMAIN got : got[x] \in 0 .. b + Cardinality(DOMAIN places)
          /\ \A i, j \in DOMAIN q.what.order : i < j => got[q.what.order[i]] < got[q.what.order[j]]
      <4>1. PICK order : order = q.what.order
        OBVIOUS
      <4>2. InOrder(order, places) /\ DOMAIN order = 1 .. Len(order) /\ IsInjective(order)
            /\ got = PlacedIn(order, places)
        BY <2>3, <3>5, <4>1
      <4>3. got = PlacedIn(order, places)
        BY <4>1
      <4>4. \A x \in DOMAIN places : places[x] \in 0 .. b
        BY <3>3
      <4>5. IsFiniteSet(DOMAIN places)
        BY <3>4
      <4>6. /\ DOMAIN PlacedIn(order, places) = DOMAIN places
            /\ \A x \in DOMAIN PlacedIn(order, places) :
                  PlacedIn(order, places)[x] \in 0 .. b + Cardinality(DOMAIN places)
            /\ \A i, j \in DOMAIN order : i < j => PlacedIn(order, places)[order[i]] < PlacedIn(order, places)[order[j]]
        BY <4>2, <4>4, <4>5, PlacedRises, Zenon
      <4> QED
        BY <4>1, <4>3, <4>6
    <3>6. /\ DOMAIN r.got = DOMAIN places
          /\ \A x \in DOMAIN r.got : r.got[x] \in 0 .. b + Cardinality(DOMAIN places)
          /\ \A i, j \in DOMAIN q.what.order : i < j => r.got[q.what.order[i]] < r.got[q.what.order[j]]
      BY <2>2, <3>9
    <3>7. ToSet(q.what.order) = DOMAIN places
      BY <2>3 DEF InOrder
    <3>8. b + Cardinality(DOMAIN places) \in Nat
      BY <3>4
    <3> QED
      BY <3>1, <3>6, <3>7, <3>8
  <2>4. \A c : ~HeadShows(q, c)
    BY <2>1 DEF HeadShows, Untold
  <2>5. In(q.what.bucket)' = In(q.what.bucket)
    BY <2>1 DEF In
  <2>6. InOrder(q.what.order, places) => OrderReady(r)'
    <3> SUFFICES ASSUME InOrder(q.what.order, places) PROVE OrderReady(r)'
      OBVIOUS
    <3>1. r.what = q.what
      BY <2>2 DEF Further
    <3>2. ASSUME r.what.do = "reorder"
          PROVE  /\ ToSet(r.what.order) = In(r.what.bucket) /\ DOMAIN r.got = In(r.what.bucket)
                 /\ \E b \in Nat : \A x \in DOMAIN r.got : r.got[x] \in 0 .. b
                 /\ \A i, j \in DOMAIN r.what.order : i < j => r.got[r.what.order[i]] < r.got[r.what.order[j]]
      BY <2>3, <3>1, <3>2
    <3>3. In(r.what.bucket)' = In(r.what.bucket)
      BY <2>1 DEF In
    <3> QED
      BY <2>1, <2>2, <3>1, <3>2, <3>3 DEF OrderReady
  <2> QED
    BY <1>0, <2>1, <2>2, <2>4, <2>6, TreeRests
<1>15. CASE Reorders(q)
  <2> DEFINE order == q.what.order
  <2>1. /\ q.what.do = "reorder" /\ q.at = "second" /\ queue' = Without(q)
        /\ loose \subseteq loose' /\ UNCHANGED <<shown, echoed>>
        /\ channels' = [c \in DOMAIN channels |-> [channels[c] EXCEPT !.position =
                          IF c \in DOMAIN q.got THEN q.got[c] ELSE channels[c].position]]
        /\ ordered' = {p \in ordered : p[1] \notin ToSet(order)} \cup Pairs(order)
    BY <1>15 DEF Reorders, Tells
  <2>2. /\ DOMAIN channels' = DOMAIN channels
        /\ \A c \in DOMAIN channels :
              /\ channels'[c].position = IF c \in DOMAIN q.got THEN q.got[c] ELSE channels[c].position
              /\ channels'[c].type = channels[c].type /\ channels'[c].category = channels[c].category
    BY <1>0, <2>1 DEF Grounded, Record
  <2>3. /\ ToSet(order) = In(q.what.bucket) /\ DOMAIN q.got = In(q.what.bucket)
        /\ \E b \in Nat : \A r \in DOMAIN q.got : q.got[r] \in 0 .. b
        /\ \A i, j \in DOMAIN order : i < j => q.got[order[i]] < q.got[order[j]]
    BY <1>1, <2>1 DEF OrderReady
  <2>4. \A c : ~HeadShows(q, c)
    BY <2>1 DEF HeadShows, Untold
  <2>5. CacheSeenTo'
    BY <1>0, <1>2, <2>1, <2>2, <2>4, CacheKept
  <2>6. Positioned'
    <3>1. PICK b \in Nat : \A c \in DOMAIN channels : channels[c].position \in 0 .. b
      BY <1>2 DEF Positioned
    <3>2. PICK d \in Nat : \A r \in DOMAIN q.got : q.got[r] \in 0 .. d
      BY <2>3
    <3>3. b + d \in Nat /\ \A c \in DOMAIN channels' : channels'[c].position \in 0 .. b + d
      BY <2>2, <3>1, <3>2
    <3> QED
      BY <1>2, <2>2, <3>3 DEF Positioned
  <2>7. \A c, d \in DOMAIN channels : SameBucket(c, d) => SameBucket(c, d)' /\ (c \in DOMAIN q.got <=> d \in DOMAIN q.got)
    BY <2>2, <2>3 DEF SameBucket, In
  <2>8. ASSUME NEW p \in ordered, p[1] \notin ToSet(order)
        PROVE  /\ p[1] \in DOMAIN channels' /\ p[2] \in DOMAIN channels' /\ SameBucket(p[1], p[2])'
               /\ channels'[p[1]].position < channels'[p[2]].position
    BY <1>2, <2>2, <2>3, <2>7, <2>8 DEF OrderKept
  <2>9. ASSUME NEW p \in Pairs(order)
        PROVE  /\ p[1] \in DOMAIN channels' /\ p[2] \in DOMAIN channels' /\ SameBucket(p[1], p[2])'
               /\ channels'[p[1]].position < channels'[p[2]].position
    <3>1. PICK i \in DOMAIN order, j \in DOMAIN order : i < j /\ p = <<order[i], order[j]>>
      BY DEF Pairs
    <3>2. p[1] = order[i] /\ p[2] = order[j] /\ p[1] \in In(q.what.bucket) /\ p[2] \in In(q.what.bucket)
      BY <2>3, <3>1 DEF ToSet
    <3>3. q.got[p[1]] < q.got[p[2]]
      BY <2>3, <3>1, <3>2
    <3> QED
      BY <2>2, <2>3, <2>7, <3>2, <3>3 DEF In, SameBucket
  <2>10. OrderKept'
    BY <2>1, <2>8, <2>9 DEF OrderKept
  <2> QED
    BY <1>3, <2>1, <2>5, <2>6, <2>10 DEF TreeInv
<1>16. CASE LockFails(q)
  <2>1. /\ queue' = Without(q) /\ UNCHANGED <<channels, ordered, loose, shown>>
        /\ echoed' = echoed \cup Untold(q)
    BY <1>16 DEF LockFails
  <2>2. OrderKept' /\ Positioned'
    BY <1>2, <2>1 DEF OrderKept, Positioned, SameBucket
  <2>3. \A c : Drawn(c) => Drawn(c)'
    BY <2>1 DEF Drawn
  <2>4. CacheSeenTo'
    BY <1>1, <1>2, <2>1, <2>3 DEF CacheSeenTo, WillShow, Rows, HeadShows
  <2> QED
    BY <1>3, <2>1, <2>2, <2>4 DEF TreeInv
<1> QED
  BY <1>5, <1>6, <1>7, <1>8, <1>9, <1>10, <1>11, <1>12, <1>13, <1>14, <1>15, <1>16 DEF Locked

LEMMA TreeStep ==
    ASSUME StructureAssumption, PlacesInv, TreeInv, [StructureNext]_structure
    PROVE  TreeInv'
<1>0. LockInv /\ Positioned /\ OrderKept /\ CacheSeenTo /\ OrdersKnown /\ HeadInOrder
  BY DEF PlacesInv, TreeInv
<1>1. UNCHANGED <<channels, ordered>> => OrderKept' /\ Positioned'
  BY <1>0 DEF OrderKept, Positioned, SameBucket
<1>2. UNCHANGED <<channels, queue>> => OrdersKnown' /\ HeadInOrder'
  BY <1>0 DEF OrdersKnown, HeadInOrder, OrderKnown, OrderReady, In
<1>3. CASE Queues
  <2>1. PICK what \in Reshape \cup {w \in Reorder : Len(w.order) > 1} :
          queue' = Append(queue, [id |-> orders, at |-> "first", document |-> Document(what),
                                  what |-> what, got |-> "none"])
    BY <1>3 DEF Queues
  <2>2. UNCHANGED <<channels, categories, loose, shown, ordered, echoed>>
    BY <1>3 DEF Queues
  <2>3. PICK r : r = [id |-> orders, at |-> "first", document |-> Document(what),
                      what |-> what, got |-> "none"]
    OBVIOUS
  <2>4. Queued(r) /\ r.at = "first" /\ r.what = what
    BY <1>0, <2>1, <2>3, JoinsLast
  <2>5. OrderKnown(r)
    <3>1. ASSUME what \in WithinBuckets
          PROVE  DOMAIN what.order = 1 .. Len(what.order) /\ IsInjective(what.order)
      <4>1. PICK b \in Bucket : what \in [do : {"reorder"}, bucket : {b}, order : SetToSeqs(In(b))]
        BY <3>1, Zenon DEF WithinBuckets
      <4>2. what.order \in SetToSeqs(In(b))
        BY <4>1
      <4>3. Cardinality(In(b)) \in Nat
        BY <1>0, FS_Subset, FS_CardinalityType DEF In, Positioned
      <4>4. /\ what.order \in [1 .. Cardinality(In(b)) -> In(b)]
            /\ \A i, j \in 1 .. Cardinality(In(b)) : i # j => what.order[i] # what.order[j]
        BY <4>2 DEF SetToSeqs
      <4> QED
        BY <4>3, <4>4 DEF IsInjective
    <3>2. what \in Reshape \cup AmongCategories => what.do # "reorder"
      BY DEF Reshape, AmongCategories
    <3> QED
      BY <2>4, <3>1, <3>2 DEF OrderKnown, Reorder
  <2>6. Len(queue) \in Nat /\ DOMAIN queue = 1 .. Len(queue)
    BY <1>0, LenProperties DEF LockInv
  <2>7. \A i \in DOMAIN queue' : (i \in DOMAIN queue /\ queue'[i] = queue[i]) \/ queue'[i] = r
    BY <2>4, <2>6 DEF Queued
  <2>8. OrdersKnown'
    BY <1>0, <2>5, <2>7 DEF OrdersKnown, OrderKnown
  <2>9. HeadInOrder'
    <3>1. \A q : OrderReady(q) => OrderReady(q)'
      BY <2>2 DEF OrderReady, In
    <3>2. OrderReady(r)
      BY <2>4 DEF OrderReady
    <3>3. 1 \in DOMAIN queue' => (1 \in DOMAIN queue /\ queue'[1] = queue[1]) \/ queue'[1] = r
      BY <2>7
    <3>4. 1 \in DOMAIN queue' => OrderReady(queue'[1])
      BY <1>0, <3>2, <3>3 DEF HeadInOrder
    <3> QED
      BY <3>1, <3>4 DEF HeadInOrder
  <2>10. CacheSeenTo'
    <3>1. 1 \in DOMAIN queue => 1 \in DOMAIN queue' /\ queue'[1] = queue[1]
      BY <2>4, <2>6 DEF Queued
    <3>2. \A c : Drawn(c) => Drawn(c)'
      BY <2>2 DEF Drawn
    <3>3. \A q, c : HeadShows(q, c) => HeadShows(q, c)'
      BY <2>2 DEF HeadShows, Untold
    <3> QED
      BY <1>0, <2>2, <3>1, <3>2, <3>3 DEF CacheSeenTo, WillShow, Rows
  <2> QED
    BY <1>1, <2>2, <2>8, <2>9, <2>10 DEF TreeInv
<1>4. CASE \E i \in DOMAIN queue : Locked(queue[i])
  BY <1>4, TreeLocked
<1>5. ASSUME UNCHANGED <<channels, queue, ordered, shown, echoed>>,
             \A q \in loose : \A c : WillShow(q, c) => q \in loose'
      PROVE  TreeInv'
  <2>1. CacheSeenTo'
    <3>1. \A c : Drawn(c) => Drawn(c)'
      BY <1>5 DEF Drawn
    <3>2. \A q, c : WillShow(q, c) => WillShow(q, c)'
      BY DEF WillShow, Rows
    <3>3. \A q, c : HeadShows(q, c) => HeadShows(q, c)'
      BY <1>5 DEF HeadShows, Untold
    <3> QED
      BY <1>0, <1>5, <3>1, <3>2, <3>3 DEF CacheSeenTo
  <2> QED
    BY <1>1, <1>2, <1>5, <2>1 DEF TreeInv
<1>6. CASE Edits
  BY <1>5, <1>6 DEF Edits
<1>7. ASSUME NEW q \in loose, SavesEdit(q) PROVE TreeInv'
  <2>1. \A c : ~WillShow(q, c)
    BY <1>7 DEF SavesEdit, WillShow
  <2> QED
    BY <1>5, <1>7, <2>1 DEF SavesEdit
<1>8. ASSUME NEW q \in loose, EmitsRows(q) PROVE TreeInv'
  <2>1. PICK told : told = Rows(q)
    OBVIOUS
  <2>2. /\ q.at = "emit" /\ UNCHANGED <<channels, queue, ordered>> /\ loose \ {q} \subseteq loose'
        /\ Announced(told)
    BY <1>8, <2>1 DEF EmitsRows
  <2>3. \A c : c \in DOMAIN told => Drawn(c)' \/ c \in echoed'
    BY <2>2 DEF Announced, Drawn
  <2>4. \A c : c \notin DOMAIN told => (Drawn(c) => Drawn(c)') /\ (c \in echoed => c \in echoed')
    BY <2>2 DEF Announced, Drawn
  <2>5. \A c : WillShow(q, c) => c \in DOMAIN told
    BY <2>1, <2>2 DEF WillShow
  <2>6. CacheSeenTo'
    <3>1. \A p, c : WillShow(p, c) => WillShow(p, c)'
      BY DEF WillShow, Rows
    <3> SUFFICES ASSUME NEW c \in Channel \ echoed', c \notin DOMAIN told
                 PROVE  \/ Drawn(c)'
                        \/ \E p \in loose' : WillShow(p, c)'
                        \/ (1 \in DOMAIN queue /\ HeadShows(queue[1], c))'
      BY <2>3 DEF CacheSeenTo
    <3>2. c \in Channel \ echoed
      BY <2>4
    <3>3. CASE Drawn(c)
      BY <2>4, <3>3
    <3>4. ASSUME NEW p \in loose, WillShow(p, c) PROVE \E o \in loose' : WillShow(o, c)'
      BY <2>2, <2>5, <3>1, <3>4
    <3>5. CASE 1 \in DOMAIN queue /\ HeadShows(queue[1], c)
      <4>1. c \in DOMAIN shown => c \in DOMAIN shown' /\ shown'[c] = shown[c]
        BY <2>2 DEF Announced
      <4> QED
        BY <2>2, <3>5, <4>1 DEF HeadShows, Untold
    <3> QED
      BY <1>0, <3>2, <3>3, <3>4, <3>5 DEF CacheSeenTo
  <2> QED
    BY <1>1, <1>2, <2>2, <2>6 DEF TreeInv
<1>9. ASSUME NEW q \in loose, Refetches(q) PROVE TreeInv'
  <2>1. /\ shown' = q.got /\ UNCHANGED <<channels, queue, ordered>>
        /\ echoed' = {c \in Channel : \/ (c \in DOMAIN q.got) # (c \in DOMAIN channels)
                                      \/ c \in DOMAIN channels /\ q.got[c] # channels[c].category}
    BY <1>9 DEF Refetches
  <2>2. \A c \in Channel \ echoed' : Drawn(c)'
    BY <2>1 DEF Drawn
  <2> QED
    BY <1>1, <1>2, <2>1, <2>2 DEF TreeInv, CacheSeenTo
<1>11. ASSUME NEW q \in loose, ReadsList(q) PROVE TreeInv'
  <2>1. \A c : ~WillShow(q, c)
    BY <1>11 DEF ReadsList, WillShow
  <2> QED
    BY <1>5, <1>11, <2>1 DEF ReadsList
<1>12. ASSUME NEW q \in loose, TellingFails(q) PROVE TreeInv'
  <2>1. /\ UNCHANGED <<channels, queue, ordered, shown>> /\ loose \ {q} \subseteq loose'
        /\ echoed \subseteq echoed' /\ (q.at = "emit" => DOMAIN Rows(q) \subseteq echoed')
    BY <1>12 DEF TellingFails
  <2>2. \A c : Drawn(c) => Drawn(c)'
    BY <2>1 DEF Drawn
  <2>3. \A p, c : WillShow(p, c)' <=> WillShow(p, c)
    BY DEF WillShow, Rows
  <2>4. \A p, c : HeadShows(p, c)' <=> HeadShows(p, c)
    BY <2>1 DEF HeadShows, Untold
  <2>5. \A c \in Channel \ echoed' : ~WillShow(q, c)
    BY <2>1 DEF WillShow
  <2>6. CacheSeenTo'
    BY <1>0, <2>1, <2>2, <2>3, <2>4, <2>5 DEF CacheSeenTo
  <2> QED
    BY <1>1, <1>2, <2>1, <2>6 DEF TreeInv
<1>10. CASE UNCHANGED structure
  BY <1>5, <1>10 DEF structure
<1> QED
  BY <1>3, <1>4, <1>6, <1>7, <1>8, <1>9, <1>10, <1>11, <1>12 DEF StructureNext

LEMMA TreeStart ==
    ASSUME StructureAssumption, StructureInit
    PROVE  TreeInv
<1> DEFINE c == NewId(Channel, {})
           d == NewId(Channel, {c})
           k == NewId(Category, {})
<1>1. PICK tie \in BOOLEAN, together \in BOOLEAN :
        channels = [x \in {c, d} |-> [type |-> "text",
                      category |-> IF x = d \/ together THEN k ELSE NoCategory,
                      position |-> IF x = d /\ ~tie THEN 1 ELSE 0]]
  BY Zenon DEF StructureInit
<1>2. /\ shown = [x \in {c, d} |-> channels[x].category]
      /\ queue = <<>> /\ loose = {} /\ ordered = {} /\ echoed = {}
  BY DEF StructureInit
<1> HIDE DEF c, d, k
<1>3. DOMAIN channels = {c, d} /\ \A x \in DOMAIN channels : channels[x].position \in 0 .. 1
  BY <1>1
<1>4. IsFiniteSet({c, d})
  <2>1. IsFiniteSet({}) /\ IsFiniteSet({} \cup {c}) /\ IsFiniteSet(({} \cup {c}) \cup {d})
    BY FS_EmptySet, FS_AddElement
  <2>2. ({} \cup {c}) \cup {d} = {c, d}
    OBVIOUS
  <2> QED
    BY <2>1, <2>2
<1>5. Positioned
  BY <1>3, <1>4 DEF Positioned
<1>6. OrdersKnown /\ HeadInOrder /\ OrderKept
  BY <1>2 DEF OrdersKnown, HeadInOrder, OrderKept
<1>7. CacheSeenTo
  BY <1>2, <1>3 DEF CacheSeenTo, Drawn
<1> QED
  BY <1>5, <1>6, <1>7 DEF TreeInv

LEMMA TreeEnds == TreeInv => OrderHolds /\ CacheFollows
<1>1. TreeInv => OrderHolds
  BY DEF TreeInv, OrderKept, OrderHolds
<1>2. TreeInv => CacheFollows
  BY DEF TreeInv, CacheSeenTo, CacheFollows, Settled, Drawn
<1> QED
  BY <1>1, <1>2

-----------------------------------------------------------------------------
(* Who receives a channel, and who is shown it.                                *)

Views    == [member : BOOLEAN, base : BOOLEAN, over : Overwrite \cup {"unmade", "gone"}]
Handlers == [kind : {"refresh", "connect", "join", "removal", "delete"},
             at : {"event", "emit", "view", "channels", "apply", "sweep"},
             seen : Views, announce : BOOLEAN, id : Nat]

\* Which handler can be at which await, and what a deletion leaves.
HandlersTyped ==
    /\ now \in Views /\ jobs \subseteq Handlers
    /\ \A q \in jobs :
          /\ q.kind \in {"removal", "delete"} <=> q.at = "sweep"
          /\ q.at \in {"event", "emit"} => q.kind = "refresh"
          /\ q.kind = "delete" => now.over = "gone"

ListTyped ==
    /\ list \in {"none", "without", "with"}
    /\ asked \in Nat /\ answers \in Seq(BOOLEAN) /\ changes \in Nat

\* A refresh that will move the sockets, given what it has read so far.
WillRefresh(q) ==
    /\ q.kind = "refresh"
    /\ CASE q.at = "apply"    -> q.seen.member /\ Made(q.seen.over)
         [] q.at = "channels" -> q.seen.member /\ Made(now.over)
         [] OTHER             -> now.member /\ Made(now.over)

WillRemove(q) ==
    q.kind = "delete" \/ (q.kind = "removal" /\ Made(now.over)) \/ WillRefresh(q)

\* A setup or a join that will find what holds.
WillJoin(q) ==
    /\ q.kind \in {"connect", "join"}
    /\ q.at = "channels" => q.seen.member = now.member /\ q.seen.base = now.base
    /\ q.at = "apply" => Full(q.seen)

WillAdmit(q) == WillJoin(q) \/ WillRefresh(q)

\* A socket that is not where it belongs is about to be moved there, or was last
\* put where it did not belong.
RoomSeenTo ==
    connected /\ ~roomAstray =>
        /\ inRoom /\ ~Full(now) => \E q \in jobs : WillRemove(q)
        /\ ~inRoom /\ Full(now) => \E q \in jobs : WillAdmit(q)

\* A handler that will tell the member's tab: to ask again, with the answer to a
\* join, that the channel is gone, or that it was created.
WillTell(q) ==
    \/ q.kind = "refresh" /\ q.announce /\ (q.at \in {"channels", "apply"} => q.seen.member)
    \/ q.kind = "join"
    \/ q.kind = "delete" /\ list = "with"
    \/ /\ list = "without"
       /\ (q.at = "event" /\ q.seen.over = now.over) \/ (q.at = "emit" /\ Full(q.seen))

\* A list that is not what it should be is about to be told.
ListSeenTo ==
    now.member /\ list # "none" /\ ~listAstray /\ ~(list = "with" <=> Full(now)) =>
        coalescing \/ asked > 0 \/ answers # <<>> \/ \E q \in jobs : WillTell(q)

SocketTyped == inRoom \in BOOLEAN /\ (~connected => ~inRoom)

VisibilityInv ==
    /\ HandlersTyped /\ ListTyped /\ SocketTyped
    /\ RoomSeenTo /\ ListSeenTo

LEMMA VisibilityStart == VisibilityInit => VisibilityInv
<1> SUFFICES ASSUME VisibilityInit PROVE VisibilityInv
  OBVIOUS
<1>1. now \in Views
  <2>1. PICK entry \in {"unmade", "none"} : now = [member |-> TRUE, base |-> TRUE, over |-> entry]
    BY DEF VisibilityInit
  <2> QED
    BY <2>1 DEF Views, Overwrite
<1>2. HandlersTyped /\ ListTyped
  BY <1>1 DEF VisibilityInit, HandlersTyped, ListTyped
<1> QED
  BY <1>1, <1>2 DEF VisibilityInit, VisibilityInv, SocketTyped, Full, Views, RoomSeenTo, ListSeenTo

\* A read leaves the handler what it is, further on.
Reads(q, r) ==
    /\ r \in Handlers /\ r.kind = q.kind /\ r.announce = q.announce
    /\ jobs' = (jobs \ {q}) \cup {r}

LEMMA ReadsOn ==
    ASSUME HandlersTyped, NEW q \in jobs, NEW r, Reads(q, r), UNCHANGED now,
           q.at # "sweep" /\ r.at \in {"emit", "view", "channels", "apply"},
           r.at = "emit" => q.kind = "refresh"
    PROVE  HandlersTyped'
BY DEF Reads, HandlersTyped

\* Whoever will move the sockets will still, when another handler goes on.
LEMMA OthersStillMove ==
    ASSUME NEW q, UNCHANGED now
    PROVE  /\ WillRemove(q)' = WillRemove(q) /\ WillAdmit(q)' = WillAdmit(q)
BY DEF WillRemove, WillAdmit, WillRefresh, WillJoin, Full, Made

\* Sockets that are put somewhere are right or astray.
LEMMA PutSeenTo ==
    ASSUME NEW there \in BOOLEAN, Put(there), UNCHANGED <<now, connected>>
    PROVE  RoomSeenTo'
BY DEF Put, RoomSeenTo, Full

\* A handler that ends without moving anybody, where it was not to.
LEMMA EndsSeenTo ==
    ASSUME RoomSeenTo, NEW q \in jobs, Ends(q), UNCHANGED <<now, connected, inRoom, roomAstray>>,
           inRoom /\ ~Full(now) => ~WillRemove(q), ~inRoom /\ Full(now) => ~WillAdmit(q)
    PROVE  RoomSeenTo'
<1>1. Full(now)' = Full(now)
  BY DEF Full
<1> QED
  BY <1>1, OthersStillMove DEF RoomSeenTo, Ends

\* Rooms, when a handler reads on: it finds what holds.
LEMMA ReadsSeenTo ==
    ASSUME HandlersTyped, RoomSeenTo, NEW q \in jobs, ReadsForEvent(q) \/ ReadsView(q) \/ ReadsChannels(q)
    PROVE  HandlersTyped' /\ RoomSeenTo'
<1> DEFINE r == [q EXCEPT !.at = "emit", !.seen.member = now.member, !.seen.base = now.base]
           v == [q EXCEPT !.at = "channels", !.seen.member = now.member, !.seen.base = now.base]
           c == [q EXCEPT !.at = "apply", !.seen.over = now.over]
<1>1. /\ q \in Handlers /\ now \in Views
      /\ UNCHANGED <<now, connected, inRoom, roomAstray>>
  BY DEF HandlersTyped, ReadsForEvent, ReadsView, ReadsChannels
<1>2. Full(now)' = Full(now)
  BY <1>1 DEF Full
<1>3. ASSUME NEW n \in Handlers, jobs' = (jobs \ {q}) \cup {n}, n.kind = q.kind,
             WillRemove(q) => WillRemove(n), Full(now) /\ WillAdmit(q) => WillAdmit(n)
      PROVE  RoomSeenTo'
  BY <1>1, <1>2, <1>3, OthersStillMove DEF RoomSeenTo
<1>4. CASE ReadsForEvent(q)
  <2>1. Reads(q, r) /\ r.at = "emit" /\ q.at = "event"
    BY <1>1, <1>4 DEF Reads, ReadsForEvent, Handlers, Views
  <2>2. HandlersTyped'
    BY <1>1, <2>1, ReadsOn DEF HandlersTyped
  <2>3. WillRemove(q) => WillRemove(r)
    BY <2>1 DEF WillRemove, WillRefresh, Reads
  <2>4. WillAdmit(q) => WillAdmit(r)
    BY <2>1 DEF WillAdmit, WillJoin, WillRefresh, Reads
  <2> QED
    BY <1>3, <2>1, <2>2, <2>3, <2>4 DEF Reads
<1>5. CASE ReadsView(q)
  <2>1. Reads(q, v) /\ v.at = "channels" /\ q.at = "view" /\ v.seen.member = now.member /\ v.seen.base = now.base
    BY <1>1, <1>5 DEF Reads, ReadsView, Handlers, Views
  <2>2. HandlersTyped'
    BY <1>1, <2>1, ReadsOn DEF HandlersTyped
  <2>3. WillRemove(q) => WillRemove(v)
    BY <2>1 DEF WillRemove, WillRefresh, Reads
  <2>4. WillAdmit(q) => WillAdmit(v)
    BY <2>1 DEF WillAdmit, WillJoin, WillRefresh, Reads
  <2> QED
    BY <1>3, <2>1, <2>2, <2>3, <2>4 DEF Reads
<1>6. CASE ReadsChannels(q)
  <2>1. Reads(q, c) /\ c.at = "apply" /\ q.at = "channels" /\ c.seen.over = now.over
        /\ c.seen.member = q.seen.member /\ c.seen.base = q.seen.base
    BY <1>1, <1>6 DEF Reads, ReadsChannels, Handlers, Views
  <2>2. HandlersTyped'
    BY <1>1, <2>1, ReadsOn DEF HandlersTyped
  <2>3. WillRemove(q) => WillRemove(c)
    BY <2>1 DEF WillRemove, WillRefresh, Reads
  <2>4. Full(now) /\ WillAdmit(q) => WillAdmit(c)
    BY <2>1 DEF WillAdmit, WillJoin, WillRefresh, Reads, Full
  <2> QED
    BY <1>3, <2>1, <2>2, <2>3, <2>4 DEF Reads
<1> QED
  BY <1>4, <1>5, <1>6

\* And the list.
LEMMA ReadsWillTell ==
    ASSUME HandlersTyped, ListSeenTo, NEW q \in jobs, ReadsForEvent(q) \/ ReadsView(q) \/ ReadsChannels(q)
    PROVE  ListSeenTo'
<1>1. q \in Handlers /\ now \in Views /\ UNCHANGED <<now, client>>
  BY DEF HandlersTyped, ReadsForEvent, ReadsView, ReadsChannels
<1>2. Full(now)' = Full(now)
  BY <1>1 DEF Full
<1>3. ASSUME NEW n, jobs' = (jobs \ {q}) \cup {n},
             now.member /\ ~(list = "with" <=> Full(now)) /\ WillTell(q) => WillTell(n)'
      PROVE  ListSeenTo'
  <2>1. \A h : WillTell(h)' = WillTell(h)
    BY <1>1 DEF WillTell, Full, client
  <2> QED
    BY <1>1, <1>2, <1>3, <2>1 DEF ListSeenTo, client
<1>4. CASE ReadsForEvent(q)
  <2> PICK r : r = [q EXCEPT !.at = "emit", !.seen.member = now.member, !.seen.base = now.base]
    OBVIOUS
  <2>1. /\ r.kind = q.kind /\ r.announce = q.announce /\ r.at = "emit" /\ q.at = "event"
        /\ r.seen.over = q.seen.over /\ r.seen.member = now.member /\ r.seen.base = now.base
        /\ jobs' = (jobs \ {q}) \cup {r}
    BY <1>1, <1>4 DEF ReadsForEvent, Handlers, Views
  <2>2. now.member /\ ~(list = "with" <=> Full(now)) /\ WillTell(q) => WillTell(r)
    BY <2>1 DEF WillTell, Full
  <2>3. WillTell(r)' = WillTell(r)
    BY <1>1 DEF WillTell, Full, client
  <2> QED
    BY <1>3, <2>1, <2>2, <2>3
<1>5. CASE ReadsView(q)
  <2> PICK v : v = [q EXCEPT !.at = "channels", !.seen.member = now.member, !.seen.base = now.base]
    OBVIOUS
  <2>1. /\ v.kind = q.kind /\ v.announce = q.announce /\ v.at = "channels" /\ q.at = "view"
        /\ v.seen.member = now.member /\ jobs' = (jobs \ {q}) \cup {v}
    BY <1>1, <1>5 DEF ReadsView, Handlers, Views
  <2>2. now.member /\ WillTell(q) => WillTell(v)'
    BY <1>1, <2>1 DEF WillTell, client
  <2> QED
    BY <1>3, <2>1, <2>2
<1>6. CASE ReadsChannels(q)
  <2> PICK c : c = [q EXCEPT !.at = "apply", !.seen.over = now.over]
    OBVIOUS
  <2>1. /\ c.kind = q.kind /\ c.announce = q.announce /\ c.at = "apply" /\ q.at = "channels"
        /\ c.seen.member = q.seen.member /\ jobs' = (jobs \ {q}) \cup {c}
    BY <1>1, <1>6 DEF ReadsChannels, Handlers, Views
  <2>2. WillTell(q) => WillTell(c)'
    BY <1>1, <2>1 DEF WillTell, client
  <2> QED
    BY <1>3, <2>1, <2>2
<1> QED
  BY <1>4, <1>5, <1>6

\* A handler that starts, and what it makes of what is stored.
LEMMA StartsTyped ==
    ASSUME HandlersTyped, NEW v \in Views, NEW n \in Handlers, Starts(v, n),
           n.kind \in {"removal", "delete"} <=> n.at = "sweep",
           n.at \in {"event", "emit"} => n.kind = "refresh",
           n.kind = "delete" \/ now.over = "gone" => v.over = "gone"
    PROVE  HandlersTyped'
BY DEF HandlersTyped, Starts

LEMMA UnreadIsView == Unread \in Views
BY DEF Unread, Views

\* Sockets, when what is stored changes: the handler that starts will move them ...
LEMMA MoverStarts ==
    ASSUME NEW v, NEW n, Starts(v, n), WillRemove(n)', Full(v) => WillAdmit(n)'
    PROVE  RoomSeenTo'
<1>1. Full(now)' = Full(v) /\ n \in jobs'
  BY DEF Starts, Full
<1> QED
  BY <1>1 DEF RoomSeenTo

\* ... or whoever was to take them out is to still.
LEMMA RemoversStay ==
    ASSUME RoomSeenTo, NEW v, NEW n, Starts(v, n), UNCHANGED <<connected, inRoom, roomAstray>>,
           ~Full(now), ~Full(v), \A q \in jobs : WillRemove(q) => WillRemove(q)'
    PROVE  RoomSeenTo'
<1>1. Full(now)' = Full(v) /\ jobs \subseteq jobs'
  BY DEF Starts, Full
<1>2. ASSUME connected', ~roomAstray', inRoom' PROVE \E q \in jobs' : WillRemove(q)'
  <2>1. PICK q \in jobs : WillRemove(q)
    BY <1>2 DEF RoomSeenTo
  <2> QED
    BY <1>1, <2>1
<1> QED
  BY <1>1, <1>2 DEF RoomSeenTo

\* The list, when what is stored changes: the handler that starts will tell ...
LEMMA TellerStarts ==
    ASSUME NEW v, NEW n, Starts(v, n), WillTell(n)'
    PROVE  ListSeenTo'
BY DEF Starts, ListSeenTo

\* ... or whoever was to tell is to still.
LEMMA TellersStay ==
    ASSUME ListSeenTo, NEW v, NEW n, Starts(v, n), UNCHANGED client, v.member = now.member,
           ~Full(now), ~Full(v), \A q \in jobs : list = "with" /\ WillTell(q) => WillTell(q)'
    PROVE  ListSeenTo'
<1>1. Full(now)' = Full(v) /\ jobs \subseteq jobs' /\ now' = v
  BY DEF Starts, Full
<1>2. ASSUME now.member, list # "none", ~listAstray, list = "with"
      PROVE  coalescing \/ asked > 0 \/ answers # <<>> \/ \E q \in jobs' : WillTell(q)'
  <2>1. CASE \E q \in jobs : WillTell(q)
    <3>1. PICK q \in jobs : WillTell(q)
      BY <2>1
    <3> QED
      BY <1>1, <1>2, <3>1
  <2> QED
    BY <1>2, <2>1 DEF ListSeenTo
<1>3. ~Full(now)' /\ now'.member = now.member
      /\ UNCHANGED <<list, coalescing, asked, answers, listAstray>>
  BY <1>1 DEF client
<1>4. SUFFICES ASSUME now'.member, list' # "none", ~listAstray', list' = "with"
               PROVE  coalescing' \/ asked' > 0 \/ answers' # <<>> \/ \E q \in jobs' : WillTell(q)'
  BY <1>3, Zenon DEF ListSeenTo
<1> QED
  BY <1>2, <1>3, <1>4

LEMMA ChangesListTyped ==
    ASSUME ListTyped, Change, UNCHANGED client
    PROVE  ListTyped'
BY DEF ListTyped, Change, client

LEMMA ChangesStep ==
    ASSUME VisibilityInv,
           \/ Connects \/ CreatesChannel \/ DeletesChannel \/ DropsMember \/ JoinsServer
           \/ \E gives \in BOOLEAN : ChangesRoles(gives)
           \/ \E entry \in Overwrite, ofChannel \in BOOLEAN : UpdatesOverwrites(entry, ofChannel)
    PROVE  VisibilityInv'
<1> USE DEF VisibilityInv, SocketTyped
<1>1. ListTyped' /\ changes \in Nat /\ now \in Views
  <2>1. Change /\ UNCHANGED client
    BY DEF Connects, CreatesChannel, DeletesChannel, DropsMember, JoinsServer, ChangesRoles, UpdatesOverwrites
  <2> QED
    BY <2>1, ChangesListTyped DEF HandlersTyped, ListTyped
<1>2. CASE Connects
  <2> PICK n : n = Handler("connect", "view", Unread, FALSE)
    OBVIOUS
  <2>1. n \in Handlers /\ n.kind = "connect" /\ n.at = "view"
    BY <1>1, UnreadIsView DEF Handler, Handlers
  <2>2. Starts(now, n)
    BY <1>2 DEF Connects
  <2>3. HandlersTyped'
    BY <1>1, <2>1, <2>2, StartsTyped
  <2>4. now' = now /\ ~inRoom' /\ inRoom' \in BOOLEAN /\ connected' /\ n \in jobs' /\ jobs \subseteq jobs' /\ UNCHANGED client
    BY <1>2, <2>2 DEF Connects, Starts
  <2>5. WillAdmit(n)'
    BY <2>1, <2>4 DEF WillAdmit, WillJoin
  <2>6. RoomSeenTo'
    BY <2>4, <2>5 DEF RoomSeenTo
  <2>7. \A q : WillTell(q)' = WillTell(q)
    BY <2>4 DEF WillTell, client, Full
  <2>8. ListSeenTo'
    BY <2>4, <2>7 DEF ListSeenTo, client, Full
  <2> QED
    BY <1>1, <2>3, <2>4, <2>6, <2>8
<1>3. ASSUME NEW gives \in BOOLEAN, ChangesRoles(gives) PROVE VisibilityInv'
  <2> PICK v : v = [now EXCEPT !.base = gives]
    OBVIOUS
  <2> PICK n : n = Handler("refresh", "view", Unread, TRUE)
    OBVIOUS
  <2>1. n \in Handlers /\ n.kind = "refresh" /\ n.at = "view" /\ n.announce
    BY <1>1, UnreadIsView DEF Handler, Handlers
  <2>2. Starts(v, n) /\ UNCHANGED <<connected, inRoom, roomAstray, client>>
    BY <1>3 DEF ChangesRoles, Refresh
  <2>3. v \in Views /\ v.over = now.over /\ v.member /\ now.member
    BY <1>1, <1>3 DEF Views, ChangesRoles
  <2>4. HandlersTyped'
    BY <2>1, <2>2, <2>3, StartsTyped
  <2>5. ASSUME Made(now.over) PROVE RoomSeenTo'
    <3>1. WillRefresh(n)'
      BY <2>1, <2>2, <2>3, <2>5 DEF WillRefresh, Starts
    <3> QED
      BY <2>2, <3>1, MoverStarts DEF WillRemove, WillAdmit
  <2>6. ASSUME ~Made(now.over) PROVE RoomSeenTo'
    <3>1. ~Full(now) /\ ~Full(v)
      BY <2>3, <2>6 DEF Full, Made, Overwrite
    <3>2. \A q \in jobs : WillRemove(q) => WillRemove(q)'
      BY <2>2, <2>3 DEF WillRemove, WillRefresh, Starts
    <3> QED
      BY <2>2, <3>1, <3>2, RemoversStay
  <2>7. WillTell(n)'
    BY <2>1 DEF WillTell
  <2>8. RoomSeenTo' /\ ListSeenTo'
    BY <2>2, <2>5, <2>6, <2>7, TellerStarts
  <2> QED
    BY <1>1, <2>2, <2>4, <2>8
<1>4. ASSUME NEW entry \in Overwrite, NEW ofChannel \in BOOLEAN, UpdatesOverwrites(entry, ofChannel)
      PROVE  VisibilityInv'
  <2> PICK v : v = [now EXCEPT !.over = entry]
    OBVIOUS
  <2> PICK n : n = IF ofChannel THEN RefreshAfterEvent(entry, TRUE) ELSE Refresh(TRUE)
    OBVIOUS
  <2>1. n \in Handlers /\ n.kind = "refresh" /\ n.at \in {"event", "view"} /\ n.announce
    <3>1. [Unread EXCEPT !.over = entry] \in Views
      BY DEF Unread, Views
    <3> QED
      BY <1>1, <3>1, UnreadIsView DEF Handler, Handlers, RefreshAfterEvent, Refresh
  <2>2. Starts(v, n) /\ UNCHANGED <<connected, inRoom, roomAstray, client>>
    BY <1>4 DEF UpdatesOverwrites
  <2>3. v \in Views /\ v.over = entry /\ v.member = now.member /\ Made(now.over) /\ Made(v.over)
    BY <1>1, <1>4 DEF Views, UpdatesOverwrites, Made
  <2>4. HandlersTyped'
    BY <2>1, <2>2, <2>3, StartsTyped DEF Made, Overwrite
  <2>5. ASSUME v.member PROVE RoomSeenTo'
    <3>1. WillRefresh(n)'
      BY <2>1, <2>2, <2>3, <2>5 DEF WillRefresh, Starts
    <3> QED
      BY <2>2, <3>1, MoverStarts DEF WillRemove, WillAdmit
  <2>6. ASSUME ~v.member PROVE RoomSeenTo'
    <3>1. ~Full(now) /\ ~Full(v)
      BY <2>3, <2>6 DEF Full
    <3>2. \A q \in jobs : WillRemove(q) => WillRemove(q)'
      BY <2>2, <2>3 DEF WillRemove, WillRefresh, Starts
    <3> QED
      BY <2>2, <3>1, <3>2, RemoversStay
  <2>7. WillTell(n)'
    BY <2>1 DEF WillTell
  <2>8. RoomSeenTo' /\ ListSeenTo'
    BY <2>2, <2>5, <2>6, <2>7, TellerStarts
  <2> QED
    BY <1>1, <2>2, <2>4, <2>8
<1>5. CASE CreatesChannel
  <2> PICK entry \in Overwrite : Starts([now EXCEPT !.over = entry], RefreshAfterEvent(entry, FALSE))
    BY <1>5 DEF CreatesChannel
  <2> PICK v : v = [now EXCEPT !.over = entry]
    OBVIOUS
  <2> PICK n : n = RefreshAfterEvent(entry, FALSE)
    OBVIOUS
  <2>1. n \in Handlers /\ n.kind = "refresh" /\ n.at = "event" /\ n.seen.over = entry
    <3>1. [Unread EXCEPT !.over = entry] \in Views /\ [Unread EXCEPT !.over = entry].over = entry
      BY DEF Unread, Views
    <3> QED
      BY <1>1, <3>1 DEF Handler, Handlers, RefreshAfterEvent
  <2>2. Starts(v, n) /\ now.over = "unmade" /\ UNCHANGED <<connected, inRoom, roomAstray, client>>
    BY <1>5 DEF CreatesChannel
  <2>3. v \in Views /\ v.over = entry /\ v.member = now.member /\ Made(v.over) /\ ~Made(now.over)
    BY <1>1, <2>2 DEF Views, Made, Overwrite
  <2>4. HandlersTyped'
    BY <2>1, <2>2, <2>3, StartsTyped
  <2>5. ~Full(now)
    BY <2>2 DEF Full
  <2>6. ASSUME v.member PROVE RoomSeenTo'
    <3>1. WillRefresh(n)'
      BY <2>1, <2>2, <2>3, <2>6 DEF WillRefresh, Starts
    <3> QED
      BY <2>2, <3>1, MoverStarts DEF WillRemove, WillAdmit
  <2>7. ASSUME ~v.member PROVE RoomSeenTo'
    <3>1. ~Full(v)
      BY <2>7 DEF Full
    <3>2. \A q \in jobs : WillRemove(q) => WillRemove(q)'
      BY <2>2, <2>3 DEF WillRemove, WillRefresh, Starts
    <3> QED
      BY <2>2, <2>5, <3>1, <3>2, RemoversStay
  <2>8. ListSeenTo'
    <3>1. list = "without" => WillTell(n)'
      BY <2>1, <2>2, <2>3 DEF WillTell, Starts, client
    <3>2. \A q \in jobs : list = "with" /\ WillTell(q) => WillTell(q)'
      BY <2>2 DEF WillTell, client
    <3>3. CASE Full(v)
      BY <1>1, <2>2, <2>3, <3>1, <3>3 DEF ListSeenTo, ListTyped, client, Starts, Full
    <3>4. CASE ~Full(v)
      BY <2>2, <2>3, <2>5, <3>2, <3>4, TellersStay
    <3> QED
      BY <3>3, <3>4
  <2> QED
    BY <1>1, <2>2, <2>4, <2>6, <2>7, <2>8
<1>6. CASE DeletesChannel
  <2> PICK v : v = [now EXCEPT !.over = "gone"]
    OBVIOUS
  <2> PICK n : n = Handler("delete", "sweep", Unread, FALSE)
    OBVIOUS
  <2>1. n \in Handlers /\ n.kind = "delete" /\ n.at = "sweep"
    BY <1>1, UnreadIsView DEF Handler, Handlers
  <2>2. Starts(v, n) /\ UNCHANGED <<connected, inRoom, roomAstray, client>>
    BY <1>6 DEF DeletesChannel
  <2>3. v \in Views /\ v.over = "gone" /\ v.member = now.member /\ ~Full(v)
    BY <1>1 DEF Views, Full
  <2>4. HandlersTyped'
    BY <2>1, <2>2, <2>3, StartsTyped
  <2>5. WillRemove(n)'
    BY <2>1 DEF WillRemove
  <2>6. RoomSeenTo'
    BY <2>2, <2>3, <2>5, MoverStarts
  <2>7. ListSeenTo'
    <3>1. list = "with" => WillTell(n)'
      BY <2>1, <2>2 DEF WillTell, client
    <3> QED
      BY <2>2, <2>3, <3>1 DEF ListSeenTo, client, Starts, Full
  <2> QED
    BY <1>1, <2>2, <2>4, <2>6, <2>7
<1>7. CASE DropsMember
  <2> PICK v : v = [now EXCEPT !.member = FALSE, !.base = FALSE]
    OBVIOUS
  <2> PICK n : n = Handler("removal", "sweep", Unread, FALSE)
    OBVIOUS
  <2>1. n \in Handlers /\ n.kind = "removal" /\ n.at = "sweep"
    BY <1>1, UnreadIsView DEF Handler, Handlers
  <2>2. Starts(v, n) /\ UNCHANGED <<connected, inRoom, roomAstray, client>>
    BY <1>7 DEF DropsMember
  <2>3. v \in Views /\ v.over = now.over /\ ~v.member /\ ~Full(v)
    BY <1>1 DEF Views, Full
  <2>4. HandlersTyped'
    BY <2>1, <2>2, <2>3, StartsTyped
  <2>5. ASSUME Made(now.over) PROVE RoomSeenTo'
    <3>1. WillRemove(n)'
      BY <2>1, <2>2, <2>3, <2>5 DEF WillRemove, Starts
    <3> QED
      BY <2>2, <2>3, <3>1, MoverStarts
  <2>6. ASSUME ~Made(now.over) PROVE RoomSeenTo'
    <3>1. ~Full(now)
      BY <2>6 DEF Full, Made, Overwrite
    <3>2. \A q \in jobs : WillRemove(q) => WillRemove(q)'
      BY <2>2, <2>3, <2>6 DEF WillRemove, WillRefresh, Starts
    <3> QED
      BY <2>2, <2>3, <3>1, <3>2, RemoversStay
  <2>7. RoomSeenTo' /\ ListSeenTo'
    BY <2>2, <2>3, <2>5, <2>6 DEF ListSeenTo, Starts
  <2> QED
    BY <1>1, <2>2, <2>4, <2>7
<1>8. CASE JoinsServer
  <2> PICK everyones \in BOOLEAN :
          LET v == [now EXCEPT !.member = TRUE, !.base = everyones]
          IN  Starts(v, Handler("join", "channels", v, FALSE))
    BY <1>8 DEF JoinsServer
  <2> PICK v : v = [now EXCEPT !.member = TRUE, !.base = everyones]
    OBVIOUS
  <2> PICK n : n = Handler("join", "channels", v, FALSE)
    OBVIOUS
  <2>1. v \in Views /\ v.over = now.over /\ v.member
    BY <1>1 DEF Views
  <2>2. n \in Handlers /\ n.kind = "join" /\ n.at = "channels" /\ n.seen = v
    BY <1>1, <2>1 DEF Handler, Handlers
  <2>3. Starts(v, n) /\ ~now.member /\ UNCHANGED <<connected, inRoom, roomAstray, client>>
    BY <1>8 DEF JoinsServer
  <2>4. HandlersTyped'
    BY <2>1, <2>2, <2>3, StartsTyped
  <2>5. ~Full(now)
    BY <2>3 DEF Full
  <2>6. WillAdmit(n)'
    BY <2>2, <2>3 DEF WillAdmit, WillJoin, Starts
  <2>7. \A q \in jobs : WillRemove(q) => WillRemove(q)'
    BY <2>1, <2>3 DEF WillRemove, WillRefresh, Starts
  <2>8. RoomSeenTo'
    <3>1. CASE Full(v)
      BY <2>3, <2>5, <2>6, <3>1 DEF RoomSeenTo, Starts, Full
    <3>2. CASE ~Full(v)
      BY <2>3, <2>5, <2>7, <3>2, RemoversStay
    <3> QED
      BY <3>1, <3>2
  <2>9. WillTell(n)'
    BY <2>2 DEF WillTell
  <2>10. ListSeenTo'
    BY <2>3, <2>9, TellerStarts
  <2> QED
    BY <1>1, <2>3, <2>4, <2>8, <2>10
<1> QED
  BY <1>2, <1>3, <1>4, <1>5, <1>6, <1>7, <1>8

\* The handlers' last steps.
LEMMA EndsTyped ==
    ASSUME HandlersTyped, NEW q, Ends(q), UNCHANGED now
    PROVE  HandlersTyped'
BY DEF HandlersTyped, Ends

\* The list, when a handler ends that was not to tell, or the list was told.
LEMMA EndsWillTell ==
    ASSUME ListSeenTo, NEW q, Ends(q), UNCHANGED <<now, client>>,
           now.member /\ ~(list = "with" <=> Full(now)) => ~WillTell(q)
    PROVE  ListSeenTo'
<1>1. Full(now)' = Full(now) /\ \A h : WillTell(h)' = WillTell(h)
  BY DEF Full, WillTell, client
<1>2. now.member /\ ~(list = "with" <=> Full(now)) =>
          ((\E h \in jobs : WillTell(h)) => \E h \in jobs' : WillTell(h)')
  BY <1>1 DEF Ends
<1> QED
  BY <1>1, <1>2 DEF ListSeenTo, client

LEMMA AnnounceTells ==
    ASSUME ListTyped, Announce, UNCHANGED changes
    PROVE  ListTyped' /\ ListSeenTo'
<1>1. ListTyped'
  BY DEF Announce, ListTyped
<1>2. ASSUME connected PROVE ListSeenTo'
  BY <1>2 DEF Announce, ListSeenTo
<1>3. ASSUME ~connected PROVE ListSeenTo'
  <2>1. listAstray' = (listAstray \/ list # "none") /\ list' = list
    BY <1>3 DEF Announce
  <2>2. list' # "none" => listAstray'
    BY <2>1, Zenon
  <2> QED
    BY <2>2, Zenon DEF ListSeenTo
<1> QED
  BY <1>1, <1>2, <1>3

LEMMA EndsStep ==
    ASSUME VisibilityInv, NEW q \in jobs,
           \/ Emits(q) \/ Refreshes(q) \/ SetsUp(q) \/ Welcomes(q) \/ Sweeps(q)
           \/ EventFails(q) \/ HandlerFails(q)
    PROVE  VisibilityInv'
<1> USE DEF VisibilityInv, SocketTyped
<1>1. /\ q \in Handlers /\ now \in Views /\ UNCHANGED <<now, connected, changes>>
      /\ q.kind \in {"removal", "delete"} <=> q.at = "sweep"
      /\ q.at \in {"event", "emit"} => q.kind = "refresh"
      /\ q.kind = "delete" => now.over = "gone"
  BY DEF HandlersTyped, Emits, Refreshes, SetsUp, Welcomes, Sweeps, EventFails, HandlerFails
<1>2. Full(now)' = Full(now) /\ Full(now) \in BOOLEAN /\ Full(q.seen) \in BOOLEAN
  BY <1>1 DEF Full, Handlers, Views
<1>3. SocketTyped'
  <2>1. \/ UNCHANGED inRoom
        \/ \E there \in BOOLEAN : Put(there)
    BY <1>2 DEF Emits, Refreshes, SetsUp, Welcomes, Sweeps, EventFails, HandlerFails
  <2> QED
    BY <1>1, <2>1 DEF Put
<1>4. CASE Emits(q)
  <2> PICK r : r = [q EXCEPT !.at = "view", !.seen = Unread]
    OBVIOUS
  <2>1. Reads(q, r) /\ r.at = "view" /\ q.at = "emit" /\ UNCHANGED <<inRoom, roomAstray, coalescing, asked, answers>>
    BY <1>1, <1>4, UnreadIsView DEF Emits, Reads, Handlers
  <2>2. HandlersTyped'
    BY <1>1, <2>1, ReadsOn
  <2>3. (WillRemove(q) => WillRemove(r)) /\ (WillAdmit(q) => WillAdmit(r))
    BY <1>1, <2>1 DEF WillRemove, WillAdmit, WillJoin, WillRefresh, Reads
  <2>4. RoomSeenTo'
    BY <1>1, <1>2, <2>1, <2>3, OthersStillMove DEF RoomSeenTo, Reads
  <2>5. CASE Full(q.seen) /\ list = "without"
    <3>1. /\ list' = IF connected THEN "with" ELSE list
          /\ listAstray' = ~(connected /\ Full(now))
      BY <1>4, <2>5 DEF Emits
    <3>2. ListTyped'
      BY <1>1, <2>1, <3>1 DEF ListTyped
    <3>3. ListSeenTo'
      BY <1>2, <3>1 DEF ListSeenTo
    <3> QED
      BY <1>3, <2>2, <2>4, <3>2, <3>3
  <2>6. CASE ~(Full(q.seen) /\ list = "without")
    <3>1. UNCHANGED <<list, listAstray>>
      BY <1>4, <2>6 DEF Emits
    <3>2. ListTyped'
      BY <1>1, <2>1, <3>1 DEF ListTyped
    <3>3. \A h : WillTell(h)' = WillTell(h)
      BY <1>1, <3>1 DEF WillTell, Full
    <3>4. WillTell(q) => WillTell(r)
      BY <1>1, <2>1, <2>6 DEF WillTell, Reads
    <3>5. ListSeenTo'
      BY <1>1, <1>2, <2>1, <3>1, <3>3, <3>4 DEF ListSeenTo, Reads
    <3> QED
      BY <1>3, <2>2, <2>4, <3>2, <3>5
  <2> QED
    BY <2>5, <2>6
<1>5. ASSUME Ends(q) PROVE HandlersTyped'
  BY <1>1, <1>5, EndsTyped
<1>6. ASSUME Ends(q), UNCHANGED <<inRoom, roomAstray>>,
             inRoom /\ ~Full(now) => ~WillRemove(q), ~inRoom /\ Full(now) => ~WillAdmit(q)
      PROVE  RoomSeenTo'
  BY <1>1, <1>6, EndsSeenTo
<1>7. ASSUME NEW there \in BOOLEAN, Put(there) PROVE RoomSeenTo'
  BY <1>1, <1>7, PutSeenTo
<1>8. ASSUME Ends(q), UNCHANGED client, now.member /\ ~(list = "with" <=> Full(now)) => ~WillTell(q)
      PROVE  ListTyped' /\ ListSeenTo'
  <2>1. ListTyped'
    BY <1>1, <1>8 DEF ListTyped, client
  <2> QED
    BY <1>1, <1>8, <2>1, EndsWillTell
<1>9. CASE Refreshes(q)
  <2>1. q.at = "apply" /\ q.kind = "refresh" /\ Ends(q)
    BY <1>9 DEF Refreshes
  <2>2. ASSUME q.seen.member, Made(q.seen.over) PROVE RoomSeenTo'
    <3>1. Put(Full(q.seen))
      BY <1>9, <2>2 DEF Refreshes
    <3> QED
      BY <1>2, <1>7, <3>1
  <2>3. ASSUME ~(q.seen.member /\ Made(q.seen.over)) PROVE RoomSeenTo'
    <3>1. UNCHANGED <<inRoom, roomAstray>>
      BY <1>9, <2>3 DEF Refreshes
    <3>2. ~WillRemove(q) /\ ~WillAdmit(q)
      BY <2>1, <2>3 DEF WillRemove, WillAdmit, WillRefresh, WillJoin
    <3> QED
      BY <1>6, <2>1, <3>1, <3>2
  <2>4. ASSUME q.seen.member, q.announce PROVE ListTyped' /\ ListSeenTo'
    <3>1. Announce
      BY <1>9, <2>4 DEF Refreshes
    <3> QED
      BY <1>1, <3>1, AnnounceTells
  <2>5. ASSUME ~(q.seen.member /\ q.announce) PROVE ListTyped' /\ ListSeenTo'
    <3>1. UNCHANGED client
      BY <1>9, <2>5 DEF Refreshes
    <3>2. ~WillTell(q)
      BY <2>1, <2>5 DEF WillTell
    <3> QED
      BY <1>8, <2>1, <3>1, <3>2
  <2> QED
    BY <1>3, <1>5, <2>1, <2>2, <2>3, <2>4, <2>5
<1>10. CASE SetsUp(q)
  <2>1. q.at = "apply" /\ q.kind = "connect" /\ Ends(q) /\ UNCHANGED client
    BY <1>10 DEF SetsUp
  <2>2. ASSUME Full(q.seen) PROVE RoomSeenTo'
    BY <1>7, <1>10, <2>2 DEF SetsUp
  <2>3. ASSUME ~Full(q.seen) PROVE RoomSeenTo'
    <3>1. UNCHANGED <<inRoom, roomAstray>>
      BY <1>10, <2>3 DEF SetsUp
    <3>2. ~WillRemove(q) /\ ~WillAdmit(q)
      BY <2>1, <2>3 DEF WillRemove, WillAdmit, WillRefresh, WillJoin
    <3> QED
      BY <1>6, <2>1, <3>1, <3>2
  <2>4. ~WillTell(q)
    BY <2>1 DEF WillTell
  <2> QED
    BY <1>3, <1>5, <1>8, <2>1, <2>2, <2>3, <2>4
<1>11. CASE Welcomes(q)
  <2>1. /\ q.at = "apply" /\ q.kind = "join" /\ Ends(q)
        /\ answers' = Append(answers, Full(q.seen))
        /\ UNCHANGED <<list, coalescing, asked, listAstray>>
    BY <1>11 DEF Welcomes
  <2>2. ASSUME Full(q.seen) PROVE RoomSeenTo'
    BY <1>7, <1>11, <2>2 DEF Welcomes
  <2>3. ASSUME ~Full(q.seen) PROVE RoomSeenTo'
    <3>1. UNCHANGED <<inRoom, roomAstray>>
      BY <1>11, <2>3 DEF Welcomes
    <3>2. ~WillRemove(q) /\ ~WillAdmit(q)
      BY <2>1, <2>3 DEF WillRemove, WillAdmit, WillRefresh, WillJoin
    <3> QED
      BY <1>6, <2>1, <3>1, <3>2
  <2>4. ListTyped' /\ answers' # <<>>
    BY <1>1, <1>2, <2>1 DEF ListTyped
  <2>5. ListSeenTo'
    BY <2>4 DEF ListSeenTo
  <2> QED
    BY <1>3, <1>5, <2>1, <2>2, <2>3, <2>4, <2>5
<1>12. CASE Sweeps(q)
  <2>1. q.at = "sweep" /\ Ends(q) /\ UNCHANGED <<coalescing, asked, answers>>
    BY <1>12 DEF Sweeps
  <2>2. ASSUME q.kind = "removal" => Made(now.over) PROVE RoomSeenTo'
    BY <1>7, <1>12, <2>2 DEF Sweeps
  <2>3. ASSUME ~(q.kind = "removal" => Made(now.over)) PROVE RoomSeenTo'
    <3>1. UNCHANGED <<inRoom, roomAstray>>
      BY <1>12, <2>3 DEF Sweeps
    <3>2. ~WillRemove(q) /\ ~WillAdmit(q)
      BY <2>1, <2>3 DEF WillRemove, WillAdmit, WillRefresh, WillJoin
    <3> QED
      BY <1>6, <2>1, <3>1, <3>2
  <2>4. ASSUME q.kind = "delete", list = "with" PROVE ListTyped' /\ ListSeenTo'
    <3>1. list' = (IF connected THEN "without" ELSE list) /\ listAstray' = ~connected
      BY <1>12, <2>4 DEF Sweeps
    <3>2. ~Full(now)
      BY <1>1, <2>4 DEF Full
    <3>3. ListTyped'
      BY <1>1, <2>1, <3>1 DEF ListTyped
    <3>4. ListSeenTo'
      BY <1>2, <3>1, <3>2 DEF ListSeenTo
    <3> QED
      BY <3>3, <3>4
  <2>5. ASSUME ~(q.kind = "delete" /\ list = "with") PROVE ListTyped' /\ ListSeenTo'
    <3>1. UNCHANGED client
      BY <1>12, <2>1, <2>5 DEF Sweeps, client
    <3>2. ~WillTell(q)
      BY <1>1, <2>1, <2>5 DEF WillTell
    <3> QED
      BY <1>8, <2>1, <3>1, <3>2
  <2> QED
    BY <1>3, <1>5, <2>1, <2>2, <2>3, <2>4, <2>5
<1>13. CASE EventFails(q)
  <2> PICK r : r = [q EXCEPT !.at = "view", !.seen = Unread]
    OBVIOUS
  <2>1. /\ Reads(q, r) /\ r.at = "view" /\ q.at = "event" /\ listAstray'
        /\ UNCHANGED <<inRoom, roomAstray, list, asked, answers>>
    BY <1>1, <1>13, UnreadIsView DEF EventFails, Reads, Handlers
  <2>2. HandlersTyped'
    BY <1>1, <2>1, ReadsOn
  <2>3. (WillRemove(q) => WillRemove(r)) /\ (WillAdmit(q) => WillAdmit(r))
    BY <1>1, <2>1 DEF WillRemove, WillAdmit, WillJoin, WillRefresh, Reads
  <2>4. RoomSeenTo'
    BY <1>1, <1>2, <2>1, <2>3, OthersStillMove DEF RoomSeenTo, Reads
  <2>5. ListTyped' /\ ListSeenTo'
    BY <1>1, <2>1 DEF ListTyped, ListSeenTo
  <2> QED
    BY <1>3, <2>2, <2>4, <2>5
<1>14. CASE HandlerFails(q)
  <2>1. /\ Ends(q) /\ (connected => roomAstray') /\ listAstray' = (listAstray \/ q.kind # "connect")
        /\ UNCHANGED <<list, coalescing, asked, answers>>
    BY <1>14 DEF HandlerFails
  <2>2. RoomSeenTo' /\ ListTyped'
    BY <1>1, <2>1 DEF ListTyped, RoomSeenTo
  <2>3. CASE q.kind # "connect"
    <3>1. listAstray'
      BY <2>1, <2>3, Zenon
    <3> QED
      BY <1>3, <1>5, <2>1, <2>2, <3>1 DEF ListSeenTo
  <2>4. CASE q.kind = "connect"
    <3>1. ~WillTell(q)
      BY <1>1, <2>4 DEF WillTell
    <3>2. listAstray' <=> listAstray
      BY <2>1, <2>4
    <3>3. \A h : WillTell(h)' = WillTell(h)
      BY <1>1, <2>1 DEF WillTell, Full
    <3>4. ASSUME now.member, list # "none", ~listAstray, ~(list = "with" <=> Full(now))
          PROVE  coalescing \/ asked > 0 \/ answers # <<>> \/ \E h \in jobs' : WillTell(h)
      BY <2>1, <3>1, <3>4 DEF ListSeenTo, Ends
    <3>5. ListSeenTo'
      BY <1>1, <1>2, <2>1, <3>2, <3>3, <3>4 DEF ListSeenTo
    <3> QED
      BY <1>3, <1>5, <2>1, <2>2, <3>5
  <2> QED
    BY <2>3, <2>4
<1> QED
  BY <1>4, <1>9, <1>10, <1>11, <1>12, <1>13, <1>14

\* What one answer leaves of the others.
LEMMA ReceivesTyped ==
    ASSUME ListTyped, NEW i \in DOMAIN answers
    PROVE  answers[i] \in BOOLEAN /\ RemoveAt(answers, i) \in Seq(BOOLEAN)
<1>1. /\ answers \in Seq(BOOLEAN) /\ i \in 1..Len(answers)
  BY DEF ListTyped
<1>2. /\ answers[i] \in BOOLEAN
      /\ SubSeq(answers, 1, i - 1) \in Seq(BOOLEAN) /\ SubSeq(answers, i + 1, Len(answers)) \in Seq(BOOLEAN)
  BY <1>1
<1> QED
  BY <1>2 DEF RemoveAt

\* The client, and the connection going.
LEMMA ClientStep ==
    ASSUME VisibilityInv,
           \/ Disconnects \/ OpensServer \/ TimerFires \/ ReadsDetail \/ GetFails
           \/ \E i \in DOMAIN answers : Receives(i)
    PROVE  VisibilityInv'
<1> USE DEF VisibilityInv, SocketTyped
<1>1. Full(now) \in BOOLEAN /\ (now' = now => Full(now)' = Full(now))
  BY DEF Full, HandlersTyped, Views
<1>2. CASE Disconnects
  <2>1. /\ ~connected' /\ ~inRoom' /\ inRoom' \in BOOLEAN /\ jobs' = {q \in jobs : q.kind # "connect"}
        /\ UNCHANGED <<now, client, changes>>
    BY <1>2 DEF Disconnects
  <2>2. HandlersTyped' /\ ListTyped' /\ RoomSeenTo'
    BY <2>1 DEF HandlersTyped, ListTyped, RoomSeenTo, client
  <2>3. \A q \in jobs : WillTell(q) => q \in jobs' /\ WillTell(q)'
    BY <2>1 DEF WillTell, HandlersTyped, client, Full
  <2>4. ListSeenTo'
    BY <1>1, <2>1, <2>3 DEF ListSeenTo, client
  <2> QED
    BY <2>1, <2>2, <2>4
<1>3. ASSUME UNCHANGED server PROVE HandlersTyped' /\ RoomSeenTo' /\ SocketTyped'
  BY <1>1, <1>3, OthersStillMove DEF server, HandlersTyped, RoomSeenTo
<1>4. ASSUME UNCHANGED <<server, list>> PROVE \A q : WillTell(q)' = WillTell(q)
  BY <1>4 DEF WillTell, Full, server
<1>5. CASE OpensServer \/ TimerFires
  <2>1. /\ UNCHANGED <<server, list, answers, listAstray>> /\ asked' \in Nat
        /\ list = "none" \/ asked' > 0
    BY <1>5 DEF OpensServer, TimerFires, ListTyped
  <2>2. ListTyped'
    BY <1>5, <2>1 DEF OpensServer, TimerFires, ListTyped, server
  <2>3. ListSeenTo'
    <3>1. list' = list /\ (list' = "none" \/ asked' > 0)
      BY <2>1
    <3> QED
      BY <3>1, Zenon DEF ListSeenTo
  <2> QED
    BY <1>3, <2>1, <2>2, <2>3
<1>6. CASE ReadsDetail
  <2>1. /\ UNCHANGED <<server, list, coalescing, listAstray>> /\ asked' \in Nat
        /\ answers' = IF now.member THEN Append(answers, Full(now)) ELSE answers
    BY <1>6 DEF ReadsDetail, ListTyped
  <2>2. ListTyped' /\ (now.member => answers' # <<>>)
    <3> PICK b \in BOOLEAN : b = Full(now)
      BY <1>1
    <3>1. answers \in Seq(BOOLEAN) /\ Append(answers, b) \in Seq(BOOLEAN) /\ Append(answers, b) # <<>>
      BY DEF ListTyped
    <3>2. answers' = IF now.member THEN Append(answers, b) ELSE answers
      BY <2>1
    <3>3. answers' \in Seq(BOOLEAN) /\ (now.member => answers' # <<>>)
      BY <3>1, <3>2
    <3> QED
      BY <2>1, <3>3 DEF ListTyped, server
  <2>3. ListSeenTo'
    BY <2>1, <2>2 DEF ListSeenTo, server
  <2> QED
    BY <1>3, <2>1, <2>2, <2>3
<1>7. CASE GetFails
  BY <1>3, <1>7 DEF GetFails, ListTyped, ListSeenTo, server
<1>8. ASSUME NEW i \in DOMAIN answers, Receives(i) PROVE VisibilityInv'
  <2>1. /\ UNCHANGED <<server, coalescing, asked>> /\ answers' \in Seq(BOOLEAN)
        /\ list' = IF answers[i] THEN "with" ELSE "without"
        /\ listAstray' = (answers[i] # Full(now)) /\ answers[i] \in BOOLEAN
    BY <1>8, ReceivesTyped DEF Receives
  <2>2. ListTyped'
    BY <2>1 DEF ListTyped, server
  <2>3. Full(now)' = Full(now)
    BY <1>1, <2>1 DEF server
  <2>4. ListSeenTo'
    BY <1>1, <2>1, <2>3 DEF ListSeenTo
  <2> QED
    BY <1>3, <2>1, <2>2, <2>4
<1> QED
  BY <1>2, <1>5, <1>6, <1>7, <1>8

LEMMA VisibilityStep ==
    ASSUME VisibilityInv, [VisibilityNext]_visibility
    PROVE  VisibilityInv'
<1>1. ASSUME NEW q \in jobs, ReadsForEvent(q) \/ ReadsView(q) \/ ReadsChannels(q)
      PROVE  VisibilityInv'
  <2>1. UNCHANGED <<inRoom, connected, client, changes>>
    BY <1>1 DEF ReadsForEvent, ReadsView, ReadsChannels
  <2> QED
    BY <1>1, <2>1, ReadsSeenTo, ReadsWillTell DEF VisibilityInv, SocketTyped, ListTyped, client
<1>2. CASE UNCHANGED visibility
  <2>1. \A q : (WillTell(q) <=> WillTell(q)') /\ (WillRemove(q) <=> WillRemove(q)') /\ (WillAdmit(q) <=> WillAdmit(q)')
    BY <1>2 DEF visibility, WillTell, WillRemove, WillAdmit, WillRefresh, WillJoin, Full, Made
  <2>2. Full(now)' = Full(now)
    BY <1>2 DEF visibility, Full
  <2> QED
    BY <1>2, <2>1, <2>2 DEF visibility, VisibilityInv, SocketTyped, HandlersTyped, ListTyped, RoomSeenTo, ListSeenTo
<1> QED
  BY <1>1, <1>2, ChangesStep, EndsStep, ClientStep DEF VisibilityNext

\* Nothing under way, and both are as they should be.
LEMMA VisibilityEnds == VisibilityInv => RoomsFollow /\ SidebarFollows
<1> SUFFICES ASSUME VisibilityInv PROVE RoomsFollow /\ SidebarFollows
  OBVIOUS
<1>1. RoomsFollow
  BY DEF VisibilityInv, SocketTyped, RoomSeenTo, RoomsFollow, Full, HandlersTyped, Views
<1>2. SidebarFollows
  BY DEF VisibilityInv, ListSeenTo, SidebarFollows, Quiet, ListTyped, Full, HandlersTyped, Views
<1> QED
  BY <1>1, <1>2

-----------------------------------------------------------------------------
(* The upload queue.                                                           *)

\* A try goes up as the session its file was added in.  One that was not stopped is
\* this session's, and its row says that it is under way.
TryOk(t, D, F, own, e) ==
    /\ Record(t, {"id", "era", "as", "at", "again", "stopped"})
    /\ t.id \in 1 .. Len(own) /\ t.as = own[t.id] /\ t.era = own[t.id]
    /\ t.stopped \in BOOLEAN
    /\ ~t.stopped => t.era = e /\ t.id \in F
    /\ t.id \in D => ~t.stopped

\* The rows D, of which P wait and F are under way; the tries ts, the Files fs.
Lined(D, P, F, ts, fs, own, e) ==
    /\ D \subseteq 1 .. Len(own) /\ \A i \in D : own[i] = e
    /\ P \subseteq D /\ F \subseteq D /\ P \cap F = {}
    /\ \A i, j \in F : i = j
    /\ fs = P \cup F
    /\ \A t \in ts : TryOk(t, D, F, own, e)
    /\ \A t, u \in ts : t.id = u.id => t = u
    /\ \A i \in F : \E t \in ts : t.id = i

GoingOn(P, F, h, tm, g) ==
    /\ h \in BOOLEAN /\ g \in Nat /\ tm \in Nat \cup {NoTimer}
    /\ P # {} => F # {} \/ h \/ tm # NoTimer
    /\ h => P # {} /\ F = {}
    /\ tm # NoTimer => tm >= g

\* A file the server has made a track of, or is making one of unheard, waits no
\* more, and what is still about of it only waits for the answer.
Copied(P, ts, n, cs, os, cut) ==
    \A i \in FileIds \ cut :
        /\ cs[i] + os[i] <= 1
        /\ cs[i] + os[i] = 1 => i \in 1 .. n /\ i \notin P /\ \A t \in ts : t.id = i => t.at = "landed"

UploadTypes ==
    /\ items = [i \in DOMAIN items |-> items[i]]
    /\ owner \in Seq(Nat) /\ Len(owner) <= MaxFiles
    /\ era \in Nat /\ total \in Nat /\ done \in Nat
    /\ copies \in [FileIds -> Nat] /\ orphans \in [FileIds -> Nat]

UploadInv ==
    /\ UploadTypes
    /\ Lined(DOMAIN items, Pending(items), InFlight(items), tries, files, owner, era)
    /\ GoingOn(Pending(items), InFlight(items), held, timer, gate)
    /\ done + Cardinality(files) <= total
    /\ Copied(Pending(items), tries, Len(owner), copies, orphans, cutOff)
    /\ ~strayed

LEMMA FirstIs ==
    ASSUME NEW r, DOMAIN r \subseteq Nat, Pending(r) # {}
    PROVE  First(r) \in Pending(r)
<1>1. Pending(r) \in SUBSET Nat
  BY DEF Pending
<1>2. \E i \in Pending(r) : \A j \in Pending(r) : i <= j
  BY <1>1, LeastIs
<1> QED
  BY <1>2 DEF First

\* pump() sends the first that waits, when it may, and moves nothing else.
Pumped(r, h, g, ts) ==
    /\ items' = [i \in DOMAIN items' |-> items'[i]] /\ DOMAIN items' = DOMAIN r
    /\ gate' = g /\ held' \in BOOLEAN /\ (held' <=> h /\ Pending(r) \cup InFlight(r) # {})
    /\ \/ /\ Pending(items') = Pending(r) /\ InFlight(items') = InFlight(r) /\ tries' = ts
          /\ \/ InFlight(r) # {} \/ Pending(r) = {} \/ h
             \/ timer' = g
       \/ /\ InFlight(r) = {} /\ ~h
          /\ \E i \in Pending(r) : /\ Pending(items') = Pending(r) \ {i}
                                   /\ InFlight(items') = {i}
                                   /\ tries' = ts \cup {Try(i)}
    /\ timer' = g \/ timer' = NoTimer

LEMMA PumpMoves ==
    ASSUME UploadAssumption, NEW r, DOMAIN r \subseteq Nat, NEW h \in BOOLEAN, NEW g \in Nat, NEW ts,
           Pump(r, h, g, ts)
    PROVE  Pumped(r, h, g, ts)
<1>0. held' \in BOOLEAN /\ (held' <=> h /\ Pending(r) \cup InFlight(r) # {})
  BY Zenon DEF Pump
<1>1. /\ gate' = g
      /\ timer' = IF Waits(r, h, g) THEN g ELSE NoTimer
      /\ items' = [i \in DOMAIN r |->
                     IF MaySend(r, h, g) /\ i = First(r) THEN "uploading"
                     ELSE IF Waits(r, h, g) /\ i = First(r) THEN "limited"
                     ELSE IF r[i] = "limited" THEN "waiting" ELSE r[i]]
      /\ tries' = IF MaySend(r, h, g) THEN ts \cup {Try(First(r))} ELSE ts
  BY DEF Pump
<1>2. /\ DOMAIN items' = DOMAIN r /\ items' = [i \in DOMAIN items' |-> items'[i]]
      /\ timer' = g \/ timer' = NoTimer
  BY <1>1
<1>3. CASE ~MaySend(r, h, g)
  <2>1. \A i \in DOMAIN r : items'[i] = IF Waits(r, h, g) /\ i = First(r) THEN "limited"
                                        ELSE IF r[i] = "limited" THEN "waiting" ELSE r[i]
    BY <1>1, <1>3
  <2>2. Waits(r, h, g) => First(r) \in Pending(r)
    BY FirstIs DEF Waits, MayGo
  <2>3. \A i \in DOMAIN r : /\ items'[i] \in {"waiting", "limited"} <=> r[i] \in {"waiting", "limited"}
                            /\ items'[i] \in {"uploading", "converting"} <=> r[i] \in {"uploading", "converting"}
    BY <2>1, <2>2 DEF Pending
  <2>4. Pending(items') = Pending(r) /\ InFlight(items') = InFlight(r)
    BY <1>2, <2>3 DEF Pending, InFlight
  <2>5. InFlight(r) # {} \/ Pending(r) = {} \/ h \/ timer' = g
    BY <1>1, <1>3 DEF MaySend, Waits, MayGo
  <2> QED
    BY <1>0, <1>1, <1>2, <1>3, <2>4, <2>5 DEF Pumped
<1>4. CASE MaySend(r, h, g)
  <2>1. InFlight(r) = {} /\ ~h /\ Pending(r) # {} /\ ~Waits(r, h, g)
    BY <1>4 DEF MaySend, MayGo, Waits
  <2>2. PICK f : f = First(r)
    OBVIOUS
  <2>3. f \in Pending(r)
    BY <2>1, <2>2, FirstIs
  <2>4. \A i \in DOMAIN r : items'[i] = IF i = f THEN "uploading"
                                        ELSE IF r[i] = "limited" THEN "waiting" ELSE r[i]
    BY <1>1, <1>4, <2>1, <2>2
  <2>5. \A i \in DOMAIN r : /\ items'[i] \in {"waiting", "limited"} <=> r[i] \in {"waiting", "limited"} /\ i # f
                            /\ items'[i] \in {"uploading", "converting"}
                                 <=> r[i] \in {"uploading", "converting"} \/ i = f
    BY <2>4
  <2>6. Pending(items') = Pending(r) \ {f} /\ InFlight(items') = {f}
    BY <1>2, <2>1, <2>3, <2>5 DEF Pending, InFlight
  <2>7. tries' = ts \cup {Try(f)}
    BY <1>1, <1>4, <2>2
  <2> QED
    BY <1>0, <1>1, <1>2, <2>1, <2>3, <2>6, <2>7 DEF Pumped
<1> QED
  BY <1>3, <1>4

LEMMA PumpKeeps ==
    ASSUME UploadAssumption, NEW r, NEW h \in BOOLEAN, NEW g \in Nat, NEW ts, Pump(r, h, g, ts),
           NEW fs, NEW own \in Seq(Nat), era \in Nat,
           Lined(DOMAIN r, Pending(r), InFlight(r), ts, fs, own, era),
           h => InFlight(r) = {},
           NEW n, NEW cs, NEW os, NEW cut,
           Copied(Pending(r), ts, n, cs, os, cut)
    PROVE  /\ items' = [i \in DOMAIN items' |-> items'[i]]
           /\ Lined(DOMAIN items', Pending(items'), InFlight(items'), tries', fs, own, era)
           /\ GoingOn(Pending(items'), InFlight(items'), held', timer', gate')
           /\ Copied(Pending(items'), tries', n, cs, os, cut)
<1>1. DOMAIN r \subseteq Nat /\ Pending(r) \subseteq DOMAIN r /\ InFlight(r) \subseteq DOMAIN r
  BY DEF Lined
<1>0. Pumped(r, h, g, ts)
  BY <1>1, PumpMoves, Zenon
<1>2. /\ items' = [i \in DOMAIN items' |-> items'[i]] /\ DOMAIN items' = DOMAIN r
      /\ gate' = g /\ held' \in BOOLEAN /\ (held' <=> h /\ Pending(r) \cup InFlight(r) # {})
      /\ timer' = g \/ timer' = NoTimer
  BY <1>0 DEF Pumped
<1>3. NoTimer \notin Nat
  BY DEF UploadAssumption
<1>4. CASE /\ Pending(items') = Pending(r) /\ InFlight(items') = InFlight(r) /\ tries' = ts
           /\ InFlight(r) # {} \/ Pending(r) = {} \/ h \/ timer' = g
  <2>1. GoingOn(Pending(items'), InFlight(items'), held', timer', gate')
    BY <1>2, <1>3, <1>4 DEF GoingOn
  <2> QED
    BY <1>2, <1>4, <2>1
<1>5. ASSUME InFlight(r) = {}, ~h, NEW f \in Pending(r), Pending(items') = Pending(r) \ {f},
             InFlight(items') = {f}, tries' = ts \cup {Try(f)}
      PROVE  /\ Lined(DOMAIN items', Pending(items'), InFlight(items'), tries', fs, own, era)
             /\ GoingOn(Pending(items'), InFlight(items'), held', timer', gate')
             /\ Copied(Pending(items'), tries', n, cs, os, cut)
  <2>1. GoingOn(Pending(items'), InFlight(items'), held', timer', gate')
    BY <1>2, <1>3, <1>5 DEF GoingOn
  <2>2. PICK u : u = Try(f)
    OBVIOUS
  <2>3. /\ Record(u, {"id", "era", "as", "at", "again", "stopped"}) /\ u.stopped = FALSE
        /\ u.id = f /\ u.era = era /\ u.as = era /\ u.at = "sending"
    BY <2>2 DEF Try, Record
  <2>4. \A t \in ts : t.id \notin DOMAIN r /\ t.stopped
    BY <1>5 DEF Lined, TryOk
  <2>5. f \in DOMAIN r /\ f \in 1 .. Len(own) /\ own[f] = era
    BY DEF Lined
  <2>6. TryOk(u, DOMAIN r, {f}, own, era)
    BY <2>3, <2>5 DEF TryOk
  <2>7. \A t \in ts : TryOk(t, DOMAIN r, {f}, own, era)
    BY <2>4 DEF Lined, TryOk
  <2>8. Lined(DOMAIN items', Pending(items'), InFlight(items'), tries', fs, own, era)
    <3>1. fs = (Pending(r) \ {f}) \cup {f} /\ Pending(r) \subseteq DOMAIN r
      BY <1>5 DEF Lined
    <3>2. \A t, v \in ts \cup {u} : t.id = v.id => t = v
      BY <2>3, <2>4, <2>5 DEF Lined
    <3>3. DOMAIN r \subseteq 1 .. Len(own) /\ \A i \in DOMAIN r : own[i] = era
      BY DEF Lined
    <3>4. Lined(DOMAIN r, Pending(r) \ {f}, {f}, ts \cup {u}, fs, own, era)
      BY <2>3, <2>5, <2>6, <2>7, <3>1, <3>2, <3>3 DEF Lined
    <3> QED
      BY <1>2, <1>5, <2>2, <3>4
  <2>9. Copied(Pending(items'), tries', n, cs, os, cut)
    BY <1>5, <2>2, <2>3 DEF Copied
  <2> QED
    BY <2>1, <2>8, <2>9
<1> QED
  BY <1>0, <1>2, <1>4, <1>5 DEF Pumped

LEMMA OneOf == ASSUME NEW S, NEW x \in S PROVE (S \ {x}) \cup {x} = S
OBVIOUS

\* A try that moves on, under the row it has.
LEMMA LinedOn ==
    ASSUME NEW D, NEW P, NEW F, NEW ts, NEW fs, NEW own, NEW e, Lined(D, P, F, ts, fs, own, e),
           NEW t \in ts, NEW u, u.id = t.id, TryOk(u, D, F, own, e)
    PROVE  Lined(D, P, F, (ts \ {t}) \cup {u}, fs, own, e)
<1>1. \A v, w \in (ts \ {t}) \cup {u} : v.id = w.id => v = w
  BY DEF Lined
<1>2. \A i \in F : \E v \in (ts \ {t}) \cup {u} : v.id = i
  <2> SUFFICES ASSUME NEW i \in F PROVE \E v \in (ts \ {t}) \cup {u} : v.id = i
    OBVIOUS
  <2>1. PICK v \in ts : v.id = i
    BY DEF Lined
  <2> QED
    BY <2>1
<1> QED
  BY <1>1, <1>2 DEF Lined

LEMMA CopiedOn ==
    ASSUME NEW P, NEW ts, NEW n, NEW cs, NEW os, NEW cut, Copied(P, ts, n, cs, os, cut),
           NEW t \in ts, t.at # "landed", NEW u, u.id = t.id
    PROVE  Copied(P, (ts \ {t}) \cup {u}, n, cs, os, cut)
BY DEF Copied

\* What stays of an answer, on the server: the try is gone, and a track of it may
\* still be made.
LEMMA CopiedWithout ==
    ASSUME UploadAssumption, UploadInv, NEW t \in tries, NEW on \in BOOLEAN, on => t.at = "sent", ServerGoesOn(t, on)
    PROVE  /\ orphans' \in [FileIds -> Nat]
           /\ Copied(Pending(items), tries \ {t}, Len(owner), copies, orphans', cutOff)
<1>1. /\ TryOk(t, DOMAIN items, InFlight(items), owner, era)
      /\ \A u \in tries : u.id = t.id => u = t
      /\ Pending(items) \subseteq DOMAIN items /\ Pending(items) \cap InFlight(items) = {}
  BY DEF UploadInv, Lined
<1>2. t.id \notin Pending(items) /\ t.id \in 1 .. Len(owner)
  BY <1>1 DEF TryOk
<1>3. t.id \in FileIds
  <2>1. Len(owner) \in Nat /\ MaxFiles \in Nat /\ Len(owner) <= MaxFiles
    BY DEF UploadInv, UploadTypes, UploadAssumption
  <2> QED
    BY <1>2, <2>1 DEF FileIds
<1>4. CASE ~on
  <2>1. orphans' = orphans
    BY <1>4 DEF ServerGoesOn
  <2> QED
    BY <2>1 DEF UploadInv, UploadTypes, Copied
<1>5. CASE on
  <2>1. orphans' = [orphans EXCEPT ![t.id] = @ + 1]
    BY <1>5 DEF ServerGoesOn
  <2>2. orphans' \in [FileIds -> Nat]
    BY <2>1, <1>3 DEF UploadInv, UploadTypes
  <2>3. t.id \notin cutOff => copies[t.id] + orphans[t.id] = 0
    <3>1. copies[t.id] \in Nat /\ orphans[t.id] \in Nat
      BY <1>3 DEF UploadInv, UploadTypes
    <3>2. t.at = "sent"
      BY <1>5
    <3>3. Copied(Pending(items), tries, Len(owner), copies, orphans, cutOff)
      BY DEF UploadInv
    <3> QED
      BY <1>3, <3>1, <3>2, <3>3 DEF Copied
  <2>4. ASSUME NEW i \in FileIds \ cutOff
        PROVE  /\ copies[i] + orphans'[i] <= 1
               /\ copies[i] + orphans'[i] = 1 =>
                     i \in 1 .. Len(owner) /\ i \notin Pending(items)
                     /\ \A u \in tries \ {t} : u.id = i => u.at = "landed"
    <3>1. CASE i = t.id
      <4>1. copies[i] + orphans'[i] = 1
        BY <1>3, <2>1, <2>3, <2>4, <3>1 DEF UploadInv, UploadTypes
      <4> QED
        BY <1>1, <1>2, <3>1, <4>1
    <3>2. CASE i # t.id
      <4>1. orphans'[i] = orphans[i]
        BY <2>1, <2>4, <3>2 DEF UploadInv, UploadTypes
      <4> QED
        BY <4>1 DEF UploadInv, Copied
    <3> QED
      BY <3>1, <3>2
  <2> QED
    BY <2>2, <2>4 DEF Copied
<1> QED
  BY <1>4, <1>5

\* A try is answered; W is its file when it is to go up again.
LEMMA AnsweredKeeps ==
    ASSUME UploadAssumption, UploadInv, NEW t \in tries, NEW answer, NEW wait \in Nat,
           Answered(t, answer, wait),
           NEW W \in SUBSET {t.id}, ~t.stopped /\ answer \in {"limit", "lost"} => t.id \in W,
           orphans' \in [FileIds -> Nat],
           Copied(Pending(items) \cup W, tries \ {t}, Len(owner), copies, orphans', cutOff')
    PROVE  UploadInv'
<1> DEFINE D == DOMAIN items
           P == Pending(items)
           F == InFlight(items)
<1>0. /\ Lined(D, P, F, tries, files, owner, era) /\ UploadTypes
      /\ TryOk(t, D, F, owner, era) /\ GoingOn(P, F, held, timer, gate)
      /\ done + Cardinality(files) <= total /\ ~strayed
  BY DEF UploadInv, Lined
<1>1. PICK v : v = Judge(answer, t.stopped \/ ~(t.id \in DOMAIN items))
  OBVIOUS
<1>2. /\ v \in {"done", "retry", "held", "failed"}
      /\ v \in {"retry", "held"} /\ t.id \in D => t.id \in W
  <2>1. CASE answer = "ok"
    BY <1>1, <2>1 DEF Judge
  <2>2. CASE answer = "limit"
    BY <1>0, <1>1, <2>2 DEF Judge, TryOk
  <2>3. CASE answer = "lost"
    BY <1>0, <1>1, <2>3 DEF Judge, TryOk
  <2>4. CASE answer \notin {"ok", "limit", "lost"}
    BY <1>1, <2>4 DEF Judge
  <2> QED
    BY <2>1, <2>2, <2>3, <2>4
<1>3. /\ UNCHANGED <<total, era, owner, copies>>
      /\ strayed' = (strayed \/ (t.era = era /\ v = "done" /\ owner[t.id] # era))
  BY <1>1 DEF Answered
<1>4. ~strayed'
  BY <1>0, <1>3 DEF TryOk
<1>5. IsFiniteSet(files) /\ Cardinality(files) \in Nat
  <2>1. files \subseteq 1 .. Len(owner)
    BY <1>0 DEF Lined
  <2>2. Len(owner) \in Int
    BY <1>0 DEF UploadTypes
  <2>3. IsFiniteSet(1 .. Len(owner))
    BY <2>2, FS_Interval
  <2> QED
    BY <2>1, <2>3, FS_Subset, FS_CardinalityType
<1>6. /\ P \subseteq D /\ F \subseteq D /\ P \cap F = {} /\ files = P \cup F
      /\ t.id \in D => t.id \in F /\ ~t.stopped /\ t.era = era
      /\ \A u \in tries \ {t} : u.id # t.id
  BY <1>0 DEF Lined, TryOk
<1>7. Copied(P, tries \ {t}, Len(owner), copies, orphans', cutOff')
  BY DEF Copied
<1>8. UploadTypes' <=> items' = [i \in DOMAIN items' |-> items'[i]] /\ done' \in Nat
  BY <1>0, <1>3 DEF UploadTypes
<1>9. CASE t.era # era
  <2>1. tries' = tries \ {t} /\ UNCHANGED <<items, files, done, held, gate, timer>>
    BY <1>9 DEF Answered
  <2>2. Lined(D, P, F, tries \ {t}, files, owner, era)
    <3>1. \A i \in F : \E u \in tries \ {t} : u.id = i
      BY <1>0, <1>6, <1>9 DEF Lined
    <3> QED
      BY <1>0, <3>1 DEF Lined
  <2>3. Pending(items') = P /\ InFlight(items') = F /\ DOMAIN items' = D
    BY <2>1
  <2>4. UploadTypes'
    BY <1>0, <1>8, <2>1 DEF UploadTypes
  <2> HIDE DEF D, P, F
  <2> QED
    BY <1>0, <1>3, <1>4, <1>7, <2>1, <2>2, <2>3, <2>4 DEF UploadInv
<1>10. CASE t.era = era
  <2>1. PICK r, h, g :
          /\ r = IF t.id \in D THEN [items EXCEPT ![t.id] = IF v \in {"retry", "held"} THEN "waiting" ELSE v]
                 ELSE items
          /\ h = (held \/ (t.id \in D /\ v = "held"))
          /\ g = IF v = "retry" THEN wait ELSE gate
          /\ Pump(r, h, g, tries \ {t})
    BY <1>1, <1>10, Zenon DEF Answered
  <2>2. h \in BOOLEAN /\ (h <=> held \/ (t.id \in D /\ v = "held"))
    BY <2>1, Zenon
  <2>3. g \in Nat
    BY <1>0, <2>1 DEF GoingOn
  <2>4. /\ files' = IF v \in {"done", "failed"} THEN files \ {t.id} ELSE files
        /\ done' = IF t.id \in D /\ v = "done" THEN done + 1 ELSE done
    BY <1>1, <1>10 DEF Answered
  <2>5. h => InFlight(r) = {}
    <3>1. CASE t.id \in D
      <4>1. InFlight(r) \subseteq F \ {t.id}
        BY <1>0, <1>2, <2>1, <3>1 DEF UploadTypes, InFlight
      <4> QED
        BY <1>0, <1>6, <3>1, <4>1 DEF Lined
    <3>2. CASE t.id \notin D
      BY <1>0, <2>1, <2>2, <3>2 DEF GoingOn
    <3> QED
      BY <3>1, <3>2
  <2>6. DOMAIN r = D /\ r = [i \in DOMAIN r |-> r[i]]
    BY <1>0, <2>1 DEF UploadTypes
  <2>7. /\ Lined(DOMAIN r, Pending(r), InFlight(r), tries \ {t}, files', owner, era)
        /\ Pending(r) \subseteq P \cup W
        /\ done' + Cardinality(files') <= total /\ done' \in Nat
    <3>1. CASE t.id \notin D
      <4>1. r = items /\ files' = files /\ done' = done
        BY <1>6, <2>1, <2>4, <3>1
      <4>2. \A i \in F : \E u \in tries \ {t} : u.id = i
        BY <1>0, <1>6, <3>1 DEF Lined
      <4>3. Lined(D, P, F, tries \ {t}, files, owner, era)
        BY <1>0, <4>2 DEF Lined
      <4> QED
        BY <1>0, <4>1, <4>3 DEF UploadTypes
    <3>2. CASE t.id \in D
      <4>1. \A i \in D : r[i] = IF i = t.id THEN IF v \in {"retry", "held"} THEN "waiting" ELSE v
                                ELSE items[i]
        BY <1>0, <2>1, <3>2 DEF UploadTypes
      <4>2. /\ InFlight(r) = F \ {t.id}
            /\ Pending(r) = IF v \in {"retry", "held"} THEN P \cup {t.id} ELSE P
        BY <1>2, <1>6, <2>6, <3>2, <4>1 DEF InFlight, Pending
      <4>3. F \ {t.id} = {}
        BY <1>0, <1>6, <3>2 DEF Lined
      <4>4. files' = IF v \in {"retry", "held"} THEN P \cup {t.id} ELSE P
        BY <1>2, <1>6, <2>4, <3>2, <4>3
      <4>5. \A u \in tries \ {t} : TryOk(u, D, {}, owner, era)
        BY <1>0, <1>6, <3>2, <4>3 DEF Lined, TryOk
      <4>6. \A P2 : P2 \subseteq D => Lined(D, P2, {}, tries \ {t}, P2, owner, era)
        BY <1>0, <4>5 DEF Lined
      <4>7. Lined(DOMAIN r, Pending(r), InFlight(r), tries \ {t}, files', owner, era)
        <5>1. Pending(r) \subseteq D /\ files' = Pending(r) /\ InFlight(r) = {}
          BY <1>6, <3>2, <4>2, <4>3, <4>4
        <5> QED
          BY <2>6, <4>6, <5>1
      <4>8. done' + Cardinality(files') <= total /\ done' \in Nat
        <5>1. CASE v \in {"done", "failed"}
          <6>1. files' = files \ {t.id} /\ t.id \in files
            BY <1>6, <2>4, <3>2, <5>1
          <6>2. Cardinality(files') = Cardinality(files) - 1
            BY <1>5, <6>1, FS_RemoveElement
          <6>3. done' \in {done, done + 1}
            BY <2>4
          <6> QED
            BY <1>0, <1>5, <6>2, <6>3 DEF UploadTypes
        <5>2. CASE v \notin {"done", "failed"}
          BY <1>0, <2>4, <5>2 DEF UploadTypes
        <5> QED
          BY <5>1, <5>2
      <4>9. Pending(r) \subseteq P \cup W
        BY <1>2, <3>2, <4>2
      <4> QED
        BY <4>7, <4>8, <4>9
    <3> QED
      BY <3>1, <3>2
  <2>8. Copied(Pending(r), tries \ {t}, Len(owner), copies, orphans', cutOff')
    BY <2>7 DEF Copied
  <2> HIDE DEF D, P, F
  <2>9. PICK cs, os, cut : cs = copies /\ os = orphans' /\ cut = cutOff'
    OBVIOUS
  <2>10. PICK fs, own, ts : fs = files' /\ own = owner /\ ts = tries \ {t}
    OBVIOUS
  <2>11. own \in Seq(Nat) /\ era \in Nat
    BY <1>0, <2>10 DEF UploadTypes
  <2>12. /\ items' = [i \in DOMAIN items' |-> items'[i]]
         /\ Lined(DOMAIN items', Pending(items'), InFlight(items'), tries', fs, own, era)
         /\ GoingOn(Pending(items'), InFlight(items'), held', timer', gate')
         /\ Copied(Pending(items'), tries', Len(own), cs, os, cut)
    <3>1. Lined(DOMAIN r, Pending(r), InFlight(r), ts, fs, own, era)
      BY <2>7, <2>10
    <3>2. Copied(Pending(r), ts, Len(own), cs, os, cut)
      BY <2>8, <2>9, <2>10
    <3>3. Pump(r, h, g, ts)
      BY <2>1, <2>10
    <3> QED
      BY <2>2, <2>3, <2>5, <2>6, <2>11, <3>1, <3>2, <3>3, PumpKeeps, Zenon
  <2> QED
    BY <1>3, <1>4, <1>8, <2>7, <2>9, <2>10, <2>12 DEF UploadInv
<1> QED
  BY <1>9, <1>10

LEMMA UploadAnswers ==
    ASSUME UploadAssumption, UploadInv, NEW t \in tries,
           \/ AnswersOk(t) \/ Stalls(t) \/ Unconfirmed(t) \/ CutOff(t) \/ SessionLost(t)
           \/ \E wait \in 1 .. MaxWait : Limited(t, wait)
           \/ \E on \in BOOLEAN : Refused(t, on) \/ Stopped(t, on)
    PROVE  UploadInv'
<1> DEFINE P == Pending(items)
<1>0. Copied(P, tries, Len(owner), copies, orphans, cutOff) /\ orphans \in [FileIds -> Nat] /\ 0 \in Nat
  BY DEF UploadInv, UploadTypes
<1>1. ASSUME NEW answer, Answered(t, answer, 0), NEW on \in BOOLEAN, on => t.at = "sent",
             ServerGoesOn(t, on), cutOff' = cutOff, t.stopped \/ answer \notin {"limit", "lost"}
      PROVE  UploadInv'
  <2>1. /\ orphans' \in [FileIds -> Nat]
        /\ Copied(P, tries \ {t}, Len(owner), copies, orphans', cutOff)
    BY <1>1, CopiedWithout
  <2>2. Copied(P \cup {}, tries \ {t}, Len(owner), copies, orphans', cutOff')
    BY <1>1, <2>1 DEF Copied
  <2>3. {} \in SUBSET {t.id} /\ (~t.stopped /\ answer \in {"limit", "lost"} => t.id \in {})
    BY <1>1
  <2> QED
    BY <1>0, <1>1, <2>1, <2>2, <2>3, AnsweredKeeps
<1>2. ASSUME NEW answer, NEW wait \in Nat, Answered(t, answer, wait), t.at \in {"sending", "sent"},
             UNCHANGED <<orphans, cutOff>>
      PROVE  UploadInv'
  <2>1. Copied(P \cup {t.id}, tries \ {t}, Len(owner), copies, orphans', cutOff')
    BY <1>0, <1>2 DEF Copied
  <2>2. orphans' \in [FileIds -> Nat] /\ {t.id} \in SUBSET {t.id} /\ t.id \in {t.id}
    BY <1>0, <1>2
  <2> QED
    BY <1>2, <2>1, <2>2, AnsweredKeeps
<1>3. CASE AnswersOk(t)
  <2>1. PICK on \in BOOLEAN : ~on
    OBVIOUS
  <2>2. Answered(t, "ok", 0) /\ cutOff' = cutOff /\ ServerGoesOn(t, on)
    BY <1>3, <2>1 DEF AnswersOk, ServerGoesOn
  <2> QED
    BY <1>1, <2>1, <2>2
<1>4. CASE Stalls(t)
  BY <1>0, <1>2, <1>4 DEF Stalls
<1>5. CASE Unconfirmed(t)
  <2>1. PICK on \in BOOLEAN : on <=> t.at = "sent"
    OBVIOUS
  <2>2. Answered(t, "unconfirmed", 0) /\ ServerGoesOn(t, on) /\ cutOff' = cutOff
    BY <1>5, <2>1 DEF Unconfirmed, ServerGoesOn
  <2> QED
    BY <1>1, <2>1, <2>2
<1>6. CASE CutOff(t)
  <2>1. PICK on \in BOOLEAN : on <=> t.at = "sent"
    OBVIOUS
  <2>2. Answered(t, "lost", 0) /\ ServerGoesOn(t, on) /\ cutOff' = cutOff \cup {t.id}
    BY <1>6, <2>1 DEF CutOff, ServerGoesOn
  <2>3. /\ orphans' \in [FileIds -> Nat]
        /\ Copied(P, tries \ {t}, Len(owner), copies, orphans', cutOff)
    BY <2>1, <2>2, CopiedWithout
  <2>4. Copied(P \cup {t.id}, tries \ {t}, Len(owner), copies, orphans', cutOff')
    BY <2>2, <2>3 DEF Copied
  <2>5. {t.id} \in SUBSET {t.id} /\ t.id \in {t.id}
    OBVIOUS
  <2> QED
    BY <1>0, <2>2, <2>3, <2>4, <2>5, AnsweredKeeps
<1>7. CASE SessionLost(t)
  <2>1. PICK on \in BOOLEAN : ~on
    OBVIOUS
  <2>2. Answered(t, "refused", 0) /\ cutOff' = cutOff /\ ServerGoesOn(t, on)
    BY <1>7, <2>1 DEF SessionLost, ServerGoesOn
  <2> QED
    BY <1>1, <2>1, <2>2
<1>8. CASE \E wait \in 1 .. MaxWait : Limited(t, wait)
  <2>1. PICK wait \in 1 .. MaxWait : Limited(t, wait)
    BY <1>8
  <2>2. wait \in Nat
    BY <2>1 DEF UploadAssumption
  <2> QED
    BY <1>2, <2>1, <2>2 DEF Limited
<1>9. CASE \E on \in BOOLEAN : Refused(t, on) \/ Stopped(t, on)
  <2>1. PICK on \in BOOLEAN : Refused(t, on) \/ Stopped(t, on)
    BY <1>9
  <2>2. PICK answer : /\ Answered(t, answer, 0)
                      /\ ServerGoesOn(t, on) /\ cutOff' = cutOff /\ (on => t.at = "sent")
                      /\ t.stopped \/ answer \notin {"limit", "lost"}
    BY <2>1 DEF Refused, Stopped
  <2> QED
    BY <1>1, <2>2
<1> QED
  BY <1>3, <1>4, <1>5, <1>6, <1>7, <1>8, <1>9

\* A try on its way, and what becomes of a file at the server.
LEMMA UploadTravels ==
    ASSUME UploadAssumption, UploadInv,
           \/ \E t \in tries : BytesArrive(t) \/ ShowsConverting(t) \/ Lands(t) \/ Expired(t) \/ GoesAgain(t)
           \/ \E id \in FileIds : OrphanLands(id) \/ OrphanFails(id)
    PROVE  UploadInv'
<1>0. /\ Lined(DOMAIN items, Pending(items), InFlight(items), tries, files, owner, era) /\ UploadTypes
      /\ Copied(Pending(items), tries, Len(owner), copies, orphans, cutOff)
      /\ GoingOn(Pending(items), InFlight(items), held, timer, gate)
      /\ done + Cardinality(files) <= total /\ ~strayed
      /\ \A t \in tries : TryOk(t, DOMAIN items, InFlight(items), owner, era)
  BY DEF UploadInv, Lined
<1>1. ASSUME NEW t \in tries, NEW u, u.id = t.id, t.at # "landed",
             TryOk(u, DOMAIN items, InFlight(items), owner, era),
             tries' = (tries \ {t}) \cup {u},
             UNCHANGED <<items, files, total, done, held, gate, timer, era, owner, copies, orphans, cutOff>>,
             ~strayed'
      PROVE  UploadInv'
  <2>1. Lined(DOMAIN items, Pending(items), InFlight(items), (tries \ {t}) \cup {u}, files, owner, era)
    BY <1>0, <1>1, LinedOn
  <2>2. Copied(Pending(items), (tries \ {t}) \cup {u}, Len(owner), copies, orphans, cutOff)
    BY <1>0, <1>1, CopiedOn
  <2>3. Pending(items') = Pending(items) /\ InFlight(items') = InFlight(items)
    BY <1>1
  <2> QED
    BY <1>0, <1>1, <2>1, <2>2, <2>3 DEF UploadInv, UploadTypes
<1>2. ASSUME NEW t \in tries, BytesArrive(t) PROVE UploadInv'
  <2>1. PICK u : u = [t EXCEPT !.at = "sent"]
    OBVIOUS
  <2>2. u.id = t.id /\ TryOk(u, DOMAIN items, InFlight(items), owner, era)
    BY <1>0, <1>2, <2>1 DEF TryOk, Record
  <2>3. /\ tries' = (tries \ {t}) \cup {u} /\ t.at # "landed"
        /\ UNCHANGED <<items, files, total, done, held, gate, timer, era, owner, copies, orphans, cutOff>>
    BY <1>2, <2>1 DEF BytesArrive
  <2>4. ~strayed'
    BY <1>0, <1>2 DEF BytesArrive, TryOk
  <2> QED
    BY <1>1, <1>2, <2>2, <2>3, <2>4
<1>3. ASSUME NEW t \in tries, Expired(t) PROVE UploadInv'
  <2>1. PICK u : u = [t EXCEPT !.at = "refreshing"]
    OBVIOUS
  <2>2. u.id = t.id /\ TryOk(u, DOMAIN items, InFlight(items), owner, era)
    BY <1>0, <1>3, <2>1 DEF TryOk, Record
  <2>3. /\ tries' = (tries \ {t}) \cup {u} /\ t.at # "landed"
        /\ UNCHANGED <<items, files, total, done, held, gate, timer, era, owner, copies, orphans, cutOff, strayed>>
    BY <1>3, <2>1 DEF Expired, atServer
  <2> QED
    BY <1>0, <1>1, <1>3, <2>2, <2>3
<1>4. ASSUME NEW t \in tries, GoesAgain(t) PROVE UploadInv'
  <2>1. PICK u : u = [t EXCEPT !.at = "sending", !.again = TRUE, !.as = era]
    OBVIOUS
  <2>2. u.id = t.id /\ TryOk(u, DOMAIN items, InFlight(items), owner, era)
    BY <1>0, <1>4, <2>1 DEF TryOk, Record, GoesAgain
  <2>3. /\ tries' = (tries \ {t}) \cup {u} /\ t.at # "landed"
        /\ UNCHANGED <<items, files, total, done, held, gate, timer, era, owner, copies, orphans, cutOff, strayed>>
    BY <1>4, <2>1 DEF GoesAgain, atServer
  <2> QED
    BY <1>0, <1>1, <1>4, <2>2, <2>3
<1>5. ASSUME NEW t \in tries, ShowsConverting(t) PROVE UploadInv'
  <2>1. /\ items' = [items EXCEPT ![t.id] = "converting"] /\ t.id \in DOMAIN items /\ items[t.id] = "uploading"
        /\ UNCHANGED <<files, tries, total, done, held, gate, timer, era, owner, copies, orphans, cutOff, strayed>>
    BY <1>5 DEF ShowsConverting, atServer
  <2>2. DOMAIN items' = DOMAIN items /\ items' = [i \in DOMAIN items' |-> items'[i]]
    BY <1>0, <2>1 DEF UploadTypes
  <2>3. \A i \in DOMAIN items : items'[i] = IF i = t.id THEN "converting" ELSE items[i]
    BY <1>0, <2>1 DEF UploadTypes
  <2>4. Pending(items') = Pending(items) /\ InFlight(items') = InFlight(items)
    BY <2>1, <2>2, <2>3 DEF Pending, InFlight
  <2> QED
    BY <1>0, <2>1, <2>2, <2>4 DEF UploadInv, UploadTypes
<1>6. \A id \in FileIds : copies[id] \in Nat /\ orphans[id] \in Nat
  BY <1>0 DEF UploadTypes
<1>7. ASSUME NEW t \in tries, Lands(t) PROVE UploadInv'
  <2>1. PICK u : u = [t EXCEPT !.at = "landed"]
    OBVIOUS
  <2>2. u.id = t.id /\ u.at = "landed" /\ TryOk(u, DOMAIN items, InFlight(items), owner, era)
    BY <1>0, <1>7, <2>1 DEF TryOk, Record
  <2>3. /\ tries' = (tries \ {t}) \cup {u} /\ t.at = "sent" /\ copies' = [copies EXCEPT ![t.id] = @ + 1]
        /\ UNCHANGED <<items, files, total, done, held, gate, timer, era, owner, orphans, cutOff, strayed>>
    BY <1>7, <2>1 DEF Lands
  <2>4. t.id \in FileIds /\ t.id \in 1 .. Len(owner) /\ t.id \notin Pending(items)
    <3>1. Len(owner) \in Nat /\ MaxFiles \in Nat /\ Len(owner) <= MaxFiles
      BY <1>0 DEF UploadTypes, UploadAssumption
    <3>2. t.id \in 1 .. Len(owner) /\ t.id \notin Pending(items)
      BY <1>0 DEF Lined, TryOk
    <3> QED
      BY <3>1, <3>2 DEF FileIds
  <2>5. Lined(DOMAIN items, Pending(items), InFlight(items), (tries \ {t}) \cup {u}, files, owner, era)
    BY <1>0, <2>2, LinedOn
  <2>6. t.id \notin cutOff => copies[t.id] + orphans[t.id] = 0
    BY <1>0, <1>6, <2>3, <2>4 DEF Copied
  <2>7. copies' \in [FileIds -> Nat]
    <3>1. copies \in [FileIds -> Nat]
      BY <1>0 DEF UploadTypes
    <3>2. copies[t.id] + 1 \in Nat
      BY <1>6, <2>4
    <3> QED
      BY <2>3, <3>1, <3>2
  <2>8. Copied(Pending(items), (tries \ {t}) \cup {u}, Len(owner), copies', orphans, cutOff)
    <3> SUFFICES ASSUME NEW i \in FileIds \ cutOff
                 PROVE  /\ copies'[i] + orphans[i] <= 1
                        /\ copies'[i] + orphans[i] = 1 =>
                              /\ i \in 1 .. Len(owner) /\ i \notin Pending(items)
                              /\ \A v \in (tries \ {t}) \cup {u} : v.id = i => v.at = "landed"
      BY DEF Copied
    <3>1. CASE i = t.id
      <4>1. copies'[i] + orphans[i] = 1
        BY <1>0, <1>6, <2>3, <2>4, <2>6, <3>1 DEF UploadTypes
      <4>2. \A v \in (tries \ {t}) \cup {u} : v.id = i => v = u
        BY <1>0, <2>2, <3>1 DEF Lined
      <4> QED
        BY <2>2, <2>4, <3>1, <4>1, <4>2
    <3>2. CASE i # t.id
      <4>1. copies'[i] = copies[i]
        BY <1>0, <2>3, <3>2 DEF UploadTypes
      <4> QED
        BY <1>0, <2>2, <3>2, <4>1 DEF Copied
    <3> QED
      BY <3>1, <3>2
  <2>9. Pending(items') = Pending(items) /\ InFlight(items') = InFlight(items)
    BY <2>3
  <2> QED
    BY <1>0, <2>3, <2>5, <2>7, <2>8, <2>9 DEF UploadInv, UploadTypes
<1>8. ASSUME NEW id \in FileIds, OrphanLands(id) \/ OrphanFails(id) PROVE UploadInv'
  <2>1. UNCHANGED <<items, files, tries, total, done, held, gate, timer, era, owner, cutOff, strayed>>
    BY <1>8 DEF OrphanLands, OrphanFails, browser
  <2>2. /\ orphans' = [orphans EXCEPT ![id] = @ - 1] /\ orphans[id] > 0
        /\ copies' = copies \/ copies' = [copies EXCEPT ![id] = @ + 1]
    BY <1>8 DEF OrphanLands, OrphanFails, atServer
  <2>3. \A i \in FileIds : /\ copies'[i] + orphans'[i] \in Nat
                           /\ copies'[i] + orphans'[i] <= copies[i] + orphans[i]
    <3>1. copies \in [FileIds -> Nat] /\ orphans \in [FileIds -> Nat] /\ orphans[id] > 0
      BY <1>0, <2>2 DEF UploadTypes
    <3>2. ASSUME NEW i \in FileIds
          PROVE  /\ orphans'[i] = IF i = id THEN orphans[i] - 1 ELSE orphans[i]
                 /\ copies'[i] = copies[i] \/ (i = id /\ copies'[i] = copies[i] + 1)
                 /\ copies[i] \in Nat /\ orphans[i] \in Nat
      BY <1>6, <2>2, <3>1
    <3>3. ASSUME NEW i \in FileIds
          PROVE  /\ copies'[i] + orphans'[i] \in Nat
                 /\ copies'[i] + orphans'[i] <= copies[i] + orphans[i]
      BY <3>1, <3>2
    <3> QED
      BY <3>3
  <2>4. copies' \in [FileIds -> Nat] /\ orphans' \in [FileIds -> Nat]
    <3>1. /\ copies \in [FileIds -> Nat] /\ copies[id] + 1 \in Nat
          /\ orphans \in [FileIds -> Nat] /\ orphans[id] - 1 \in Nat
      BY <1>0, <1>6, <2>2 DEF UploadTypes
    <3> QED
      BY <2>2, <3>1
  <2>5. Copied(Pending(items), tries, Len(owner), copies', orphans', cutOff)
    BY <1>0, <1>6, <2>3 DEF Copied
  <2>6. Pending(items') = Pending(items) /\ InFlight(items') = InFlight(items)
    BY <2>1
  <2> QED
    BY <1>0, <2>1, <2>4, <2>5, <2>6 DEF UploadInv, UploadTypes
<1> QED
  BY <1>2, <1>3, <1>4, <1>5, <1>7, <1>8

\* Files added: those not refused wait, and are counted.
LEMMA UploadAdds ==
    ASSUME UploadAssumption, UploadInv, NEW n \in 1 .. 2,
           NEW refused \in SUBSET (Len(owner) + 1 .. Len(owner) + n), AddFiles(n, refused)
    PROVE  UploadInv'
<1> DEFINE P == Pending(items)
           F == InFlight(items)
           new == Len(owner) + 1 .. Len(owner) + n
<1>0. /\ Lined(DOMAIN items, P, F, tries, files, owner, era) /\ UploadTypes
      /\ Copied(P, tries, Len(owner), copies, orphans, cutOff)
      /\ GoingOn(P, F, held, timer, gate)
      /\ done + Cardinality(files) <= total /\ ~strayed
  BY DEF UploadInv
<1>1. PICK r : r = [i \in DOMAIN items \cup new |->
                      IF i \in refused THEN "failed" ELSE IF i \in new THEN "waiting" ELSE items[i]]
  OBVIOUS
<1>2. /\ owner' = [i \in 1 .. Len(owner) + n |-> IF i \in new THEN era ELSE owner[i]]
      /\ files' = files \cup (new \ refused)
      /\ total' = n + (IF P \cup F = {} THEN 0 ELSE total)
      /\ done' = IF P \cup F = {} THEN 0 ELSE done
      /\ Pump(r, held, gate, tries)
      /\ UNCHANGED <<era, copies, orphans, cutOff, strayed>>
      /\ Len(owner) + n <= MaxFiles
  BY <1>1 DEF AddFiles, atServer
<1>3. Len(owner) \in Nat /\ n \in Nat /\ era \in Nat
  BY <1>0 DEF UploadTypes
<1>4. new \subseteq Nat /\ DOMAIN items \cap new = {} /\ refused \subseteq new
  BY <1>0, <1>3 DEF Lined
<1>5. /\ owner' \in Seq(Nat) /\ Len(owner') = Len(owner) + n
      /\ \A i \in 1 .. Len(owner) : owner'[i] = owner[i] /\ i \in 1 .. Len(owner')
      /\ \A i \in new : owner'[i] = era /\ i \in 1 .. Len(owner')
  <2>1. \A i \in 1 .. Len(owner) : owner[i] \in Nat
    BY <1>0 DEF UploadTypes
  <2>2. \A i \in 1 .. Len(owner) + n : i \in new \/ i \in 1 .. Len(owner)
    BY <1>3
  <2>3. owner' \in [1 .. Len(owner) + n -> Nat]
    BY <1>2, <1>3, <2>1, <2>2
  <2>4. owner' \in Seq(Nat) /\ Len(owner') = Len(owner) + n
    BY <1>3, <2>3
  <2>5. \A i \in 1 .. Len(owner) : i \notin new /\ i \in 1 .. Len(owner) + n
    BY <1>3
  <2>6. \A i \in new : i \in 1 .. Len(owner) + n
    BY <1>3
  <2> HIDE DEF new
  <2> QED
    BY <1>2, <2>4, <2>5, <2>6
<1> HIDE DEF new
<1>6. /\ DOMAIN r = DOMAIN items \cup new /\ r = [i \in DOMAIN r |-> r[i]]
      /\ Pending(r) = P \cup (new \ refused) /\ InFlight(r) = F
  <2>1. DOMAIN r = DOMAIN items \cup new /\ r = [i \in DOMAIN r |-> r[i]]
    BY <1>1
  <2>2. \A i \in DOMAIN items : r[i] = items[i]
    BY <1>1, <1>4
  <2>3. \A i \in new : r[i] = IF i \in refused THEN "failed" ELSE "waiting"
    BY <1>1
  <2> QED
    BY <1>4, <2>1, <2>2, <2>3 DEF Pending, InFlight
<1>7. \A t \in tries : TryOk(t, DOMAIN r, F, owner', era)
  <2> SUFFICES ASSUME NEW t \in tries PROVE TryOk(t, DOMAIN r, F, owner', era)
    OBVIOUS
  <2>1. TryOk(t, DOMAIN items, F, owner, era)
    BY <1>0 DEF Lined
  <2>2. t.id \notin new
    BY <1>3, <2>1 DEF TryOk, new
  <2> QED
    BY <1>5, <1>6, <2>1, <2>2 DEF TryOk
<1>8. Lined(DOMAIN r, Pending(r), InFlight(r), tries, files', owner', era)
  <2>1. DOMAIN r \subseteq 1 .. Len(owner') /\ \A i \in DOMAIN r : owner'[i] = era
    BY <1>0, <1>5, <1>6 DEF Lined
  <2>2. Pending(r) \cap F = {} /\ Pending(r) \subseteq DOMAIN r /\ F \subseteq DOMAIN r
    BY <1>0, <1>4, <1>6 DEF Lined
  <2>3. files' = Pending(r) \cup F
    BY <1>0, <1>2, <1>6 DEF Lined
  <2>4. /\ \A t, u \in tries : t.id = u.id => t = u
        /\ \A i, j \in F : i = j
        /\ \A i \in F : \E t \in tries : t.id = i
    BY <1>0 DEF Lined
  <2> QED
    BY <1>6, <1>7, <2>1, <2>2, <2>3, <2>4 DEF Lined
<1>9. Copied(Pending(r), tries, Len(owner'), copies, orphans, cutOff)
  <2>1. \A i \in new : i \notin 1 .. Len(owner)
    BY <1>3 DEF new
  <2> QED
    BY <1>0, <1>5, <1>6, <2>1 DEF Copied
<1>10. done' + Cardinality(files') <= total' /\ done' \in Nat /\ total' \in Nat
  <2>1. IsFiniteSet(new) /\ Cardinality(new) = n
    <3>1. PICK a \in Int, b \in Int : a = Len(owner) + 1 /\ b = Len(owner) + n
      BY <1>3
    <3>2. IsFiniteSet(a .. b) /\ Cardinality(a .. b) = IF a > b THEN 0 ELSE b - a + 1
      BY FS_Interval
    <3>3. ~(a > b) /\ b - a + 1 = n
      BY <1>3, <3>1
    <3>4. new = a .. b
      BY <3>1 DEF new
    <3> QED
      BY <3>2, <3>3, <3>4
  <2>2. IsFiniteSet(new \ refused) /\ Cardinality(new \ refused) <= n /\ Cardinality(new \ refused) \in Nat
    BY <2>1, FS_Subset, FS_CardinalityType
  <2>3. IsFiniteSet(files) /\ Cardinality(files) \in Nat
    <3>1. IsFiniteSet(1 .. Len(owner))
      BY <1>3, FS_Interval
    <3>2. files \subseteq 1 .. Len(owner)
      BY <1>0 DEF Lined
    <3> QED
      BY <3>1, <3>2, FS_Subset, FS_CardinalityType
  <2>4. files \cap (new \ refused) = {}
    BY <1>0, <1>4 DEF Lined
  <2>5. Cardinality(files') = Cardinality(files) + Cardinality(new \ refused)
    <3>1. PICK wait : wait = new \ refused
      OBVIOUS
    <3>2. Cardinality(files \cup wait) = Cardinality(files) + Cardinality(wait) - Cardinality(files \cap wait)
      BY <2>2, <2>3, <3>1, FS_Union
    <3>3. Cardinality(files \cap wait) = 0
      BY <2>4, <3>1, FS_EmptySet
    <3> QED
      BY <1>2, <2>2, <2>3, <3>1, <3>2, <3>3
  <2>6. P \cup F = {} => Cardinality(files) = 0
    BY <1>0, FS_EmptySet DEF Lined
  <2>7. done \in Nat /\ total \in Nat /\ done + Cardinality(files) <= total
    BY <1>0 DEF UploadTypes
  <2>8. CASE P \cup F = {}
    BY <1>2, <1>3, <2>2, <2>5, <2>6, <2>8
  <2>9. CASE P \cup F # {}
    BY <1>2, <1>3, <2>2, <2>3, <2>5, <2>7, <2>9
  <2> QED
    BY <2>8, <2>9
<1>11. held \in BOOLEAN /\ gate \in Nat /\ (held => InFlight(r) = {})
  BY <1>0, <1>6 DEF GoingOn
<1> HIDE DEF P, F
<1>12. PICK fs, own : fs = files' /\ own = owner'
  OBVIOUS
<1>13. /\ items' = [i \in DOMAIN items' |-> items'[i]]
       /\ Lined(DOMAIN items', Pending(items'), InFlight(items'), tries', fs, own, era)
       /\ GoingOn(Pending(items'), InFlight(items'), held', timer', gate')
       /\ Copied(Pending(items'), tries', Len(own), copies, orphans, cutOff)
  <2>1. /\ Lined(DOMAIN r, Pending(r), InFlight(r), tries, fs, own, era)
        /\ Copied(Pending(r), tries, Len(own), copies, orphans, cutOff)
        /\ own \in Seq(Nat)
    BY <1>5, <1>8, <1>9, <1>12
  <2>2. Pump(r, held, gate, tries)
    BY <1>2
  <2> QED
    BY <1>3, <1>6, <1>11, <2>1, <2>2, PumpKeeps, Zenon
<1>14. UploadTypes'
  BY <1>0, <1>2, <1>5, <1>10, <1>13 DEF UploadTypes
<1> QED
  BY <1>0, <1>2, <1>10, <1>12, <1>13, <1>14 DEF UploadInv

LEMMA UploadDrops ==
    ASSUME UploadAssumption, UploadInv, NEW id \in FileIds, Drop(id)
    PROVE  UploadInv'
<1> DEFINE P == Pending(items)
           F == InFlight(items)
<1>0. /\ Lined(DOMAIN items, P, F, tries, files, owner, era) /\ UploadTypes
      /\ Copied(P, tries, Len(owner), copies, orphans, cutOff)
      /\ GoingOn(P, F, held, timer, gate)
      /\ done + Cardinality(files) <= total /\ ~strayed
  BY DEF UploadInv
<1>1. PICK r, ts : r = AllBut(id) /\ ts = {IF t.id = id THEN [t EXCEPT !.stopped = TRUE] ELSE t : t \in tries}
  OBVIOUS
<1>2. /\ id \in DOMAIN items /\ items[id] # "converting"
      /\ total' = IF items[id] \notin {"waiting", "limited", "uploading"} THEN total
                  ELSE IF done > total - 1 THEN done ELSE total - 1
      /\ files' = files \ {id}
      /\ Pump(r, held, gate, ts)
      /\ UNCHANGED <<done, era, owner, copies, orphans, cutOff, strayed>>
  BY <1>1 DEF Drop, atServer
<1>3. /\ DOMAIN r = DOMAIN items \ {id} /\ r = [i \in DOMAIN r |-> r[i]]
      /\ Pending(r) = P \ {id} /\ InFlight(r) = F \ {id}
  <2>1. DOMAIN r = DOMAIN items \ {id} /\ r = [i \in DOMAIN r |-> r[i]]
    BY <1>1 DEF AllBut, Restrict
  <2>2. \A i \in DOMAIN r : r[i] = items[i]
    BY <1>1 DEF AllBut, Restrict
  <2> QED
    BY <2>1, <2>2 DEF Pending, InFlight
<1>4. /\ \A u \in ts : \E t \in tries : u = IF t.id = id THEN [t EXCEPT !.stopped = TRUE] ELSE t
      /\ \A t \in tries : t.id # id => t \in ts
  BY <1>1
<1>5. ASSUME NEW u \in ts
      PROVE  /\ TryOk(u, DOMAIN r, F \ {id}, owner, era)
             /\ \E t \in tries : /\ u.id = t.id /\ u.at = t.at
                                 /\ u = IF t.id = id THEN [t EXCEPT !.stopped = TRUE] ELSE t
  <2>1. PICK t \in tries : u = IF t.id = id THEN [t EXCEPT !.stopped = TRUE] ELSE t
    BY <1>4
  <2>2. TryOk(t, DOMAIN items, F, owner, era)
    BY <1>0 DEF Lined
  <2>3. CASE t.id = id
    <3>1. u = [t EXCEPT !.stopped = TRUE]
      BY <2>1, <2>3
    <3>2. u.id = t.id /\ u.at = t.at /\ TryOk(u, DOMAIN r, F \ {id}, owner, era)
      BY <1>3, <2>2, <2>3, <3>1 DEF TryOk, Record
    <3> QED
      BY <2>1, <3>2
  <2>4. CASE t.id # id
    <3>1. u = t
      BY <2>1, <2>4
    <3>2. TryOk(t, DOMAIN r, F \ {id}, owner, era)
      BY <1>3, <2>2, <2>4 DEF TryOk
    <3> QED
      BY <2>1, <3>1, <3>2
  <2> QED
    BY <2>3, <2>4
<1>6. Lined(DOMAIN r, Pending(r), InFlight(r), ts, files', owner, era)
  <2>1. ASSUME NEW v \in ts, NEW w \in ts, v.id = w.id PROVE v = w
    <3>1. PICK t \in tries : v.id = t.id /\ v = IF t.id = id THEN [t EXCEPT !.stopped = TRUE] ELSE t
      BY <1>5
    <3>2. PICK u \in tries : w.id = u.id /\ w = IF u.id = id THEN [u EXCEPT !.stopped = TRUE] ELSE u
      BY <1>5
    <3>3. t = u
      BY <1>0, <2>1, <3>1, <3>2 DEF Lined
    <3> QED
      BY <3>1, <3>2, <3>3
  <2>2. \A i \in F \ {id} : \E t \in ts : t.id = i
    BY <1>0, <1>4 DEF Lined
  <2>3. files' = (P \ {id}) \cup (F \ {id})
    BY <1>0, <1>2 DEF Lined
  <2>4. /\ DOMAIN r \subseteq 1 .. Len(owner) /\ \A i \in DOMAIN r : owner[i] = era
        /\ P \ {id} \subseteq DOMAIN r /\ F \ {id} \subseteq DOMAIN r /\ (P \ {id}) \cap (F \ {id}) = {}
        /\ \A i, j \in F \ {id} : i = j
    BY <1>0, <1>3 DEF Lined
  <2>5. \A u \in ts : TryOk(u, DOMAIN r, F \ {id}, owner, era)
    BY <1>5
  <2>6. PICK waits, goes, rest : waits = P \ {id} /\ goes = F \ {id} /\ rest = DOMAIN r
    OBVIOUS
  <2>7. Lined(rest, waits, goes, ts, files', owner, era)
    BY <2>1, <2>2, <2>3, <2>4, <2>5, <2>6 DEF Lined
  <2> QED
    BY <1>3, <2>6, <2>7
<1>7. Copied(Pending(r), ts, Len(owner), copies, orphans, cutOff)
  BY <1>0, <1>3, <1>5 DEF Copied
<1>8. done' + Cardinality(files') <= total' /\ done' \in Nat /\ total' \in Nat
  <2>1. IsFiniteSet(files) /\ Cardinality(files) \in Nat
    <3>1. IsFiniteSet(1 .. Len(owner))
      <4>1. Len(owner) \in Int
        BY <1>0 DEF UploadTypes
      <4> QED
        BY <4>1, FS_Interval
    <3>2. files \subseteq 1 .. Len(owner)
      BY <1>0 DEF Lined
    <3> QED
      BY <3>1, <3>2, FS_Subset, FS_CardinalityType
  <2>2. IsFiniteSet(files') /\ Cardinality(files') \in Nat
        /\ Cardinality(files') = IF id \in files THEN Cardinality(files) - 1 ELSE Cardinality(files)
    BY <1>2, <2>1, FS_RemoveElement, FS_CardinalityType
  <2>3. done \in Nat /\ total \in Nat /\ done + Cardinality(files) <= total
    BY <1>0 DEF UploadTypes
  <2>4. CASE items[id] \in {"waiting", "limited", "uploading"}
    <3>1. id \in files
      BY <1>0, <1>2, <2>4 DEF Lined, Pending, InFlight
    <3>2. total' = IF done > total - 1 THEN done ELSE total - 1
      BY <1>2, <2>4
    <3> QED
      BY <1>2, <2>1, <2>2, <2>3, <3>1, <3>2
  <2>5. CASE items[id] \notin {"waiting", "limited", "uploading"}
    <3>1. total' = total /\ done' = done
      BY <1>2, <2>5
    <3> QED
      BY <2>1, <2>2, <2>3, <3>1
  <2> QED
    BY <2>4, <2>5
<1>9. held \in BOOLEAN /\ gate \in Nat /\ (held => InFlight(r) = {}) /\ era \in Nat
  BY <1>0, <1>3 DEF GoingOn, UploadTypes
<1> HIDE DEF P, F
<1>10. PICK fs, own : fs = files' /\ own = owner
  OBVIOUS
<1>11. /\ items' = [i \in DOMAIN items' |-> items'[i]]
       /\ Lined(DOMAIN items', Pending(items'), InFlight(items'), tries', fs, own, era)
       /\ GoingOn(Pending(items'), InFlight(items'), held', timer', gate')
       /\ Copied(Pending(items'), tries', Len(own), copies, orphans, cutOff)
  <2>1. /\ Lined(DOMAIN r, Pending(r), InFlight(r), ts, fs, own, era)
        /\ Copied(Pending(r), ts, Len(own), copies, orphans, cutOff)
        /\ own \in Seq(Nat)
    BY <1>0, <1>6, <1>7, <1>10 DEF UploadTypes
  <2>2. Pump(r, held, gate, ts)
    BY <1>2
  <2> QED
    BY <1>3, <1>9, <2>1, <2>2, PumpKeeps, Zenon
<1>12. UploadTypes'
  BY <1>0, <1>2, <1>8, <1>11 DEF UploadTypes
<1> QED
  BY <1>0, <1>2, <1>8, <1>10, <1>11, <1>12 DEF UploadInv

\* A Retry, a timer, the clock, a row that clears itself, and another session.
LEMMA UploadRests ==
    ASSUME UploadAssumption, UploadInv,
           \/ RetryPressed \/ SessionChanges \/ SecondPasses \/ GateTimerFires
           \/ \E id \in FileIds : LingerEnds(id)
    PROVE  UploadInv'
<1> DEFINE P == Pending(items)
           F == InFlight(items)
<1>0. /\ Lined(DOMAIN items, P, F, tries, files, owner, era) /\ UploadTypes
      /\ Copied(P, tries, Len(owner), copies, orphans, cutOff)
      /\ GoingOn(P, F, held, timer, gate)
      /\ done + Cardinality(files) <= total /\ ~strayed
  BY DEF UploadInv
<1>1. ASSUME NEW h \in BOOLEAN, h => held, Pump(items, h, gate, tries),
             UNCHANGED <<files, total, done, era, owner, copies, orphans, cutOff, strayed>>
      PROVE  UploadInv'
  <2>1. PICK r : r = items
    OBVIOUS
  <2>2. /\ Pump(r, h, gate, tries) /\ gate \in Nat /\ (h => InFlight(r) = {}) /\ era \in Nat
        /\ owner \in Seq(Nat) /\ r = [i \in DOMAIN r |-> r[i]]
        /\ Lined(DOMAIN r, Pending(r), InFlight(r), tries, files, owner, era)
        /\ Copied(Pending(r), tries, Len(owner), copies, orphans, cutOff)
    BY <1>0, <1>1, <2>1 DEF GoingOn, UploadTypes
  <2>3. /\ items' = [i \in DOMAIN items' |-> items'[i]]
        /\ Lined(DOMAIN items', Pending(items'), InFlight(items'), tries', files, owner, era)
        /\ GoingOn(Pending(items'), InFlight(items'), held', timer', gate')
        /\ Copied(Pending(items'), tries', Len(owner), copies, orphans, cutOff)
    BY <1>1, <2>2, PumpKeeps, Zenon
  <2> QED
    BY <1>0, <1>1, <2>3 DEF UploadInv, UploadTypes
<1>2. CASE RetryPressed
  <2>1. PICK h \in BOOLEAN : h = FALSE
    OBVIOUS
  <2> QED
    BY <1>1, <1>2, <2>1 DEF RetryPressed, atServer
<1>3. CASE GateTimerFires
  <2>1. held \in BOOLEAN
    BY <1>0 DEF GoingOn
  <2> QED
    BY <1>1, <1>3, <2>1 DEF GateTimerFires, atServer
<1>4. CASE SecondPasses
  <2>1. /\ UNCHANGED <<items, files, tries, total, done, held, era, owner, copies, orphans, cutOff, strayed>>
        /\ gate' = Less(gate) /\ timer' = IF timer = NoTimer THEN NoTimer ELSE Less(timer)
    BY <1>4 DEF SecondPasses, atServer
  <2>2. NoTimer \notin Nat
    BY DEF UploadAssumption
  <2>3. GoingOn(P, F, held, timer', gate')
    <3>1. CASE timer = NoTimer
      BY <1>0, <2>1, <3>1 DEF GoingOn, Less
    <3>2. CASE timer # NoTimer
      <4>1. timer \in Nat /\ gate \in Nat /\ timer >= gate
        BY <1>0, <3>2 DEF GoingOn
      <4>2. timer' \in Nat /\ gate' \in Nat /\ timer' >= gate'
        BY <2>1, <3>2, <4>1 DEF Less
      <4> QED
        BY <1>0, <2>2, <3>2, <4>2 DEF GoingOn
    <3> QED
      BY <3>1, <3>2
  <2>4. Pending(items') = P /\ InFlight(items') = F
    BY <2>1
  <2> HIDE DEF P, F
  <2> QED
    BY <1>0, <2>1, <2>3, <2>4 DEF UploadInv, UploadTypes
<1>5. ASSUME NEW id \in FileIds, LingerEnds(id) PROVE UploadInv'
  <2>1. /\ id \in DOMAIN items /\ items[id] = "done" /\ items' = AllBut(id)
        /\ UNCHANGED <<files, tries, total, done, held, gate, timer, era, owner, copies, orphans, cutOff, strayed>>
    BY <1>5 DEF LingerEnds, atServer
  <2>2. /\ DOMAIN items' = DOMAIN items \ {id} /\ items' = [i \in DOMAIN items' |-> items'[i]]
        /\ \A i \in DOMAIN items' : items'[i] = items[i]
    BY <2>1 DEF AllBut, Restrict
  <2>3. Pending(items') = P /\ InFlight(items') = F
    BY <2>1, <2>2 DEF Pending, InFlight
  <2>4. Lined(DOMAIN items', P, F, tries, files, owner, era)
    <3>1. P \subseteq DOMAIN items' /\ F \subseteq DOMAIN items'
      BY <2>1, <2>2 DEF Pending, InFlight
    <3>2. \A t \in tries : TryOk(t, DOMAIN items', F, owner, era)
      BY <1>0, <2>2 DEF Lined, TryOk
    <3> QED
      BY <1>0, <2>2, <3>1, <3>2 DEF Lined
  <2> HIDE DEF P, F
  <2> QED
    BY <1>0, <2>1, <2>2, <2>3, <2>4 DEF UploadInv, UploadTypes
<1>6. CASE SessionChanges
  <2>1. PICK ts : ts = {[t EXCEPT !.stopped = TRUE] : t \in tries}
    OBVIOUS
  <2>2. /\ era' = era + 1 /\ items' = <<>> /\ files' = {} /\ total' = 0 /\ done' = 0
        /\ ~held' /\ held' \in BOOLEAN /\ gate' = 0 /\ timer' = NoTimer /\ tries' = ts
        /\ UNCHANGED <<owner, copies, orphans, cutOff, strayed>>
    BY <1>6, <2>1 DEF SessionChanges, atServer
  <2>3. DOMAIN items' = {} /\ Pending(items') = {} /\ InFlight(items') = {}
        /\ items' = [i \in DOMAIN items' |-> items'[i]]
    BY <2>2 DEF Pending, InFlight
  <2>4. ASSUME NEW u \in ts
        PROVE  TryOk(u, {}, {}, owner, era + 1) /\ \E t \in tries : u = [t EXCEPT !.stopped = TRUE]
                                                                 /\ u.id = t.id /\ u.at = t.at
    <3>1. PICK t \in tries : u = [t EXCEPT !.stopped = TRUE]
      BY <2>1
    <3>2. TryOk(t, DOMAIN items, F, owner, era)
      BY <1>0 DEF Lined
    <3>3. TryOk(u, {}, {}, owner, era + 1) /\ u.id = t.id /\ u.at = t.at
      BY <3>1, <3>2 DEF TryOk, Record
    <3> QED
      BY <3>1, <3>3
  <2>5. Lined({}, {}, {}, ts, {}, owner, era + 1)
    <3>1. ASSUME NEW v \in ts, NEW w \in ts, v.id = w.id PROVE v = w
      <4>1. PICK t \in tries : v.id = t.id /\ v = [t EXCEPT !.stopped = TRUE]
        BY <2>4
      <4>2. PICK u \in tries : w.id = u.id /\ w = [u EXCEPT !.stopped = TRUE]
        BY <2>4
      <4>3. t = u
        BY <1>0, <3>1, <4>1, <4>2 DEF Lined
      <4> QED
        BY <4>1, <4>2, <4>3
    <3>2. \A u \in ts : TryOk(u, {}, {}, owner, era + 1)
      BY <2>4
    <3> QED
      BY <3>1, <3>2 DEF Lined
  <2>6. Copied({}, ts, Len(owner), copies, orphans, cutOff)
    BY <1>0, <2>4 DEF Copied
  <2>7. GoingOn({}, {}, held', timer', gate')
    BY <2>2 DEF GoingOn
  <2>8. done' + Cardinality(files') <= total'
    BY <2>2, FS_EmptySet
  <2>9. UploadTypes'
    BY <1>0, <2>2, <2>3 DEF UploadTypes
  <2> QED
    BY <1>0, <2>2, <2>3, <2>5, <2>6, <2>7, <2>8, <2>9 DEF UploadInv
<1> QED
  BY <1>2, <1>3, <1>4, <1>5, <1>6

LEMMA UploadStep ==
    ASSUME UploadAssumption, UploadInv, UploadNext
    PROVE  UploadInv'
BY UploadAnswers, UploadTravels, UploadAdds, UploadDrops, UploadRests DEF UploadNext

LEMMA UploadStart == ASSUME UploadAssumption, UploadInit PROVE UploadInv
<1>1. /\ items = <<>> /\ files = {} /\ tries = {} /\ owner = <<>> /\ total = 0 /\ done = 0
      /\ held \in BOOLEAN /\ ~held /\ gate = 0 /\ timer = NoTimer /\ era = 0 /\ ~strayed
      /\ copies = [i \in FileIds |-> 0] /\ orphans = [i \in FileIds |-> 0]
  BY DEF UploadInit
<1>2. /\ DOMAIN items = {} /\ Pending(items) = {} /\ InFlight(items) = {}
      /\ items = [i \in DOMAIN items |-> items[i]]
  BY <1>1 DEF Pending, InFlight
<1>3. UploadTypes
  BY <1>1, <1>2 DEF UploadTypes, UploadAssumption
<1>4. Lined({}, {}, {}, tries, files, owner, era)
  BY <1>1 DEF Lined
<1>5. GoingOn({}, {}, held, timer, gate)
  BY <1>1 DEF GoingOn
<1>6. Copied({}, tries, Len(owner), copies, orphans, cutOff)
  BY <1>1 DEF Copied
<1>7. done + Cardinality(files) <= total
  BY <1>1, FS_EmptySet
<1> QED
  BY <1>1, <1>2, <1>3, <1>4, <1>5, <1>6, <1>7 DEF UploadInv

\* What the invariant says of what is about.
LEMMA UploadEnds == UploadInv => UploadsGoOn /\ OneCopyEach
<1> SUFFICES ASSUME UploadInv PROVE UploadsGoOn /\ OneCopyEach
  OBVIOUS
<1> DEFINE P == Pending(items)
           F == InFlight(items)
           live == {t \in tries : ~t.stopped}
<1>1. /\ Lined(DOMAIN items, P, F, tries, files, owner, era)
      /\ GoingOn(P, F, held, timer, gate)
      /\ done + Cardinality(files) <= total
  BY DEF UploadInv
<1>2. {t.id : t \in live} = F
  <2>1. \A t \in live : t.id \in F
    BY <1>1 DEF Lined, TryOk
  <2>2. \A i \in F : \E t \in live : t.id = i
    BY <1>1 DEF Lined, TryOk
  <2> HIDE DEF live, F
  <2> QED
    BY <2>1, <2>2
<1>3. Cardinality(live) <= 1
  <2>1. \A t, u \in live : t = u
    BY <1>1 DEF Lined, TryOk
  <2>2. CASE live = {}
    BY <2>2, FS_EmptySet
  <2>3. CASE live # {}
    <3>1. PICK t \in live : TRUE
      BY <2>3
    <3>2. live = {t}
      BY <2>1, <3>1
    <3>3. Cardinality({t}) = 1
      BY FS_Singleton
    <3> QED
      BY <3>2, <3>3
  <2> QED
    BY <2>2, <2>3
<1>4. held => P # {} /\ live = {}
  BY <1>1, <1>2 DEF GoingOn
<1>5. P \subseteq files /\ files = P \cup F
  BY <1>1 DEF Lined
<1>6. UploadsGoOn
  BY <1>1, <1>2, <1>3, <1>4, <1>5 DEF UploadsGoOn, GoingOn
<1>7. OneCopyEach
  BY DEF UploadInv, OneCopyEach, Copied
<1> QED
  BY <1>6, <1>7

-----------------------------------------------------------------------------
(* The components together: each moves alone, and the others rest.             *)

ServersInv ==
    /\ RolesInv /\ VisibilityInv /\ PlacesInv /\ TreeInv
    /\ PointersInv /\ DefaultsInv /\ UploadInv

LEMMA ServersStart == ServersInit => ServersInv
BY RolesStart, VisibilityStart, PlacesStart, TreeStart, PointersStart, DefaultsStart, UploadStart,
   PermissionsAssumption, RolesAssumption, StructureAssumption, UploadAssumption
   DEF ServersInit, ServersInv

LEMMA ServersStep == ServersInv /\ [ServersNext]_All => ServersInv'
<1> SUFFICES ASSUME ServersInv, [ServersNext]_All PROVE ServersInv'
  OBVIOUS
<1>1. [RolesNext]_serverRoles /\ [StructureNext]_structure
  BY DEF ServersNext, All
<1>2. RolesInv' /\ PlacesInv' /\ TreeInv'
  BY <1>1, RolesStep, PlacesStep, TreeStep, PermissionsAssumption, RolesAssumption, StructureAssumption DEF ServersInv
<1>11. VisibilityInv'
  <2>1. [VisibilityNext]_visibility
    BY DEF ServersNext, All
  <2> QED
    BY <2>1, VisibilityStep DEF ServersInv
<1>3. VoiceServersNext \/ UNCHANGED voiceServers
  BY DEF ServersNext, All
<1>4. UNCHANGED voiceServers => PointersInv'
  BY DEF ServersInv, PointersInv, EntryRecords, Record, Ids, Clearing, voiceServers
<1>5. PointersInv'
  BY <1>3, <1>4, PointersStep, VoiceServersAssumption DEF ServersInv
<1>6. UNCHANGED voiceServers => DefaultsInv'
  BY NothingMoved
     DEF ServersInv, DefaultsInv, EntriesTyped, EntryRecords, Record, Ids, AskedTyped, Alone, voiceServers
<1>7. DefaultsInv'
  BY <1>3, <1>6, DefaultsStep, VoiceServersAssumption DEF ServersInv
<1>8. UploadNext \/ UNCHANGED uploadVars
  BY DEF ServersNext, All
<1>9. UNCHANGED uploadVars => UploadInv'
  BY DEF ServersInv, UploadInv, UploadTypes, Pending, InFlight, uploadVars, browser, atServer
<1>10. UploadInv'
  BY <1>8, <1>9, UploadStep, UploadAssumption DEF ServersInv
<1> QED
  BY <1>2, <1>5, <1>7, <1>10, <1>11 DEF ServersInv

LEMMA ServersAlways == ServersSpec => []ServersInv
BY ServersStart, ServersStep, PTL DEF ServersSpec

\* However stale what requests were weighed by, and however they interleave: until
\* the owner hands out Administrator, no role and no overwrite carries a permission
\* the owner never handed out.
THEOREM GrantsComeFromTheOwner == ServersSpec => []NothingFromNowhere
<1>1. ServersInv => NothingFromNowhere
  BY DEF ServersInv, RolesInv, HandedInv, NothingFromNowhere
<1> QED
  BY <1>1, ServersAlways, PTL

\* Rows of roles held name members and roles there are, channels name categories and
\* a voice server there are, but for what went while a request was about to name it.
THEOREM ReferencesStayLive == ServersSpec => []ReferencesLive
<1>1. ServersInv => ReferencesLive
  BY PointersEnd DEF ServersInv, RolesInv, RowsInv, PlacesInv, Grounded, ReferencesLive
<1> QED
  BY <1>1, ServersAlways, PTL

\* Requests that each ran alone, and were not refused half way, leave a server that
\* has entries with one default, whatever they created, chose and deleted.
THEOREM OneDefaultIsLeft == ServersSpec => []OneDefault
<1>1. ServersInv => OneDefault
  BY DefaultsEnd DEF ServersInv
<1> QED
  BY <1>1, ServersAlways, PTL

\* Two deletions at once, of text channels that were both there when they were
\* loaded, never leave a server without one: each counts behind the lock.
THEOREM ATextChannelStays == ServersSpec => []SomewhereToTalk
<1>1. ServersInv => SomewhereToTalk
  BY DEF ServersInv, PlacesInv, Grounded
<1> QED
  BY <1>1, ServersAlways, PTL

\* An order put on a bucket stays the order of those of its channels that stay in
\* it, whatever is created, moved, deleted and ordered behind the lock, and though
\* the rows may have held the same place: no two rows are handed one place.
THEOREM AnOrderHolds == ServersSpec => []OrderHolds
<1>1. ServersInv => OrderHolds
  BY TreeEnds DEF ServersInv
<1> QED
  BY <1>1, ServersAlways, PTL

\* Once the lock is free and everything told, a client draws the channels there are,
\* each in its category, but for those last announced as they were before.
THEOREM TheCacheFollows == ServersSpec => []CacheFollows
<1>1. ServersInv => CacheFollows
  BY TreeEnds DEF ServersInv
<1> QED
  BY <1>1, ServersAlways, PTL

\* Once the server is at rest a connected socket is in the channel's room just when
\* its member may see the channel, however refreshes, joins, removals and deletions
\* overlapped, but for a socket last moved on a view that was no longer so.
THEOREM SocketsAreWhereTheyBelong == ServersSpec => []RoomsFollow
<1>1. ServersInv => RoomsFollow
  BY VisibilityEnds DEF ServersInv
<1> QED
  BY <1>1, ServersAlways, PTL

\* Once the server, the requests and the timer are at rest, a member's sidebar has the
\* channel just when the member may see it, but for one last taken from an old answer.
THEOREM SidebarsFollow == ServersSpec => []SidebarFollows
<1>1. ServersInv => SidebarFollows
  BY VisibilityEnds DEF ServersInv
<1> QED
  BY <1>1, ServersAlways, PTL

\* A file that was added is on its way or waits for something that will come, one try
\* is about at most, and the batch never promises less than is left.
THEOREM UploadsAlwaysGoOn == ServersSpec => []UploadsGoOn
<1>1. ServersInv => UploadsGoOn
  BY UploadEnds DEF ServersInv
<1> QED
  BY <1>1, ServersAlways, PTL

\* However often a file is tried, stopped and tried again, across sessions, the
\* library gets it once unless the connection was lost after its last byte.
THEOREM OneCopyOfEach == ServersSpec => []OneCopyEach
<1>1. ServersInv => OneCopyEach
  BY UploadEnds DEF ServersInv
<1> QED
  BY <1>1, ServersAlways, PTL
=============================================================================
