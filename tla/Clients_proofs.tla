---------------------------- MODULE Clients_proofs -----------------------------
(* Proofs about Groups and VoiceClient, for every set of users, tabs and calls  *)
(* and any numbers of requests, attempts, presses, faults and lost connections. *)
EXTENDS Groups, VoiceClient, FiniteSetTheorems, WellFoundedInduction, NaturalsInduction, TLAPS

-----------------------------------------------------------------------------
(* The array of members.                                                       *)

LEMMA LeastPlace ==
    ASSUME NEW S \in SUBSET Nat, S # {}
    PROVE  Min(S) \in S /\ \A n \in S : Min(S) <= n
<1> DEFINE R == {ss \in Nat \X Nat : ss[1] < ss[2]}
<1>1. IsWellFoundedOn(R, Nat)
  BY NatLessThanWellFounded, Zenon DEF OpToRel
<1>2. \A x, y \in Nat : y < x => <<y, x>> \in R
  OBVIOUS
<1> HIDE DEF R
<1>3. PICK x \in S : \A y \in S : ~(<<y, x>> \in R)
  BY <1>1, WFMin
<1>4. \A y \in S : x <= y
  <2>1. ASSUME NEW y \in S PROVE ~(y < x)
    <3>1. x \in Nat /\ y \in Nat /\ ~(<<y, x>> \in R)
      BY <1>3
    <3> QED
      BY <1>2, <3>1, Zenon
  <2> QED
    BY <2>1
<1> QED
  BY <1>3, <1>4 DEF Min

LEMMA GreatestPlace ==
    ASSUME NEW S \in SUBSET Nat, S # {}, NEW b \in Nat, \A n \in S : n <= b
    PROVE  Max(S) \in S /\ \A n \in S : Max(S) >= n
<1> DEFINE U == {u \in Nat : \A n \in S : n <= u}
           m == Min(U)
<1>1. m \in U /\ \A u \in U : m <= u
  <2>1. b \in U /\ U \in SUBSET Nat
    OBVIOUS
  <2> QED
    BY <2>1, LeastPlace
<1> HIDE DEF m
<1>2. m \in S
  <2> SUFFICES ASSUME m \notin S PROVE FALSE
    OBVIOUS
  <2>1. \A n \in S : n <= m - 1
    BY <1>1
  <2>2. m - 1 \in U
    <3>1. PICK n \in S : TRUE
      OBVIOUS
    <3>2. m \in Nat /\ n \in Nat /\ n <= m - 1
      BY <1>1, <2>1
    <3>3. m - 1 \in Nat
      BY <3>2
    <3> QED
      BY <2>1, <3>3
  <2> QED
    BY <1>1, <2>2
<1> QED
  BY <1>1, <1>2 DEF Max

\* The places of an array, of which some may be gone.
IsArray(ms) == \E b \in Nat : DOMAIN ms \subseteq 1 .. b

\* Whoever is pushed is in, at a place that was nobody's.
LEMMA JoinedPeople ==
    ASSUME NEW ms, IsArray(ms), NEW u
    PROVE  IsArray(Pushed(ms, u)) /\ People(Pushed(ms, u)) = People(ms) \cup {u}
<1>1. PICK b \in Nat : DOMAIN ms \subseteq 1 .. b
  BY DEF IsArray
<1> DEFINE S == DOMAIN ms \cup {0}
<1>2. Max(S) \in S /\ \A n \in S : Max(S) >= n
  <2>1. S \in SUBSET Nat /\ S # {} /\ \A n \in S : n <= b
    BY <1>1
  <2> HIDE DEF S
  <2> QED
    BY <2>1, GreatestPlace
<1>3. PICK last : last = 1 + Max(S)
  OBVIOUS
<1>4. last \in 1 .. b + 1 /\ last \notin DOMAIN ms
  BY <1>1, <1>2, <1>3
<1>5. Pushed(ms, u) = [i \in DOMAIN ms \cup {last} |-> IF i = last THEN u ELSE ms[i]]
  BY <1>3 DEF Pushed
<1>6. b + 1 \in Nat /\ DOMAIN Pushed(ms, u) \subseteq 1 .. b + 1
  BY <1>1, <1>4, <1>5
<1>7. People(Pushed(ms, u)) = People(ms) \cup {u}
  BY <1>4, <1>5 DEF People
<1> QED
  BY <1>6, <1>7 DEF IsArray

\* A filter takes out the leaver, wherever they are in it, and leaves an heir.
LEMMA RemainingPeople ==
    ASSUME NEW u, IsArray(asks[u].read)
    PROVE  /\ IsArray(Remaining(u)) /\ People(Remaining(u)) = People(asks[u].read) \ {u}
           /\ DOMAIN Remaining(u) = {} <=> People(asks[u].read) \subseteq {u}
           /\ DOMAIN Remaining(u) # {} =>
                 Remaining(u)[Min(DOMAIN Remaining(u))] \in People(asks[u].read) \ {u}
<1>1. PICK ms : ms = asks[u].read
  OBVIOUS
<1>2. PICK left : left = [i \in {j \in DOMAIN ms : ms[j] # u} |-> ms[i]]
  OBVIOUS
<1>3. Remaining(u) = left
  BY <1>1, <1>2 DEF Remaining
<1>4. PICK b \in Nat : DOMAIN ms \subseteq 1 .. b
  BY <1>1 DEF IsArray
<1>5. DOMAIN left \subseteq 1 .. b
  BY <1>2, <1>4
<1>6. People(left) = People(ms) \ {u} /\ (DOMAIN left = {} <=> People(ms) \subseteq {u})
  BY <1>2 DEF People
<1>7. ASSUME DOMAIN left # {} PROVE left[Min(DOMAIN left)] \in People(ms) \ {u}
  <2>1. Min(DOMAIN left) \in DOMAIN left
    BY <1>5, <1>7, LeastPlace
  <2> QED
    BY <1>6, <2>1 DEF People
<1> QED
  BY <1>1, <1>3, <1>5, <1>6, <1>7 DEF IsArray

-----------------------------------------------------------------------------
(* The invariant.                                                              *)

\* Whoever adds has the group in the list of the tab it asked from.
AskTyped(u) ==
    asks[u] # NoAsk =>
        /\ asks[u] = [x \in DOMAIN asks[u] |-> asks[u][x]]
        /\ DOMAIN asks[u] = {"op", "of", "from", "read", "by", "at"}
        /\ asks[u].op \in {"add", "join", "leave"} /\ asks[u].at \in {"read", "written", "telling"}
        /\ asks[u].at = "telling" => asks[u].op = "leave"
        /\ asks[u].of \in User /\ asks[u].from \in Socket /\ Of[asks[u].from] = u
        /\ asks[u].op \in {"join", "leave"} => asks[u].of = u
        /\ asks[u].op = "add" => asks[u].from \in shows

AsksTyped == asks = [u \in User |-> asks[u]] /\ \A u \in User : AskTyped(u)

GroupTyped ==
    /\ AsksTyped
    /\ entering = [s \in Socket |-> entering[s]] /\ updates \in [Socket -> Nat]
    /\ standing \in [User -> BOOLEAN] /\ exists \in BOOLEAN /\ crossed \in BOOLEAN
    /\ up \subseteq Socket

MembersStand ==
    ~crossed =>
        /\ IsArray(members)
        /\ exists => owner \in People(members) /\ People(members) = {u \in User : standing[u]}

\* A leave that is stored, and has still to drop the leaver's sockets, or to tell;
\* an addition that is stored and has still to tell.
Dropping(u)  == asks[u].at = "written" /\ asks[u].op = "leave"
Leaving(u)   == asks[u].at \in {"written", "telling"} /\ asks[u].op = "leave"
Adding(v, u) == asks[v].at = "written" /\ asks[v].op \in {"add", "join"} /\ asks[v].of = u

\* Whoever was stored as joining is in, until told.
JoinersAreIn == \A u \in User : asks[u].at = "written" /\ asks[u].op = "join" => In(u)

\* A tab in the room or with the group in its list, of somebody out of it, is about
\* to lose it; a tab that is not in the room, of somebody who is in, is about to get
\* there, or to be told.
OutSeenTo(s) ==
    ~In(Of[s]) => (s \in inRoom => Dropping(Of[s])) /\ (s \in shows => Leaving(Of[s]))
InSeenTo(s) ==
    s \in up /\ s \notin inRoom /\ In(Of[s]) =>
        \/ entering[s] # "no" \/ Leaving(Of[s])
        \/ s \notin shows /\ (updates[s] > 0 \/ \E v \in User : Adding(v, Of[s]))

TabsSeenTo == ~crossed => JoinersAreIn /\ \A s \in Socket \ misled : OutSeenTo(s) /\ InSeenTo(s)

GroupsInv == GroupTyped /\ MembersStand /\ TabsSeenTo

LEMMA GroupsStart == ASSUME GroupsAssumption, GroupsInit PROVE GroupsInv
<1>1. PICK first \in User : \E start \in {<<first>>} \cup {<<first, u>> : u \in User \ {first}} :
            /\ exists = TRUE /\ members = start /\ owner = first
            /\ asks = [u \in User |-> NoAsk]
            /\ up = Socket /\ inRoom = {s \in Socket : Of[s] \in People(start)} /\ shows = inRoom
            /\ entering = [s \in Socket |-> "no"] /\ updates = [s \in Socket |-> 0]
            /\ standing = [u \in User |-> u \in People(start)]
            /\ crossed = FALSE /\ misled = {} /\ asked = 0 /\ drops = 0
  BY DEF GroupsInit
<1>2. PICK start \in {<<first>>} \cup {<<first, u>> : u \in User \ {first}} :
            /\ exists = TRUE /\ members = start /\ owner = first
            /\ asks = [u \in User |-> NoAsk]
            /\ up = Socket /\ inRoom = {s \in Socket : Of[s] \in People(start)} /\ shows = inRoom
            /\ entering = [s \in Socket |-> "no"] /\ updates = [s \in Socket |-> 0]
            /\ standing = [u \in User |-> u \in People(start)]
            /\ crossed = FALSE /\ misled = {} /\ asked = 0 /\ drops = 0
  BY <1>1
<1>3. DOMAIN start \subseteq 1 .. 2 /\ first \in People(start) /\ People(start) \subseteq User
  BY DEF People
<1>4. GroupTyped
  <2>1. standing \in [User -> BOOLEAN]
    <3>1. \A u \in User : (u \in People(start)) \in BOOLEAN
      OBVIOUS
    <3> QED
      BY <1>2, <3>1
  <2>2. exists \in BOOLEAN /\ crossed \in BOOLEAN /\ up \subseteq Socket
    BY <1>2
  <2>3. /\ AsksTyped
        /\ entering = [s \in Socket |-> entering[s]] /\ updates \in [Socket -> Nat]
    BY <1>2 DEF AsksTyped, AskTyped
  <2> QED
    BY <2>1, <2>2, <2>3 DEF GroupTyped
<1>5. MembersStand
  BY <1>2, <1>3 DEF MembersStand, IsArray
<1>6. \A u \in User : asks[u].at = "none"
  BY <1>2 DEF NoAsk
<1>7. \A s \in Socket : Of[s] \in User
  BY DEF GroupsAssumption
<1>8. TabsSeenTo
  BY <1>2, <1>6, <1>7 DEF TabsSeenTo, JoinersAreIn, OutSeenTo, InSeenTo, In
<1> QED
  BY <1>4, <1>5, <1>8 DEF GroupsInv

LEMMA Further ==
    ASSUME GroupTyped, NEW u \in User, asks[u] # NoAsk, NEW at \in {"written", "telling"},
           asks' = [asks EXCEPT ![u].at = at], at = "telling" => asks[u].op = "leave",
           shows' = shows
    PROVE  /\ asks'[u].at = at /\ asks'[u].op = asks[u].op /\ asks'[u].of = asks[u].of
           /\ AsksTyped'
           /\ \A v \in User \ {u} : asks'[v] = asks[v]
<1>1. AskTyped(u) /\ asks = [v \in User |-> asks[v]] /\ \A v \in User : AskTyped(v)
  BY DEF GroupTyped, AsksTyped
<1>2. PICK ask : ask = [asks[u] EXCEPT !.at = at]
  OBVIOUS
<1>3. /\ ask = [x \in DOMAIN ask |-> ask[x]] /\ DOMAIN ask = {"op", "of", "from", "read", "by", "at"}
      /\ ask.at = at /\ ask.op = asks[u].op /\ ask.of = asks[u].of /\ ask.from = asks[u].from
  BY <1>1, <1>2 DEF AskTyped
<1>4. asks'[u] = ask /\ asks' = [v \in User |-> asks'[v]] /\ \A v \in User \ {u} : asks'[v] = asks[v]
  BY <1>1, <1>2
<1>5. AskTyped(u)'
  BY <1>1, <1>3, <1>4 DEF AskTyped
<1>6. \A v \in User \ {u} : AskTyped(v)'
  BY <1>1, <1>4 DEF AskTyped
<1> QED
  BY <1>3, <1>4, <1>5, <1>6 DEF AsksTyped

\* The request is put, moves on, or is over: nothing else changes.
LEMMA AsksKeep ==
    ASSUME GroupsAssumption, GroupsInv, UNCHANGED <<document, tabs, standing, crossed, misled>>,
           AsksTyped', NEW u \in User, \A v \in User \ {u} : asks'[v] = asks[v],
           asks[u].at \in {"none", "read"}, asks'[u].at \in {"none", "read"}
    PROVE  GroupsInv'
<1>1. GroupTyped'
  BY DEF GroupsInv, GroupTyped, tabs, document
<1>2. MembersStand'
  BY DEF GroupsInv, MembersStand, document
<1>3. \A v \in User : /\ Dropping(v) => Dropping(v)'
                      /\ Leaving(v) => Leaving(v)' /\ \A w : Adding(v, w) => Adding(v, w)'
  BY DEF Dropping, Leaving, Adding
<1>4. \A v \in User : In(v)' <=> In(v)
  BY DEF In, document
<1>5. TabsSeenTo'
  <2> SUFFICES ASSUME ~crossed PROVE JoinersAreIn' /\ \A s \in Socket \ misled : (OutSeenTo(s) /\ InSeenTo(s))'
    BY DEF TabsSeenTo
  <2>1. JoinersAreIn'
    BY <1>4 DEF GroupsInv, TabsSeenTo, JoinersAreIn
  <2>2. ASSUME NEW s \in Socket \ misled PROVE (OutSeenTo(s) /\ InSeenTo(s))'
    <3>1. Of[s] \in User /\ OutSeenTo(s) /\ InSeenTo(s)
      BY DEF GroupsAssumption, GroupsInv, TabsSeenTo
    <3>2. UNCHANGED <<up, inRoom, shows, entering, updates, exists, members>>
      BY DEF tabs, document
    <3> QED
      BY <3>1, <3>2 DEF OutSeenTo, InSeenTo, In, Dropping, Leaving, Adding
  <2> QED
    BY <2>1, <2>2
<1> QED
  BY <1>1, <1>2, <1>5 DEF GroupsInv

LEMMA AsksStep ==
    ASSUME GroupsAssumption, GroupsInv, NEW s \in Socket,
           AsksToJoin(s) \/ AsksToLeave(s) \/ \E u \in User : AsksToAdd(s, u)
    PROVE  GroupsInv'
<1> DEFINE u == Of[s]
<1>1. u \in User /\ GroupTyped
  BY DEF GroupsAssumption, GroupsInv
<1>2. PICK op \in {"add", "join", "leave"}, w \in User :
        Asks(s, Ask(op, w, s)) /\ (op \in {"join", "leave"} => w = u) /\ (op = "add" => s \in shows)
  BY <1>1 DEF AsksToJoin, AsksToLeave, AsksToAdd
<1>3. PICK ask : ask = Ask(op, w, s)
  OBVIOUS
<1>4. /\ ask = [x \in DOMAIN ask |-> ask[x]] /\ DOMAIN ask = {"op", "of", "from", "read", "by", "at"}
      /\ ask.op = op /\ ask.of = w /\ ask.from = s /\ ask.at = "read"
  BY <1>3 DEF Ask
<1>5. /\ asks[u] = NoAsk /\ asks' = [asks EXCEPT ![u] = ask]
      /\ UNCHANGED <<document, tabs, standing, crossed, misled>>
  BY <1>2, <1>3 DEF Asks
<1>6. /\ asks[u].at = "none" /\ asks'[u] = ask /\ asks' = [v \in User |-> asks'[v]]
      /\ \A v \in User \ {u} : asks'[v] = asks[v]
  BY <1>1, <1>5 DEF NoAsk, GroupTyped, AsksTyped
<1>7. AskTyped(u)'
  BY <1>2, <1>4, <1>5, <1>6 DEF AskTyped, tabs
<1>8. \A v \in User \ {u} : AskTyped(v)'
  BY <1>1, <1>5, <1>6 DEF GroupTyped, AsksTyped, AskTyped, tabs
<1>9. AsksTyped'
  BY <1>6, <1>7, <1>8 DEF AsksTyped
<1>10. asks[u].at \in {"none", "read"} /\ asks'[u].at \in {"none", "read"}
  BY <1>4, <1>6
<1> HIDE DEF u
<1> QED
  BY <1>1, <1>5, <1>6, <1>9, <1>10, AsksKeep

LEMMA FailsStep ==
    ASSUME GroupsAssumption, GroupsInv, NEW u \in User, Fails(u)
    PROVE  GroupsInv'
<1>1. asks' = [asks EXCEPT ![u] = NoAsk] /\ asks[u].at = "read"
      /\ UNCHANGED <<document, tabs, standing, crossed, misled>>
  BY DEF Fails
<1>2. /\ asks'[u] = NoAsk /\ asks' = [v \in User |-> asks'[v]]
      /\ \A v \in User \ {u} : asks'[v] = asks[v]
  BY <1>1 DEF GroupsInv, GroupTyped, AsksTyped
<1>3. AsksTyped'
  BY <1>1, <1>2 DEF GroupsInv, GroupTyped, AsksTyped, AskTyped, tabs
<1>4. asks'[u].at = "none"
  BY <1>2 DEF NoAsk
<1> QED
  BY <1>1, <1>2, <1>3, <1>4, AsksKeep

LEMMA PushesStep ==
    ASSUME GroupsAssumption, GroupsInv, NEW u \in User, Pushes(u)
    PROVE  GroupsInv'
<1>1. /\ asks[u] # NoAsk /\ asks[u].at = "read" /\ asks[u].op \in {"add", "join"} /\ exists
      /\ members' = Pushed(members, asks[u].of)
      /\ asks' = [asks EXCEPT ![u].at = "written"]
      /\ standing' = [standing EXCEPT ![asks[u].of] = TRUE]
      /\ UNCHANGED <<exists, owner, inRoom, up, entering, updates, shows, crossed, misled>>
  BY DEF Pushes, tabs
<1>2. PICK w : w = asks[u].of
  OBVIOUS
<1>3. w \in User /\ (asks[u].op = "join" => w = u)
  BY <1>1, <1>2 DEF GroupsInv, GroupTyped, AsksTyped, AskTyped
<1>4. /\ asks'[u].at = "written" /\ asks'[u].op = asks[u].op /\ asks'[u].of = w
      /\ AsksTyped'
      /\ \A v \in User \ {u} : asks'[v] = asks[v]
  BY <1>1, <1>2, Further DEF GroupsInv
<1>5. GroupTyped'
  BY <1>1, <1>4 DEF GroupsInv, GroupTyped
<1>6. ~crossed => IsArray(members') /\ People(members') = People(members) \cup {w}
  BY <1>1, <1>2, JoinedPeople DEF GroupsInv, MembersStand
<1>7. MembersStand'
  <2> SUFFICES ASSUME ~crossed
               PROVE  owner \in People(members)' /\ People(members)' = {v \in User : standing'[v]}
    BY <1>1, <1>6 DEF MembersStand
  <2>1. owner \in People(members) /\ People(members) = {v \in User : standing[v]}
    BY <1>1 DEF GroupsInv, MembersStand
  <2>2. \A v \in User : standing'[v] <=> (standing[v] \/ v = w)
    BY <1>1, <1>2, <1>3 DEF GroupsInv, GroupTyped
  <2> QED
    BY <1>3, <1>6, <2>1, <2>2
<1>8. ~crossed => \A v \in User : In(v)' <=> (In(v) \/ v = w)
  BY <1>1, <1>6 DEF In
<1>9. \A v \in User : /\ Dropping(v) => Dropping(v)'
                      /\ Leaving(v) => Leaving(v)' /\ \A x : Adding(v, x) => Adding(v, x)'
  BY <1>1, <1>4 DEF Dropping, Leaving, Adding
<1>10. Adding(u, w)'
  BY <1>1, <1>4 DEF Adding
<1>11. TabsSeenTo'
  <2> SUFFICES ASSUME ~crossed PROVE JoinersAreIn' /\ \A s \in Socket \ misled : (OutSeenTo(s) /\ InSeenTo(s))'
    BY <1>1 DEF TabsSeenTo
  <2>1. JoinersAreIn'
    BY <1>3, <1>4, <1>8 DEF GroupsInv, TabsSeenTo, JoinersAreIn
  <2>2. ASSUME NEW s \in Socket \ misled PROVE (OutSeenTo(s) /\ InSeenTo(s))'
    <3>1. Of[s] \in User /\ OutSeenTo(s) /\ InSeenTo(s)
      BY DEF GroupsAssumption, GroupsInv, TabsSeenTo
    <3>2. CASE Of[s] # w \/ In(Of[s])
      <4>1. In(Of[s])' <=> In(Of[s])
        BY <1>8, <3>1, <3>2
      <4> QED
        BY <1>1, <1>4, <3>1, <4>1 DEF OutSeenTo, InSeenTo, Dropping, Leaving, Adding
    <3>3. CASE Of[s] = w /\ ~In(Of[s])
      <4>1. In(Of[s])'
        BY <1>8, <3>1, <3>3
      <4>2. s \in shows => Leaving(Of[s])'
        BY <1>9, <3>1, <3>3 DEF OutSeenTo
      <4> QED
        BY <1>1, <1>10, <3>3, <4>1, <4>2 DEF OutSeenTo, InSeenTo
    <3> QED
      BY <3>2, <3>3
  <2> QED
    BY <2>1, <2>2
<1> QED
  BY <1>5, <1>7, <1>11 DEF GroupsInv

LEMMA WritesLeaveStep ==
    ASSUME GroupsAssumption, GroupsInv, NEW u \in User, WritesLeave(u)
    PROVE  GroupsInv'
<1>1. /\ asks[u] # NoAsk /\ asks[u].at = "read" /\ asks[u].op = "leave"
      /\ asks' = [asks EXCEPT ![u].at = "written"]
      /\ crossed' = (crossed \/ members # asks[u].read \/ owner # asks[u].by)
      /\ standing' = [standing EXCEPT ![u] = FALSE]
      /\ UNCHANGED <<inRoom, up, entering, updates, shows, misled>>
  BY DEF WritesLeave, tabs
<1>2. \/ DOMAIN Remaining(u) = {} /\ exists' = FALSE /\ UNCHANGED <<members, owner>>
      \/ /\ DOMAIN Remaining(u) # {} /\ exists /\ members' = Remaining(u) /\ UNCHANGED exists
         /\ owner' = IF Heir(u) = asks[u].by THEN owner ELSE Heir(u)
  BY DEF WritesLeave
<1>3. /\ asks'[u].at = "written" /\ asks'[u].op = "leave" /\ AsksTyped'
      /\ \A v \in User \ {u} : asks'[v] = asks[v]
  BY <1>1, Further DEF GroupsInv
<1>4. GroupTyped'
  <2>1. exists' \in BOOLEAN /\ crossed' \in BOOLEAN /\ standing' \in [User -> BOOLEAN]
    BY <1>1, <1>2 DEF GroupsInv, GroupTyped
  <2> QED
    BY <1>1, <1>3, <2>1 DEF GroupsInv, GroupTyped
<1>5. ASSUME ~crossed'
      PROVE  /\ ~crossed /\ members = asks[u].read /\ owner = asks[u].by /\ IsArray(members)
             /\ IsArray(Remaining(u)) /\ People(Remaining(u)) = People(members) \ {u}
             /\ DOMAIN Remaining(u) = {} <=> People(members) \subseteq {u}
             /\ DOMAIN Remaining(u) # {} =>
                   Remaining(u)[Min(DOMAIN Remaining(u))] \in People(members) \ {u}
  <2>1. ~crossed /\ members = asks[u].read /\ owner = asks[u].by
    BY <1>1, <1>5
  <2>2. IsArray(asks[u].read)
    BY <2>1 DEF GroupsInv, MembersStand
  <2> QED
    BY <2>1, <2>2, RemainingPeople
<1>6. MembersStand'
  <2> SUFFICES ASSUME ~crossed'
               PROVE  /\ IsArray(members')
                      /\ exists' => owner' \in People(members') /\ People(members') = {v \in User : standing'[v]}
    BY DEF MembersStand
  <2>1. IsArray(members')
    BY <1>2, <1>5
  <2>2. ASSUME exists'
        PROVE  owner' \in People(members') /\ People(members') = {v \in User : standing'[v]}
    <3>1. DOMAIN Remaining(u) # {} /\ exists /\ members' = Remaining(u)
          /\ owner' = IF Heir(u) = asks[u].by THEN owner ELSE Heir(u)
      BY <1>2, <2>2
    <3>2. owner \in People(members) /\ People(members) = {v \in User : standing[v]}
      BY <1>5, <3>1 DEF GroupsInv, MembersStand
    <3>3. \A v \in User : standing'[v] <=> (standing[v] /\ v # u)
      BY <1>1 DEF GroupsInv, GroupTyped
    <3>4. People(members') = {v \in User : standing'[v]}
      BY <1>5, <3>1, <3>2, <3>3
    <3>5. owner' \in People(members')
      BY <1>5, <3>1, <3>2 DEF Heir
    <3> QED
      BY <3>4, <3>5
  <2> QED
    BY <2>1, <2>2
<1>7. ASSUME ~crossed', NEW v \in User \ {u} PROVE In(v)' <=> In(v)
  <2>1. CASE DOMAIN Remaining(u) = {}
    BY <1>2, <1>5, <1>7, <2>1 DEF In
  <2>2. CASE DOMAIN Remaining(u) # {}
    <3>1. People(members') = People(members) \ {u} /\ exists' = exists
      BY <1>2, <1>5, <1>7, <2>2
    <3> QED
      BY <1>7, <3>1 DEF In
  <2> QED
    BY <2>1, <2>2
<1>8. ASSUME ~crossed' PROVE ~In(u)'
  <2>1. exists' => People(members') = People(members) \ {u}
    BY <1>2, <1>5, <1>8
  <2> QED
    BY <2>1 DEF In
<1>9. TabsSeenTo'
  <2> SUFFICES ASSUME ~crossed' PROVE JoinersAreIn' /\ \A s \in Socket \ misled : (OutSeenTo(s) /\ InSeenTo(s))'
    BY <1>1 DEF TabsSeenTo
  <2>0. ~crossed
    BY <1>1
  <2>1. JoinersAreIn'
    <3> SUFFICES ASSUME NEW v \in User, asks'[v].at = "written", asks'[v].op = "join" PROVE In(v)'
      BY DEF JoinersAreIn
    <3>1. v # u /\ asks[v].at = "written" /\ asks[v].op = "join"
      BY <1>3
    <3>2. In(v)
      BY <2>0, <3>1 DEF GroupsInv, TabsSeenTo, JoinersAreIn
    <3> QED
      BY <1>7, <3>1, <3>2
  <2>2. ASSUME NEW s \in Socket \ misled PROVE (OutSeenTo(s) /\ InSeenTo(s))'
    <3>1. Of[s] \in User /\ OutSeenTo(s) /\ InSeenTo(s)
      BY <2>0 DEF GroupsAssumption, GroupsInv, TabsSeenTo
    <3>2. CASE Of[s] # u
      <4>1. In(Of[s])' <=> In(Of[s])
        BY <1>7, <3>1, <3>2
      <4> QED
        BY <1>1, <1>3, <3>1, <3>2, <4>1 DEF OutSeenTo, InSeenTo, Dropping, Leaving, Adding
    <3>3. CASE Of[s] = u
      BY <1>3, <1>8, <3>3 DEF OutSeenTo, InSeenTo, Dropping, Leaving
    <3> QED
      BY <3>2, <3>3
  <2> QED
    BY <2>1, <2>2
<1> QED
  BY <1>4, <1>6, <1>9 DEF GroupsInv

LEMMA DropsStep ==
    ASSUME GroupsAssumption, GroupsInv, NEW u \in User, DropsFromRoom(u)
    PROVE  GroupsInv'
<1>1. /\ asks[u] # NoAsk /\ asks[u].at = "written" /\ asks[u].op = "leave"
      /\ inRoom' = inRoom \ SocketsOf(u) /\ asks' = [asks EXCEPT ![u].at = "telling"]
      /\ misled' = IF In(u) THEN misled \cup SocketsOf(u) ELSE misled
      /\ UNCHANGED <<exists, members, owner, up, entering, updates, shows, standing, crossed>>
  BY DEF DropsFromRoom, document
<1>2. /\ asks'[u].at = "telling" /\ asks'[u].op = "leave" /\ AsksTyped'
      /\ \A v \in User \ {u} : asks'[v] = asks[v]
  BY <1>1, Further DEF GroupsInv
<1>3. GroupTyped' /\ MembersStand'
  BY <1>1, <1>2 DEF GroupsInv, GroupTyped, MembersStand
<1>4. \A v \in User : asks'[v].at = "written" => v # u /\ asks[v].at = "written"
  BY <1>2
<1>5. TabsSeenTo'
  <2> SUFFICES ASSUME ~crossed PROVE JoinersAreIn' /\ \A s \in Socket \ misled' : (OutSeenTo(s) /\ InSeenTo(s))'
    BY <1>1 DEF TabsSeenTo
  <2>1. JoinersAreIn'
    BY <1>1, <1>2, <1>4 DEF GroupsInv, TabsSeenTo, JoinersAreIn, In
  <2>2. ASSUME NEW s \in Socket \ misled' PROVE (OutSeenTo(s) /\ InSeenTo(s))'
    <3>1. Of[s] \in User /\ OutSeenTo(s) /\ InSeenTo(s)
      BY <1>1 DEF GroupsAssumption, GroupsInv, TabsSeenTo
    <3>2. In(Of[s])' <=> In(Of[s])
      BY <1>1 DEF In
    <3>3. CASE Of[s] # u
      BY <1>1, <1>2, <3>1, <3>2, <3>3 DEF OutSeenTo, InSeenTo, Dropping, Leaving, Adding, SocketsOf
    <3>4. CASE Of[s] = u
      <4>1. ~In(u) /\ s \notin inRoom'
        BY <1>1, <3>4 DEF SocketsOf
      <4> QED
        BY <1>2, <3>2, <3>4, <4>1 DEF OutSeenTo, InSeenTo, Leaving
    <3> QED
      BY <3>3, <3>4
  <2> QED
    BY <2>1, <2>2
<1> QED
  BY <1>3, <1>5 DEF GroupsInv

LEMMA RepliesStep ==
    ASSUME GroupsAssumption, GroupsInv, NEW u \in User, Replies(u)
    PROVE  GroupsInv'
<1>1. PICK ask : ask = asks[u]
  OBVIOUS
<1>2. PICK inHand : inHand = IF ask.op = "leave" THEN People(Remaining(u)) ELSE People(ask.read) \cup {ask.of}
  OBVIOUS
<1>3. /\ ask # NoAsk /\ ask.at = IF ask.op = "leave" THEN "telling" ELSE "written"
      /\ updates' = [s \in Socket |-> IF s \in {x \in up : Of[x] \in inHand} THEN updates[s] + 1 ELSE updates[s]]
      /\ asks' = [asks EXCEPT ![u] = NoAsk]
      /\ shows' = IF ask.op = "leave" THEN shows \ {ask.from} ELSE shows \cup {ask.from}
      /\ entering' = IF ask.op = "join" /\ ask.from \in up /\ entering[ask.from] = "no"
                        THEN [entering EXCEPT ![ask.from] = "asked"] ELSE entering
      /\ misled' = IF ask.op # "leave" THEN misled
                    ELSE misled \cup IF In(u) THEN SocketsOf(u) ELSE (SocketsOf(u) \cap shows) \ {ask.from}
      /\ UNCHANGED <<exists, members, owner, inRoom, up, standing, crossed>>
  BY <1>1, <1>2 DEF Replies, document
<1>4. /\ ask.op \in {"add", "join", "leave"} /\ ask.of \in User /\ ask.from \in Socket /\ Of[ask.from] = u
      /\ ask.op \in {"join", "leave"} => ask.of = u
      /\ ask.op = "add" => ask.from \in shows
  BY <1>1, <1>3 DEF GroupsInv, GroupTyped, AsksTyped, AskTyped
<1>5. /\ asks'[u] = NoAsk /\ asks'[u].at = "none" /\ asks' = [v \in User |-> asks'[v]]
      /\ \A v \in User \ {u} : asks'[v] = asks[v]
  BY <1>3 DEF GroupsInv, GroupTyped, AsksTyped, NoAsk
<1>6. AsksTyped'
  <2>1. \A v \in User \ {u} : AskTyped(v)'
    <3> SUFFICES ASSUME NEW v \in User \ {u}, asks[v] # NoAsk PROVE AskTyped(v)'
      BY <1>5 DEF AskTyped
    <3>1. AskTyped(v)
      BY DEF GroupsInv, GroupTyped, AsksTyped
    <3>2. asks[v].from # ask.from
      BY <1>4, <3>1 DEF AskTyped
    <3> QED
      BY <1>3, <1>5, <3>1, <3>2 DEF AskTyped
  <2>2. AskTyped(u)'
    BY <1>5 DEF AskTyped
  <2> QED
    BY <1>5, <2>1, <2>2 DEF AsksTyped
<1>7. \A s \in Socket : /\ updates'[s] \in Nat /\ (updates[s] > 0 => updates'[s] > 0)
                        /\ s \in up /\ Of[s] \in inHand => updates'[s] > 0
                        /\ entering'[s] = entering[s] \/ (entering[s] = "no" /\ entering'[s] = "asked")
                        /\ ask.op = "join" /\ s = ask.from /\ s \in up => entering'[s] # "no"
  BY <1>3 DEF GroupsInv, GroupTyped
<1>8. GroupTyped' /\ MembersStand'
  <2>1. updates' \in [Socket -> Nat] /\ entering' = [s \in Socket |-> entering'[s]]
    BY <1>3, <1>7 DEF GroupsInv, GroupTyped
  <2> QED
    BY <1>3, <1>6, <2>1 DEF GroupsInv, GroupTyped, MembersStand
<1>9. TabsSeenTo'
  <2> SUFFICES ASSUME ~crossed PROVE JoinersAreIn' /\ \A s \in Socket \ misled' : (OutSeenTo(s) /\ InSeenTo(s))'
    BY <1>3 DEF TabsSeenTo
  <2>1. JoinersAreIn'
    BY <1>3, <1>5 DEF GroupsInv, TabsSeenTo, JoinersAreIn, In
  <2>2. ASSUME NEW s \in Socket \ misled' PROVE (OutSeenTo(s) /\ InSeenTo(s))'
    <3>1. Of[s] \in User /\ OutSeenTo(s) /\ InSeenTo(s)
      BY <1>3 DEF GroupsAssumption, GroupsInv, TabsSeenTo
    <3>2. In(Of[s])' <=> In(Of[s])
      BY <1>3 DEF In
    <3>3. CASE ask.op = "leave" /\ Of[s] = u
      <4>1. ~In(u) /\ (s \in shows => s = ask.from)
        BY <1>3, <3>3 DEF SocketsOf
      <4>2. s \notin inRoom
        BY <1>1, <1>3, <3>1, <3>3, <4>1 DEF OutSeenTo, Dropping
      <4> QED
        BY <1>3, <3>2, <3>3, <4>1, <4>2 DEF OutSeenTo, InSeenTo
    <3>4. CASE Of[s] # u
      <4>1. s \in shows' <=> s \in shows
        BY <1>3, <1>4, <3>4
      <4>2. ~(ask.op = "leave") /\ ask.of = Of[s] /\ s \in up => updates'[s] > 0
        BY <1>2, <1>7
      <4>3. \A v \in User : asks[v].at = "written" /\ asks[v].op \in {"add", "join"} /\ asks[v].of = Of[s] =>
                  \/ asks'[v].at = "written" /\ asks'[v].op \in {"add", "join"} /\ asks'[v].of = Of[s]
                  \/ ask.op # "leave" /\ ask.of = Of[s]
        BY <1>1, <1>5
      <4>4. asks'[Of[s]] = asks[Of[s]]
        BY <1>5, <3>1, <3>4
      <4>5. OutSeenTo(s)'
        BY <1>3, <3>1, <3>2, <4>1, <4>4 DEF OutSeenTo, Dropping, Leaving
      <4>6. InSeenTo(s)'
        BY <1>3, <1>7, <3>1, <3>2, <4>1, <4>2, <4>3, <4>4 DEF InSeenTo, Leaving, Adding
      <4> QED
        BY <4>5, <4>6
    <3>5. CASE ask.op # "leave" /\ Of[s] = u
      <4>1. ~Leaving(u) /\ ~Dropping(u)
        BY <1>1, <3>5 DEF Leaving, Dropping
      <4>2. ask.op = "join" => In(u)
        BY <1>1, <1>3 DEF GroupsInv, TabsSeenTo, JoinersAreIn
      <4>3. ask.op = "add" => (s \in shows' <=> s \in shows)
        BY <1>3, <1>4
      <4>4. OutSeenTo(s)'
        BY <1>3, <1>4, <3>1, <3>2, <3>5, <4>1, <4>2, <4>3 DEF OutSeenTo
      <4>5. InSeenTo(s)'
        <5> SUFFICES ASSUME s \in up, s \notin inRoom, In(u), entering'[s] = "no"
                     PROVE  s \notin shows' /\ (updates'[s] > 0 \/ \E v \in User : Adding(v, u)')
          BY <1>3, <3>2, <3>5 DEF InSeenTo
        <5>1. entering[s] = "no"
          BY <1>7
        <5>2. s \notin shows /\ (updates[s] > 0 \/ \E v \in User : Adding(v, u))
          BY <3>1, <3>5, <4>1, <5>1 DEF InSeenTo
        <5>3. s \notin shows'
          BY <1>3, <1>4, <1>7, <4>3, <5>2
        <5>4. ASSUME NEW v \in User, Adding(v, u) PROVE updates'[s] > 0 \/ \E x \in User : Adding(x, u)'
          <6>1. CASE v = u
            BY <1>1, <1>2, <1>7, <3>5, <5>4, <6>1 DEF Adding
          <6>2. CASE v # u
            BY <1>5, <5>4, <6>2 DEF Adding
          <6> QED
            BY <6>1, <6>2
        <5> QED
          BY <1>7, <5>2, <5>3, <5>4
      <4> QED
        BY <4>4, <4>5
    <3> QED
      BY <3>3, <3>4, <3>5
  <2> QED
    BY <2>1, <2>2
<1> QED
  BY <1>8, <1>9 DEF GroupsInv

OthersRest(s) ==
    \A x \in Socket \ {s} :
        /\ (x \in up' <=> x \in up) /\ (x \in inRoom' <=> x \in inRoom) /\ (x \in shows' <=> x \in shows)
        /\ entering'[x] = entering[x] /\ updates'[x] = updates[x]

\* A tab's own steps leave the document and the requests.
LEMMA TabStep ==
    ASSUME GroupsAssumption, GroupsInv, NEW s \in Socket,
           UNCHANGED <<document, asks, standing, crossed>>, shows \subseteq shows',
           up' \subseteq Socket, entering' = [x \in Socket |-> entering'[x]], updates' \in [Socket -> Nat],
           misled \subseteq misled',
           OthersRest(s),
           ~crossed /\ s \notin misled' => (OutSeenTo(s) /\ InSeenTo(s))'
    PROVE  GroupsInv'
<1>1. GroupTyped' /\ MembersStand'
  BY DEF GroupsInv, GroupTyped, AsksTyped, AskTyped, MembersStand, document
<1>2. TabsSeenTo'
  <2> SUFFICES ASSUME ~crossed PROVE JoinersAreIn' /\ \A x \in Socket \ misled' : (OutSeenTo(x) /\ InSeenTo(x))'
    BY DEF TabsSeenTo
  <2>1. JoinersAreIn'
    BY DEF GroupsInv, TabsSeenTo, JoinersAreIn, In, document
  <2>2. ASSUME NEW x \in Socket \ misled', x # s PROVE (OutSeenTo(x) /\ InSeenTo(x))'
    <3>1. OutSeenTo(x) /\ InSeenTo(x)
      BY DEF GroupsInv, TabsSeenTo
    <3>2. /\ (x \in up' <=> x \in up) /\ (x \in inRoom' <=> x \in inRoom) /\ (x \in shows' <=> x \in shows)
          /\ entering'[x] = entering[x] /\ updates'[x] = updates[x]
      BY <2>2 DEF OthersRest
    <3> QED
      BY <3>1, <3>2 DEF OutSeenTo, InSeenTo, Dropping, Leaving, Adding, In, document
  <2> QED
    BY <2>1, <2>2
<1> QED
  BY <1>1, <1>2 DEF GroupsInv

LEMMA TabsStep ==
    ASSUME GroupsAssumption, GroupsInv, NEW s \in Socket,
           Updated(s) \/ ReadsGroup(s) \/ ReadFails(s) \/ EntersRoom(s) \/ LosesSocket(s) \/ Reconnects(s)
    PROVE  GroupsInv'
<1>0. /\ Of[s] \in User /\ GroupTyped /\ entering = [x \in Socket |-> entering[x]]
      /\ updates \in [Socket -> Nat] /\ up \subseteq Socket
      /\ ~crossed /\ s \notin misled => OutSeenTo(s) /\ InSeenTo(s)
  BY DEF GroupsAssumption, GroupsInv, GroupTyped, TabsSeenTo
<1>1. CASE Updated(s)
  <2>1. /\ updates[s] > 0 /\ updates' = [updates EXCEPT ![s] = @ - 1] /\ shows' = shows \cup {s}
        /\ entering' = IF s \notin shows /\ entering[s] = "no" THEN [entering EXCEPT ![s] = "asked"] ELSE entering
        /\ misled' = IF s \notin shows /\ ~In(Of[s]) THEN misled \cup {s} ELSE misled
        /\ UNCHANGED <<exists, members, owner, asks, inRoom, up, standing, crossed>>
    BY <1>1 DEF Updated, document
  <2>2. updates' \in [Socket -> Nat] /\ \A x \in Socket \ {s} : updates'[x] = updates[x]
    BY <1>0, <2>1
  <2>3. /\ entering' = [x \in Socket |-> entering'[x]] /\ \A x \in Socket \ {s} : entering'[x] = entering[x]
        /\ s \notin shows => entering'[s] # "no"
        /\ entering[s] # "no" => entering'[s] # "no"
    BY <1>0, <2>1
  <2>4. ~crossed /\ s \notin misled' => (OutSeenTo(s) /\ InSeenTo(s))'
    BY <1>0, <2>1, <2>3 DEF OutSeenTo, InSeenTo, In, Dropping, Leaving
  <2>8. OthersRest(s)
    BY <1>0, <2>1, <2>2, <2>3, <2>4 DEF OthersRest
  <2>9. UNCHANGED <<document, asks, standing, crossed>> /\ shows \subseteq shows' /\ up' \subseteq Socket
        /\ misled \subseteq misled' /\ updates' \in [Socket -> Nat]
    BY <1>0, <2>1, <2>2, <2>3, <2>4 DEF document
  <2> QED
    BY <1>0, <2>1, <2>2, <2>3, <2>4, <2>8, <2>9, TabStep
<1>2. CASE ReadsGroup(s)
  <2>1. /\ entering' = [entering EXCEPT ![s] = IF In(Of[s]) THEN "found" ELSE "no"]
        /\ UNCHANGED <<exists, members, owner, asks, inRoom, up, updates, shows, standing, crossed, misled>>
    BY <1>2 DEF ReadsGroup, document
  <2>2. /\ entering' = [x \in Socket |-> entering'[x]] /\ \A x \in Socket \ {s} : entering'[x] = entering[x]
        /\ In(Of[s]) => entering'[s] # "no"
    BY <1>0, <2>1
  <2>3. ~crossed /\ s \notin misled' => (OutSeenTo(s) /\ InSeenTo(s))'
    BY <1>0, <2>1, <2>2 DEF OutSeenTo, InSeenTo, In, Dropping, Leaving
  <2>8. OthersRest(s)
    BY <1>0, <2>1, <2>2, <2>3 DEF OthersRest
  <2>9. UNCHANGED <<document, asks, standing, crossed>> /\ shows \subseteq shows' /\ up' \subseteq Socket
        /\ misled \subseteq misled' /\ updates' \in [Socket -> Nat]
    BY <1>0, <2>1, <2>2, <2>3 DEF document
  <2> QED
    BY <1>0, <2>1, <2>2, <2>3, <2>8, <2>9, TabStep
<1>3. CASE EntersRoom(s)
  <2>1. /\ entering' = [entering EXCEPT ![s] = "no"] /\ inRoom' = inRoom \cup {s}
        /\ misled' = IF In(Of[s]) THEN misled ELSE misled \cup {s}
        /\ UNCHANGED <<exists, members, owner, asks, up, updates, shows, standing, crossed>>
    BY <1>3 DEF EntersRoom, document
  <2>2. entering' = [x \in Socket |-> entering'[x]] /\ \A x \in Socket \ {s} : entering'[x] = entering[x]
    BY <1>0, <2>1
  <2>3. ~crossed /\ s \notin misled' => (OutSeenTo(s) /\ InSeenTo(s))'
    BY <2>1 DEF OutSeenTo, InSeenTo, In
  <2>8. OthersRest(s)
    BY <1>0, <2>1, <2>2, <2>3 DEF OthersRest
  <2>9. UNCHANGED <<document, asks, standing, crossed>> /\ shows \subseteq shows' /\ up' \subseteq Socket
        /\ misled \subseteq misled' /\ updates' \in [Socket -> Nat]
    BY <1>0, <2>1, <2>2, <2>3 DEF document
  <2> QED
    BY <1>0, <2>1, <2>2, <2>3, <2>8, <2>9, TabStep
<1>4. CASE LosesSocket(s)
  <2>1. /\ up' = up \ {s} /\ inRoom' = inRoom \ {s}
        /\ entering' = [entering EXCEPT ![s] = "no"] /\ updates' = [updates EXCEPT ![s] = 0]
        /\ UNCHANGED <<exists, members, owner, asks, shows, standing, crossed, misled>>
    BY <1>4 DEF LosesSocket, document
  <2>2. /\ entering' = [x \in Socket |-> entering'[x]] /\ updates' \in [Socket -> Nat]
        /\ \A x \in Socket \ {s} : entering'[x] = entering[x] /\ updates'[x] = updates[x]
    BY <1>0, <2>1
  <2>3. ~crossed /\ s \notin misled' => (OutSeenTo(s) /\ InSeenTo(s))'
    BY <1>0, <2>1 DEF OutSeenTo, InSeenTo, In, Dropping, Leaving
  <2>8. OthersRest(s)
    BY <1>0, <2>1, <2>2, <2>3 DEF OthersRest
  <2>9. UNCHANGED <<document, asks, standing, crossed>> /\ shows \subseteq shows' /\ up' \subseteq Socket
        /\ misled \subseteq misled' /\ updates' \in [Socket -> Nat]
    BY <1>0, <2>1, <2>2, <2>3 DEF document
  <2> QED
    BY <1>0, <2>1, <2>2, <2>3, <2>8, <2>9, TabStep
<1>5. CASE Reconnects(s)
  <2>1. /\ up' = up \cup {s} /\ entering' = [entering EXCEPT ![s] = "asked"]
        /\ UNCHANGED <<exists, members, owner, asks, inRoom, updates, shows, standing, crossed, misled>>
    BY <1>5 DEF Reconnects, document
  <2>2. /\ entering' = [x \in Socket |-> entering'[x]] /\ entering'[s] = "asked"
        /\ \A x \in Socket \ {s} : entering'[x] = entering[x]
    BY <1>0, <2>1
  <2>3. ~crossed /\ s \notin misled' => (OutSeenTo(s) /\ InSeenTo(s))'
    BY <1>0, <2>1, <2>2 DEF OutSeenTo, InSeenTo, In, Dropping, Leaving
  <2>8. OthersRest(s)
    BY <1>0, <2>1, <2>2, <2>3 DEF OthersRest
  <2>9. UNCHANGED <<document, asks, standing, crossed>> /\ shows \subseteq shows' /\ up' \subseteq Socket
        /\ misled \subseteq misled' /\ updates' \in [Socket -> Nat]
    BY <1>0, <2>1, <2>2, <2>3 DEF document
  <2> QED
    BY <1>0, <2>1, <2>2, <2>3, <2>8, <2>9, TabStep
<1>6. CASE ReadFails(s)
  <2>1. /\ entering' = [entering EXCEPT ![s] = "no"] /\ misled' = misled \cup {s}
        /\ UNCHANGED <<exists, members, owner, asks, inRoom, up, updates, shows, standing, crossed>>
    BY <1>6 DEF ReadFails, document
  <2>2. entering' = [x \in Socket |-> entering'[x]] /\ \A x \in Socket \ {s} : entering'[x] = entering[x]
    BY <1>0, <2>1
  <2>3. s \in misled' /\ OthersRest(s)
    BY <1>0, <2>1, <2>2 DEF OthersRest
  <2>4. UNCHANGED <<document, asks, standing, crossed>> /\ shows \subseteq shows' /\ up' \subseteq Socket
        /\ misled \subseteq misled' /\ updates' \in [Socket -> Nat]
    BY <1>0, <2>1 DEF document
  <2> QED
    BY <1>0, <2>2, <2>3, <2>4, TabStep
<1> QED
  BY <1>1, <1>2, <1>3, <1>4, <1>5, <1>6

LEMMA GroupsStep == ASSUME GroupsAssumption, GroupsInv, [GroupsNext]_groups PROVE GroupsInv'
<1>1. CASE UNCHANGED groups
  BY <1>1 DEF groups, tabs, document, GroupsInv, GroupTyped, AsksTyped, AskTyped, MembersStand, TabsSeenTo,
              JoinersAreIn, OutSeenTo, InSeenTo, In, Dropping, Leaving, Adding
<1> QED
  BY <1>1, AsksStep, FailsStep, PushesStep, WritesLeaveStep, DropsStep, RepliesStep, TabsStep DEF GroupsNext

LEMMA GroupsEnd == ASSUME GroupsAssumption, GroupsInv PROVE AnswersStand /\ GroupRoomFollows
<1>1. AnswersStand
  BY DEF GroupsInv, MembersStand, GroupTyped, AnswersStand
<1>2. GroupRoomFollows
  <2> SUFFICES ASSUME NEW s \in up \ misled, s \in Socket, ~crossed, entering[s] = "no", ~(updates[s] > 0),
                      \A u \in User : asks[u] = NoAsk
               PROVE  s \in inRoom <=> In(Of[s])
    BY DEF GroupRoomFollows, GroupsInv, GroupTyped
  <2>1. Of[s] \in User /\ \A u \in User : asks[u].at = "none"
    BY DEF GroupsAssumption, NoAsk
  <2> QED
    BY <2>1 DEF GroupsInv, TabsSeenTo, OutSeenTo, InSeenTo, Dropping, Leaving, Adding
<1> QED
  BY <1>1, <1>2

LEMMA GroupsAlways == GroupsSpec => []GroupsInv
BY GroupsStart, GroupsStep, GroupsAssumption, PTL DEF GroupsSpec

\* Whatever additions, joins by invite and leaves overlap, and however the connections
\* come and go: until a leave writes over another's change, the owner is a member, and
\* the members are those last told that they are in.
THEOREM WhatIsAnsweredStands == GroupsSpec => []AnswersStand
<1>1. GroupsInv => AnswersStand
  BY GroupsEnd, GroupsAssumption
<1> QED
  BY <1>1, GroupsAlways, PTL

\* Nothing on its way, a connection is in the group's room exactly if its user is a
\* member, but for a tab whose list was wrong, that entered late, or whose connection
\* could not be set up.
THEOREM TheGroupRoomFollows == GroupsSpec => []GroupRoomFollows
<1>1. GroupsInv => GroupRoomFollows
  BY GroupsEnd, GroupsAssumption
<1> QED
  BY <1>1, GroupsAlways, PTL

-----------------------------------------------------------------------------
(* VoiceClient: the tab's attempts, its session and the calls it is listed in. *)

Latent == {"token", "session"}      \* an attempt that has no session yet
Events == [do : {"join", "leave"}, call : Call]

\* An attempt that counts finds the tab with no call but its own; it has a session
\* from when it waits for the microphone, and its permits from when it has a token.
LatestAlone ==
    \A a \in attempts : Latest(a) =>
        /\ ~connected /\ retryTimer = NoRetry /\ active \in {None, a.call}
        /\ room = IF a.at \in Latent THEN 0 ELSE a.seq
        /\ a.at # "token" => permitsOf = a.call \/ misread

RetryAlone ==
    retryTimer # NoRetry => ~connected /\ room = 0 /\ active \in {None, retryTimer.call}

\* A session is the room's, and is there because the tab is in a call or about to be.
OneSession ==
    /\ sessions \subseteq {room}
    /\ connected => (room \in sessions \/ leaves # <<>>) /\ (permitsOf = active \/ misread)
    /\ sessions # {} => connected \/ \E a \in attempts : Latest(a) /\ a.at \notin Latent

\* What the server makes of an event, and of those held back, for a tab in the calls s.
Hears(s, e)   == IF e.do = "leave" THEN s \ {e.call} ELSE s \cup {e.call}
LeftIn(es)    == {c \in Call : \E i \in DOMAIN es : es[i] = [do |-> "leave", call |-> c]}
Heard(s, es)  == (s \ LeftIn(es)) \cup ListedAfter(es)

\* The calls the server lists the tab in, or may yet.
InCalls == seated \cup {g.call : g \in gates}

\* The server lists the tab in the active call alone, or will once it has heard and
\* checked all.
ListedOnce ==
    overtaken \/ (Heard(InCalls, unsent) \subseteq {active} /\ (socketUp /\ connected => active \in InCalls))

SeatsTyped ==
    /\ seated \subseteq Call /\ socket \in Nat /\ lost \subseteq Nat
    /\ gates \cup holds \subseteq [socket : Nat, call : Call] /\ overtaken \in BOOLEAN

ClientTyped ==
    /\ ClientTypeOK
    /\ unsent \in Seq(Events) /\ (socketUp => unsent = <<>>)
    /\ connected => active \in Call
    /\ intentionalLeave => leaves # <<>>
    /\ \A a, b \in attempts : a.seq = b.seq => a = b

ClientInv == ClientTyped /\ (~late => LatestAlone /\ RetryAlone /\ OneSession /\ ListedOnce)

LEMMA AppendListed ==
    ASSUME NEW es \in Seq(Events), NEW c \in Call, NEW do \in {"join", "leave"}
    PROVE  /\ Append(es, [do |-> do, call |-> c]) \in Seq(Events)
           /\ ListedAfter(Append(es, [do |-> do, call |-> c])) = Hears(ListedAfter(es), [do |-> do, call |-> c])
<1> DEFINE e  == [do |-> do, call |-> c]
           fs == Append(es, e)
<1>1. e \in Events /\ fs \in Seq(Events) /\ Len(fs) = Len(es) + 1
  BY DEF Events
<1>2. DOMAIN fs = DOMAIN es \cup {Len(es) + 1} /\ fs[Len(es) + 1] = e
  BY <1>1
<1>3. \A i \in DOMAIN es : fs[i] = es[i] /\ i < Len(es) + 1 /\ i \in Nat
  OBVIOUS
<1>4. ASSUME NEW d \in Call PROVE d \in ListedAfter(fs) <=> d \in Hears(ListedAfter(es), e)
  <2> DEFINE Stays(gs) == \E i \in DOMAIN gs :
                 /\ gs[i] = [do |-> "join", call |-> d]
                 /\ \A j \in DOMAIN gs : j > i => gs[j] # [do |-> "leave", call |-> d]
  <2>1. d \in ListedAfter(fs) <=> Stays(fs)
    BY DEF ListedAfter
  <2>2. d \in ListedAfter(es) <=> Stays(es)
    BY DEF ListedAfter
  <2>3. e = [do |-> "join", call |-> d] <=> do = "join" /\ d = c
    OBVIOUS
  <2>4. e = [do |-> "leave", call |-> d] <=> do = "leave" /\ d = c
    OBVIOUS
  <2>5. ASSUME e = [do |-> "join", call |-> d] PROVE Stays(fs)
    <3> HIDE DEF e, fs
    <3>1. Len(es) + 1 \in DOMAIN fs /\ \A j \in DOMAIN fs : ~(j > Len(es) + 1)
      BY <1>2, <1>3
    <3> QED
      BY <1>2, <2>5, <3>1
  <2>6. ASSUME e # [do |-> "join", call |-> d]
        PROVE  Stays(fs) <=> Stays(es) /\ e # [do |-> "leave", call |-> d]
    <3> HIDE DEF e, fs
    <3>1. \A i \in DOMAIN es : Len(es) + 1 > i
      BY <1>3
    <3>2. ASSUME Stays(fs) PROVE Stays(es) /\ e # [do |-> "leave", call |-> d]
      <4>1. PICK i \in DOMAIN fs :
                 /\ fs[i] = [do |-> "join", call |-> d]
                 /\ \A j \in DOMAIN fs : j > i => fs[j] # [do |-> "leave", call |-> d]
        BY <3>2
      <4>2. i \in DOMAIN es
        BY <1>2, <2>6, <4>1
      <4> QED
        BY <1>2, <1>3, <3>1, <4>1, <4>2
    <3>3. ASSUME Stays(es), e # [do |-> "leave", call |-> d] PROVE Stays(fs)
      <4>1. PICK i \in DOMAIN es :
                 /\ es[i] = [do |-> "join", call |-> d]
                 /\ \A j \in DOMAIN es : j > i => es[j] # [do |-> "leave", call |-> d]
        BY <3>3
      <4>2. ASSUME NEW j \in DOMAIN fs, j > i PROVE fs[j] # [do |-> "leave", call |-> d]
        BY <1>2, <1>3, <3>3, <4>1, <4>2
      <4> QED
        BY <1>2, <1>3, <4>1, <4>2
    <3> QED
      BY <3>2, <3>3
  <2>7. e.do = do /\ e.call = c
    OBVIOUS
  <2> HIDE DEF Stays, e, fs
  <2>8. CASE do = "join"
    <3>1. d \in Hears(ListedAfter(es), e) <=> Stays(es) \/ d = c
      BY <2>2, <2>7, <2>8 DEF Hears
    <3> QED
      BY <2>1, <2>3, <2>4, <2>5, <2>6, <2>8, <3>1
  <2>9. CASE do = "leave"
    <3>1. d \in Hears(ListedAfter(es), e) <=> Stays(es) /\ d # c
      BY <2>2, <2>7, <2>9 DEF Hears
    <3>2. do # "join"
      BY <2>9
    <3> QED
      BY <2>1, <2>3, <2>4, <2>6, <2>9, <3>1, <3>2
  <2> QED
    BY <2>8, <2>9
<1>5. ListedAfter(fs) \subseteq Call /\ Hears(ListedAfter(es), e) \subseteq Call
  BY DEF ListedAfter, Hears
<1> QED
  BY <1>1, <1>4, <1>5

\* The same for a tab that is in some calls already.
LEMMA AppendHeard ==
    ASSUME NEW es \in Seq(Events), NEW c \in Call, NEW do \in {"join", "leave"}, NEW s
    PROVE  /\ Append(es, [do |-> do, call |-> c]) \in Seq(Events)
           /\ Heard(s, Append(es, [do |-> do, call |-> c])) =
                 IF do = "leave" THEN Heard(s, es) \ {c} ELSE Heard(s, es) \cup {c}
<1> DEFINE e  == [do |-> do, call |-> c]
           fs == Append(es, e)
<1>1. fs \in Seq(Events) /\ ListedAfter(fs) = Hears(ListedAfter(es), e)
  BY AppendListed
<1>2. DOMAIN fs = DOMAIN es \cup {Len(es) + 1} /\ fs[Len(es) + 1] = e /\ \A i \in DOMAIN es : fs[i] = es[i]
  <2>1. e \in Events
    BY DEF Events
  <2> QED
    BY <2>1
<1>3. e.do = do /\ e.call = c /\ \A d : e = [do |-> "leave", call |-> d] <=> do = "leave" /\ d = c
  OBVIOUS
<1> HIDE DEF e, fs
<1>4. LeftIn(fs) = IF do = "leave" THEN LeftIn(es) \cup {c} ELSE LeftIn(es)
  <2>1. ASSUME NEW d \in Call PROVE d \in LeftIn(fs) <=> d \in LeftIn(es) \/ (do = "leave" /\ d = c)
    BY <1>2, <1>3 DEF LeftIn
  <2>2. LeftIn(fs) \subseteq Call /\ LeftIn(es) \subseteq Call
    BY DEF LeftIn
  <2> QED
    BY <2>1, <2>2
<1>5. Heard(s, fs) = IF do = "leave" THEN Heard(s, es) \ {c} ELSE Heard(s, es) \cup {c}
  <2>1. ListedAfter(fs) = IF do = "leave" THEN ListedAfter(es) \ {c} ELSE ListedAfter(es) \cup {c}
    BY <1>1, <1>3 DEF Hears
  <2>2. Heard(s, fs) = (s \ LeftIn(fs)) \cup ListedAfter(fs) /\ Heard(s, es) = (s \ LeftIn(es)) \cup ListedAfter(es)
    BY DEF Heard
  <2> QED
    BY <1>4, <2>1, <2>2
<1> QED
  BY <1>1, <1>5 DEF e, fs

LEMMA NothingHeard == \A s : Heard(s, <<>>) = s
BY DEF ListedAfter, LeftIn, Heard

\* The attempts a closing session starts are numbered apart.
LEMMA JoiningNumbers ==
    ASSUME ClientTypeOK
    PROVE  /\ \A i \in 0 .. Len(leaves) : Cardinality(Joining(i)) \in Nat
           /\ \A i \in Joining(Len(leaves)) :
                  i \in 1 .. Len(leaves) /\ leaves[i] \in Call
                  /\ Cardinality(Joining(i)) \in 1 .. Cardinality(Joining(Len(leaves)))
           /\ \A i, j \in Joining(Len(leaves)) : Cardinality(Joining(i)) = Cardinality(Joining(j)) => i = j
<1> DEFINE n == Len(leaves)
<1>1. n \in Nat /\ \A i \in 1 .. n : leaves[i] \in MaybeCall
  BY DEF ClientTypeOK
<1>2. \A i \in 0 .. n : IsFiniteSet(Joining(i)) /\ Cardinality(Joining(i)) \in Nat
  <2>1. ASSUME NEW i \in 0 .. n PROVE IsFiniteSet(Joining(i)) /\ Cardinality(Joining(i)) \in Nat
    <3>1. IsFiniteSet(1 .. i)
      BY <1>1, FS_Interval
    <3>2. Joining(i) \subseteq 1 .. i
      BY DEF Joining
    <3> QED
      BY <3>1, <3>2, FS_Subset, FS_CardinalityType
  <2> QED
    BY <2>1
<1>3. ASSUME NEW i \in Joining(n), NEW j \in 0 .. n, j < i
      PROVE  Cardinality(Joining(j)) < Cardinality(Joining(i))
  <2>1. i \in 0 .. n /\ Joining(j) \subseteq Joining(i) /\ i \in Joining(i) /\ i \notin Joining(j)
    BY <1>1, <1>3 DEF Joining
  <2>2. IsFiniteSet(Joining(i)) /\ Joining(j) # Joining(i)
    BY <1>2, <2>1
  <2> QED
    BY <1>2, <2>1, <2>2, FS_Subset
<1>4. \A i \in Joining(n) : i \in 1 .. n /\ leaves[i] \in Call
  BY <1>1 DEF Joining, MaybeCall
<1>5. ASSUME NEW i \in Joining(n)
      PROVE  Cardinality(Joining(i)) \in 1 .. Cardinality(Joining(n))
  <2>1. i \in 0 .. n /\ 0 \in 0 .. n /\ 0 < i /\ n \in 0 .. n
    BY <1>1, <1>4
  <2>2. Joining(i) \subseteq Joining(n) /\ IsFiniteSet(Joining(n))
    BY <1>1, <1>2, <1>4 DEF Joining
  <2>3. Cardinality(Joining(i)) <= Cardinality(Joining(n))
    BY <2>2, FS_Subset
  <2>4. Cardinality(Joining(0)) \in Nat /\ Cardinality(Joining(0)) < Cardinality(Joining(i))
    BY <1>2, <1>3, <2>1
  <2> QED
    BY <1>2, <2>1, <2>3, <2>4
<1>6. ASSUME NEW i \in Joining(n), NEW j \in Joining(n),
             Cardinality(Joining(i)) = Cardinality(Joining(j))
      PROVE  i = j
  <2>1. i \in 0 .. n /\ j \in 0 .. n
    BY <1>1, <1>4
  <2> QED
    BY <1>2, <1>3, <1>6, <2>1
<1> QED
  BY <1>1, <1>2, <1>4, <1>5, <1>6, Zenon

\* What is sent leaves the tab listed as it would have been had it been heard at once.
LEMMA EmitsLists ==
    ASSUME ClientTyped, NEW do \in {"join", "leave"}, NEW c \in Call, Emits(do, c)
    PROVE  /\ socketUp' = socketUp /\ SeatsTyped'
           /\ unsent' \in Seq(Events) /\ (socketUp' => unsent' = <<>>)
           /\ overtaken => overtaken'
           /\ overtaken' \/ Heard(InCalls, unsent)' = IF do = "leave" THEN Heard(InCalls, unsent) \ {c}
                                                     ELSE Heard(InCalls, unsent) \cup {c}
           /\ socketUp /\ do = "join" => c \in InCalls'
<1>1. /\ unsent \in Seq(Events) /\ (socketUp => unsent = <<>>) /\ seated \subseteq Call
      /\ socket \in Nat /\ lost \subseteq Nat /\ gates \cup holds \subseteq [socket : Nat, call : Call]
      /\ overtaken \in BOOLEAN
  BY DEF ClientTyped, ClientTypeOK
<1>2. socketUp' = socketUp /\ socket' = socket /\ lost' = lost
  BY DEF Emits
<1>3. CASE socketUp /\ do = "join"
  <2>1. gates' = gates \cup {On(socket, c)} /\ UNCHANGED <<seated, holds, overtaken, unsent>>
    BY <1>3 DEF Emits, HearsJoin
  <2>2. On(socket, c) \in [socket : Nat, call : Call] /\ On(socket, c).call = c
    BY <1>1 DEF On
  <2>3. SeatsTyped'
    BY <1>1, <1>2, <2>1, <2>2 DEF SeatsTyped
  <2>4. InCalls' = InCalls \cup {c}
    BY <2>1, <2>2 DEF InCalls
  <2>5. Heard(InCalls, unsent)' = InCalls' /\ Heard(InCalls, unsent) = InCalls
    BY <1>1, <1>3, <2>1, NothingHeard
  <2> QED
    BY <1>1, <1>2, <1>3, <2>1, <2>3, <2>4, <2>5
<1>4. CASE socketUp /\ do = "leave"
  <2>1. /\ seated' = seated \ {c} /\ holds' \subseteq holds /\ gates' = gates /\ unsent' = unsent
        /\ overtaken' = (overtaken \/ Waiting(c))
    BY <1>4 DEF Emits, HearsLeave
  <2>2. overtaken' \in BOOLEAN /\ (overtaken => overtaken') /\ (Waiting(c) => overtaken')
    BY <1>1, <2>1
  <2>3. SeatsTyped'
    BY <1>1, <1>2, <2>1, <2>2 DEF SeatsTyped
  <2>4. overtaken' \/ InCalls' = InCalls \ {c}
    BY <2>1, <2>2 DEF InCalls, Waiting
  <2>5. Heard(InCalls, unsent)' = InCalls' /\ Heard(InCalls, unsent) = InCalls
    BY <1>1, <1>4, <2>1, NothingHeard
  <2> QED
    BY <1>1, <1>2, <1>4, <2>1, <2>2, <2>3, <2>4, <2>5
<1>5. CASE ~socketUp
  <2>1. unsent' = Append(unsent, [do |-> do, call |-> c]) /\ UNCHANGED server
    BY <1>5 DEF Emits
  <2>2. SeatsTyped' /\ InCalls' = InCalls /\ overtaken' = overtaken
    BY <1>1, <1>2, <2>1 DEF SeatsTyped, server, InCalls
  <2>3. /\ unsent' \in Seq(Events)
        /\ Heard(InCalls, unsent') = IF do = "leave" THEN Heard(InCalls, unsent) \ {c}
                                     ELSE Heard(InCalls, unsent) \cup {c}
    BY <1>1, <2>1, AppendHeard
  <2> QED
    BY <1>1, <1>2, <1>5, <2>2, <2>3
<1> QED
  BY <1>1, <1>3, <1>4, <1>5

\* After a clean-up no call is active, and the server lists the tab in none.
LEMMA CleanupClears ==
    ASSUME ClientTyped, Cleanup
    PROVE  /\ room' = 0 /\ sessions' = sessions \ {room} /\ ~connected' /\ active' = None /\ permitsOf' = None
           /\ socketUp' = socketUp /\ SeatsTyped'
           /\ unsent' \in Seq(Events) /\ (socketUp' => unsent' = <<>>)
           /\ ListedOnce => ListedOnce'
<1>1. room' = 0 /\ sessions' = sessions \ {room} /\ ~connected' /\ active' = None /\ permitsOf' = None
  BY DEF Cleanup, TearsDown
<1>2. CASE active = None
  BY <1>1, <1>2 DEF Cleanup, line, server, SeatsTyped, InCalls, ClientTyped, ClientTypeOK, ListedOnce
<1>3. CASE active # None
  <2>1. Emits("leave", active) /\ active \in Call
    BY <1>3 DEF Cleanup, ClientTyped, ClientTypeOK, MaybeCall
  <2>2. /\ socketUp' = socketUp /\ SeatsTyped'
        /\ unsent' \in Seq(Events) /\ (socketUp' => unsent' = <<>>)
        /\ overtaken => overtaken'
        /\ overtaken' \/ Heard(InCalls, unsent)' = Heard(InCalls, unsent) \ {active}
    BY <2>1, EmitsLists
  <2>3. ListedOnce => ListedOnce'
    BY <1>1, <2>2, Zenon DEF ListedOnce
  <2> QED
    BY <1>1, <2>2, <2>3
<1> QED
  BY <1>2, <1>3

AttemptOK(b, s) == b \in [seq : 1 .. s, call : Call, n : 1 .. MaxAttempts, at : Latent \cup {"microphone", "prompt"}]

LEMMA AttemptsTyped == ClientTypeOK => \A a \in attempts : AttemptOK(a, connectSeq) /\ a.seq \in Nat
BY DEF ClientTypeOK, AttemptOK, Latent

\* An attempt is the latest from its start, and the only one.
LEMMA AttemptBegins ==
    ASSUME ClientTyped, NEW c \in Call, NEW n \in 1 .. MaxAttempts, NEW others \in SUBSET attempts,
           Attempt(c, n, others)
    PROVE  /\ connectSeq' = connectSeq + 1 /\ connectSeq' \in Nat
           /\ \A a \in attempts' : AttemptOK(a, connectSeq')
           /\ \A a, b \in attempts' : a.seq = b.seq => a = b
           /\ \A a \in attempts' : Latest(a)' => a.at = "token" /\ a.call = c
           /\ connecting' = c /\ retryTimer' = NoRetry /\ failTimer' = FALSE /\ intentionalLeave' = FALSE
<1> DEFINE new == [seq |-> connectSeq + 1, call |-> c, n |-> n, at |-> "token"]
<1>1. connectSeq \in Nat /\ connectSeq' = connectSeq + 1 /\ attempts' = others \cup {new}
  BY DEF ClientTyped, ClientTypeOK, Attempt
<1>2. connecting' = c /\ retryTimer' = NoRetry /\ failTimer' = FALSE /\ intentionalLeave' = FALSE
  BY DEF Attempt
<1>3. \A a \in others : AttemptOK(a, connectSeq) /\ a.seq \in Nat /\ a.seq < connectSeq + 1
  BY <1>1, AttemptsTyped DEF ClientTyped, AttemptOK
<1>4. AttemptOK(new, connectSeq + 1) /\ new.seq = connectSeq + 1 /\ new.at = "token" /\ new.call = c
  BY <1>1 DEF AttemptOK, Latent
<1>5. \A a : AttemptOK(a, connectSeq) => AttemptOK(a, connectSeq + 1)
  <2>1. 1 .. connectSeq \subseteq 1 .. (connectSeq + 1)
    BY <1>1
  <2> QED
    BY <2>1 DEF AttemptOK
<1> HIDE DEF new
<1>6. \A a \in attempts' : AttemptOK(a, connectSeq')
  BY <1>1, <1>3, <1>4, <1>5
<1>7. \A a, b \in attempts' : a.seq = b.seq => a = b
  BY <1>1, <1>3, <1>4 DEF ClientTyped
<1>8. \A a \in attempts' : Latest(a)' => a.at = "token" /\ a.call = c
  BY <1>1, <1>3, <1>4 DEF Latest
<1> QED
  BY <1>1, <1>2, <1>6, <1>7, <1>8

\* What the types of the next state come to.
LEMMA ClientTypedNext ==
    ASSUME connectSeq' \in Nat, \A a \in attempts' : AttemptOK(a, connectSeq'),
           room' \in 0 .. connectSeq', sessions' \subseteq 1 .. connectSeq',
           {connecting', active', permitsOf', wanted'} \subseteq MaybeCall,
           retryTimer' \in {NoRetry} \cup [call : Call, n : 2 .. MaxAttempts],
           {connected', intentionalLeave', failTimer', socketUp', late', misread'} \subseteq BOOLEAN,
           leaves' \in Seq(MaybeCall), SeatsTyped',
           presses' \in 0 .. MaxPresses, faults' \in 0 .. MaxFaults,
           unsent' \in Seq(Events), socketUp' => unsent' = <<>>, connected' => active' \in Call,
           intentionalLeave' => leaves' # <<>>,
           \A a, b \in attempts' : a.seq = b.seq => a = b
    PROVE  ClientTyped'
BY DEF ClientTyped, ClientTypeOK, AttemptOK, Latent, SeatsTyped

LEMMA ClientStarts == ASSUME VoiceClientInit PROVE ClientInv
<1>1. <<>> \in Seq(Events) /\ <<>> \in Seq(MaybeCall)
  OBVIOUS
<1>2. ClientTyped
  <2>1. ClientTypeOK
    <3>1. connectSeq \in Nat /\ room \in 0 .. connectSeq /\ sessions \subseteq 1 .. connectSeq /\ attempts = {}
      BY DEF VoiceClientInit
    <3>2. {connecting, active, permitsOf, wanted} \subseteq MaybeCall /\ retryTimer = NoRetry
      BY DEF VoiceClientInit, MaybeCall
    <3>3. {connected, intentionalLeave, failTimer, socketUp, late, misread, overtaken} \subseteq BOOLEAN
      BY DEF VoiceClientInit
    <3>4. leaves \in Seq(MaybeCall) /\ seated \subseteq Call
      BY <1>1 DEF VoiceClientInit
    <3>5. presses \in 0 .. MaxPresses /\ faults \in 0 .. MaxFaults
      BY VoiceClientAssumption DEF VoiceClientInit
    <3> QED
      BY <3>1, <3>2, <3>3, <3>4, <3>5 DEF ClientTypeOK, VoiceClientInit
  <2> QED
    BY <1>1, <2>1 DEF VoiceClientInit, ClientTyped
<1>3. LatestAlone /\ RetryAlone /\ OneSession /\ ListedOnce
  <2>1. Heard(InCalls, unsent) = {} /\ ~connected
    BY NothingHeard DEF VoiceClientInit, InCalls
  <2> QED
    BY <2>1 DEF VoiceClientInit, LatestAlone, RetryAlone, OneSession, ListedOnce
<1> QED
  BY <1>2, <1>3 DEF ClientInv

LEMMA LeaveForKeeps ==
    ASSUME ClientInv, NEW c \in MaybeCall, LeaveFor(c), UNCHANGED <<misread, faults>>,
           late' = late, wanted' \in MaybeCall, presses' \in 0 .. MaxPresses
    PROVE  ClientInv'
<1>1. connectSeq \in Nat /\ \A a \in attempts : AttemptOK(a, connectSeq) /\ a.seq \in 1 .. connectSeq
  BY AttemptsTyped DEF ClientInv, ClientTyped, ClientTypeOK, AttemptOK
<1>2. \A s \in Nat : s > connectSeq => \A a : AttemptOK(a, connectSeq) => AttemptOK(a, s)
  <2>1. \A s \in Nat : s > connectSeq => 1 .. connectSeq \subseteq 1 .. s
    BY <1>1
  <2> QED
    BY <2>1 DEF AttemptOK
<1>3. CASE room = 0
  <2>1. Cleanup /\ UNCHANGED leaves
    BY <1>3 DEF LeaveFor
  <2>2. /\ retryTimer' = NoRetry /\ failTimer' = FALSE /\ intentionalLeave' = FALSE /\ connecting' = c
        /\ connectSeq' = connectSeq + IF c = None THEN 1 ELSE 2
    BY <1>3 DEF LeaveFor
  <2>3. PICK new : /\ new = [seq |-> connectSeq + 2, call |-> c, n |-> 1, at |-> "token"]
                   /\ attempts' = IF c = None THEN attempts ELSE attempts \cup {new}
    BY <1>3 DEF LeaveFor
  <2>4. c # None => /\ AttemptOK(new, connectSeq + 2) /\ new.seq = connectSeq + 2
                    /\ new.at = "token" /\ new.call = c
    BY <1>1, <2>3, VoiceClientAssumption DEF AttemptOK, Latent, MaybeCall
  <2>5. \A a \in attempts' : AttemptOK(a, connectSeq')
    BY <1>1, <1>2, <2>2, <2>3, <2>4
  <2>6. \A a, b \in attempts' : a.seq = b.seq => a = b
    BY <1>1, <2>3, <2>4 DEF ClientInv, ClientTyped
  <2>7. \A a \in attempts' : Latest(a)' => a.at = "token"
    BY <1>1, <2>2, <2>3, <2>4 DEF Latest
  <2>8. /\ room' = 0 /\ sessions' = sessions \ {room} /\ ~connected' /\ active' = None /\ permitsOf' = None
        /\ socketUp' = socketUp /\ SeatsTyped'
        /\ unsent' \in Seq(Events) /\ (socketUp' => unsent' = <<>>)
        /\ ListedOnce => ListedOnce'
    BY <2>1, CleanupClears DEF ClientInv
  <2>9. connected' = FALSE
    BY <2>1 DEF Cleanup
  <2>10. ClientTyped'
    <3>1. connectSeq' \in Nat /\ 0 \in 0 .. connectSeq' /\ sessions' \subseteq 1 .. connectSeq'
      BY <1>1, <2>2, <2>8 DEF ClientInv, ClientTyped, ClientTypeOK
    <3>2. {connecting', active', permitsOf', wanted'} \subseteq MaybeCall
      BY <2>2, <2>8 DEF MaybeCall
    <3>3. {connected', intentionalLeave', failTimer', socketUp', late', misread'} \subseteq BOOLEAN
      BY <2>2, <2>8, <2>9 DEF ClientInv, ClientTyped, ClientTypeOK
    <3>4. leaves' \in Seq(MaybeCall) /\ faults' \in 0 .. MaxFaults
      BY <2>1 DEF ClientInv, ClientTyped, ClientTypeOK
    <3> QED
      BY <2>2, <2>5, <2>6, <2>8, <2>9, <3>1, <3>2, <3>3, <3>4, ClientTypedNext
  <2>11. ASSUME ~late' PROVE (LatestAlone /\ RetryAlone /\ OneSession /\ ListedOnce)'
    <3>1. OneSession /\ ListedOnce
      BY <2>11 DEF ClientInv
    <3>2. sessions' = {}
      BY <2>8, <3>1 DEF OneSession
    <3>3. LatestAlone' /\ RetryAlone'
      BY <2>2, <2>7, <2>8 DEF LatestAlone, RetryAlone, Latent
    <3>4. OneSession'
      BY <2>8, <3>2 DEF OneSession
    <3> QED
      BY <2>8, <3>1, <3>3, <3>4
  <2> QED
    BY <2>10, <2>11 DEF ClientInv
<1>4. CASE room # 0
  <2>1. /\ intentionalLeave' = TRUE /\ retryTimer' = NoRetry /\ failTimer' = FALSE
        /\ connectSeq' = connectSeq + 1 /\ sessions' = sessions \ {room} /\ leaves' = Append(leaves, c)
        /\ UNCHANGED <<attempts, room, call, permitsOf, line>>
    BY <1>4 DEF LeaveFor
  <2>2. leaves' \in Seq(MaybeCall) /\ leaves' # <<>>
    BY <2>1 DEF ClientInv, ClientTyped, ClientTypeOK
  <2>3. ClientTyped'
    <3>1. /\ connectSeq' \in Nat /\ room' \in 0 .. connectSeq' /\ sessions' \subseteq 1 .. connectSeq'
      BY <1>1, <2>1 DEF ClientInv, ClientTyped, ClientTypeOK
    <3>2. \A a \in attempts' : AttemptOK(a, connectSeq')
      BY <1>1, <1>2, <2>1
    <3>3. {connecting', active', permitsOf', wanted'} \subseteq MaybeCall
      BY <2>1 DEF ClientInv, ClientTyped, ClientTypeOK, call
    <3>4. {connected', intentionalLeave', failTimer', socketUp', late', misread'} \subseteq BOOLEAN
      BY <2>1 DEF ClientInv, ClientTyped, ClientTypeOK, call, line, server, SeatsTyped
    <3>5. faults' \in 0 .. MaxFaults /\ SeatsTyped'
      BY <2>1 DEF ClientInv, ClientTyped, ClientTypeOK, line, server, SeatsTyped
    <3>6. /\ unsent' \in Seq(Events) /\ (socketUp' => unsent' = <<>>) /\ (connected' => active' \in Call)
          /\ \A a, b \in attempts' : a.seq = b.seq => a = b
      BY <2>1 DEF ClientInv, ClientTyped, call, line, server, SeatsTyped
    <3> QED
      BY <2>1, <2>2, <3>1, <3>2, <3>3, <3>4, <3>5, <3>6, ClientTypedNext
  <2>4. ASSUME ~late' PROVE (LatestAlone /\ RetryAlone /\ OneSession /\ ListedOnce)'
    <3>1. OneSession /\ ListedOnce
      BY <2>4 DEF ClientInv
    <3>2. \A a \in attempts' : ~Latest(a)'
      BY <1>1, <2>1 DEF Latest
    <3>3. LatestAlone' /\ RetryAlone' /\ ListedOnce'
      BY <2>1, <3>1, <3>2 DEF LatestAlone, RetryAlone, ListedOnce, call, line, server, SeatsTyped, InCalls
    <3>4. OneSession'
      BY <2>1, <2>2, <3>1 DEF OneSession, call
    <3> QED
      BY <3>3, <3>4
  <2> QED
    BY <2>3, <2>4 DEF ClientInv
<1> QED
  BY <1>3, <1>4

LEMMA SessionClosedClient == ASSUME ClientInv, SessionClosed PROVE ClientInv'
<1> DEFINE n        == Len(leaves)
           New(i)   == [seq |-> connectSeq + Cardinality(Joining(i)), call |-> leaves[i], n |-> 1, at |-> "token"]
           total    == Cardinality(Joining(n))
           new      == {New(i) : i \in Joining(n)}
<1>1. /\ connectSeq \in Nat /\ n \in Nat /\ n > 0 /\ leaves \in Seq(MaybeCall)
      /\ \A a \in attempts : AttemptOK(a, connectSeq) /\ a.seq \in 1 .. connectSeq
  BY AttemptsTyped DEF ClientInv, ClientTyped, ClientTypeOK, AttemptOK, SessionClosed
<1>2. /\ connectSeq' = connectSeq + total /\ attempts' = attempts \cup new
      /\ connecting' = leaves[n] /\ leaves' = <<>>
      /\ retryTimer' = NoRetry /\ failTimer' = FALSE /\ intentionalLeave' = FALSE
      /\ late' = (late \/ \E a \in attempts : Latest(a))
      /\ UNCHANGED <<wanted, misread, presses, faults>>
  BY Zenon DEF SessionClosed
<1>3. /\ total \in Nat
      /\ \A i \in Joining(n) : leaves[i] \in Call /\ Cardinality(Joining(i)) \in 1 .. total
      /\ \A i, j \in Joining(n) : Cardinality(Joining(i)) = Cardinality(Joining(j)) => i = j
  <2>1. ClientTypeOK /\ n \in 0 .. n
    BY <1>1 DEF ClientInv, ClientTyped
  <2> QED
    BY <2>1, JoiningNumbers
<1>4. \A i \in Joining(n) :
         /\ New(i).seq \in 1 .. connectSeq + total /\ New(i).seq > connectSeq /\ New(i).at = "token"
         /\ New(i).call \in Call /\ AttemptOK(New(i), connectSeq + total)
  BY <1>1, <1>3, VoiceClientAssumption DEF AttemptOK, Latent
<1>5. \A a \in attempts : AttemptOK(a, connectSeq + total) /\ a.seq <= connectSeq
  <2>1. 1 .. connectSeq \subseteq 1 .. (connectSeq + total)
    BY <1>1, <1>3
  <2> QED
    BY <1>1, <2>1 DEF AttemptOK
<1>6. \A a \in attempts' : AttemptOK(a, connectSeq')
  BY <1>2, <1>4, <1>5
<1>7. \A a, b \in attempts' : a.seq = b.seq => a = b
  <2> SUFFICES ASSUME NEW a \in attempts', NEW b \in attempts', a.seq = b.seq PROVE a = b
    OBVIOUS
  <2>1. CASE a \in attempts /\ b \in attempts
    BY <2>1 DEF ClientInv, ClientTyped
  <2>2. CASE a \in new /\ b \in new
    <3>1. PICK i \in Joining(n), j \in Joining(n) : a = New(i) /\ b = New(j)
      BY <2>2
    <3>2. Cardinality(Joining(i)) = Cardinality(Joining(j))
      BY <1>1, <1>3, <3>1
    <3> QED
      BY <1>3, <3>1, <3>2
  <2>3. CASE (a \in attempts /\ b \in new) \/ (a \in new /\ b \in attempts)
    <3> HIDE DEF New
    <3>1. \A c \in new : c.seq > connectSeq /\ c.seq \in 1 .. connectSeq + total
      BY <1>4
    <3>2. \A c \in attempts : c.seq <= connectSeq /\ c.seq \in 1 .. connectSeq
      BY <1>1, <1>5
    <3> HIDE DEF new
    <3> QED
      BY <1>1, <2>3, <3>1, <3>2
  <2> QED
    BY <1>2, <2>1, <2>2, <2>3
<1>8. /\ room' = 0 /\ sessions' = sessions \ {room} /\ ~connected' /\ active' = None /\ permitsOf' = None
      /\ socketUp' = socketUp /\ SeatsTyped'
      /\ unsent' \in Seq(Events) /\ (socketUp' => unsent' = <<>>)
      /\ ListedOnce => ListedOnce'
  BY CleanupClears DEF ClientInv, SessionClosed
<1>9. connected' = FALSE
  BY DEF SessionClosed, Cleanup
<1>10. ClientTyped'
  <2> HIDE DEF total, n
  <2>1. connectSeq' \in Nat /\ room' \in 0 .. connectSeq' /\ sessions' \subseteq 1 .. connectSeq'
    BY <1>1, <1>2, <1>3, <1>8 DEF ClientInv, ClientTyped, ClientTypeOK
  <2>2. {connecting', active', permitsOf', wanted'} \subseteq MaybeCall
    <3>1. leaves[n] \in MaybeCall
      BY <1>1 DEF n
    <3> QED
      BY <1>2, <1>8, <3>1 DEF ClientInv, ClientTyped, ClientTypeOK, MaybeCall
  <2>3. {connected', intentionalLeave', failTimer', socketUp', late', misread'} \subseteq BOOLEAN
    <3>1. late' \in BOOLEAN
      BY <1>2, Zenon
    <3> HIDE DEF new
    <3> QED
      BY <1>2, <1>8, <1>9, <3>1 DEF ClientInv, ClientTyped, ClientTypeOK
  <2>4. leaves' \in Seq(MaybeCall) /\ presses' \in 0 .. MaxPresses /\ faults' \in 0 .. MaxFaults
    BY <1>2 DEF ClientInv, ClientTyped, ClientTypeOK
  <2> QED
    BY <1>2, <1>6, <1>7, <1>8, <1>9, <2>1, <2>2, <2>3, <2>4, ClientTypedNext
<1>11. ASSUME ~late' PROVE (LatestAlone /\ RetryAlone /\ OneSession /\ ListedOnce)'
  <2>1. OneSession /\ ListedOnce /\ \A a \in attempts : ~Latest(a)
    BY <1>2, <1>11 DEF ClientInv
  <2>2. sessions' = {}
    BY <1>8, <2>1 DEF OneSession
  <2>3. ASSUME NEW a \in attempts', Latest(a)' PROVE a.at = "token"
    <3>1. CASE a \in new
      BY <1>4, <3>1
    <3>2. CASE a \in attempts
      <4>1. a.seq = connectSeq + total /\ a.seq <= connectSeq /\ a.seq \in Nat
        BY <1>1, <1>2, <1>5, <2>3, <3>2 DEF Latest
      <4>2. a.seq = connectSeq
        BY <1>1, <1>3, <4>1
      <4> QED
        BY <2>1, <3>2, <4>2 DEF Latest
    <3> QED
      BY <1>2, <3>1, <3>2
  <2>4. LatestAlone' /\ RetryAlone'
    BY <1>2, <1>8, <2>3 DEF LatestAlone, RetryAlone, Latent
  <2>5. OneSession'
    BY <1>8, <2>2 DEF OneSession
  <2> QED
    BY <1>8, <2>1, <2>4, <2>5
<1> QED
  BY <1>10, <1>11 DEF ClientInv

\* An attempt that begins where the tab has no session and no call but that one.
LEMMA AttemptKeeps ==
    ASSUME ClientInv, NEW c \in Call, NEW n \in 1 .. MaxAttempts, NEW others \in SUBSET attempts,
           Attempt(c, n, others), UNCHANGED <<active, leaves, permitsOf, line>>,
           room' = 0, connected' = FALSE, sessions' \subseteq sessions,
           late' \in BOOLEAN, misread' \in BOOLEAN, wanted' \in MaybeCall,
           presses' \in 0 .. MaxPresses, faults' \in 0 .. MaxFaults,
           ~late' => ~late /\ sessions' = {} /\ active \in {None, c}
    PROVE  ClientInv'
<1>1. /\ connectSeq' = connectSeq + 1 /\ connectSeq' \in Nat
      /\ \A a \in attempts' : AttemptOK(a, connectSeq')
      /\ \A a, b \in attempts' : a.seq = b.seq => a = b
      /\ \A a \in attempts' : Latest(a)' => a.at = "token" /\ a.call = c
      /\ connecting' = c /\ retryTimer' = NoRetry /\ failTimer' = FALSE /\ intentionalLeave' = FALSE
  BY AttemptBegins DEF ClientInv
<1>2. ClientTyped'
  <2>1. room' \in 0 .. connectSeq' /\ sessions' \subseteq 1 .. connectSeq'
    BY <1>1 DEF ClientInv, ClientTyped, ClientTypeOK
  <2>2. {connecting', active', permitsOf', wanted'} \subseteq MaybeCall
    BY <1>1 DEF ClientInv, ClientTyped, ClientTypeOK, MaybeCall
  <2>3. {connected', intentionalLeave', failTimer', socketUp', late', misread'} \subseteq BOOLEAN
    BY <1>1 DEF ClientInv, ClientTyped, ClientTypeOK, line, server, SeatsTyped
  <2>4. /\ leaves' \in Seq(MaybeCall) /\ SeatsTyped'
        /\ unsent' \in Seq(Events) /\ (socketUp' => unsent' = <<>>)
    BY DEF ClientInv, ClientTyped, ClientTypeOK, line, server, SeatsTyped
  <2> QED
    BY <1>1, <2>1, <2>2, <2>3, <2>4, ClientTypedNext
<1>3. ASSUME ~late' PROVE (LatestAlone /\ RetryAlone /\ OneSession /\ ListedOnce)'
  <2>1. OneSession /\ ListedOnce /\ sessions' = {} /\ active' \in {None, c}
    BY <1>3 DEF ClientInv
  <2>2. LatestAlone' /\ RetryAlone' /\ OneSession'
    BY <1>1, <2>1 DEF LatestAlone, RetryAlone, OneSession, Latent
  <2>3. ListedOnce'
    BY <2>1 DEF ListedOnce, line, server, SeatsTyped, InCalls
  <2> QED
    BY <2>2, <2>3
<1> QED
  BY <1>2, <1>3 DEF ClientInv

LEMMA JoinPressedClient == ASSUME ClientInv, NEW c \in Call, JoinPressed(c) PROVE ClientInv'
<1>1. c \in MaybeCall /\ wanted' = c /\ presses' \in 0 .. MaxPresses /\ UNCHANGED <<misread, faults>>
  BY VoiceClientAssumption DEF JoinPressed, Press, MaybeCall, ClientInv, ClientTyped, ClientTypeOK
<1>2. CASE room # 0 \/ connected \/ connecting # None
  <2>1. LeaveFor(c) /\ UNCHANGED late
    BY <1>2 DEF JoinPressed
  <2> QED
    BY <1>1, <2>1, LeaveForKeeps
<1>3. CASE ~(room # 0 \/ connected \/ connecting # None)
  <2>1. /\ Attempt(c, 1, attempts) /\ late' = (late \/ active \notin {None, c})
        /\ UNCHANGED <<room, sessions, connected, active, leaves, permitsOf, line>>
    BY <1>3 DEF JoinPressed
  <2>2. 1 \in 1 .. MaxAttempts
    BY VoiceClientAssumption
  <2>3. late' \in BOOLEAN /\ misread' \in BOOLEAN /\ faults' \in 0 .. MaxFaults /\ wanted' \in MaybeCall
    BY <1>1, <2>1 DEF ClientInv, ClientTyped, ClientTypeOK
  <2>4. room' = 0 /\ connected' = FALSE /\ sessions' \subseteq sessions
    BY <1>3, <2>1 DEF ClientInv, ClientTyped, ClientTypeOK
  <2>5. ~late' => ~late /\ sessions' = {} /\ active \in {None, c}
    <3>1. ASSUME ~late PROVE sessions = {}
      <4>1. sessions \subseteq {0} /\ sessions \subseteq 1 .. connectSeq /\ connectSeq \in Nat
        BY <1>3, <3>1 DEF ClientInv, ClientTyped, ClientTypeOK, OneSession
      <4> QED
        BY <4>1
    <3> QED
      BY <2>1, <3>1
  <2> QED
    BY <1>1, <2>1, <2>2, <2>3, <2>4, <2>5, AttemptKeeps
<1> QED
  BY <1>2, <1>3

LEMMA LeavePressedClient == ASSUME ClientInv, LeavePressed \/ FailTimerFires PROVE ClientInv'
<1>1. LeaveFor(None) /\ UNCHANGED <<late, misread, faults>> /\ wanted' = None /\ None \in MaybeCall
  BY DEF LeavePressed, FailTimerFires, MaybeCall
<1>2. presses' \in 0 .. MaxPresses
  BY VoiceClientAssumption DEF LeavePressed, FailTimerFires, Press, ClientInv, ClientTyped, ClientTypeOK
<1> QED
  BY <1>1, <1>2, LeaveForKeeps

LEMMA RetryClient == ASSUME ClientInv, RetryTimerFires PROVE ClientInv'
<1>1. /\ retryTimer # NoRetry /\ Attempt(retryTimer.call, retryTimer.n, attempts)
      /\ UNCHANGED <<room, sessions, connected, active, leaves, permitsOf, line,
                     wanted, late, misread, presses, faults>>
  BY DEF RetryTimerFires
<1>2. retryTimer.call \in Call /\ retryTimer.n \in 1 .. MaxAttempts
  BY <1>1 DEF ClientInv, ClientTyped, ClientTypeOK
<1>3. ASSUME late PROVE ClientInv'
  <2>1. /\ connectSeq' = connectSeq + 1 /\ connectSeq' \in Nat
        /\ \A a \in attempts' : AttemptOK(a, connectSeq')
        /\ \A a, b \in attempts' : a.seq = b.seq => a = b
        /\ connecting' = retryTimer.call /\ retryTimer' = NoRetry /\ failTimer' = FALSE
        /\ intentionalLeave' = FALSE
    BY <1>1, <1>2, AttemptBegins DEF ClientInv
  <2>2. room' \in 0 .. connectSeq' /\ sessions' \subseteq 1 .. connectSeq'
    BY <1>1, <2>1 DEF ClientInv, ClientTyped, ClientTypeOK
  <2>3. {connecting', active', permitsOf', wanted'} \subseteq MaybeCall
    BY <1>1, <1>2, <2>1 DEF ClientInv, ClientTyped, ClientTypeOK, MaybeCall
  <2>4. {connected', intentionalLeave', failTimer', socketUp', late', misread'} \subseteq BOOLEAN
    BY <1>1, <2>1 DEF ClientInv, ClientTyped, ClientTypeOK, line, server, SeatsTyped
  <2>5. /\ leaves' \in Seq(MaybeCall) /\ SeatsTyped'
        /\ unsent' \in Seq(Events) /\ (socketUp' => unsent' = <<>>) /\ (connected' => active' \in Call)
        /\ presses' \in 0 .. MaxPresses /\ faults' \in 0 .. MaxFaults
    BY <1>1 DEF ClientInv, ClientTyped, ClientTypeOK, line, server, SeatsTyped
  <2>6. ClientTyped'
    BY <2>1, <2>2, <2>3, <2>4, <2>5, ClientTypedNext
  <2> QED
    BY <1>1, <1>3, <2>6 DEF ClientInv
<1>4. ASSUME ~late PROVE ClientInv'
  <2>1. RetryAlone /\ OneSession
    BY <1>4 DEF ClientInv
  <2>2. room' = 0 /\ connected' = FALSE /\ sessions' \subseteq sessions /\ sessions' = {}
        /\ active \in {None, retryTimer.call}
    BY <1>1, <2>1 DEF RetryAlone, OneSession, ClientInv, ClientTyped, ClientTypeOK
  <2>3. /\ late' \in BOOLEAN /\ misread' \in BOOLEAN /\ wanted' \in MaybeCall
        /\ presses' \in 0 .. MaxPresses /\ faults' \in 0 .. MaxFaults
    BY <1>1 DEF ClientInv, ClientTyped, ClientTypeOK
  <2> QED
    BY <1>1, <1>2, <1>4, <2>2, <2>3, AttemptKeeps
<1> QED
  BY <1>3, <1>4

\* What an attempt becomes, or that it ends.
LEMMA AttemptMoves ==
    ASSUME ClientTyped, NEW a \in attempts, NEW at \in Latent \cup {"microphone", "prompt"},
           connectSeq' = connectSeq, GoesOn(a, at) \/ Ends(a)
    PROVE  /\ \A b \in attempts' : AttemptOK(b, connectSeq')
           /\ \A b, d \in attempts' : b.seq = d.seq => b = d
           /\ \A b \in attempts' : b.seq # a.seq => b \in attempts
           /\ \A b \in attempts' : b.seq = a.seq => GoesOn(a, at) /\ b = [a EXCEPT !.at = at] /\ b.at = at /\ b.call = a.call
           /\ GoesOn(a, at) => \E b \in attempts' : b.seq = a.seq /\ b.at = at
           /\ \A b \in attempts : b.seq # a.seq => b \in attempts'
<1> DEFINE moved == [a EXCEPT !.at = at]
<1>1. \A b \in attempts : AttemptOK(b, connectSeq)
  BY AttemptsTyped DEF ClientTyped
<1>2. AttemptOK(moved, connectSeq) /\ moved.seq = a.seq /\ moved.at = at /\ moved.call = a.call
  BY <1>1 DEF AttemptOK
<1>3. \A b, d \in attempts : b.seq = d.seq => b = d
  BY DEF ClientTyped
<1>4. GoesOn(a, at) => attempts' = (attempts \ {a}) \cup {moved}
  BY DEF GoesOn
<1>5. Ends(a) => attempts' = attempts \ {a}
  BY DEF Ends
<1> HIDE DEF moved
<1>6. CASE GoesOn(a, at)
  <2>1. \A b \in attempts' : b.seq = a.seq => b = moved
    BY <1>3, <1>4, <1>6
  <2>2. /\ \A b \in attempts' : AttemptOK(b, connectSeq')
        /\ \A b, d \in attempts' : b.seq = d.seq => b = d
        /\ \A b \in attempts' : b.seq # a.seq => b \in attempts
        /\ \E b \in attempts' : b.seq = a.seq /\ b.at = at
        /\ \A b \in attempts : b.seq # a.seq => b \in attempts'
    BY <1>1, <1>2, <1>3, <1>4, <1>6
  <2> QED
    BY <1>2, <1>6, <2>1, <2>2 DEF moved
<1>7. CASE Ends(a) /\ ~GoesOn(a, at)
  BY <1>1, <1>3, <1>5, <1>7
<1> QED
  BY <1>6, <1>7

LEMMA TokenClient == ASSUME ClientInv, NEW a \in attempts, TokenComes(a) PROVE ClientInv'
<1>1. /\ a.at = "token" /\ permitsOf' = a.call /\ misread' = ~Latest(a)
      /\ IF Latest(a) THEN GoesOn(a, "session") ELSE Ends(a)
      /\ UNCHANGED <<connectSeq, room, sessions, call, intentionalLeave, timers, leaves,
                     line, wanted, late, presses, faults>>
  BY DEF TokenComes
<1>2. "session" \in Latent \cup {"microphone", "prompt"}
  BY DEF Latent
<1>3. /\ \A b \in attempts' : AttemptOK(b, connectSeq')
      /\ \A b, d \in attempts' : b.seq = d.seq => b = d
      /\ \A b \in attempts' : b.seq # a.seq => b \in attempts
      /\ \A b \in attempts' : b.seq = a.seq => b.at = "session" /\ b.call = a.call /\ GoesOn(a, "session")
      /\ \A b \in attempts : b.seq # a.seq => b \in attempts'
  BY <1>1, <1>2, AttemptMoves DEF ClientInv
<1>4. a.call \in Call
  BY AttemptsTyped DEF ClientInv, ClientTyped, AttemptOK
<1>5. ClientTyped'
  <2>1. /\ connectSeq' \in Nat /\ room' \in 0 .. connectSeq' /\ sessions' \subseteq 1 .. connectSeq'
        /\ retryTimer' \in {NoRetry} \cup [call : Call, n : 2 .. MaxAttempts]
        /\ leaves' \in Seq(MaybeCall) /\ SeatsTyped'
        /\ presses' \in 0 .. MaxPresses /\ faults' \in 0 .. MaxFaults
    BY <1>1 DEF ClientInv, ClientTyped, ClientTypeOK, line, server, SeatsTyped, timers
  <2>2. {connecting', active', permitsOf', wanted'} \subseteq MaybeCall
    BY <1>1, <1>4 DEF ClientInv, ClientTyped, ClientTypeOK, call, MaybeCall
  <2>3. {connected', intentionalLeave', failTimer', socketUp', late', misread'} \subseteq BOOLEAN
    BY <1>1 DEF ClientInv, ClientTyped, ClientTypeOK, call, line, server, SeatsTyped, timers, Latest
  <2>4. /\ unsent' \in Seq(Events) /\ (socketUp' => unsent' = <<>>) /\ (connected' => active' \in Call)
        /\ intentionalLeave' => leaves' # <<>>
    BY <1>1 DEF ClientInv, ClientTyped, call, line, server, SeatsTyped
  <2> QED
    BY <1>3, <2>1, <2>2, <2>3, <2>4, ClientTypedNext
<1>6. ASSUME ~late' PROVE (LatestAlone /\ RetryAlone /\ OneSession /\ ListedOnce)'
  <2>1. LatestAlone /\ RetryAlone /\ OneSession /\ ListedOnce
    BY <1>1, <1>6 DEF ClientInv
  <2>2. RetryAlone' /\ ListedOnce'
    BY <1>1, <2>1 DEF RetryAlone, ListedOnce, call, line, server, SeatsTyped, InCalls, timers
  <2>3. LatestAlone'
    <3> SUFFICES ASSUME NEW b \in attempts', Latest(b)'
                 PROVE  /\ ~connected' /\ retryTimer' = NoRetry /\ active' \in {None, b.call}
                        /\ room' = IF b.at \in Latent THEN 0 ELSE b.seq
                        /\ b.at # "token" => permitsOf' = b.call \/ misread'
      BY DEF LatestAlone
    <3>1. Latest(b)
      BY <1>1 DEF Latest
    <3>2. CASE b.seq = a.seq
      <4>1. Latest(a) /\ b.at = "session" /\ b.call = a.call
        BY <1>3, <3>1, <3>2 DEF Latest
      <4> QED
        BY <1>1, <2>1, <4>1 DEF LatestAlone, Latent, call, timers
    <3>3. CASE b.seq # a.seq
      <4>1. b \in attempts /\ ~Latest(a)
        BY <1>3, <3>1, <3>3 DEF Latest
      <4> QED
        BY <1>1, <2>1, <3>1, <4>1 DEF LatestAlone, call, timers
    <3> QED
      BY <3>2, <3>3
  <2>4. OneSession'
    <3>1. connected' => permitsOf' = active' \/ misread'
      BY <1>1, <2>1 DEF LatestAlone, call
    <3>2. ASSUME NEW b \in attempts, Latest(b), b.at \notin Latent
          PROVE  \E d \in attempts' : Latest(d)' /\ d.at \notin Latent
      <4>1. b.seq # a.seq
        BY <1>1, <3>2 DEF ClientInv, ClientTyped, Latent
      <4> QED
        BY <1>1, <1>3, <3>2, <4>1 DEF Latest
    <3>3. sessions' # {} => connected' \/ \E d \in attempts' : Latest(d)' /\ d.at \notin Latent
      BY <1>1, <2>1, <3>2 DEF OneSession, call
    <3> QED
      BY <1>1, <2>1, <3>1, <3>3 DEF OneSession, call
  <2> QED
    BY <2>2, <2>3, <2>4
<1> QED
  BY <1>5, <1>6 DEF ClientInv

LEMMA FailsClient == ASSUME ClientInv, NEW a \in attempts, AttemptFails(a) PROVE ClientInv'
<1>1. /\ a.at \in Latent /\ Fault /\ Ends(a)
      /\ UNCHANGED <<connectSeq, intentionalLeave, leaves, permitsOf, line, wanted, late, misread, presses>>
  BY DEF AttemptFails, Latent
<1>2. ~Latest(a) => UNCHANGED <<room, sessions, call, timers>>
  BY DEF AttemptFails
<1>3. Latest(a) => /\ room' = 0 /\ sessions' = sessions \ {room} /\ connected' = FALSE /\ active' = active
                   /\ IF a.n < MaxAttempts
                      THEN /\ retryTimer' = [call |-> a.call, n |-> a.n + 1]
                           /\ connecting' = connecting /\ failTimer' = failTimer
                      ELSE connecting' = None /\ failTimer' = TRUE /\ retryTimer' = retryTimer
  BY DEF AttemptFails, TearsDown
<1>4. /\ \A b \in attempts' : AttemptOK(b, connectSeq') /\ b \in attempts
      /\ \A b, d \in attempts' : b.seq = d.seq => b = d
      /\ \A b \in attempts : b.seq # a.seq => b \in attempts'
  <2>1. attempts' = attempts \ {a}
    BY <1>1 DEF Ends
  <2> QED
    BY <1>1, <2>1, AttemptsTyped DEF ClientInv, ClientTyped
<1>5. a.call \in Call /\ a.n \in 1 .. MaxAttempts
  BY AttemptsTyped DEF ClientInv, ClientTyped, AttemptOK
<1>6. ClientTyped'
  <2>1. connectSeq' \in Nat /\ room' \in 0 .. connectSeq' /\ sessions' \subseteq 1 .. connectSeq'
    <3>1. /\ connectSeq' = connectSeq /\ connectSeq \in Nat
          /\ room \in 0 .. connectSeq /\ sessions \subseteq 1 .. connectSeq
      BY <1>1 DEF ClientInv, ClientTyped, ClientTypeOK
    <3>2. 0 \in 0 .. connectSeq
      BY <3>1
    <3> QED
      BY <1>2, <1>3, <3>1, <3>2
  <2>2. retryTimer' \in {NoRetry} \cup [call : Call, n : 2 .. MaxAttempts]
    <3>1. a.n < MaxAttempts => a.n + 1 \in 2 .. MaxAttempts
      BY <1>5, VoiceClientAssumption
    <3> QED
      BY <1>2, <1>3, <1>5, <3>1 DEF ClientInv, ClientTyped, ClientTypeOK, timers
  <2>3. /\ leaves' \in Seq(MaybeCall) /\ SeatsTyped'
        /\ presses' \in 0 .. MaxPresses /\ faults' \in 0 .. MaxFaults
    BY <1>1, VoiceClientAssumption DEF ClientInv, ClientTyped, ClientTypeOK, line, server, SeatsTyped, Fault
  <2>4. {connecting', active', permitsOf', wanted'} \subseteq MaybeCall
    BY <1>1, <1>2, <1>3 DEF ClientInv, ClientTyped, ClientTypeOK, call, MaybeCall
  <2>5. {connected', intentionalLeave', failTimer', socketUp', late', misread'} \subseteq BOOLEAN
    BY <1>1, <1>2, <1>3 DEF ClientInv, ClientTyped, ClientTypeOK, call, line, server, SeatsTyped, timers
  <2>6. /\ unsent' \in Seq(Events) /\ (socketUp' => unsent' = <<>>) /\ (connected' => active' \in Call)
        /\ intentionalLeave' => leaves' # <<>>
    BY <1>1, <1>2, <1>3 DEF ClientInv, ClientTyped, call, line, server, SeatsTyped
  <2> QED
    BY <1>4, <2>1, <2>2, <2>3, <2>4, <2>5, <2>6, ClientTypedNext
<1>7. ASSUME ~late' PROVE (LatestAlone /\ RetryAlone /\ OneSession /\ ListedOnce)'
  <2>1. LatestAlone /\ RetryAlone /\ OneSession /\ ListedOnce
    BY <1>1, <1>7 DEF ClientInv
  <2>2. CASE Latest(a)
    <3>1. \A b \in attempts' : ~Latest(b)'
      <4>1. attempts' = attempts \ {a}
        BY <1>1 DEF Ends
      <4> QED
        BY <1>1, <2>2, <4>1 DEF ClientInv, ClientTyped, Latest
    <3>2. room = 0 /\ active \in {None, a.call} /\ retryTimer = NoRetry /\ ~connected
      BY <1>1, <2>1, <2>2 DEF LatestAlone
    <3>3. sessions' = {}
      BY <1>3, <2>1, <2>2 DEF OneSession
    <3>4. LatestAlone' /\ OneSession'
      BY <1>3, <2>2, <3>1, <3>3 DEF LatestAlone, OneSession
    <3>5. RetryAlone'
      BY <1>3, <2>2, <3>2 DEF RetryAlone
    <3>6. ListedOnce'
      BY <1>1, <1>3, <2>1, <2>2, <3>2 DEF ListedOnce, line, server, SeatsTyped, InCalls
    <3> QED
      BY <3>4, <3>5, <3>6
  <2>3. CASE ~Latest(a)
    <3>1. RetryAlone' /\ ListedOnce' /\ LatestAlone'
      BY <1>1, <1>2, <1>4, <2>1, <2>3 DEF RetryAlone, ListedOnce, LatestAlone, call, line, server, SeatsTyped, InCalls, timers, Latest
    <3>2. OneSession'
      <4>1. ASSUME NEW b \in attempts, Latest(b), b.at \notin Latent
            PROVE  \E d \in attempts' : Latest(d)' /\ d.at \notin Latent
        BY <1>1, <1>4, <2>3, <4>1 DEF Latest
      <4>2. sessions' # {} => connected' \/ \E d \in attempts' : Latest(d)' /\ d.at \notin Latent
        BY <1>2, <2>1, <2>3, <4>1 DEF OneSession, call
      <4> QED
        BY <1>1, <1>2, <2>1, <2>3, <4>2 DEF OneSession, call
    <3> QED
      BY <3>1, <3>2
  <2> QED
    BY <2>2, <2>3
<1> QED
  BY <1>6, <1>7 DEF ClientInv

\* The end of the latest attempt: the tab is in the call, and says so.
LEMMA JoinedKeeps ==
    ASSUME ClientInv, NEW a \in attempts, Joined(a),
           UNCHANGED <<connectSeq, intentionalLeave, timers, leaves, permitsOf, wanted, misread, presses, faults>>,
           room' \in 0 .. connectSeq, sessions' \subseteq 1 .. connectSeq, late' \in BOOLEAN,
           ~late' => /\ ~late /\ Latest(a) /\ a.at # "token"
                     /\ sessions' \subseteq {room'} /\ room' \in sessions'
    PROVE  ClientInv'
<1>1. /\ Ends(a) /\ connected' = TRUE /\ connecting' = None /\ active' = a.call /\ Emits("join", a.call)
  BY DEF Joined
<1>2. a.call \in Call
  BY AttemptsTyped DEF ClientInv, ClientTyped, AttemptOK
<1>3. /\ socketUp' = socketUp /\ SeatsTyped'
      /\ unsent' \in Seq(Events) /\ (socketUp' => unsent' = <<>>)
      /\ overtaken => overtaken'
      /\ overtaken' \/ Heard(InCalls, unsent)' = Heard(InCalls, unsent) \cup {a.call}
      /\ socketUp => a.call \in InCalls'
  BY <1>1, <1>2, EmitsLists DEF ClientInv
<1>4. attempts' = attempts \ {a}
  BY <1>1 DEF Ends
<1>5. ClientTyped'
  <2>1. /\ connectSeq' \in Nat /\ room' \in 0 .. connectSeq' /\ sessions' \subseteq 1 .. connectSeq'
        /\ retryTimer' \in {NoRetry} \cup [call : Call, n : 2 .. MaxAttempts]
        /\ leaves' \in Seq(MaybeCall) /\ presses' \in 0 .. MaxPresses /\ faults' \in 0 .. MaxFaults
    BY DEF ClientInv, ClientTyped, ClientTypeOK, timers
  <2>2. {connecting', active', permitsOf', wanted'} \subseteq MaybeCall
    BY <1>1, <1>2 DEF ClientInv, ClientTyped, ClientTypeOK, MaybeCall
  <2>3. {connected', intentionalLeave', failTimer', socketUp', late', misread'} \subseteq BOOLEAN
    BY <1>1, <1>3 DEF ClientInv, ClientTyped, ClientTypeOK, timers
  <2>4. /\ \A b \in attempts' : AttemptOK(b, connectSeq')
        /\ \A b, d \in attempts' : b.seq = d.seq => b = d
    BY <1>4, AttemptsTyped DEF ClientInv, ClientTyped
  <2>5. (connected' => active' \in Call) /\ (intentionalLeave' => leaves' # <<>>)
    BY <1>1, <1>2 DEF ClientInv, ClientTyped
  <2> QED
    BY <1>3, <2>1, <2>2, <2>3, <2>4, <2>5, ClientTypedNext
<1>6. ASSUME ~late' PROVE (LatestAlone /\ RetryAlone /\ OneSession /\ ListedOnce)'
  <2>1. LatestAlone /\ RetryAlone /\ OneSession /\ ListedOnce /\ Latest(a) /\ a.at # "token"
    BY <1>6 DEF ClientInv
  <2>2. \A b \in attempts' : ~Latest(b)'
    BY <1>4, <2>1 DEF ClientInv, ClientTyped, Latest
  <2>3. active \in {None, a.call} /\ retryTimer = NoRetry /\ (permitsOf = a.call \/ misread)
    BY <2>1 DEF LatestAlone
  <2>4. LatestAlone' /\ RetryAlone'
    BY <2>2, <2>3 DEF LatestAlone, RetryAlone, timers
  <2>5. OneSession'
    BY <1>1, <1>6, <2>3 DEF OneSession
  <2>6. ListedOnce'
    <3>1. InCalls \subseteq Call /\ ListedAfter(unsent) \subseteq Call /\ None \notin Call
      BY VoiceClientAssumption DEF ListedAfter, InCalls, ClientInv, ClientTyped, ClientTypeOK
    <3>2. None \notin Heard(InCalls, unsent)
      BY <3>1 DEF Heard
    <3> QED
      BY <1>1, <1>3, <2>1, <2>3, <3>2 DEF ListedOnce
  <2> QED
    BY <2>4, <2>5, <2>6
<1> QED
  BY <1>5, <1>6 DEF ClientInv

LEMMA MicrophoneClient == ASSUME ClientInv, NEW a \in attempts, MicrophoneAnswers(a) PROVE ClientInv'
<1>1. /\ a.at = "microphone" /\ Joined(a) /\ late' = (late \/ ~Latest(a) \/ room \notin sessions)
      /\ UNCHANGED <<connectSeq, room, sessions, intentionalLeave, timers, leaves, permitsOf,
                     wanted, misread, presses, faults>>
  BY DEF MicrophoneAnswers
<1>2. room' \in 0 .. connectSeq /\ sessions' \subseteq 1 .. connectSeq /\ late' \in BOOLEAN
  BY <1>1 DEF ClientInv, ClientTyped, ClientTypeOK
<1>3. ~late' => /\ ~late /\ Latest(a) /\ a.at # "token"
                /\ sessions' \subseteq {room'} /\ room' \in sessions'
  BY <1>1 DEF ClientInv, OneSession
<1> QED
  BY <1>1, <1>2, <1>3, JoinedKeeps

\* One that was not the latest ends, and nothing else changes.
LEMMA EndsQuietly ==
    ASSUME ClientInv, NEW a \in attempts, ~Latest(a), Ends(a),
           UNCHANGED <<connectSeq, room, call, intentionalLeave, timers, leaves, permitsOf, line,
                       wanted, late, misread, presses, faults>>,
           sessions' = sessions \/ (room = 0 /\ sessions' = sessions \ {room})
    PROVE  ClientInv'
<1>1. sessions' = sessions
  <2>1. sessions \subseteq 1 .. connectSeq /\ connectSeq \in Nat
    BY DEF ClientInv, ClientTyped, ClientTypeOK
  <2>2. 0 \notin sessions
    BY <2>1
  <2> QED
    BY <2>2
<1>2. attempts' = attempts \ {a} /\ connectSeq' = connectSeq
  BY DEF Ends
<1>3. ClientTyped'
  BY <1>1, <1>2 DEF ClientInv, ClientTyped, ClientTypeOK, call, line, server, SeatsTyped, timers
<1>4. ASSUME ~late' PROVE (LatestAlone /\ RetryAlone /\ OneSession /\ ListedOnce)'
  <2>1. LatestAlone /\ RetryAlone /\ OneSession /\ ListedOnce
    BY <1>4 DEF ClientInv
  <2>2. RetryAlone' /\ ListedOnce' /\ LatestAlone'
    BY <1>2, <2>1 DEF RetryAlone, ListedOnce, LatestAlone, call, line, server, SeatsTyped, InCalls, timers, Latest
  <2>3. ASSUME NEW b \in attempts, Latest(b), b.at \notin Latent
        PROVE  \E d \in attempts' : Latest(d)' /\ d.at \notin Latent
    BY <1>2, <2>3 DEF Latest
  <2>4. OneSession'
    BY <1>1, <2>1, <2>3 DEF OneSession, call
  <2> QED
    BY <2>2, <2>4
<1> QED
  BY <1>3, <1>4 DEF ClientInv

LEMMA PromptClient == ASSUME ClientInv, NEW a \in attempts, PromptAnswers(a) PROVE ClientInv'
<1>1. /\ a.at = "prompt"
      /\ IF Latest(a) THEN Joined(a) ELSE Ends(a) /\ UNCHANGED <<call, line>>
      /\ late' = (late \/ (Latest(a) /\ room \notin sessions))
      /\ UNCHANGED <<connectSeq, room, sessions, intentionalLeave, timers, leaves, permitsOf,
                     wanted, misread, presses, faults>>
  BY DEF PromptAnswers
<1>2. room' \in 0 .. connectSeq /\ sessions' \subseteq 1 .. connectSeq /\ late' \in BOOLEAN
  BY <1>1 DEF ClientInv, ClientTyped, ClientTypeOK
<1>3. CASE Latest(a)
  <2>1. ~late' => /\ ~late /\ Latest(a) /\ a.at # "token"
                  /\ sessions' \subseteq {room'} /\ room' \in sessions'
    BY <1>1, <1>3 DEF ClientInv, OneSession
  <2> QED
    BY <1>1, <1>2, <1>3, <2>1, JoinedKeeps
<1>4. CASE ~Latest(a)
  <2>1. late' = late
    BY <1>1, <1>4 DEF ClientInv, ClientTyped, ClientTypeOK
  <2> QED
    BY <1>1, <1>4, <2>1, EndsQuietly
<1> QED
  BY <1>3, <1>4

LEMMA SessionClient == ASSUME ClientInv, NEW a \in attempts, SessionComes(a) PROVE ClientInv'
<1>1. a.at = "session" /\ UNCHANGED <<leaves, permitsOf, wanted, late, misread, presses, faults>>
  BY DEF SessionComes
<1>2. 1 \in 1 .. MaxAttempts
  BY VoiceClientAssumption
<1>3. CASE ~Latest(a) /\ (intentionalLeave \/ ~connected)
  <2>1. /\ Ends(a) /\ UNCHANGED <<connectSeq, room, call, intentionalLeave, timers, line>>
        /\ sessions' = sessions \/ (room = 0 /\ sessions' = sessions \ {room})
    BY <1>3 DEF SessionComes, HandleDisconnected, Ends
  <2> QED
    BY <1>1, <1>3, <2>1, EndsQuietly
<1>4. CASE ~Latest(a) /\ ~(intentionalLeave \/ ~connected)
  <2>1. /\ Attempt(active, 1, attempts \ {a}) /\ room' = 0 /\ connected' = FALSE /\ active' = active
        /\ sessions' = sessions \ {room} /\ UNCHANGED line
    BY <1>4 DEF SessionComes, HandleDisconnected
  <2>2. active \in Call /\ late' \in BOOLEAN /\ misread' \in BOOLEAN /\ wanted' \in MaybeCall
        /\ presses' \in 0 .. MaxPresses /\ faults' \in 0 .. MaxFaults
    BY <1>1, <1>4 DEF ClientInv, ClientTyped, ClientTypeOK
  <2>3. ~late' => ~late /\ sessions' = {} /\ active \in {None, active}
    BY <1>1, <2>1 DEF ClientInv, OneSession
  <2>4. attempts \ {a} \in SUBSET attempts /\ sessions' \subseteq sessions
    BY <2>1
  <2> QED
    BY <1>1, <1>2, <2>1, <2>2, <2>3, <2>4, AttemptKeeps
<1>5. CASE Latest(a)
  <2>1. /\ room' = a.seq /\ sessions' = sessions \cup {a.seq}
        /\ UNCHANGED <<connectSeq, intentionalLeave, timers>>
        /\ \/ (\E at \in {"microphone", "prompt"} : GoesOn(a, at)) /\ UNCHANGED <<call, line>>
           \/ Joined(a)
    BY <1>5 DEF SessionComes
  <2>2. /\ a.seq \in 1 .. connectSeq /\ a.call \in Call /\ connectSeq \in Nat
        /\ sessions \subseteq 1 .. connectSeq /\ late \in BOOLEAN /\ a.seq \in 0 .. connectSeq
    BY AttemptsTyped DEF ClientInv, ClientTyped, ClientTypeOK, AttemptOK
  <2>3. ~late => LatestAlone /\ RetryAlone /\ OneSession /\ ListedOnce /\ room = 0 /\ sessions = {}
    <3> SUFFICES ASSUME ~late PROVE LatestAlone /\ RetryAlone /\ OneSession /\ ListedOnce /\ room = 0 /\ sessions = {}
      OBVIOUS
    <3>1. LatestAlone /\ RetryAlone /\ OneSession /\ ListedOnce
      BY DEF ClientInv
    <3>2. room = 0 /\ sessions \subseteq {0}
      BY <1>1, <1>5, <3>1 DEF LatestAlone, OneSession, Latent
    <3>3. 0 \notin sessions
      BY <2>2
    <3> QED
      BY <3>1, <3>2, <3>3
  <2>4. CASE Joined(a)
    <3>1. room' \in 0 .. connectSeq /\ sessions' \subseteq 1 .. connectSeq /\ late' \in BOOLEAN
      BY <1>1, <2>1, <2>2
    <3>2. ~late' => /\ ~late /\ Latest(a) /\ a.at # "token"
                    /\ sessions' \subseteq {room'} /\ room' \in sessions'
      BY <1>1, <1>5, <2>1, <2>3
    <3> QED
      BY <1>1, <2>1, <2>4, <3>1, <3>2, JoinedKeeps
  <2>5. ASSUME NEW at \in {"microphone", "prompt"}, GoesOn(a, at), UNCHANGED <<call, line>>
        PROVE  ClientInv'
    <3>1. at \in Latent \cup {"microphone", "prompt"} /\ at \notin Latent /\ at # "token"
      BY DEF Latent
    <3>2. /\ \A b \in attempts' : AttemptOK(b, connectSeq')
          /\ \A b, d \in attempts' : b.seq = d.seq => b = d
          /\ \A b \in attempts' : b.seq # a.seq => b \in attempts
          /\ \A b \in attempts' : b.seq = a.seq => b.at = at /\ b.call = a.call
          /\ \E b \in attempts' : b.seq = a.seq /\ b.at = at
      BY <2>1, <2>5, <3>1, AttemptMoves DEF ClientInv
    <3>3. ClientTyped'
      <4>1. /\ connectSeq' \in Nat /\ room' \in 0 .. connectSeq' /\ sessions' \subseteq 1 .. connectSeq'
            /\ retryTimer' \in {NoRetry} \cup [call : Call, n : 2 .. MaxAttempts]
            /\ leaves' \in Seq(MaybeCall) /\ SeatsTyped'
            /\ presses' \in 0 .. MaxPresses /\ faults' \in 0 .. MaxFaults
        BY <1>1, <2>1, <2>2, <2>5 DEF ClientInv, ClientTyped, ClientTypeOK, line, server, SeatsTyped, timers
      <4>2. {connecting', active', permitsOf', wanted'} \subseteq MaybeCall
        BY <1>1, <2>5 DEF ClientInv, ClientTyped, ClientTypeOK, call, MaybeCall
      <4>3. {connected', intentionalLeave', failTimer', socketUp', late', misread'} \subseteq BOOLEAN
        BY <1>1, <2>1, <2>5 DEF ClientInv, ClientTyped, ClientTypeOK, call, line, server, SeatsTyped, timers
      <4>4. /\ unsent' \in Seq(Events) /\ (socketUp' => unsent' = <<>>) /\ (connected' => active' \in Call)
            /\ intentionalLeave' => leaves' # <<>>
        BY <1>1, <2>1, <2>5 DEF ClientInv, ClientTyped, call, line, server, SeatsTyped
      <4> QED
        BY <3>2, <4>1, <4>2, <4>3, <4>4, ClientTypedNext
    <3>4. ASSUME ~late' PROVE (LatestAlone /\ RetryAlone /\ OneSession /\ ListedOnce)'
      <4>1. LatestAlone /\ RetryAlone /\ OneSession /\ ListedOnce /\ room = 0 /\ sessions = {}
        BY <1>1, <2>3, <3>4
      <4>2. ~connected /\ retryTimer = NoRetry /\ active \in {None, a.call} /\ (permitsOf = a.call \/ misread)
        BY <1>1, <1>5, <4>1 DEF LatestAlone
      <4>3. RetryAlone' /\ ListedOnce'
        BY <2>1, <2>5, <4>1, <4>2 DEF RetryAlone, ListedOnce, call, line, server, SeatsTyped, InCalls, timers
      <4>4. \A b \in attempts' : Latest(b)' => b.seq = a.seq /\ b.at = at /\ b.call = a.call
        BY <1>5, <2>1, <3>2 DEF Latest
      <4>5. LatestAlone'
        BY <1>1, <2>1, <2>5, <3>1, <4>2, <4>4 DEF LatestAlone, call, timers
      <4>6. \E b \in attempts' : Latest(b)' /\ b.at \notin Latent
        BY <1>5, <2>1, <3>1, <3>2 DEF Latest
      <4>7. OneSession'
        BY <2>1, <2>5, <4>1, <4>2, <4>6 DEF OneSession, call
      <4> QED
        BY <4>3, <4>5, <4>7
    <3> QED
      BY <3>3, <3>4 DEF ClientInv
  <2> QED
    BY <2>1, <2>4, <2>5
<1> QED
  BY <1>3, <1>4, <1>5

LEMMA DropsClient == ASSUME ClientInv, SessionDrops PROVE ClientInv'
<1>1. /\ room \in sessions /\ HandleDisconnected(attempts) /\ sessions' = sessions \ {room} /\ Fault
      /\ UNCHANGED <<leaves, permitsOf, line, wanted, late, misread, presses>>
  BY DEF SessionDrops
<1>2. faults' \in 0 .. MaxFaults /\ presses' \in 0 .. MaxPresses /\ late' \in BOOLEAN /\ misread' \in BOOLEAN
      /\ wanted' \in MaybeCall
  BY <1>1, VoiceClientAssumption DEF Fault, ClientInv, ClientTyped, ClientTypeOK
<1>3. ~late' => sessions' = {}
  BY <1>1 DEF ClientInv, OneSession
<1>4. CASE intentionalLeave \/ ~connected
  <2>1. attempts' = attempts /\ UNCHANGED <<connectSeq, room, call, intentionalLeave, timers>>
    BY <1>1, <1>4 DEF HandleDisconnected
  <2>2. ClientTyped'
    <3>1. sessions' \subseteq 1 .. connectSeq' /\ connectSeq' = connectSeq
      BY <1>1, <2>1 DEF ClientInv, ClientTyped, ClientTypeOK
    <3>2. ClientTypeOK'
      BY <1>1, <1>2, <2>1, <3>1 DEF ClientInv, ClientTyped, ClientTypeOK, call, line, server, SeatsTyped, timers
    <3> QED
      BY <1>1, <2>1, <3>2 DEF ClientInv, ClientTyped, call, line, server, SeatsTyped, timers
  <2>3. ASSUME ~late' PROVE (LatestAlone /\ RetryAlone /\ OneSession /\ ListedOnce)'
    <3>1. LatestAlone /\ RetryAlone /\ OneSession /\ ListedOnce
      BY <1>1, <2>3 DEF ClientInv
    <3>2. LatestAlone' /\ RetryAlone' /\ ListedOnce'
      BY <1>1, <2>1, <3>1 DEF LatestAlone, RetryAlone, ListedOnce, call, line, server, SeatsTyped, InCalls, timers, Latest
    <3>3. connected => leaves # <<>>
      BY <1>4 DEF ClientInv, ClientTyped
    <3>4. OneSession'
      BY <1>1, <1>3, <2>1, <2>3, <3>1, <3>3 DEF OneSession, call
    <3> QED
      BY <3>2, <3>4
  <2> QED
    BY <2>2, <2>3 DEF ClientInv
<1>5. CASE ~(intentionalLeave \/ ~connected)
  <2>1. Attempt(active, 1, attempts) /\ room' = 0 /\ connected' = FALSE /\ active' = active
    BY <1>1, <1>5 DEF HandleDisconnected
  <2>2. active \in Call /\ 1 \in 1 .. MaxAttempts /\ attempts \in SUBSET attempts /\ sessions' \subseteq sessions
    BY <1>1, <1>5, VoiceClientAssumption DEF ClientInv, ClientTyped
  <2>3. ~late' => ~late /\ sessions' = {} /\ active \in {None, active}
    BY <1>1, <1>3
  <2> QED
    BY <1>1, <1>2, <2>1, <2>2, <2>3, AttemptKeeps
<1> QED
  BY <1>4, <1>5

LEMMA MovedClient == ASSUME ClientInv, ServerMoved PROVE ClientInv'
<1>1. /\ Fault /\ connected /\ room' = 0 /\ sessions' = sessions \ {room} /\ connected' = FALSE
      /\ active' = active /\ Attempt(active, 1, attempts)
      /\ UNCHANGED <<leaves, permitsOf, line, wanted, late, misread, presses>>
  BY DEF ServerMoved, TearsDown
<1>2. faults' \in 0 .. MaxFaults /\ presses' \in 0 .. MaxPresses /\ late' \in BOOLEAN /\ misread' \in BOOLEAN
      /\ wanted' \in MaybeCall
  BY <1>1, VoiceClientAssumption DEF Fault, ClientInv, ClientTyped, ClientTypeOK
<1>3. active \in Call /\ 1 \in 1 .. MaxAttempts /\ attempts \in SUBSET attempts /\ sessions' \subseteq sessions
  BY <1>1, VoiceClientAssumption DEF ClientInv, ClientTyped
<1>4. ~late' => ~late /\ sessions' = {} /\ active \in {None, active}
  BY <1>1 DEF ClientInv, OneSession
<1> QED
  BY <1>1, <1>2, <1>3, <1>4, AttemptKeeps

\* Where only the tab's socket and the server move, it is enough to look at the seats.
LEMMA TabRestsKeeps ==
    ASSUME ClientInv, TabRests, socketUp' \in BOOLEAN, faults' \in 0 .. MaxFaults, SeatsTyped',
           unsent' \in Seq(Events), socketUp' => unsent' = <<>>, ListedOnce => ListedOnce'
    PROVE  ClientInv'
<1>1. UNCHANGED <<connectSeq, attempts, room, sessions, call, intentionalLeave, timers, leaves,
                  permitsOf, wanted, late, misread, presses>>
  BY DEF TabRests
<1>2. ClientTyped'
  <2>1. ClientTypeOK'
    BY <1>1 DEF ClientInv, ClientTyped, ClientTypeOK, call, timers, SeatsTyped
  <2> QED
    BY <1>1, <2>1 DEF ClientInv, ClientTyped, call
<1>3. ASSUME ~late' PROVE (LatestAlone /\ RetryAlone /\ OneSession /\ ListedOnce)'
  <2>1. LatestAlone /\ RetryAlone /\ OneSession /\ ListedOnce
    BY <1>1, <1>3 DEF ClientInv
  <2> QED
    BY <1>1, <2>1 DEF LatestAlone, RetryAlone, OneSession, call, timers, Latest
<1> QED
  BY <1>2, <1>3 DEF ClientInv

LEMMA Faulty == ASSUME ClientInv, Fault PROVE faults' \in 0 .. MaxFaults
BY VoiceClientAssumption DEF Fault, ClientInv, ClientTyped, ClientTypeOK

\* Calls that are no longer listed, but not the one the tab is in.
LEMMA FewerListed ==
    ASSUME InCalls' \subseteq InCalls, UNCHANGED <<unsent, socketUp, connected, active>>, overtaken => overtaken',
           overtaken' \/ (socketUp /\ connected /\ active \in InCalls => active \in InCalls'), ListedOnce
    PROVE  ListedOnce'
<1>1. Heard(InCalls, unsent)' \subseteq Heard(InCalls, unsent)
  BY DEF Heard
<1> QED
  BY <1>1 DEF ListedOnce

LEMMA SocketClient == ASSUME ClientInv, SocketDrops \/ SocketReturns PROVE ClientInv'
<1>1. /\ unsent \in Seq(Events) /\ (socketUp => unsent = <<>>) /\ SeatsTyped /\ faults \in 0 .. MaxFaults
      /\ connected => active \in Call
  BY DEF ClientInv, ClientTyped, ClientTypeOK, SeatsTyped
<1>2. CASE SocketDrops
  <2>1. TabRests /\ socketUp' = FALSE /\ lost' = lost \cup {socket} /\ UNCHANGED <<unsent, socket, server>> /\ Fault
    BY <1>2 DEF SocketDrops
  <2>2. faults' \in 0 .. MaxFaults
    BY <2>1, Faulty
  <2>3. SeatsTyped' /\ InCalls' = InCalls /\ overtaken' = overtaken /\ active' = active /\ unsent' = unsent
    BY <1>1, <2>1 DEF SeatsTyped, server, InCalls, TabRests, call
  <2>4. ListedOnce => ListedOnce'
    BY <2>1, <2>3 DEF ListedOnce
  <2> QED
    BY <1>1, <2>1, <2>2, <2>3, <2>4, TabRestsKeeps
<1>3. CASE SocketReturns
  <2> DEFINE joins == Sent("join") \cup IF connected THEN {active} ELSE {}
  <2>1. /\ TabRests /\ socketUp' = TRUE /\ socket' = socket + 1 /\ unsent' = <<>>
        /\ gates' = gates \cup {On(socket', c) : c \in joins} /\ seated' = seated \ Sent("leave")
        /\ UNCHANGED <<lost, holds, faults>>
    BY <1>3, Zenon DEF SocketReturns
  <2>2. overtaken' = (overtaken \/ \E c \in Sent("leave") \ ListedAfter(unsent) : Waiting(c) \/ c \in Sent("join"))
    BY <1>3 DEF SocketReturns
  <2>3. overtaken' \in BOOLEAN /\ (overtaken => overtaken')
    BY <1>1, <2>2, Zenon DEF SeatsTyped
  <2>4. Sent("leave") = LeftIn(unsent) /\ joins \subseteq Call
    BY <1>1 DEF Sent, LeftIn
  <2>5. \A c : On(socket', c).call = c
    BY DEF On
  <2>6. \A c \in joins : On(socket', c) \in [socket : Nat, call : Call]
    BY <1>1, <2>1, <2>4 DEF On, SeatsTyped
  <2>7. SeatsTyped'
    <3> HIDE DEF joins
    <3>1. {On(socket', c) : c \in joins} \subseteq [socket : Nat, call : Call]
      BY <2>6
    <3> QED
      BY <1>1, <2>1, <2>3, <3>1 DEF SeatsTyped
  <2>8. InCalls' = (seated \ LeftIn(unsent)) \cup {g.call : g \in gates} \cup joins
    <3> HIDE DEF joins
    <3> QED
      BY <2>1, <2>4, <2>5 DEF InCalls
  <2>9. active' = active /\ connected' = connected
    BY <2>1 DEF TabRests, call
  <2>10. ASSUME ListedOnce, ~overtaken' PROVE Heard(InCalls, unsent)' \subseteq {active'}
    <3>1. Heard(InCalls, unsent) \subseteq {active} /\ \A c \in LeftIn(unsent) \ ListedAfter(unsent) : ~Waiting(c) /\ c \notin Sent("join")
      BY <2>2, <2>3, <2>4, <2>10 DEF ListedOnce
    <3>2. ASSUME NEW c \in Sent("join") PROVE c \in ListedAfter(unsent)
      <4>1. PICK i \in DOMAIN unsent : unsent[i] = [do |-> "join", call |-> c]
        BY <3>2 DEF Sent
      <4>2. c \in Call
        BY <3>2 DEF Sent
      <4>3. CASE c \in LeftIn(unsent)
        BY <3>1, <3>2, <4>3
      <4>4. CASE c \notin LeftIn(unsent)
        BY <4>1, <4>2, <4>4 DEF LeftIn, ListedAfter
      <4> QED
        BY <4>3, <4>4
    <3>3. ASSUME NEW g \in gates PROVE g.call \in Heard(InCalls, unsent)
      BY <3>1 DEF Heard, InCalls, Waiting
    <3>4. seated \ LeftIn(unsent) \subseteq Heard(InCalls, unsent) /\ ListedAfter(unsent) \subseteq Heard(InCalls, unsent)
      BY DEF Heard, InCalls
    <3>5. joins \subseteq ListedAfter(unsent) \cup {active}
      BY <3>2
    <3> HIDE DEF joins
    <3>6. InCalls' \subseteq {active}
      BY <2>8, <3>1, <3>3, <3>4, <3>5
    <3>7. Heard(InCalls, unsent)' = InCalls'
      BY <2>1, NothingHeard
    <3> QED
      BY <2>9, <3>6, <3>7
  <2>11. connected' => active' \in InCalls'
    BY <2>8, <2>9
  <2>12. ListedOnce => ListedOnce'
    BY <2>10, <2>11 DEF ListedOnce
  <2>13. <<>> \in Seq(Events)
    OBVIOUS
  <2> QED
    BY <1>1, <2>1, <2>7, <2>12, <2>13, TabRestsKeeps
<1> QED
  BY <1>2, <1>3

LEMMA GateClient == ASSUME ClientInv, NEW g \in gates, JoinAdmitted(g) \/ JoinRefused(g) PROVE ClientInv'
<1>1. /\ TabRests /\ gates' = gates \ {g} /\ UNCHANGED <<socketUp, unsent, socket, lost>>
      /\ faults' \in 0 .. MaxFaults
  BY Faulty DEF JoinAdmitted, JoinRefused, ClientInv, ClientTyped, ClientTypeOK
<1>2. /\ unsent \in Seq(Events) /\ (socketUp => unsent = <<>>) /\ SeatsTyped /\ g.call \in Call
      /\ socketUp \in BOOLEAN
  BY DEF ClientInv, ClientTyped, ClientTypeOK, SeatsTyped
<1>3. UNCHANGED <<connected, active>>
  BY <1>1 DEF TabRests, call
<1>4. CASE JoinAdmitted(g)
  <2>1. seated' = seated \cup {g.call} /\ holds' = holds \cup {g} /\ overtaken' = overtaken
    BY <1>4 DEF JoinAdmitted
  <2>2. SeatsTyped'
    BY <1>1, <1>2, <2>1 DEF SeatsTyped
  <2>3. InCalls' = InCalls
    BY <1>1, <2>1 DEF InCalls
  <2>4. ListedOnce => ListedOnce'
    BY <1>1, <1>3, <2>1, <2>3 DEF ListedOnce
  <2> QED
    BY <1>1, <1>2, <2>2, <2>4, TabRestsKeeps
<1>5. CASE JoinRefused(g)
  <2>1. seated' = seated /\ holds' = holds /\ overtaken' = (overtaken \/ (connected /\ active = g.call))
    BY <1>5 DEF JoinRefused
  <2>2. overtaken' \in BOOLEAN /\ (overtaken => overtaken') /\ (connected /\ active = g.call => overtaken')
    BY <1>2, <2>1, Zenon DEF SeatsTyped
  <2>3. SeatsTyped'
    BY <1>1, <1>2, <2>1, <2>2 DEF SeatsTyped
  <2>4. InCalls' \subseteq InCalls /\ \A c \in InCalls : c # g.call => c \in InCalls'
    BY <1>1, <2>1 DEF InCalls
  <2>5. ListedOnce => ListedOnce'
    BY <1>1, <1>3, <2>2, <2>4, FewerListed
  <2> QED
    BY <1>1, <1>2, <2>3, <2>5, TabRestsKeeps
<1> QED
  BY <1>4, <1>5

LEMMA NoticedClient == ASSUME ClientInv, NEW k \in lost, LossNoticed(k) PROVE ClientInv'
<1> DEFINE taken == {c \in seated : On(k, c) \in holds}
<1>1. /\ TabRests /\ lost' = lost \ {k} /\ UNCHANGED <<socketUp, unsent, socket, gates, faults>>
      /\ seated' = seated \ taken /\ holds' \subseteq holds
      /\ overtaken' = (overtaken \/ (socketUp /\ active \in taken))
  BY DEF LossNoticed
<1>2. /\ unsent \in Seq(Events) /\ (socketUp => unsent = <<>>) /\ SeatsTyped /\ socketUp \in BOOLEAN
      /\ faults \in 0 .. MaxFaults
  BY DEF ClientInv, ClientTyped, ClientTypeOK, SeatsTyped
<1>3. UNCHANGED <<connected, active>>
  BY <1>1 DEF TabRests, call
<1> HIDE DEF taken
<1>4. overtaken' \in BOOLEAN /\ (overtaken => overtaken') /\ (socketUp /\ active \in taken => overtaken')
  BY <1>1, <1>2, Zenon DEF SeatsTyped
<1>5. SeatsTyped'
  BY <1>1, <1>2, <1>4 DEF SeatsTyped
<1>6. InCalls' \subseteq InCalls /\ \A c \in InCalls : c \notin taken => c \in InCalls'
  BY <1>1 DEF InCalls
<1>7. ListedOnce => ListedOnce'
  BY <1>1, <1>3, <1>4, <1>6, FewerListed
<1> QED
  BY <1>1, <1>2, <1>5, <1>7, TabRestsKeeps

LEMMA ClientSteps == ASSUME ClientInv, [VoiceClientNext]_voiceClient PROVE ClientInv'
<1>1. CASE UNCHANGED voiceClient
  <2>1. UNCHANGED <<connectSeq, attempts, room, sessions, connecting, connected, active, intentionalLeave,
                    retryTimer, failTimer, leaves, permitsOf, socketUp, unsent, socket, lost,
                    gates, seated, holds, overtaken, wanted, late, misread, presses, faults>>
    BY <1>1 DEF voiceClient, call, timers, line, server, SeatsTyped
  <2>2. ClientTyped'
    <3>1. ClientTypeOK'
      BY <2>1 DEF ClientInv, ClientTyped, ClientTypeOK
    <3> QED
      BY <2>1, <3>1 DEF ClientInv, ClientTyped
  <2>3. LatestAlone' = LatestAlone /\ RetryAlone' = RetryAlone /\ OneSession' = OneSession
        /\ ListedOnce' = ListedOnce
    BY <2>1 DEF LatestAlone, RetryAlone, OneSession, ListedOnce, InCalls, Latest
  <2> QED
    BY <2>1, <2>2, <2>3 DEF ClientInv
<1>2. CASE \E c \in Call : JoinPressed(c)
  BY <1>2, JoinPressedClient
<1>3. CASE LeavePressed \/ SessionClosed \/ FailTimerFires \/ RetryTimerFires
  BY <1>3, LeavePressedClient, SessionClosedClient, RetryClient
<1>4. CASE \E a \in attempts : AttemptStep(a) \/ AttemptFails(a)
  BY <1>4, TokenClient, SessionClient, MicrophoneClient, PromptClient, FailsClient DEF AttemptStep
<1>5. CASE SessionDrops \/ ServerMoved \/ SocketDrops \/ SocketReturns
  BY <1>5, DropsClient, MovedClient, SocketClient
<1>6. CASE (\E g \in gates : JoinAdmitted(g) \/ JoinRefused(g)) \/ \E k \in lost : LossNoticed(k)
  BY <1>6, GateClient, NoticedClient
<1> QED
  BY <1>1, <1>2, <1>3, <1>4, <1>5, <1>6 DEF VoiceClientNext

\* At rest the tab is in one call, if in any, with one session, which is the one it
\* holds, with that call's permits, unless an attempt went on though it was no longer
\* the latest (useVoice.ts); and the server lists it there and nowhere else, unless it
\* refused the join, heard the leave first, or noticed a lost socket late (chatSocket.ts).
THEOREM TheTabIsInOneCall == VoiceClientSpec => []InOneCall
<1>1. VoiceClientInit => ClientInv
  BY ClientStarts
<1>2. ClientInv /\ [VoiceClientNext]_voiceClient => ClientInv'
  BY ClientSteps
<1>3. ClientInv => InOneCall
  <2> SUFFICES ASSUME ClientInv, AtRest, ~late
               PROVE  /\ connected => room \in sessions /\ (permitsOf = active \/ misread)
                      /\ sessions = IF connected THEN {room} ELSE {}
                      /\ ~overtaken => seated \subseteq {active} /\ (connected => active \in seated)
    BY DEF InOneCall
  <2>1. OneSession /\ ListedOnce /\ socketUp /\ unsent = <<>> /\ InCalls = seated /\ attempts = {} /\ leaves = <<>>
    BY DEF ClientInv, ClientTyped, AtRest, InCalls
  <2>2. Heard(InCalls, unsent) = seated
    BY <2>1, NothingHeard
  <2> QED
    BY <2>1, <2>2 DEF OneSession, ListedOnce
<1> QED
  BY <1>1, <1>2, <1>3, PTL DEF VoiceClientSpec
=============================================================================
