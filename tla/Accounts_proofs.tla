---------------------------- MODULE Accounts_proofs ----------------------------
(* Proofs about Sessions, VoiceTokens, Presence and PhoneNotices, for every set *)
(* of devices and sids, people, media servers and connections, and every bound. *)
EXTENDS Presence, Sessions, VoiceTokens, PhoneNotices, TLAPS

-----------------------------------------------------------------------------
(* Sessions: a device that was signed out gets nothing any more.              *)

AnySid == Sid \cup {NoSid}

\* A request being served.
Starting   == [do : {"start"}, d : Device, sid : Sid, v : Nat]
              \cup [do : {"cookie"}, d : Device, sid : AnySid, v : Nat]
Refreshing == [do : {"refresh", "touch", "touched", "save"}, d : Device, c : Cookie, dead : BOOLEAN]
Changing   == [do : {"password"}, d : Device, keeps : BOOLEAN, v : Nat, sid : AnySid]

SessionTypes == SessionsTypeOK /\ busy \subseteq Starting \cup Refreshing \cup Changing

\* Who names a sid, and that it was made before.
NamedBy(q) == IF q \in Refreshing THEN q.c.sid ELSE q.sid

SidsMade ==
    /\ \A row \in rows : row.sid \in made
    /\ \A d \in Device : jar[d].sid \in made \cup {NoSid}
    /\ \A q \in busy : NamedBy(q) \in made \cup {NoSid}

\* A sid whose row is yet to be written is known to nobody else.
Begins(q) == q \in Starting /\ q.do = "start"

StartsAlone ==
    \A q \in busy : Begins(q) =>
        /\ q.sid \notin signedOut
        /\ \A row \in rows : row.sid # q.sid
        /\ \A d \in Device : jar[d].sid # q.sid
        /\ \A r \in busy : NamedBy(r) = q.sid => r = q

\* A row that was removed never comes back.
RowsNotSignedOut == \A row \in rows : row.sid \notin signedOut

\* Versions only grow, so that a cookie of another version is of an older one.
VersionsBehind ==
    /\ \A d \in Device : jar[d].version <= version
    /\ \A q \in busy : /\ q \in Refreshing => q.c.version <= version
                       /\ q \notin Refreshing => q.v <= version

\* How far a request of a device that was signed out can get.
DeadStops ==
    \A q \in busy : q \in Refreshing /\ q.dead =>
        \/ q.do = "refresh" /\ (q.c.sid \in signedOut \/ q.c.version < version)
        \/ q.do = "touch" /\ q.c.sid \in signedOut

SessionsInv ==
    /\ SessionTypes /\ SidsMade /\ StartsAlone /\ RowsNotSignedOut
    /\ VersionsBehind /\ DeadStops

-----------------------------------------------------------------------------
\* Requests of one kind are not of another.
LEMMA Kinds ==
    ASSUME NEW q
    PROVE  /\ q \in Starting => q \notin Refreshing /\ q \notin Changing
           /\ q \in Changing => q \notin Refreshing /\ q \notin Starting
<1>1. q \in Starting => q.do \in {"start", "cookie"}
  BY DEF Starting
<1>2. q \in Refreshing => q.do \in {"refresh", "touch", "touched", "save"}
  BY DEF Refreshing
<1>3. q \in Changing => q.do = "password"
  BY DEF Changing
<1> QED BY <1>1, <1>2, <1>3

\* A cookie issued today is a cookie.
LEMMA CookieTypes ==
    ASSUME SessionTypes, NEW sid \in AnySid, NEW v \in Nat
    PROVE  CookieOf(sid, v) \in Cookie /\ CookieOf(sid, v).sid = sid /\ CookieOf(sid, v).version = v
BY SessionsAssumption
DEF SessionsAssumption, SessionTypes, SessionsTypeOK, CookieOf, Cookie, AnySid

LEMMA NoCookieType == NoCookie \in Cookie /\ NoCookie.sid = NoSid /\ NoCookie.version = 0
BY DEF NoCookie, Cookie

LEMMA SessionsStart == SessionsInit => SessionsInv
<1> SUFFICES ASSUME SessionsInit PROVE SessionsInv
  OBVIOUS
<1>1. PICK old \in SUBSET Device :
         jar = [d \in Device |-> IF d \in old THEN CookieOf(NoSid, 0) ELSE NoCookie]
  BY DEF SessionsInit
<1>2. CookieOf(NoSid, 0) \in Cookie /\ CookieOf(NoSid, 0).sid = NoSid /\ CookieOf(NoSid, 0).version = 0
  BY SessionsAssumption DEF SessionsAssumption, SessionsInit, CookieOf, Cookie
<1>3. /\ jar \in [Device -> Cookie]
      /\ \A d \in Device : jar[d].sid = NoSid /\ jar[d].version = 0
  BY <1>1, <1>2, NoCookieType
<1> QED BY <1>3
        DEF SessionsInit, SessionsInv, SessionTypes, SessionsTypeOK, SidsMade, StartsAlone,
            RowsNotSignedOut, VersionsBehind, DeadStops

-----------------------------------------------------------------------------
(* What the steps have in common: a request is answered, with the device's     *)
(* cookie taken away or left; one begins; one goes on.                         *)

\* A request that is answered, or dies.
LEMMA Answered ==
    ASSUME SessionsInv, NEW q \in busy, busy' = busy \ {q},
           jar' = jar \/ \E d \in Device : jar' = [jar EXCEPT ![d] = NoCookie],
           UNCHANGED <<day, rows, version, made, signedOut, reissued>>
    PROVE  SessionsInv'
<1>1. /\ jar' \in [Device -> Cookie]
      /\ \A d \in Device : jar'[d] = jar[d] \/ jar'[d] = NoCookie
  BY NoCookieType DEF SessionsInv, SessionTypes, SessionsTypeOK
<1>2. NoSid \notin Sid
  BY SessionsAssumption DEF SessionsAssumption
<1>3. SessionTypes'
  BY <1>1 DEF SessionsInv, SessionTypes, SessionsTypeOK, Starting, Refreshing, Changing
<1>4. SidsMade'
  BY <1>1, NoCookieType DEF SessionsInv, SidsMade, NamedBy, Refreshing
<1>5. StartsAlone'
  <2> SUFFICES ASSUME NEW r \in busy, Begins(r)
               PROVE  /\ r.sid \notin signedOut
                      /\ \A row \in rows : row.sid # r.sid
                      /\ \A d \in Device : jar'[d].sid # r.sid
                      /\ \A p \in busy : NamedBy(p) = r.sid => p = r
    BY DEF StartsAlone, Begins, NamedBy, Refreshing, Starting
  <2>1. r.sid # NoSid
    BY <1>2 DEF Begins, Starting
  <2> QED BY <1>1, <2>1, NoCookieType DEF SessionsInv, StartsAlone
<1>6. RowsNotSignedOut'
  BY DEF SessionsInv, RowsNotSignedOut
<1>7. VersionsBehind'
  BY <1>1, NoCookieType DEF SessionsInv, SessionTypes, SessionsTypeOK, VersionsBehind, Refreshing
<1>8. DeadStops'
  BY DEF SessionsInv, DeadStops, Refreshing
<1> QED BY <1>3, <1>4, <1>5, <1>6, <1>7, <1>8 DEF SessionsInv

\* A request that begins, or goes on, about a sid somebody knew.
LEMMA GoesOn ==
    ASSUME SessionsInv, NEW q, q \in Refreshing \cup Changing \cup Starting, ~Begins(q),
           NamedBy(q) \in made \cup {NoSid},
           \A r \in busy : Begins(r) => r.sid # NamedBy(q),
           q \in Refreshing => q.c.version <= version,
           q \notin Refreshing => q.v <= version,
           q \in Refreshing /\ q.dead =>
              \/ q.do = "refresh" /\ (q.c.sid \in signedOut \/ q.c.version < version)
              \/ q.do = "touch" /\ q.c.sid \in signedOut,
           busy' \subseteq busy \cup {q},
           UNCHANGED <<day, rows, version, jar, made, signedOut, reissued>>
    PROVE  SessionsInv'
<1>1. SessionTypes'
  BY DEF SessionsInv, SessionTypes, SessionsTypeOK, Starting, Refreshing, Changing
<1>2. SidsMade'
  BY DEF SessionsInv, SidsMade, NamedBy, Refreshing
<1>3. StartsAlone'
  <2> SUFFICES ASSUME NEW r \in busy', Begins(r)
               PROVE  /\ r.sid \notin signedOut
                      /\ \A row \in rows : row.sid # r.sid
                      /\ \A d \in Device : jar[d].sid # r.sid
                      /\ \A p \in busy' : NamedBy(p) = r.sid => p = r
    BY DEF StartsAlone, Begins, NamedBy, Refreshing, Starting
  <2>1. r \in busy
    OBVIOUS
  <2> QED BY <2>1 DEF SessionsInv, StartsAlone
<1>4. RowsNotSignedOut'
  BY DEF SessionsInv, RowsNotSignedOut
<1>5. VersionsBehind'
  BY DEF SessionsInv, VersionsBehind, Refreshing
<1>6. DeadStops'
  BY DEF SessionsInv, DeadStops, Refreshing
<1> QED BY <1>1, <1>2, <1>3, <1>4, <1>5, <1>6 DEF SessionsInv

\* A request that starts a session begins with a sid nobody has seen.
LEMMA StartsAnew ==
    ASSUME SessionsInv, NEW q \in Starting, q.do = "start", q.sid \notin made, q.v <= version,
           made' = made \cup {q.sid}, busy' \subseteq busy \cup {q},
           UNCHANGED <<day, rows, version, jar, signedOut, reissued>>
    PROVE  SessionsInv'
<1>1. q \notin Refreshing /\ NamedBy(q) = q.sid /\ q.sid \in Sid /\ q.sid # NoSid
  BY Kinds, SessionsAssumption DEF NamedBy, Starting, SessionsAssumption
<1>2. SessionTypes'
  BY <1>1 DEF SessionsInv, SessionTypes, SessionsTypeOK, Starting, Refreshing, Changing
<1>3. SidsMade'
  BY <1>1 DEF SessionsInv, SidsMade, NamedBy, Refreshing
<1>4. StartsAlone'
  <2> SUFFICES ASSUME NEW r \in busy', Begins(r)
               PROVE  /\ r.sid \notin signedOut
                      /\ \A row \in rows : row.sid # r.sid
                      /\ \A d \in Device : jar[d].sid # r.sid
                      /\ \A p \in busy' : NamedBy(p) = r.sid => p = r
    BY DEF StartsAlone, Begins, NamedBy, Refreshing, Starting
  <2>1. CASE r = q
    BY <1>1, <2>1 DEF SessionsInv, SessionTypes, SessionsTypeOK, SidsMade
  <2>2. CASE r # q
    <3>1. r \in busy /\ NamedBy(r) = r.sid
      BY <2>2, Kinds DEF Begins, NamedBy
    <3>2. r.sid # q.sid
      BY <1>1, <3>1 DEF SessionsInv, SidsMade
    <3> QED BY <1>1, <3>1, <3>2 DEF SessionsInv, StartsAlone
  <2> QED BY <2>1, <2>2
<1>5. RowsNotSignedOut'
  BY DEF SessionsInv, RowsNotSignedOut
<1>6. VersionsBehind'
  BY <1>1 DEF SessionsInv, VersionsBehind, Refreshing
<1>7. DeadStops'
  BY <1>1 DEF SessionsInv, DeadStops, Refreshing
<1> QED BY <1>2, <1>3, <1>4, <1>5, <1>6, <1>7 DEF SessionsInv

\* Rows are removed, and their sids signed out, of which none is just starting;
\* no other request begins, and no cookie comes from nowhere.
LEMMA SignsOut ==
    ASSUME SessionsInv, NEW gone, gone \subseteq made, RemovesRows(gone),
           \A q \in busy : Begins(q) => q.sid \notin gone,
           busy' \subseteq busy, version' = version, jar' \in [Device -> Cookie],
           \A d \in Device : /\ jar'[d].sid \in {jar[e].sid : e \in Device} \cup {NoSid}
                                                  \cup {NamedBy(q) : q \in {p \in busy : ~Begins(p)}}
                             /\ jar'[d].version <= version,
           reissued \subseteq reissued', reissued' \subseteq made, UNCHANGED <<day, made>>
    PROVE  SessionsInv'
<1>1. rows' \subseteq rows /\ signedOut' = signedOut \cup gone
      /\ \A row \in rows' : row.sid \notin gone
  BY DEF RemovesRows
<1>2. NoSid \notin Sid
  BY SessionsAssumption DEF SessionsAssumption
<1>3. SessionTypes'
  BY <1>1 DEF SessionsInv, SessionTypes, SessionsTypeOK, Starting, Refreshing, Changing
<1>4. SidsMade'
  BY <1>1 DEF SessionsInv, SidsMade, NamedBy, Refreshing
<1>5. StartsAlone'
  <2> SUFFICES ASSUME NEW r \in busy, Begins(r)
               PROVE  /\ r.sid \notin signedOut'
                      /\ \A row \in rows' : row.sid # r.sid
                      /\ \A d \in Device : jar'[d].sid # r.sid
                      /\ \A p \in busy : NamedBy(p) = r.sid => p = r
    BY DEF StartsAlone, Begins, NamedBy, Refreshing, Starting
  <2>1. r.sid # NoSid
    BY <1>2 DEF Begins, Starting
  <2> QED BY <1>1, <2>1 DEF SessionsInv, StartsAlone
<1>6. RowsNotSignedOut'
  BY <1>1 DEF SessionsInv, RowsNotSignedOut
<1>7. VersionsBehind'
  BY DEF SessionsInv, VersionsBehind, Refreshing
<1>8. DeadStops'
  BY <1>1 DEF SessionsInv, DeadStops, Refreshing
<1> QED BY <1>3, <1>4, <1>5, <1>6, <1>7, <1>8 DEF SessionsInv

-----------------------------------------------------------------------------
\* A row is written of a session that was starting.
LEMMA WritesRowKeeps ==
    ASSUME SessionsInv, NEW q \in busy, WritesRow(q)
    PROVE  SessionsInv'
<1> DEFINE r == [do |-> "cookie", d |-> q.d, sid |-> q.sid, v |-> q.v]
           row == [sid |-> q.sid, ends |-> day + Ttl]
<1>1. q \in Starting /\ q.do = "start" /\ q \notin Refreshing /\ Begins(q) /\ NamedBy(q) = q.sid
  <2>1. q \in Starting \cup Refreshing \cup Changing /\ q.do = "start"
    BY DEF SessionsInv, SessionTypes, WritesRow
  <2>2. q \in Starting
    BY <2>1 DEF Refreshing, Changing
  <2> QED BY <2>1, <2>2, Kinds DEF Begins, NamedBy
<1>2. q.d \in Device /\ q.sid \in Sid /\ q.v \in Nat /\ q.v <= version /\ q.sid \in made
      /\ q.sid \notin signedOut
  <2>1. q.d \in Device /\ q.sid \in Sid /\ q.v \in Nat
    BY <1>1 DEF Starting
  <2> QED BY <2>1, <1>1, SessionsAssumption
          DEF SessionsInv, VersionsBehind, SidsMade, StartsAlone, SessionsAssumption
<1>3. r \in Starting /\ r \notin Refreshing /\ ~Begins(r) /\ NamedBy(r) = q.sid
  <2>1. r \in Starting /\ r.do = "cookie"
    BY <1>2 DEF Starting, AnySid
  <2> QED BY <2>1, Kinds DEF Begins, NamedBy
<1>4. /\ rows' = rows \cup {row} /\ busy' = (busy \ {q}) \cup {r}
      /\ UNCHANGED <<day, version, jar, made, signedOut, reissued>>
  BY DEF WritesRow, Step
<1>5. SessionTypes'
  BY <1>2, <1>3, <1>4, SessionsAssumption
  DEF SessionsInv, SessionTypes, SessionsTypeOK, Starting, Refreshing, Changing, SessionsAssumption
<1>6. SidsMade'
  BY <1>2, <1>3, <1>4 DEF SessionsInv, SidsMade, NamedBy, Refreshing
<1>7. StartsAlone'
  <2> SUFFICES ASSUME NEW p \in busy', Begins(p)
               PROVE  /\ p.sid \notin signedOut
                      /\ \A x \in rows' : x.sid # p.sid
                      /\ \A d \in Device : jar[d].sid # p.sid
                      /\ \A x \in busy' : NamedBy(x) = p.sid => x = p
    BY <1>4 DEF StartsAlone, Begins, NamedBy, Refreshing, Starting
  <2>1. p \in busy /\ p # q
    BY <1>3, <1>4
  <2>2. p.sid # q.sid
    BY <1>1, <2>1 DEF SessionsInv, StartsAlone
  <2> QED BY <1>3, <1>4, <2>1, <2>2 DEF SessionsInv, StartsAlone
<1>8. RowsNotSignedOut'
  BY <1>2, <1>4 DEF SessionsInv, RowsNotSignedOut
<1>9. VersionsBehind'
  BY <1>2, <1>3, <1>4 DEF SessionsInv, VersionsBehind, Refreshing
<1>10. DeadStops'
  BY <1>3, <1>4 DEF SessionsInv, DeadStops, Refreshing
<1> QED BY <1>5, <1>6, <1>7, <1>8, <1>9, <1>10 DEF SessionsInv

\* A cookie that is set names a session whose row was written, or none.
LEMMA SetsCookieKeeps ==
    ASSUME SessionsInv, NEW q \in busy, SetsCookie(q)
    PROVE  SessionsInv'
<1>1. q \in Starting /\ q.do = "cookie" /\ q \notin Refreshing /\ ~Begins(q) /\ NamedBy(q) = q.sid
  <2>1. q \in Starting \cup Refreshing \cup Changing /\ q.do = "cookie"
    BY DEF SessionsInv, SessionTypes, SetsCookie
  <2>2. q \in Starting
    BY <2>1 DEF Refreshing, Changing
  <2> QED BY <2>1, <2>2, Kinds DEF Begins, NamedBy
<1>2. q.sid \in AnySid /\ q.v \in Nat /\ q.v <= version
  <2>1. q.sid \in AnySid /\ q.v \in Nat
    BY <1>1 DEF Starting, AnySid
  <2> QED BY <2>1, <1>1 DEF SessionsInv, VersionsBehind
<1>3. CookieOf(q.sid, q.v) \in Cookie /\ CookieOf(q.sid, q.v).sid = q.sid
      /\ CookieOf(q.sid, q.v).version = q.v
  BY <1>2, CookieTypes DEF SessionsInv
<1>4. /\ busy' \subseteq busy /\ jar' = [jar EXCEPT ![q.d] = CookieOf(q.sid, q.v)]
      /\ UNCHANGED <<day, rows, version, made, signedOut, reissued>>
  BY DEF SetsCookie, Answer
<1>5. jar' \in [Device -> Cookie]
  BY <1>3, <1>4 DEF SessionsInv, SessionTypes, SessionsTypeOK
<1>6. \A d \in Device : \/ jar'[d].sid = jar[d].sid /\ jar'[d].version = jar[d].version
                        \/ jar'[d].sid = NamedBy(q) /\ jar'[d].version = q.v
  <2>1. jar \in [Device -> Cookie]
    BY DEF SessionsInv, SessionTypes, SessionsTypeOK
  <2>2. \A d \in Device : jar'[d] = jar[d] \/ jar'[d] = CookieOf(q.sid, q.v)
    BY <1>4, <2>1
  <2> TAKE d \in Device
  <2>3. CASE jar'[d] = jar[d]
    BY <2>3
  <2>4. CASE jar'[d] = CookieOf(q.sid, q.v)
    BY <1>1, <1>3, <2>4
  <2> QED BY <2>2, <2>3, <2>4
<1>7. RemovesRows({})
  BY <1>4 DEF RemovesRows
<1>8. \A d \in Device : /\ jar'[d].sid \in {jar[e].sid : e \in Device} \cup {NoSid}
                                              \cup {NamedBy(p) : p \in {x \in busy : ~Begins(x)}}
                        /\ jar'[d].version <= version
  BY <1>1, <1>2, <1>6 DEF SessionsInv, VersionsBehind
<1>9. reissued \subseteq reissued' /\ reissued' \subseteq made
  BY <1>4 DEF SessionsInv, SessionTypes, SessionsTypeOK
<1> HIDE DEF SessionsInv
<1> QED BY <1>4, <1>5, <1>7, <1>8, <1>9, SignsOut

\* Renewing a session leaves every row its sid.
LEMMA RenewsKeeps ==
    ASSUME SessionsInv, NEW q \in busy, Renews(q)
    PROVE  SessionsInv'
<1> DEFINE r == [do |-> "cookie", d |-> q.d, sid |-> q.c.sid, v |-> q.c.version]
<1>1. q \in Refreshing /\ NamedBy(q) = q.c.sid /\ ~Begins(q)
  <2>1. q \in Starting \cup Refreshing \cup Changing /\ q.do = "touched"
    BY DEF SessionsInv, SessionTypes, Renews
  <2>2. q \in Refreshing
    BY <2>1 DEF Starting, Changing
  <2> QED BY <2>1, <2>2 DEF Begins, NamedBy
<1>2. q.d \in Device /\ q.c.sid \in AnySid /\ q.c.version \in Nat /\ q.c.version <= version
      /\ q.c.sid \in made \cup {NoSid}
  <2>1. q.d \in Device /\ q.c \in Cookie
    BY <1>1 DEF Refreshing
  <2> QED BY <2>1, <1>1 DEF SessionsInv, VersionsBehind, SidsMade, Cookie, AnySid
<1>3. r \in Starting /\ r \notin Refreshing /\ ~Begins(r) /\ NamedBy(r) = q.c.sid
  <2>1. r \in Starting /\ r.do = "cookie"
    BY <1>2 DEF Starting
  <2> QED BY <2>1, Kinds DEF Begins, NamedBy
<1>4. /\ rows' = {IF row.sid = q.c.sid THEN [row EXCEPT !.ends = day + Ttl] ELSE row : row \in rows}
      /\ busy' = (busy \ {q}) \cup {r}
      /\ UNCHANGED <<day, version, jar, made, signedOut, reissued>>
  BY DEF Renews, Step
<1>5. rows' \subseteq [sid : Sid, ends : Nat] /\ \A x \in rows' : \E row \in rows : x.sid = row.sid
  <2>1. rows \subseteq [sid : Sid, ends : Nat] /\ day + Ttl \in Nat
    BY SessionsAssumption DEF SessionsInv, SessionTypes, SessionsTypeOK, SessionsAssumption
  <2>2. SUFFICES ASSUME NEW x \in rows'
                 PROVE  x \in [sid : Sid, ends : Nat] /\ \E row \in rows : x.sid = row.sid
    OBVIOUS
  <2>3. PICK row \in rows : x = IF row.sid = q.c.sid THEN [row EXCEPT !.ends = day + Ttl] ELSE row
    BY <1>4
  <2>4. row \in [sid : Sid, ends : Nat]
    BY <2>1
  <2> QED BY <2>1, <2>3, <2>4
<1>6. SessionTypes'
  BY <1>3, <1>4, <1>5 DEF SessionsInv, SessionTypes, SessionsTypeOK, Starting, Refreshing, Changing
<1>7. SidsMade'
  BY <1>2, <1>3, <1>4, <1>5 DEF SessionsInv, SidsMade, NamedBy, Refreshing
<1>8. StartsAlone'
  <2> SUFFICES ASSUME NEW p \in busy', Begins(p)
               PROVE  /\ p.sid \notin signedOut
                      /\ \A x \in rows' : x.sid # p.sid
                      /\ \A d \in Device : jar[d].sid # p.sid
                      /\ \A x \in busy' : NamedBy(x) = p.sid => x = p
    BY <1>4 DEF StartsAlone, Begins, NamedBy, Refreshing, Starting
  <2>1. p \in busy /\ p # q
    BY <1>1, <1>3, <1>4
  <2>2. p.sid # q.c.sid
    BY <1>1, <2>1 DEF SessionsInv, StartsAlone
  <2> QED BY <1>3, <1>4, <1>5, <2>1, <2>2 DEF SessionsInv, StartsAlone
<1>9. RowsNotSignedOut'
  BY <1>4, <1>5 DEF SessionsInv, RowsNotSignedOut
<1>10. VersionsBehind'
  BY <1>2, <1>3, <1>4 DEF SessionsInv, VersionsBehind, Refreshing
<1>11. DeadStops'
  BY <1>3, <1>4 DEF SessionsInv, DeadStops, Refreshing
<1> QED BY <1>6, <1>7, <1>8, <1>9, <1>10, <1>11 DEF SessionsInv

\* The password is changed: every cookie is of an older version.
LEMMA VersionGrows ==
    ASSUME SessionsInv, version' = version + 1,
           jar' = jar \/ \E d \in Device : jar' = [jar EXCEPT ![d] = NoCookie],
           busy' \subseteq busy \cup Changing,
           \A q \in busy' \ busy : /\ q.v <= version'
                                   /\ \E d \in Device : q.sid \in {jar[d].sid, NoSid},
           UNCHANGED <<day, rows, made, signedOut, reissued>>
    PROVE  SessionsInv'
<1>1. /\ jar' \in [Device -> Cookie]
      /\ \A d \in Device : jar'[d] = jar[d] \/ jar'[d] = NoCookie
  BY NoCookieType DEF SessionsInv, SessionTypes, SessionsTypeOK
<1>2. NoSid \notin Sid
  BY SessionsAssumption DEF SessionsAssumption
<1>3. version \in Nat /\ \A d \in Device : jar[d].version \in Nat
  BY DEF SessionsInv, SessionTypes, SessionsTypeOK, Cookie
<1>4. \A q \in busy' \ busy : q \in Changing /\ q \notin Refreshing /\ NamedBy(q) = q.sid /\ ~Begins(q)
  BY Kinds DEF NamedBy, Begins
<1>5. SessionTypes'
  BY <1>1, <1>3 DEF SessionsInv, SessionTypes, SessionsTypeOK, Starting, Refreshing, Changing
<1>6. SidsMade'
  <2>1. \A d \in Device : jar'[d].sid \in made \cup {NoSid}
    BY <1>1, NoCookieType DEF SessionsInv, SidsMade
  <2>2. \A q \in busy' : NamedBy(q) \in made \cup {NoSid}
    BY <1>4 DEF SessionsInv, SidsMade
  <2> QED BY <2>1, <2>2 DEF SessionsInv, SidsMade, NamedBy, Refreshing
<1>7. StartsAlone'
  <2> SUFFICES ASSUME NEW r \in busy', Begins(r)
               PROVE  /\ r.sid \notin signedOut
                      /\ \A row \in rows : row.sid # r.sid
                      /\ \A d \in Device : jar'[d].sid # r.sid
                      /\ \A p \in busy' : NamedBy(p) = r.sid => p = r
    BY DEF StartsAlone, Begins, NamedBy, Refreshing, Starting
  <2>1. r.sid # NoSid
    BY <1>2 DEF Begins, Starting
  <2>2. r \in busy /\ \A d \in Device : jar[d].sid # r.sid
    BY <1>4 DEF SessionsInv, StartsAlone
  <2>3. \A p \in busy' \ busy : NamedBy(p) # r.sid
    BY <1>4, <2>1, <2>2
  <2> QED BY <1>1, <2>1, <2>2, <2>3, NoCookieType DEF SessionsInv, StartsAlone
<1>8. RowsNotSignedOut'
  BY DEF SessionsInv, RowsNotSignedOut
<1>9. VersionsBehind'
  <2>1. \A d \in Device : jar'[d].version <= version'
    BY <1>1, <1>3, NoCookieType DEF SessionsInv, VersionsBehind
  <2>2. \A q \in busy' \ busy : q \notin Refreshing /\ q.v <= version'
    BY <1>4
  <2>3. \A q \in busy : /\ q \in Refreshing => q.c.version \in Nat
                        /\ q \notin Refreshing => q.v \in Nat
    BY DEF SessionsInv, SessionTypes, Starting, Refreshing, Changing, Cookie
  <2>4. \A q \in busy : /\ q \in Refreshing => q.c.version <= version'
                        /\ q \notin Refreshing => q.v <= version'
    BY <1>3, <2>3 DEF SessionsInv, VersionsBehind
  <2> QED BY <2>1, <2>2, <2>4 DEF VersionsBehind, Refreshing
<1>10. DeadStops'
  <2> SUFFICES ASSUME NEW q \in busy', q \in Refreshing, q.dead
               PROVE  \/ q.do = "refresh" /\ (q.c.sid \in signedOut \/ q.c.version < version')
                      \/ q.do = "touch" /\ q.c.sid \in signedOut
    BY DEF DeadStops, Refreshing
  <2>1. q \in busy /\ q.c.version \in Nat
    BY <1>4 DEF Refreshing, Cookie
  <2> QED BY <1>3, <2>1 DEF SessionsInv, DeadStops
<1> QED BY <1>5, <1>6, <1>7, <1>8, <1>9, <1>10 DEF SessionsInv

-----------------------------------------------------------------------------
\* A request read from the set of those being served is of the kind it says.
LEMMA KindOf ==
    ASSUME SessionsInv, NEW q \in busy
    PROVE  /\ q.do \in {"refresh", "touch", "touched", "save"} =>
                q \in Refreshing /\ NamedBy(q) = q.c.sid /\ ~Begins(q) /\ q.c.sid \in AnySid
                /\ q.c.version \in Nat /\ q.c.version <= version
                /\ q.c.sid \in made \cup {NoSid} /\ q.d \in Device
           /\ q.do = "password" =>
                q \in Changing /\ NamedBy(q) = q.sid /\ ~Begins(q) /\ q.sid \in AnySid
                /\ q.v \in Nat /\ q.v <= version
                /\ q.sid \in made \cup {NoSid} /\ q.d \in Device
<1>1. q \in Starting \cup Refreshing \cup Changing
  BY DEF SessionsInv, SessionTypes
<1>2. ASSUME q.do \in {"refresh", "touch", "touched", "save"}
      PROVE  q \in Refreshing /\ NamedBy(q) = q.c.sid /\ ~Begins(q) /\ q.c.sid \in AnySid
             /\ q.c.version \in Nat /\ q.c.version <= version
             /\ q.c.sid \in made \cup {NoSid} /\ q.d \in Device
  <2>1. q \in Refreshing /\ ~Begins(q)
    BY <1>1, <1>2 DEF Starting, Changing, Begins
  <2>2. q.c \in Cookie /\ q.d \in Device
    BY <2>1 DEF Refreshing
  <2> QED BY <2>1, <2>2 DEF NamedBy, Cookie, AnySid, SessionsInv, VersionsBehind, SidsMade
<1>3. ASSUME q.do = "password"
      PROVE  q \in Changing /\ NamedBy(q) = q.sid /\ ~Begins(q) /\ q.sid \in AnySid
             /\ q.v \in Nat /\ q.v <= version
             /\ q.sid \in made \cup {NoSid} /\ q.d \in Device
  <2>1. q \in Changing /\ q \notin Refreshing /\ ~Begins(q)
    BY <1>1, <1>3, Kinds DEF Starting, Refreshing, Begins
  <2>2. q.sid \in AnySid /\ q.v \in Nat /\ q.d \in Device
    BY <2>1 DEF Changing
  <2> QED BY <2>1, <2>2 DEF NamedBy, SessionsInv, VersionsBehind, SidsMade
<1> QED BY <1>2, <1>3

\* Signing out rows that stand, leaving every jar but one cleared as it is.
LEMMA SignsOutRows ==
    ASSUME SessionsInv, NEW gone, RemovesRows(gone),
           gone \subseteq {row.sid : row \in rows} \cup {jar[d].sid : d \in {e \in Device : jar[e].sid # NoSid}},
           jar' = jar \/ \E d \in Device : jar' = [jar EXCEPT ![d] = NoCookie],
           UNCHANGED <<day, version, busy, made, reissued>>
    PROVE  SessionsInv'
<1>1. NoSid \notin Sid
  BY SessionsAssumption DEF SessionsAssumption
<1>2. gone \subseteq made
  BY <1>1 DEF SessionsInv, SidsMade
<1>3. \A q \in busy : Begins(q) => q.sid \notin gone
  BY DEF SessionsInv, StartsAlone
<1>4. /\ jar' \in [Device -> Cookie]
      /\ \A d \in Device : jar'[d] = jar[d] \/ jar'[d] = NoCookie
  BY NoCookieType DEF SessionsInv, SessionTypes, SessionsTypeOK
<1>5. version \in Nat /\ \A d \in Device : jar[d].version <= version
  BY DEF SessionsInv, SessionTypes, SessionsTypeOK, VersionsBehind
<1>6. \A d \in Device : /\ jar'[d].sid \in {jar[e].sid : e \in Device} \cup {NoSid}
                                              \cup {NamedBy(p) : p \in {x \in busy : ~Begins(x)}}
                        /\ jar'[d].version <= version
  <2> TAKE d \in Device
  <2>1. CASE jar'[d] = jar[d]
    BY <1>5, <2>1
  <2>2. CASE jar'[d] = NoCookie
    BY <1>5, <2>2, NoCookieType
  <2> QED BY <1>4, <2>1, <2>2
<1>7. reissued \subseteq reissued' /\ reissued' \subseteq made
  BY DEF SessionsInv, SessionTypes, SessionsTypeOK
<1> QED BY <1>2, <1>3, <1>4, <1>6, <1>7, SignsOut

\* The end of a change of password: rows go, but the one it keeps; its cookie
\* is issued anew.
LEMMA DropsOthersKeeps ==
    ASSUME SessionsInv, NEW q \in busy, DropsOthers(q)
    PROVE  SessionsInv'
<1> DEFINE kept == IF q.keeps /\ q.sid # NoSid THEN {q.sid} ELSE {}
           gone == {row.sid : row \in rows} \ kept
           cookie == IF q.keeps THEN CookieOf(q.sid, q.v) ELSE NoCookie
<1>1. /\ q.do = "password" /\ busy' = busy \ {q} /\ RemovesRows(gone)
      /\ reissued' = reissued \cup kept /\ jar' = [jar EXCEPT ![q.d] = cookie]
      /\ UNCHANGED <<day, version, made>>
  BY DEF DropsOthers, Answer
<1>2. /\ NamedBy(q) = q.sid /\ ~Begins(q) /\ q.sid \in AnySid /\ q.v \in Nat /\ q.v <= version
      /\ q.sid \in made \cup {NoSid} /\ q.d \in Device
  BY <1>1, KindOf
<1>3. version \in Nat
  BY DEF SessionsInv, SessionTypes, SessionsTypeOK
<1>4. cookie \in Cookie /\ cookie.sid \in {NamedBy(q), NoSid} /\ cookie.version <= version
  <2>1. CASE q.keeps
    BY <1>2, <2>1, CookieTypes DEF SessionsInv
  <2>2. CASE ~q.keeps
    BY <1>3, <2>2, NoCookieType
  <2> QED BY <2>1, <2>2
<1>5. jar \in [Device -> Cookie] /\ \A d \in Device : jar[d].version <= version
  BY DEF SessionsInv, SessionTypes, SessionsTypeOK, VersionsBehind
<1> HIDE DEF cookie
<1>6. jar' \in [Device -> Cookie] /\ \A d \in Device : jar'[d] = jar[d] \/ jar'[d] = cookie
  BY <1>1, <1>4, <1>5
<1>7. \A d \in Device : /\ jar'[d].sid \in {jar[e].sid : e \in Device} \cup {NoSid}
                                              \cup {NamedBy(p) : p \in {x \in busy : ~Begins(x)}}
                        /\ jar'[d].version <= version
  <2> TAKE d \in Device
  <2>1. CASE jar'[d] = jar[d]
    BY <1>5, <2>1
  <2>2. CASE jar'[d] = cookie
    BY <1>2, <1>4, <2>2
  <2> QED BY <1>6, <2>1, <2>2
<1>8. gone \subseteq made /\ \A r \in busy : Begins(r) => r.sid \notin gone
  BY DEF SessionsInv, SidsMade, StartsAlone
<1>9. reissued \subseteq reissued' /\ reissued' \subseteq made
  BY <1>1, <1>2 DEF SessionsInv, SessionTypes, SessionsTypeOK
<1> HIDE DEF gone, kept
<1> QED BY <1>1, <1>6, <1>7, <1>8, <1>9, SignsOut

\* A day passes while no request is served.
LEMMA TickKeeps ==
    ASSUME SessionsInv, Tick
    PROVE  SessionsInv'
<1>1. /\ busy = {} /\ busy' = {} /\ day' = day + 1 /\ rows' \subseteq rows
      /\ jar' = [d \in Device |-> IF day' < jar[d].ends THEN jar[d] ELSE NoCookie]
      /\ UNCHANGED <<version, made, signedOut, reissued>>
  BY DEF Tick
<1>2. jar' \in [Device -> Cookie] /\ \A d \in Device : jar'[d] = jar[d] \/ jar'[d] = NoCookie
  BY <1>1, NoCookieType DEF SessionsInv, SessionTypes, SessionsTypeOK
<1>3. \A d \in Device : jar'[d].sid \in made \cup {NoSid} /\ jar'[d].version <= version
  BY <1>2, NoCookieType DEF SessionsInv, SidsMade, SessionTypes, SessionsTypeOK, VersionsBehind
<1> QED BY <1>1, <1>2, <1>3
        DEF SessionsInv, SessionTypes, SessionsTypeOK, SidsMade, StartsAlone,
            RowsNotSignedOut, VersionsBehind, DeadStops

-----------------------------------------------------------------------------
LEMMA SessionsStep == SessionsInv /\ [SessionsNext]_sessions => SessionsInv'
<1> SUFFICES ASSUME SessionsInv, [SessionsNext]_sessions PROVE SessionsInv'
  OBVIOUS
<1> USE SessionsInv
<1>1. CASE UNCHANGED sessions
  BY <1>1 DEF sessions, SessionsInv, SessionTypes, SessionsTypeOK, SidsMade, StartsAlone,
              RowsNotSignedOut, VersionsBehind, DeadStops
<1>2. ASSUME NEW d \in Device, Login(d) PROVE SessionsInv'
  <2>1. PICK sid \in Sid :
           /\ IsFresh(sid) /\ made' = made \cup {sid}
           /\ Begin([do |-> "start", d |-> d, sid |-> sid, v |-> version])
    BY <1>2 DEF Login
  <2> DEFINE q == [do |-> "start", d |-> d, sid |-> sid, v |-> version]
  <2>2. q \in Starting
    BY DEF Starting, SessionsInv, SessionTypes, SessionsTypeOK
  <2>3. q.v <= version /\ q.sid \notin made /\ made' = made \cup {q.sid}
    BY <2>1 DEF IsFresh, SessionsInv, SessionTypes, SessionsTypeOK
  <2>4. busy' \subseteq busy \cup {q}
        /\ UNCHANGED <<day, rows, version, jar, signedOut, reissued>>
    BY <1>2, <2>1 DEF Login, Begin
  <2>5. q.do = "start"
    OBVIOUS
  <2> HIDE DEF q
  <2> QED BY <2>2, <2>3, <2>4, <2>5, StartsAnew
<1>3. ASSUME NEW d \in Device, Refresh(d) PROVE SessionsInv'
  <2> DEFINE q == [do |-> "refresh", d |-> d, c |-> jar[d],
                   dead |-> jar[d].sid \in signedOut \/ jar[d].version # version]
  <2>1. jar[d] \in Cookie /\ jar[d].version <= version /\ jar[d].version \in Nat /\ version \in Nat
        /\ jar[d].sid \in made \cup {NoSid}
    BY DEF SessionsInv, SessionTypes, SessionsTypeOK, VersionsBehind, SidsMade, Cookie
  <2>2. q \in Refreshing /\ q.c = jar[d] /\ q.do = "refresh"
    BY <2>1 DEF Refreshing
  <2>3. NamedBy(q) = jar[d].sid /\ ~Begins(q)
    BY <2>2 DEF NamedBy, Begins
  <2>4. \A r \in busy : Begins(r) => r.sid # NamedBy(q)
    BY <2>3 DEF SessionsInv, StartsAlone
  <2>5. q.dead => q.c.sid \in signedOut \/ q.c.version < version
    <3>1. q.dead => jar[d].sid \in signedOut \/ jar[d].version # version
      BY Zenon
    <3>2. jar[d].version # version => jar[d].version < version
      BY <2>1
    <3> QED BY <2>2, <3>1, <3>2
  <2>6. busy' \subseteq busy \cup {q}
        /\ UNCHANGED <<day, rows, version, jar, made, signedOut, reissued>>
    BY <1>3 DEF Refresh, Begin
  <2> HIDE DEF q
  <2> QED BY <2>1, <2>2, <2>3, <2>4, <2>5, <2>6, GoesOn
<1>4. ASSUME NEW d \in Device, Logout(d) PROVE SessionsInv'
  <2>1. CASE jar[d].sid # NoSid
    BY <1>4, <2>1, SignsOutRows DEF Logout, Clears
  <2>2. CASE jar[d].sid = NoSid
    <3>1. /\ version' = version + 1 /\ jar' = [jar EXCEPT ![d] = NoCookie]
          /\ UNCHANGED <<day, rows, busy, made, signedOut, reissued>>
      BY <1>4, <2>2 DEF Logout, Clears
    <3> QED BY <3>1, VersionGrows
  <2> QED BY <2>1, <2>2
<1>5. ASSUME NEW d \in Device, RevokeAllOthers(d) PROVE SessionsInv'
  BY <1>5, SignsOutRows DEF RevokeAllOthers
<1>6. ASSUME NEW d \in Device, NEW keeps \in BOOLEAN, SavesPassword(d, keeps) PROVE SessionsInv'
  <2> DEFINE q == [do |-> "password", d |-> d, keeps |-> keeps, v |-> version + 1,
                   sid |-> IF Good(jar[d]) THEN jar[d].sid ELSE NoSid]
  <2>1. /\ version' = version + 1 /\ busy' = busy \cup {q}
        /\ UNCHANGED <<day, rows, jar, made, signedOut, reissued>>
    BY <1>6 DEF SavesPassword, Begin
  <2>2. version + 1 \in Nat /\ jar[d].sid \in AnySid
    BY DEF SessionsInv, SessionTypes, SessionsTypeOK, Cookie, AnySid
  <2>3. q \in Changing /\ q.v = version + 1 /\ q.sid \in {jar[d].sid, NoSid}
    BY <2>2 DEF Changing, AnySid
  <2>4. q.v <= version'
    BY <2>1, <2>2, <2>3
  <2> HIDE DEF q
  <2> QED BY <2>1, <2>3, <2>4, VersionGrows
<1>7. ASSUME NEW sid \in Sid, RevokeOne(sid) PROVE SessionsInv'
  BY <1>7, SignsOutRows DEF RevokeOne, Live
<1>8. ASSUME NEW q \in busy, ReadsUser(q) PROVE SessionsInv'
  <2>1. /\ q \in Refreshing /\ NamedBy(q) = q.c.sid /\ ~Begins(q) /\ q.c.sid \in AnySid
        /\ q.c.version \in Nat /\ q.c.version <= version
        /\ q.c.sid \in made \cup {NoSid} /\ q.d \in Device
    BY <1>8, KindOf DEF ReadsUser
  <2>2. CASE Answer(q) /\ Clears(q.d) /\ UNCHANGED made
    BY <1>8, <2>1, <2>2, Answered DEF ReadsUser, Answer, Clears
  <2>3. CASE /\ q.c.version = version /\ q.c.sid # NoSid
             /\ Step(q, [q EXCEPT !.do = "touch"]) /\ UNCHANGED <<jar, made>>
    <3> DEFINE r == [q EXCEPT !.do = "touch"]
    <3>1. r \in Refreshing /\ r.c = q.c /\ r.do = "touch" /\ r.dead = q.dead
      BY <2>1 DEF Refreshing
    <3>2. NamedBy(r) = q.c.sid /\ ~Begins(r)
      BY <3>1 DEF NamedBy, Begins
    <3>3. r.dead => q.c.sid \in signedOut
      BY <2>1, <2>3, <3>1 DEF SessionsInv, DeadStops
    <3>4. busy' \subseteq busy \cup {r}
          /\ UNCHANGED <<day, rows, version, jar, made, signedOut, reissued>>
      BY <1>8, <2>3 DEF ReadsUser, Step
    <3>5. \A p \in busy : Begins(p) => p.sid # NamedBy(r)
      BY <2>1, <3>2 DEF SessionsInv, StartsAlone
    <3> HIDE DEF r
    <3> QED BY <2>1, <3>1, <3>2, <3>3, <3>4, <3>5, GoesOn
  <2>4. CASE /\ q.c.version = version /\ q.c.sid = NoSid
             /\ \E sid \in Sid :
                   /\ IsFresh(sid) /\ made' = made \cup {sid}
                   /\ Step(q, [do |-> "start", d |-> q.d, sid |-> sid, v |-> version])
             /\ UNCHANGED jar
    <3>1. PICK sid \in Sid :
             /\ IsFresh(sid) /\ made' = made \cup {sid}
             /\ Step(q, [do |-> "start", d |-> q.d, sid |-> sid, v |-> version])
      BY <2>4
    <3> DEFINE r == [do |-> "start", d |-> q.d, sid |-> sid, v |-> version]
    <3>2. r \in Starting /\ r.do = "start"
      BY <2>1 DEF Starting, SessionsInv, SessionTypes, SessionsTypeOK
    <3>3. r.v <= version /\ r.sid \notin made /\ made' = made \cup {r.sid}
      BY <3>1 DEF IsFresh, SessionsInv, SessionTypes, SessionsTypeOK
    <3>4. busy' \subseteq busy \cup {r}
          /\ UNCHANGED <<day, rows, version, jar, signedOut, reissued>>
      BY <1>8, <2>4, <3>1 DEF ReadsUser, Step
    <3> HIDE DEF r
    <3> QED BY <3>2, <3>3, <3>4, StartsAnew
  <2> QED BY <1>8, <2>2, <2>3, <2>4 DEF ReadsUser
<1>9. ASSUME NEW q \in busy, FindsNoRow(q) PROVE SessionsInv'
  BY <1>9, KindOf, Answered DEF FindsNoRow, Answer, Clears
<1>10. ASSUME NEW q \in busy, NEW do \in {"touched", "save"}, ~(q.dead),
              q.do \in {"touch", "save"}, Step(q, [q EXCEPT !.do = do]),
              UNCHANGED <<day, rows, version, jar, made, signedOut, reissued>>
       PROVE  SessionsInv'
  <2>1. /\ q \in Refreshing /\ NamedBy(q) = q.c.sid /\ ~Begins(q) /\ q.c.version <= version
        /\ q.c.sid \in made \cup {NoSid}
    BY <1>10, KindOf
  <2> DEFINE r == [q EXCEPT !.do = do]
  <2>2. r \in Refreshing /\ r.c = q.c /\ r.do = do /\ r.dead = q.dead
    BY <2>1 DEF Refreshing
  <2>3. NamedBy(r) = q.c.sid /\ ~Begins(r)
    BY <2>2 DEF NamedBy, Begins
  <2>4. busy' \subseteq busy \cup {r}
    BY <1>10 DEF Step
  <2>5. \A p \in busy : Begins(p) => p.sid # NamedBy(r)
    BY <2>1, <2>3 DEF SessionsInv, StartsAlone
  <2>6. ~r.dead
    BY <1>10, <2>2
  <2> HIDE DEF r
  <2> QED BY <1>10, <2>1, <2>2, <2>3, <2>4, <2>5, <2>6, GoesOn
<1>11. ASSUME NEW q \in busy, FindsRow(q) PROVE SessionsInv'
  <2>1. q \in Refreshing /\ q.do = "touch" /\ q.c.sid \notin signedOut
    BY <1>11, KindOf DEF FindsRow, Live, SessionsInv, RowsNotSignedOut
  <2>2. ~q.dead
    BY <2>1 DEF SessionsInv, DeadStops
  <2> QED BY <1>10, <1>11, <2>1, <2>2 DEF FindsRow
<1>12. ASSUME NEW q \in busy, SavesRow(q) PROVE SessionsInv'
  <2>1. q \in Refreshing /\ q.do = "save" /\ q.d \in Device
    BY <1>12, KindOf DEF SavesRow
  <2>2. CASE Live(q.c.sid)
    <3>1. ~q.dead
      BY <2>1 DEF SessionsInv, DeadStops
    <3> QED BY <1>10, <1>12, <2>1, <2>2, <3>1 DEF SavesRow
  <2>3. CASE ~Live(q.c.sid)
    BY <1>12, <2>1, <2>3, Answered DEF SavesRow, Answer, Clears
  <2> QED BY <2>2, <2>3
<1>13. ASSUME NEW q \in busy, Dies(q) \/ GrantsAccess(q) PROVE SessionsInv'
  BY <1>13, Answered DEF Dies, GrantsAccess, Answer
<1> QED BY <1>1, <1>2, <1>3, <1>4, <1>5, <1>6, <1>7, <1>8, <1>9, <1>11, <1>12, <1>13,
           WritesRowKeeps, SetsCookieKeeps, RenewsKeeps, DropsOthersKeeps, TickKeeps
        DEF SessionsNext

LEMMA SessionsHold == SessionsSpec => []SessionsInv
BY SessionsStart, SessionsStep, PTL DEF SessionsSpec

\* A device that was signed out before it asked is never on its way to an answer
\* or to a renewal, however the requests of the others interleave with its own.
THEOREM SignedOutGetsNothing == SessionsSpec => []SignedOutStaysOut
<1>1. SessionsInv => SignedOutStaysOut
  <2> SUFFICES ASSUME SessionsInv, NEW q \in busy, q.do \in {"touched", "save"}
               PROVE  ~q.dead
    BY DEF SignedOutStaysOut
  <2>1. q \in Refreshing
    BY KindOf
  <2> QED BY <2>1 DEF SessionsInv, DeadStops
<1> QED BY <1>1, SessionsHold, PTL

-----------------------------------------------------------------------------
(* The row behind a cookie.                                                    *)

\* A cookie of sid and v that ends then has its row, with a life at least as long, or an excuse.
Vouched(sid, v, ends) ==
    sid # NoSid /\ v = version /\ sid \notin signedOut \cup reissued =>
        \E row \in rows : row.sid = sid /\ ends <= row.ends

\* A cookie in a jar, or on its way to one, is vouched for; a refresh past its
\* look at the row has the row, or was signed out meanwhile.
CookieRows ==
    /\ \A row \in rows : row.ends <= day + Ttl
    /\ \A d \in Device : jar[d].ends <= day + Ttl /\ Vouched(jar[d].sid, jar[d].version, jar[d].ends)
    /\ \A q \in busy : q.do = "cookie" => Vouched(q.sid, q.v, day + Ttl)
    /\ \A q \in busy : q.do = "touched" => Live(q.c.sid) \/ q.c.sid \in signedOut

\* No row goes, or ends earlier, but by signing out.
RowsStay ==
    /\ \A row \in rows : \/ row.sid \in signedOut'
                          \/ \E new \in rows' : new.sid = row.sid /\ row.ends <= new.ends
    /\ \A row \in rows' : row.ends \in Nat /\ row.ends <= day + Ttl
    /\ signedOut \subseteq signedOut' /\ reissued \subseteq reissued'

LEMMA EndTypes ==
    ASSUME SessionsInv
    PROVE  /\ day \in Nat /\ Ttl \in Nat /\ version \in Nat
           /\ \A row \in rows : row.ends \in Nat
           /\ \A d \in Device : jar[d] \in Cookie /\ jar[d].ends \in Nat /\ jar[d].version \in Nat
BY SessionsAssumption DEF SessionsInv, SessionTypes, SessionsTypeOK, SessionsAssumption, Cookie

\* What is vouched for stays so while rows stay and the password does.
LEMMA StaysVouched ==
    ASSUME SessionsInv, RowsStay, version' = version,
           NEW sid, NEW v, NEW ends \in Nat, Vouched(sid, v, ends)
    PROVE  Vouched(sid, v, ends)'
<1> SUFFICES ASSUME sid # NoSid, v = version', sid \notin signedOut' \cup reissued'
             PROVE  \E new \in rows' : new.sid = sid /\ ends <= new.ends
  BY DEF Vouched
<1>1. PICK row \in rows : row.sid = sid /\ ends <= row.ends
  BY DEF Vouched, RowsStay
<1>2. PICK new \in rows' : new.sid = row.sid /\ row.ends <= new.ends
  BY <1>1 DEF RowsStay
<1>3. row.ends \in Nat /\ new.ends \in Nat
  BY EndTypes DEF RowsStay
<1>4. ends <= new.ends
  BY <1>1, <1>2, <1>3
<1> QED BY <1>1, <1>2, <1>4

\* A step that keeps day, password and rows, where every new cookie and request is in order.
LEMMA CookieRowsKept ==
    ASSUME SessionsInv, CookieRows, RowsStay, UNCHANGED <<day, version>>,
           \A d \in Device : \/ jar'[d] = jar[d] \/ jar'[d] = NoCookie
                             \/ jar'[d].ends <= day + Ttl /\ Vouched(jar[d].sid, jar[d].version, jar[d].ends)',
           \A q \in busy' : \/ q \in busy \/ q.do \notin {"cookie", "touched"}
                            \/ q.do = "cookie" /\ Vouched(q.sid, q.v, day + Ttl)'
                            \/ q.do = "touched" /\ (Live(q.c.sid)' \/ q.c.sid \in signedOut')
    PROVE  CookieRows'
<1>1. \A row \in rows' : row.ends <= (day + Ttl)'
  BY DEF RowsStay
<1>2. ASSUME NEW d \in Device
      PROVE  jar'[d].ends <= (day + Ttl)' /\ Vouched(jar[d].sid, jar[d].version, jar[d].ends)'
  <2>1. CASE jar'[d] = jar[d]
    <3>1. Vouched(jar[d].sid, jar[d].version, jar[d].ends) /\ jar[d].ends \in Nat /\ jar[d].ends <= day + Ttl
      BY EndTypes DEF CookieRows
    <3>2. \A sid, v : \A ends \in Nat : Vouched(sid, v, ends) => Vouched(sid, v, ends)'
      BY StaysVouched
    <3> QED BY <2>1, <3>1, <3>2 DEF Vouched
  <2>2. CASE jar'[d] = NoCookie
    BY <2>2, EndTypes DEF NoCookie, Vouched
  <2> QED BY <2>1, <2>2
<1>3. ASSUME NEW q \in busy', q.do = "cookie"
      PROVE  Vouched(q.sid, q.v, day + Ttl)'
  <2>1. CASE q \in busy
    <3>1. Vouched(q.sid, q.v, day + Ttl) /\ day + Ttl \in Nat
      BY <1>3, <2>1, EndTypes DEF CookieRows
    <3>2. \A sid, v : \A ends \in Nat : Vouched(sid, v, ends) => Vouched(sid, v, ends)'
      BY StaysVouched
    <3> QED BY <3>1, <3>2 DEF Vouched
  <2> QED BY <1>3, <2>1
<1>4. ASSUME NEW q \in busy', q.do = "touched"
      PROVE  Live(q.c.sid)' \/ q.c.sid \in signedOut'
  <2>1. CASE q \in busy
    BY <1>4, <2>1 DEF CookieRows, Live, RowsStay
  <2> QED BY <1>4, <2>1
<1> QED BY <1>1, <1>2, <1>3, <1>4 DEF CookieRows

\* A new password: no cookie there is, or on its way, is of it.
LEMMA CookieRowsAnew ==
    ASSUME SessionsInv, CookieRows, version' = version + 1, UNCHANGED <<day, rows, signedOut>>,
           \A d \in Device : jar'[d] = jar[d] \/ jar'[d] = NoCookie,
           \A q \in busy' : q \in busy \/ q.do \notin {"cookie", "touched"}
    PROVE  CookieRows'
<1>1. \A d \in Device : jar'[d].ends <= day + Ttl /\ jar'[d].version # version'
  BY EndTypes DEF SessionsInv, VersionsBehind, CookieRows, NoCookie
<1>2. ASSUME NEW q \in busy, q.do = "cookie" PROVE q.v # version'
  <2>1. q \in Starting
    BY <1>2 DEF SessionsInv, SessionTypes, Refreshing, Changing
  <2> QED BY <2>1, Kinds, EndTypes DEF SessionsInv, VersionsBehind, Starting
<1> QED BY <1>1, <1>2 DEF CookieRows, Vouched, Live

LEMMA CookieRowsStep == SessionsInv /\ CookieRows /\ [SessionsNext]_sessions => CookieRows'
<1> SUFFICES ASSUME SessionsInv, CookieRows, [SessionsNext]_sessions PROVE CookieRows'
  OBVIOUS
<1> USE SessionsInv, CookieRows
<1>0. UNCHANGED <<rows, signedOut, reissued>> => RowsStay
  BY EndTypes DEF RowsStay, CookieRows
<1>1. CASE UNCHANGED sessions
  BY <1>1 DEF sessions, CookieRows, Vouched, Live
<1>2. ASSUME NEW d \in Device, Login(d) \/ Refresh(d) PROVE CookieRows'
  <2>1. CASE Login(d)
    <3>1. /\ \A q \in busy' : q \in busy \/ q.do = "start"
          /\ UNCHANGED <<day, rows, version, jar, signedOut, reissued>>
      BY <2>1 DEF Login, Begin
    <3> QED BY <1>0, <3>1, CookieRowsKept
  <2>2. CASE Refresh(d)
    <3> DEFINE q == [do |-> "refresh", d |-> d, c |-> jar[d],
                     dead |-> jar[d].sid \in signedOut \/ jar[d].version # version]
    <3>1. q.do = "refresh"
      OBVIOUS
    <3>2. busy' = busy \cup {q} /\ UNCHANGED <<day, rows, version, jar, signedOut, reissued>>
      BY <2>2 DEF Refresh, Begin
    <3> HIDE DEF q
    <3>3. \A r \in busy' : r \in busy \/ r.do = "refresh"
      BY <3>1, <3>2
    <3> QED BY <1>0, <3>2, <3>3, CookieRowsKept
  <2> QED BY <1>2, <2>1, <2>2
<1>3. ASSUME NEW gone, RemovesRows(gone) PROVE reissued \subseteq reissued' => RowsStay
  BY <1>3, EndTypes DEF RemovesRows, RowsStay, CookieRows
<1>4. jar \in [Device -> Cookie]
  BY DEF SessionsInv, SessionTypes, SessionsTypeOK
<1>5. ASSUME NEW d \in Device, Logout(d) PROVE CookieRows'
  <2>1. \A e \in Device : jar'[e] = jar[e] \/ jar'[e] = NoCookie
    BY <1>4, <1>5 DEF Logout, Clears
  <2>2. CASE jar[d].sid # NoSid
    <3>1. RowsStay /\ UNCHANGED <<day, version, busy>>
      BY <1>3, <1>5, <2>2 DEF Logout
    <3> QED BY <2>1, <3>1, CookieRowsKept
  <2>3. CASE jar[d].sid = NoSid
    BY <1>5, <2>1, <2>3, CookieRowsAnew DEF Logout
  <2> QED BY <2>2, <2>3
<1>6. ASSUME NEW gone, RemovesRows(gone), UNCHANGED <<day, version, jar, busy, made, reissued>>
      PROVE  CookieRows'
  BY <1>3, <1>6, CookieRowsKept
<1>7. ASSUME NEW d \in Device, NEW keeps \in BOOLEAN, SavesPassword(d, keeps) PROVE CookieRows'
  BY <1>7, CookieRowsAnew DEF SavesPassword, Begin
<1>8. ASSUME NEW q \in busy, WritesRow(q) PROVE CookieRows'
  <2> DEFINE r == [do |-> "cookie", d |-> q.d, sid |-> q.sid, v |-> q.v]
             row == [sid |-> q.sid, ends |-> day + Ttl]
  <2>1. /\ rows' = rows \cup {row} /\ busy' = (busy \ {q}) \cup {r}
        /\ UNCHANGED <<day, version, jar, made, signedOut, reissued>>
    BY <1>8 DEF WritesRow, Step
  <2>2. day + Ttl \in Nat /\ row.sid = q.sid /\ row.ends = day + Ttl
    BY EndTypes
  <2>3. RowsStay
    BY <2>1, <2>2, EndTypes DEF RowsStay, CookieRows
  <2>4. r.do = "cookie" /\ r.sid = q.sid
    OBVIOUS
  <2> HIDE DEF r
  <2>5. row \in rows' /\ row.sid = r.sid /\ (day + Ttl)' <= row.ends
    BY <2>1, <2>2, <2>4
  <2>6. Vouched(r.sid, r.v, day + Ttl)'
    BY <2>5 DEF Vouched
  <2> HIDE DEF row
  <2> QED BY <2>1, <2>3, <2>4, <2>6, CookieRowsKept
<1>9. ASSUME NEW q \in busy, SetsCookie(q) PROVE CookieRows'
  <2> DEFINE c == CookieOf(q.sid, q.v)
  <2>1. /\ busy' \subseteq busy /\ jar' = [jar EXCEPT ![q.d] = c] /\ q.do = "cookie"
        /\ UNCHANGED <<day, rows, version, made, signedOut, reissued>>
    BY <1>9 DEF SetsCookie, Answer
  <2>2. c.sid = q.sid /\ c.version = q.v /\ c.ends = day + Ttl /\ day + Ttl \in Nat
    BY EndTypes DEF CookieOf
  <2>3. Vouched(c.sid, c.version, c.ends)
    BY <2>1, <2>2 DEF CookieRows
  <2>4. c.sid # NoSid /\ c.version = version' /\ c.sid \notin signedOut' \cup reissued' =>
           \E row \in rows' : row.sid = c.sid /\ c.ends <= row.ends
    BY <2>1, <2>3 DEF Vouched
  <2> HIDE DEF c
  <2>5. \A d \in Device : jar'[d] = jar[d] \/ jar'[d] = c
    BY <1>4, <2>1
  <2>6. \A d \in Device : \/ jar'[d] = jar[d]
                          \/ jar'[d].ends <= day + Ttl /\ Vouched(jar[d].sid, jar[d].version, jar[d].ends)'
    <3> TAKE d \in Device
    <3>1. CASE jar'[d] = c
      BY <2>1, <2>2, <2>4, <3>1 DEF Vouched
    <3> QED BY <2>5, <3>1
  <2> QED BY <1>0, <2>1, <2>6, CookieRowsKept
<1>10. ASSUME NEW q \in busy, Dies(q) \/ GrantsAccess(q) \/ FindsNoRow(q) PROVE CookieRows'
  BY <1>0, <1>4, <1>10, CookieRowsKept DEF Dies, GrantsAccess, FindsNoRow, Answer, Clears
<1>11. ASSUME NEW q \in busy, ReadsUser(q) PROVE CookieRows'
  <2>1. q \in Refreshing
    BY <1>11, KindOf DEF ReadsUser
  <2>2. [q EXCEPT !.do = "touch"].do = "touch"
    BY <2>1 DEF Refreshing
  <2>3. \A r \in busy' : r \in busy \/ r.do \in {"touch", "start"}
    <3>1. CASE Answer(q)
      BY <3>1 DEF Answer
    <3>2. CASE Step(q, [q EXCEPT !.do = "touch"])
      BY <2>2, <3>2 DEF Step
    <3>3. CASE \E sid \in Sid : Step(q, [do |-> "start", d |-> q.d, sid |-> sid, v |-> version])
      BY <3>3 DEF Step
    <3> QED BY <1>11, <3>1, <3>2, <3>3 DEF ReadsUser
  <2>4. \A d \in Device : jar'[d] = jar[d] \/ jar'[d] = NoCookie
    BY <1>4, <1>11 DEF ReadsUser, Clears
  <2> QED BY <1>0, <1>11, <2>3, <2>4, CookieRowsKept DEF ReadsUser
<1>12. ASSUME NEW q \in busy, NEW do \in {"touched", "save"}, Live(q.c.sid), q.do \in {"touch", "save"},
              Step(q, [q EXCEPT !.do = do]), UNCHANGED <<day, rows, version, jar, made, signedOut, reissued>>
       PROVE  CookieRows'
  <2>1. q \in Refreshing
    BY <1>12, KindOf
  <2>2. [q EXCEPT !.do = do].do = do /\ [q EXCEPT !.do = do].c = q.c
    BY <2>1 DEF Refreshing
  <2>3. Live(q.c.sid)'
    BY <1>12 DEF Live
  <2>4. \A r \in busy' : \/ r \in busy \/ r.do = "save"
                         \/ r.do = "touched" /\ (Live(r.c.sid)' \/ r.c.sid \in signedOut')
    <3> TAKE r \in busy'
    <3>1. r \in busy \/ r = [q EXCEPT !.do = do]
      BY <1>12 DEF Step
    <3>2. CASE r = [q EXCEPT !.do = do]
      BY <2>2, <2>3, <3>2 DEF Live
    <3> QED BY <3>1, <3>2
  <2> QED BY <1>0, <1>12, <2>4, CookieRowsKept
<1>13. ASSUME NEW q \in busy, FindsRow(q) PROVE CookieRows'
  BY <1>12, <1>13 DEF FindsRow
<1>14. ASSUME NEW q \in busy, SavesRow(q) PROVE CookieRows'
  <2>1. CASE Live(q.c.sid)
    BY <1>12, <1>14, <2>1 DEF SavesRow
  <2>2. CASE ~Live(q.c.sid)
    BY <1>0, <1>4, <1>14, <2>2, CookieRowsKept DEF SavesRow, Answer, Clears
  <2> QED BY <2>1, <2>2
<1>15. ASSUME NEW q \in busy, Renews(q) PROVE CookieRows'
  <2> DEFINE r == [do |-> "cookie", d |-> q.d, sid |-> q.c.sid, v |-> q.c.version]
             Later(row) == IF row.sid = q.c.sid THEN [row EXCEPT !.ends = day + Ttl] ELSE row
  <2>1. /\ q.do = "touched" /\ rows' = {Later(row) : row \in rows} /\ busy' = (busy \ {q}) \cup {r}
        /\ UNCHANGED <<day, version, jar, made, signedOut, reissued>>
    BY <1>15 DEF Renews, Step
  <2>2. \A row \in rows : /\ Later(row).sid = row.sid /\ row.ends <= Later(row).ends
                          /\ Later(row).ends \in Nat /\ Later(row).ends <= day + Ttl
                          /\ row.sid = q.c.sid => Later(row).ends = day + Ttl
    <3> TAKE row \in rows
    <3>1. row \in [sid : Sid, ends : Nat] /\ row.ends <= day + Ttl /\ day + Ttl \in Nat
      BY EndTypes DEF CookieRows, SessionsInv, SessionTypes, SessionsTypeOK
    <3> QED BY <3>1
  <2> HIDE DEF Later
  <2>3. RowsStay
    BY <2>1, <2>2 DEF RowsStay
  <2>4. Vouched(r.sid, r.v, day + Ttl)'
    <3>1. Live(q.c.sid) \/ q.c.sid \in signedOut
      BY <2>1 DEF CookieRows
    <3>2. CASE Live(q.c.sid)
      <4>1. PICK row \in rows : row.sid = q.c.sid
        BY <3>2 DEF Live
      <4>2. Later(row) \in rows' /\ Later(row).sid = r.sid /\ (day + Ttl)' <= Later(row).ends
        BY <2>1, <2>2, <4>1, EndTypes
      <4> QED BY <4>2 DEF Vouched
    <3>3. CASE q.c.sid \in signedOut
      BY <2>1, <3>3 DEF Vouched
    <3> QED BY <3>1, <3>2, <3>3
  <2>5. r.do = "cookie"
    OBVIOUS
  <2> HIDE DEF r
  <2> QED BY <2>1, <2>3, <2>4, <2>5, CookieRowsKept
<1>16. ASSUME NEW q \in busy, DropsOthers(q) PROVE CookieRows'
  <2> DEFINE kept == IF q.keeps /\ q.sid # NoSid THEN {q.sid} ELSE {}
             c == IF q.keeps THEN CookieOf(q.sid, q.v) ELSE NoCookie
  <2>1. /\ busy' \subseteq busy /\ RemovesRows({row.sid : row \in rows} \ kept)
        /\ reissued' = reissued \cup kept /\ jar' = [jar EXCEPT ![q.d] = c]
        /\ UNCHANGED <<day, version, made>>
    BY <1>16 DEF DropsOthers, Answer
  <2>2. RowsStay
    BY <1>3, <2>1
  <2>3. c.ends <= day + Ttl /\ (c.sid = NoSid \/ c.sid \in kept)
    BY EndTypes DEF CookieOf, NoCookie
  <2>4. c.sid = NoSid \/ c.sid \in reissued'
    BY <2>1, <2>3
  <2> HIDE DEF c, kept
  <2>5. \A d \in Device : jar'[d] = jar[d] \/ jar'[d] = c
    BY <1>4, <2>1
  <2>6. \A d \in Device : \/ jar'[d] = jar[d]
                          \/ jar'[d].ends <= day + Ttl /\ Vouched(jar[d].sid, jar[d].version, jar[d].ends)'
    BY <2>3, <2>4, <2>5 DEF Vouched
  <2> QED BY <2>1, <2>2, <2>6, CookieRowsKept
<1>17. CASE Tick
  <2>1. /\ busy' = {} /\ day' = day + 1 /\ rows' = {row \in rows : day' < row.ends}
        /\ jar' = [d \in Device |-> IF day' < jar[d].ends THEN jar[d] ELSE NoCookie]
        /\ UNCHANGED <<version, signedOut, reissued>>
    BY <1>17 DEF Tick
  <2>2. \A row \in rows' : row.ends <= day' + Ttl
    BY <2>1, EndTypes DEF CookieRows
  <2>3. ASSUME NEW d \in Device
        PROVE  jar'[d].ends <= day' + Ttl /\ Vouched(jar[d].sid, jar[d].version, jar[d].ends)'
    <3>1. CASE day' < jar[d].ends
      <4>1. jar'[d] = jar[d] /\ jar[d].ends \in Nat /\ jar[d].ends <= day' + Ttl
        BY <2>1, <3>1, EndTypes DEF CookieRows
      <4>2. Vouched(jar[d].sid, jar[d].version, jar[d].ends)
        BY DEF CookieRows
      <4>3. \A row \in rows : jar[d].ends <= row.ends => row \in rows'
        BY <2>1, <3>1, EndTypes
      <4> QED BY <2>1, <4>1, <4>2, <4>3 DEF Vouched
    <3>2. CASE ~(day' < jar[d].ends)
      BY <2>1, <3>2, EndTypes DEF NoCookie, Vouched
    <3> QED BY <3>1, <3>2
  <2> QED BY <2>1, <2>2, <2>3 DEF CookieRows
<1> QED BY <1>1, <1>2, <1>5, <1>6, <1>7, <1>8, <1>9, <1>10, <1>11, <1>13, <1>14, <1>15, <1>16, <1>17
        DEF SessionsNext, RevokeOne, RevokeAllOthers

LEMMA CookieRowsStart == SessionsInit => CookieRows
<1> SUFFICES ASSUME SessionsInit PROVE CookieRows
  OBVIOUS
<1>1. PICK old \in SUBSET Device :
         jar = [d \in Device |-> IF d \in old THEN CookieOf(NoSid, 0) ELSE NoCookie]
  BY DEF SessionsInit
<1>2. day = 1 /\ Ttl \in Nat
  BY SessionsAssumption DEF SessionsInit, SessionsAssumption
<1>3. \A d \in Device : jar[d].sid = NoSid /\ jar[d].ends <= day + Ttl
  BY <1>1, <1>2 DEF CookieOf, NoCookie
<1> QED BY <1>3 DEF SessionsInit, CookieRows, Vouched

\* A cookie names a row that is there, unless somebody signed the device out or a change of
\* password gave the cookie a new end: however refreshes, renewals and days interleave.
THEOREM CookiesHaveRows == SessionsSpec => []CookieNamesRow
<1>1. SessionsInv /\ CookieRows => CookieNamesRow
  BY DEF CookieRows, Vouched, CookieNamesRow, Live
<1>2. SessionsSpec => []CookieRows
  BY CookieRowsStart, CookieRowsStep, SessionsHold, PTL DEF SessionsSpec
<1> QED BY <1>1, <1>2, SessionsHold, PTL

-----------------------------------------------------------------------------
(* Tokens: one media server for everybody in a conversation's call.           *)

\* Who asks for the conversation's token with a choice kept asks for that.
AsksForKept ==
    \A m \in minting : m.do = "resolve" /\ m.was # Unsettled => m.wants = m.was

\* While nothing has parted the call: a choice is kept as long as anybody is in
\* it, and whoever holds a token, or is in the call and not told to move, is on
\* the server kept.
AtTheChoice ==
    /\ seated.chat # {} => settled # Unsettled
    /\ \A p \in Person : token[p].chat \in {Unsettled, settled}
    /\ TogetherUnlessApart

TokensInv == TokensTypeOK /\ AsksForKept /\ (~apart => AtTheChoice)

\* The server a person is resolved to is one of those there are.
LEMMA ResolvedThere ==
    ASSUME TokensAssumption, NEW p \in Person, NEW v \in MediaServer
    PROVE  Resolved(p, v) \in MediaServer
BY DEF TokensAssumption, Resolved

LEMMA TokensStart == TokensInit => TokensInv
<1>1. SUFFICES ASSUME TokensInit PROVE TokensInv
  OBVIOUS
<1>2. \A p \in Person : token[p] = [channel |-> FALSE, chat |-> Unsettled]
  BY <1>1 DEF TokensInit
<1>3. TokensTypeOK
  BY <1>1, TokensAssumption DEF TokensInit, TokensTypeOK, Holding, TokensAssumption
<1>4. AsksForKept
  BY <1>1 DEF TokensInit, AsksForKept
<1>5. AtTheChoice
  BY <1>1, <1>2 DEF TokensInit, AtTheChoice, TogetherUnlessApart
<1> QED BY <1>3, <1>4, <1>5 DEF TokensInv

LEMMA TokensStep ==
    ASSUME TokensAssumption, TokensInv, [TokensNext]_tokens
    PROVE  TokensInv'
<1> USE DEF TokensTypeOK, Holding, AsksForKept, AtTheChoice, TogetherUnlessApart
<1>1. ASSUME NEW p \in Person, AsksForChannel(p)
      PROVE  TokensInv'
  BY <1>1 DEF TokensInv, AsksForChannel, Mints
<1>2. ASSUME NEW p \in Person, ChecksLimit(p)
      PROVE  TokensInv'
  BY <1>2 DEF TokensInv, ChecksLimit
<1>3. ASSUME NEW p \in Person, GivesChannelToken(p)
      PROVE  TokensInv'
  BY <1>3 DEF TokensInv, GivesChannelToken
<1>4. ASSUME NEW p \in Person, JoinsChannel(p)
      PROVE  TokensInv'
  BY <1>4 DEF TokensInv, JoinsChannel
<1>5. ASSUME NEW p \in Person, LeavesChannel(p)
      PROVE  TokensInv'
  BY <1>5 DEF TokensInv, LeavesChannel
<1>6. ASSUME NEW p \in Person, JoinsChat(p)
      PROVE  TokensInv'
  BY <1>6 DEF TokensInv, JoinsChat, TokensAssumption
<1>7. ASSUME NEW p \in Person, LeavesChat(p)
      PROVE  TokensInv'
  BY <1>7 DEF TokensInv, LeavesChat
<1>8. ASSUME NEW p \in Person, NEW v \in MediaServer, AsksForChat(p, v)
      PROVE  TokensInv'
  BY <1>8 DEF TokensInv, AsksForChat, Mints, Wanted
<1>9. ASSUME NEW p \in Person, NEW v \in MediaServer, AsksToMove(p, v)
      PROVE  TokensInv'
  BY <1>9 DEF TokensInv, AsksToMove, Mints
<1>10. ASSUME NEW m \in minting, GivesChatToken(m)
       PROVE  TokensInv'
  <2> DEFINE mine == Resolved(m.p, m.wants)
  <2>1. m.p \in Person /\ m.wants \in MediaServer /\ mine \in MediaServer
    BY <1>10, ResolvedThere DEF TokensInv, GivesChatToken
  <2>2. mine # Unsettled
    BY <2>1 DEF TokensAssumption
  <2>3. ~apart' => settled' = mine
    BY <1>10, <2>1 DEF TokensInv, GivesChatToken, Resolved
  <2> QED BY <1>10, <2>1, <2>2, <2>3 DEF TokensInv, GivesChatToken
<1>11. ASSUME NEW m \in minting, Moves(m)
       PROVE  TokensInv'
  <2>1. m.p \in Person /\ m.wants \in MediaServer /\ settled' \in MediaServer
    BY <1>11, ResolvedThere DEF TokensInv, Moves
  <2>2. settled' # Unsettled
    BY <2>1 DEF TokensAssumption
  <2> QED BY <1>11, <2>1, <2>2 DEF TokensInv, Moves, Outstanding
<1>12. ASSUME Releases
       PROVE  TokensInv'
  BY <1>12 DEF TokensInv, Releases, Outstanding
<1>13. CASE UNCHANGED tokens
  BY <1>13 DEF TokensInv, tokens
<1> QED BY <1>1, <1>2, <1>3, <1>4, <1>5, <1>6, <1>7, <1>8, <1>9, <1>10, <1>11, <1>12, <1>13
        DEF TokensNext

LEMMA TokensHold == TokensSpec => []TokensInv
<1>1. TokensInv /\ [TokensNext]_tokens => TokensInv'
  BY TokensAssumption, TokensStep
<1> QED BY <1>1, TokensStart, PTL DEF TokensSpec

\* Everybody in a conversation's call who has not been told to come over is on
\* the media server the call is kept at, unless `apart` (getVoiceToken,
\* moveVoiceCall, releaseCallRoom).
THEOREM Together == TokensSpec => []TogetherUnlessApart
<1>1. TokensInv => TogetherUnlessApart
  BY DEF TokensInv, AtTheChoice, TogetherUnlessApart
<1> QED BY <1>1, TokensHold, PTL
-----------------------------------------------------------------------------
(* Presence: what others are shown is what holds, once everybody is through.  *)

\* The handlers at an await are functions of the connection, and what is shown of
\* who is shown it.
TasksTyped ==
    /\ setup = [t \in Tab |-> setup[t]] /\ telling = [t \in Tab |-> telling[t]]
    /\ leaving = [t \in Tab |-> leaving[t]] /\ shown = [o \in Audience |-> shown[o]]

\* A setup that will announce: the first connection's.
WillAnnounce(task) ==
    task.at = "audience" \/ (task.at \in {"row", "joining"} /\ task.first)

\* Somebody is about to be sent something, or to be left astray.
WillSay ==
    \/ \E t \in Tab : WillAnnounce(setup[t]) \/ telling[t] # NoTask \/ leaving[t] # "none"
    \/ patching # NoTask

\* Whoever is not shown what holds was sent what no longer held, or a handler is
\* yet to send.
RightOrToBeSaid == \A o \in Audience : ~astray[o] => shown[o] = Due \/ WillSay

PresenceInv == TasksTyped /\ RightOrToBeSaid

\* What others are due changes with what is stored, the deadline, idleness, and
\* with the first connection and the last.
LEMMA DueStays ==
    ASSUME UNCHANGED <<stored, passed, away>>, (registered = {}) = (registered' = {})
    PROVE  Due' = Due
BY DEF Due, Effective, ChosenNow

LEMMA PresenceStart == PresenceInit => PresenceInv
BY DEF PresenceInit, PresenceInv, TasksTyped, RightOrToBeSaid, Due, Effective

\* A handler that is at an await still, or another that is.
LEMMA StillToSay ==
    ASSUME WillSay, UNCHANGED patching,
           \A t \in Tab : WillAnnounce(setup[t]) => WillAnnounce(setup'[t]),
           \A t \in Tab : telling[t] # NoTask => telling'[t] # NoTask,
           \A t \in Tab : leaving[t] # "none" => leaving'[t] # "none"
    PROVE  WillSay'
BY DEF WillSay

\* Whoever sends to everybody leaves each right or astray.
LEMMA SentIsRight ==
    ASSUME NEW status, Sends(Audience, status), UNCHANGED <<stored, passed, away, registered>>
    PROVE  RightOrToBeSaid'
<1>1. Due' = Due
  BY DueStays
<1> QED
  BY <1>1 DEF Sends, RightOrToBeSaid, Due

\* ... and so does a handler that fails before it sends.
LEMMA LostIsAstray ==
    ASSUME Unsent, UNCHANGED <<stored, passed, away, registered, shown>>
    PROVE  RightOrToBeSaid'
<1>1. Due' = Due
  BY DueStays
<1> QED
  BY <1>1 DEF Unsent, RightOrToBeSaid

LEMMA PresenceStep == PresenceInv /\ [PresenceNext]_presence => PresenceInv'
<1> SUFFICES ASSUME PresenceInv, [PresenceNext]_presence PROVE PresenceInv'
  OBVIOUS
<1> USE DEF PresenceInv
<1>1. TasksTyped'
  <2> USE DEF TasksTyped
  <2>1. ASSUME NEW t \in Tab, ConnectTab(t) \/ DisconnectTab(t) \/ TabStep(t) PROVE TasksTyped'
    BY <2>1 DEF TabStep, ConnectTab, RowArrives, Joined, Announces, SetupFails, ChoiceSaved, TellingFails,
           ReadsChoice, KeepsCopy, Broadcasts, DisconnectTab, LastSeenWritten, SaysOffline, LeavingFails,
           Sends
  <2>2. ASSUME NEW t \in Tab, NEW st \in Status, Chooses(t, st) PROVE TasksTyped'
    BY <2>2 DEF Chooses
  <2>3. ASSUME NEW t \in Tab, NEW isAway \in BOOLEAN, ReportsAway(t, isAway) PROVE TasksTyped'
    BY <2>3 DEF ReportsAway
  <2>4. ASSUME NEW c \in Chosen, Patches(c) PROVE TasksTyped'
    BY <2>4 DEF Patches
  <2>5. CASE TellsFriends \/ FriendsUntold \/ SignsIn \/ DeadlinePasses \/ UNCHANGED presence
    BY <2>5 DEF TellsFriends, FriendsUntold, SignsIn, DeadlinePasses, presence, tasks
  <2> QED
    BY <2>1, <2>2, <2>3, <2>4, <2>5 DEF PresenceNext
<1>2. ASSUME NEW t \in Tab, ConnectTab(t) PROVE RightOrToBeSaid'
  <2>1. CASE registered = {}
    <3>1. setup'[t] = [at |-> "row", first |-> TRUE, row |-> stored]
      BY <1>2, <2>1 DEF ConnectTab, TasksTyped
    <3> QED
      BY <3>1 DEF RightOrToBeSaid, WillSay, WillAnnounce
  <2>2. CASE registered # {}
    <3>1. Due' = Due
      BY <1>2, <2>2, DueStays DEF ConnectTab
    <3>2. WillSay => WillSay'
      BY <1>2, StillToSay DEF ConnectTab, TasksTyped, WillAnnounce, NoTask
    <3> QED
      BY <1>2, <3>1, <3>2 DEF RightOrToBeSaid, ConnectTab
  <2> QED
    BY <2>1, <2>2
<1>3. ASSUME NEW t \in Tab, RowArrives(t) \/ Joined(t) PROVE RightOrToBeSaid'
  <2>1. WillSay => WillSay'
    BY <1>3, StillToSay DEF RowArrives, Joined, TasksTyped, WillAnnounce, NoTask
  <2>2. Due' = Due
    BY <1>3, DueStays DEF RowArrives, Joined
  <2> QED
    BY <1>3, <2>1, <2>2 DEF RightOrToBeSaid, RowArrives, Joined
<1>4. ASSUME NEW t \in Tab, Announces(t) \/ KeepsCopy(t) \/ Broadcasts(t) \/ SaysOffline(t)
      PROVE  RightOrToBeSaid'
  BY <1>4, SentIsRight DEF Announces, KeepsCopy, Broadcasts, SaysOffline
<1>5. ASSUME NEW t \in Tab, telling'[t] # NoTask PROVE RightOrToBeSaid'
  BY <1>5 DEF RightOrToBeSaid, WillSay
<1>6. ASSUME NEW t \in Tab, TellingFails(t) \/ LeavingFails(t) PROVE RightOrToBeSaid'
  BY <1>6, LostIsAstray DEF TellingFails, LeavingFails
<1>14. ASSUME NEW t \in Tab, SetupFails(t) PROVE RightOrToBeSaid'
  <2>1. CASE setup[t].at = "audience" \/ setup[t].first
    BY <1>14, <2>1, LostIsAstray DEF SetupFails
  <2>2. CASE ~(setup[t].at = "audience" \/ setup[t].first)
    <3>1. UNCHANGED <<stored, passed, registered, away, telling, leaving, patching, shown, astray>>
      BY <1>14, <2>2 DEF SetupFails
    <3>2. \A u \in Tab : WillAnnounce(setup[u]) => WillAnnounce(setup'[u])
      BY <1>14, <2>2 DEF SetupFails, TasksTyped, WillAnnounce
    <3>3. WillSay => WillSay'
      BY <3>1, <3>2, StillToSay
    <3> QED
      BY <3>1, <3>3, DueStays DEF RightOrToBeSaid
  <2> QED
    BY <2>1, <2>2
<1>7. ASSUME NEW t \in Tab,
             ChoiceSaved(t) \/ ReadsChoice(t) \/ (\E st \in Status : Chooses(t, st))
                 \/ (\E isAway \in BOOLEAN : ReportsAway(t, isAway))
      PROVE  RightOrToBeSaid'
  <2>1. telling'[t].at \in {"write", "audience", "emit"}
    BY <1>7 DEF ChoiceSaved, ReadsChoice, Chooses, ReportsAway, TasksTyped
  <2> QED
    BY <1>5, <2>1 DEF NoTask
<1>8. ASSUME NEW t \in Tab, DisconnectTab(t) PROVE RightOrToBeSaid'
  <2>1. CASE registered' = {}
    BY <1>8, <2>1 DEF DisconnectTab, TasksTyped, RightOrToBeSaid, WillSay
  <2>2. CASE registered' # {}
    <3>1. Due' = Due
      BY <1>8, <2>2, DueStays DEF DisconnectTab
    <3> QED
      BY <1>8, <2>2, <3>1 DEF DisconnectTab, RightOrToBeSaid, WillSay
  <2> QED
    BY <2>1, <2>2
<1>9. ASSUME NEW t \in Tab, LastSeenWritten(t) PROVE RightOrToBeSaid'
  BY <1>9 DEF LastSeenWritten, TasksTyped, RightOrToBeSaid, WillSay
<1>10. ASSUME NEW c \in Chosen, Patches(c) PROVE RightOrToBeSaid'
  BY <1>10 DEF Patches, RightOrToBeSaid, WillSay, NoTask
<1>11. ASSUME TellsFriends PROVE RightOrToBeSaid'
  <2>1. Due' = Due
    BY <1>11, DueStays DEF TellsFriends
  <2>2. ASSUME NEW o \in Audience, ~astray'[o] PROVE shown'[o] = Due
    <3>1. CASE o = "friend"
      <4>1. astray'[o] = (patching.status # Due)
        BY <1>11, <3>1 DEF TellsFriends
      <4>2. shown'[o] = patching.status
        BY <1>11, <3>1 DEF TellsFriends, TasksTyped
      <4> QED
        BY Zenon, <2>2, <4>1, <4>2
    <3>2. CASE o # "friend"
      <4>1. astray'[o] = (astray[o] \/ shown[o] # Due)
        BY <1>11, <3>2 DEF TellsFriends
      <4>2. shown'[o] = shown[o]
        BY <1>11, <3>2 DEF TellsFriends, TasksTyped
      <4> QED
        BY Zenon, <2>2, <4>1, <4>2
    <3> QED
      BY <3>1, <3>2
  <2> QED
    BY <2>1, <2>2 DEF RightOrToBeSaid
<1>12. ASSUME SignsIn \/ DeadlinePasses PROVE RightOrToBeSaid'
  <2>1. /\ \A o \in Audience : astray'[o] = (astray[o] \/ Due' # Due)
        /\ UNCHANGED <<setup, telling, leaving, patching, shown>>
    BY <1>12 DEF SignsIn, DeadlinePasses, Unsaid, tasks
  <2>2. WillSay => WillSay'
    BY <2>1 DEF WillSay
  <2>3. \A o \in Audience : ~astray'[o] => ~astray[o] /\ Due' = Due
    BY <2>1, Zenon
  <2> QED
    BY <2>1, <2>2, <2>3 DEF RightOrToBeSaid
<1>13. ASSUME UNCHANGED presence PROVE RightOrToBeSaid'
  <2>1. UNCHANGED <<stored, passed, registered, away, setup, telling, leaving, patching, shown, astray>>
    BY <1>13 DEF presence, tasks
  <2>2. Due' = Due /\ WillSay' = WillSay
    BY <2>1, DueStays DEF WillSay
  <2> QED
    BY <2>1, <2>2 DEF RightOrToBeSaid
<1> QED
  <2>1. ASSUME NEW t \in Tab, TabStep(t) PROVE RightOrToBeSaid'
    BY <2>1, <1>3, <1>4, <1>6, <1>7, <1>9, <1>14 DEF TabStep
  <2>2. ASSUME NEW t \in Tab,
               \/ ConnectTab(t) \/ DisconnectTab(t)
               \/ \E st \in Status : Chooses(t, st)
               \/ \E isAway \in BOOLEAN : ReportsAway(t, isAway)
        PROVE  RightOrToBeSaid'
    BY <2>2, <1>2, <1>7, <1>8
  <2>3. ASSUME PresenceNext PROVE RightOrToBeSaid'
    <3>1. ASSUME FriendsUntold PROVE RightOrToBeSaid'
      BY <3>1, LostIsAstray DEF FriendsUntold
    <3> QED
      BY <2>1, <2>2, <2>3, <3>1, <1>10, <1>11, <1>12 DEF PresenceNext
  <2> QED
    BY <2>3, <1>1, <1>13

\* Once every handler is through, everybody in the audience is shown what the choice,
\* the connections and the idleness make it, unless what they were sent last had
\* ceased to hold, the change is one that nobody is sent, or the handler that was
\* to send it failed.
THEOREM OthersAreShownWhatHolds == PresenceSpec => []ShownIsEffective
<1>1. PresenceInv => ShownIsEffective
  <2> SUFFICES ASSUME PresenceInv, Told, NEW o \in Audience, ~astray[o]
               PROVE  /\ shown[o] = Due
                      /\ stored.chosen = "invisible" /\ ~stored.timed => shown[o] = "offline"
    BY DEF ShownIsEffective
  <2>1. ~WillSay
    BY DEF Told, WillSay, WillAnnounce, NoTask
  <2>2. shown[o] = Due
    BY <2>1 DEF PresenceInv, RightOrToBeSaid
  <2> QED
    BY <2>2 DEF Due, Effective, ChosenNow
<1> QED
  BY <1>1, PresenceStart, PresenceStep, PTL DEF PresenceSpec

-----------------------------------------------------------------------------
(* PhoneNotices: what is before the cursor has been shown.                     *)

Seen == handled \cup excused
Time == Nat \cup {Never}

\* Sent, and neither shown, nor excused, nor waiting to be handled.
Lost(m) ==
    /\ m \in Numbers /\ messages[m].at = "sent" /\ m \notin Seen
    /\ \A i \in DOMAIN inbox : inbox[i].m # m

Deadline(m) == messages[m].createdAt + Margin

\* No packet that was heard, or is to be handled, vouches for it.
Unvouched(m) ==
    /\ lastPacket # Never => lastPacket <= Deadline(m)
    /\ \A i \in DOMAIN inbox : inbox[i].is # "disconnect" => inbox[i].heard <= Deadline(m)

PhoneTyped ==
    /\ clock \in Nat /\ messages \in Seq([kind : Conversation, createdAt : Nat, at : {"created", "written", "sent"}])
    /\ inbox \in Seq([is : {"connect", "ping", "message", "disconnect"}, m : Nat, heard : Nat])
    /\ cursor \in Time /\ lastPacket \in Time /\ answer.now \in Nat
    /\ worker \in {"idle", "loading", "asking", "answered"} /\ line \in {"up", "dead", "down"}
    /\ {connected, pending, again, caughtUp, unmarked, slid} \subseteq BOOLEAN

\* What has not been sent yet is not older than the margin, and what was heard was
\* heard in this order, each message within its margin.
HeardInTime ==
    /\ answer.now <= clock /\ (cursor # Never => cursor <= clock)
    /\ \A m \in Numbers : messages[m].createdAt <= clock
                          /\ (messages[m].at # "sent" => clock <= Deadline(m))
    /\ lastPacket # Never => lastPacket <= clock /\ \A i \in DOMAIN inbox : lastPacket <= inbox[i].heard
    /\ \A i \in DOMAIN inbox :
          /\ inbox[i].heard <= clock
          /\ \A j \in DOMAIN inbox : i < j => inbox[i].heard <= inbox[j].heard
          /\ inbox[i].m # 0 => inbox[i].m \in Numbers /\ inbox[i].heard <= Deadline(inbox[i].m)

\* A socket opens only when the phone does not say that it has caught up, or a change
\* of sign-in left it saying so.
OneSocket ==
    /\ connected => ~pending /\ \A i \in DOMAIN inbox : inbox[i].is # "connect"
    /\ pending => line = "down" /\ inbox = <<>>
    /\ worker # "idle" => connected
    /\ \A i \in DOMAIN inbox : inbox[i].is = "connect" => i = 1 /\ inbox[i].m = 0
    /\ pending \/ worker = "loading" \/ (\E i \in DOMAIN inbox : inbox[i].is = "connect") => ~caughtUp \/ unmarked
    /\ again \/ worker \in {"asking", "answered"} => cursor # Never

\* Caught up, the phone misses only what came when its socket was already gone.
GoneWhenMissed ==
    caughtUp /\ ~unmarked => \A m \in Numbers : Lost(m) => line # "up" /\ Unvouched(m)

\* The answer it waits for brings all that was sent when it was read, and all that
\* was created before its now.
AnswerCovers ==
    worker = "answered" =>
        /\ \A m \in Numbers : Lost(m) => m \in answer.events \cup answer.gone \/ (line # "up" /\ Unvouched(m))
        /\ \A m \in Numbers : messages[m].createdAt < answer.now => m \in answer.events \cup answer.gone \cup Seen

PhoneInv == PhoneTyped /\ HeardInTime /\ OneSocket /\ (~slid => NothingLost /\ GoneWhenMissed /\ AnswerCovers)

LEMMA PhoneTypes ==
    ASSUME PhoneTyped
    PROVE  /\ Margin \in Nat /\ Never \notin Nat
           /\ \A m \in Numbers : m \in Nat \ {0} /\ messages[m].createdAt \in Nat /\ Deadline(m) \in Nat
           /\ \A i \in DOMAIN inbox : i \in Nat \ {0} /\ inbox[i].heard \in Nat /\ inbox[i].m \in Nat
<1>1. Margin \in Nat /\ Never \notin Nat
  BY PhoneAssumption
<1>2. ASSUME NEW m \in Numbers PROVE m \in Nat \ {0} /\ messages[m].createdAt \in Nat
  <2> DEFINE R == [kind : Conversation, createdAt : Nat, at : {"created", "written", "sent"}]
  <2>1. messages \in Seq(R)
    BY DEF PhoneTyped
  <2>2. \A r \in R : r.createdAt \in Nat
    OBVIOUS
  <2> HIDE DEF R
  <2>3. m \in 1 .. Len(messages) /\ messages[m] \in R /\ Len(messages) \in Nat
    BY <2>1 DEF Numbers
  <2> QED
    BY <2>2, <2>3
<1>3. ASSUME NEW i \in DOMAIN inbox
      PROVE  i \in Nat \ {0} /\ inbox[i].heard \in Nat /\ inbox[i].m \in Nat
  <2> DEFINE R == [is : {"connect", "ping", "message", "disconnect"}, m : Nat, heard : Nat]
  <2>1. inbox \in Seq(R)
    BY DEF PhoneTyped
  <2>2. \A r \in R : r.heard \in Nat /\ r.m \in Nat
    OBVIOUS
  <2> HIDE DEF R
  <2>3. i \in 1 .. Len(inbox) /\ inbox[i] \in R /\ Len(inbox) \in Nat
    BY <2>1
  <2> QED
    BY <2>2, <2>3
<1> QED
  BY <1>1, <1>2, <1>3 DEF Deadline

\* Nothing a packet handled vouches for is lost: the cursor may follow it.
LEMMA CursorMoves ==
    ASSUME PhoneInv, MovesCursor, UNCHANGED <<messages, handled, excused>>
    PROVE  /\ slid' \in BOOLEAN /\ cursor' \in Time /\ (cursor' = Never <=> cursor = Never)
           /\ cursor' # Never => cursor' <= clock
           /\ ~slid' => ~slid /\ NothingLost'
<1>1. PhoneTyped /\ HeardInTime /\ MovesCursor
  BY DEF PhoneInv
<1>2. slid' = (slid \/ (unmarked /\ Advanced # cursor)) /\ cursor' = Advanced
  BY DEF MovesCursor
<1>3. CASE Advanced = cursor
  <2>1. cursor' = cursor /\ slid' = slid /\ cursor \in Time /\ slid \in BOOLEAN
    BY <1>1, <1>2, <1>3 DEF PhoneTyped
  <2> QED
    BY <1>1, <2>1 DEF PhoneInv, HeardInTime, NothingLost, Numbers
<1>4. CASE Advanced # cursor
  <2>1. /\ caughtUp /\ cursor # Never /\ lastPacket # Never /\ lastPacket > cursor + Margin
        /\ Advanced = lastPacket - Margin
    BY <1>4 DEF Advanced
  <2>2. cursor \in Nat /\ lastPacket \in Nat /\ Margin \in Nat /\ Never \notin Nat /\ slid \in BOOLEAN
        /\ unmarked \in BOOLEAN
    BY <1>1, <2>1, PhoneTypes DEF PhoneTyped, Time
  <2>3. cursor' = lastPacket - Margin /\ cursor' \in Nat /\ cursor' <= clock
    <3>1. lastPacket <= clock /\ clock \in Nat
      BY <1>1, <2>1 DEF HeardInTime, PhoneTyped
    <3> QED
      BY <1>2, <2>1, <2>2, <3>1
  <2>4. slid' \in BOOLEAN /\ (~slid' => ~slid /\ ~unmarked)
    BY <1>2, <1>4, <2>2
  <2>5. ASSUME ~slid', NEW m \in Numbers, messages[m].createdAt < cursor' PROVE m \in Seen
    <3>1. GoneWhenMissed /\ caughtUp /\ ~unmarked
      BY <2>1, <2>4, <2>5 DEF PhoneInv
    <3>2. messages[m].createdAt \in Nat /\ Deadline(m) = messages[m].createdAt + Margin
      BY <1>1, PhoneTypes DEF Deadline
    <3>3. Deadline(m) < lastPacket /\ Deadline(m) \in Nat
      BY <2>2, <2>3, <2>5, <3>2
    <3>4. messages[m].at = "sent"
      <4>1. lastPacket <= clock /\ clock \in Nat /\ (messages[m].at # "sent" => clock <= Deadline(m))
        BY <1>1, <2>1 DEF HeardInTime, PhoneTyped
      <4> QED
        BY <2>2, <3>3, <4>1
    <3>5. ASSUME NEW i \in DOMAIN inbox, inbox[i].m = m PROVE FALSE
      <4>1. inbox[i].m # 0 /\ inbox[i].heard \in Nat
        BY <1>1, <3>5, PhoneTypes
      <4>2. inbox[i].heard <= Deadline(m) /\ lastPacket <= inbox[i].heard
        BY <1>1, <2>1, <3>5, <4>1 DEF HeardInTime
      <4> QED
        BY <2>2, <3>3, <4>1, <4>2
    <3>6. ~Lost(m)
      <4>1. Lost(m) => lastPacket <= Deadline(m)
        BY <2>1, <3>1 DEF GoneWhenMissed, Unvouched
      <4> QED
        BY <2>2, <3>3, <4>1
    <3> QED
      BY <3>4, <3>5, <3>6 DEF Lost
  <2>6. ~slid' => NothingLost'
    BY <2>5 DEF NothingLost, Seen, Numbers
  <2> QED
    BY <2>1, <2>2, <2>3, <2>4, <2>6 DEF Time
<1> QED
  BY <1>3, <1>4

\* A closed socket leaves nothing to vouch for, once the phone does not say, or should
\* not, that it has caught up.
LEMMA SocketCloses ==
    ASSUME PhoneInv, ClosesSocket, worker' = "idle", UNCHANGED <<clock, messages, handled, excused>>,
           answer' \in {answer, NoAnswer}, lastPacket' \in {lastPacket, Never},
           cursor' \in Time, {again', caughtUp', unmarked', slid'} \subseteq BOOLEAN,
           again' => cursor' # Never, cursor' # Never => cursor' <= clock, caughtUp' => unmarked',
           ~slid' => NothingLost'
    PROVE  PhoneInv'
<1>1. PhoneTyped /\ HeardInTime
  BY DEF PhoneInv
<1>2. line' = "down" /\ inbox' = <<>> /\ connected' = FALSE /\ pending' = TRUE
  BY DEF ClosesSocket
<1>3. answer'.now \in Nat /\ answer'.now <= clock
  BY <1>1 DEF PhoneTyped, HeardInTime, NoAnswer
<1>4. PhoneTyped'
  <2>1. lastPacket' \in Time
    BY <1>1 DEF PhoneTyped, Time
  <2>2. inbox' \in Seq([is : {"connect", "ping", "message", "disconnect"}, m : Nat, heard : Nat])
    BY <1>2
  <2>3. {connected', pending', again', caughtUp', unmarked', slid'} \subseteq BOOLEAN
    BY <1>2
  <2> QED
    BY <1>1, <1>2, <1>3, <2>1, <2>2, <2>3 DEF PhoneTyped
<1>5. HeardInTime'
  BY <1>1, <1>2, <1>3 DEF HeardInTime, Numbers, Deadline
<1>6. OneSocket' /\ GoneWhenMissed' /\ AnswerCovers'
  BY <1>2 DEF OneSocket, GoneWhenMissed, AnswerCovers
<1> QED
  BY <1>4, <1>5, <1>6 DEF PhoneInv

LEMMA ClosingStep ==
    ASSUME PhoneInv,
           HandlesDisconnect \/ LoadFails \/ NetworkChanges \/ SignInChanges \/ ProcessDies
             \/ TurnsOff \/ ServerSwitches
    PROVE  PhoneInv'
<1>1. PhoneTyped /\ OneSocket /\ cursor \in Time /\ {again, caughtUp, unmarked, slid} \subseteq BOOLEAN
      /\ (again => cursor # Never) /\ Never \in Time
  BY DEF PhoneInv, PhoneTyped, OneSocket, Time
<1>2. CASE HandlesDisconnect \/ NetworkChanges
  <2>1. /\ ClosesSocket /\ MovesCursor /\ caughtUp' = FALSE /\ again' = FALSE /\ unmarked' = FALSE
        /\ worker' = "idle" /\ answer' = answer /\ lastPacket' = lastPacket
        /\ UNCHANGED <<clock, messages, handled, excused>>
    BY <1>2 DEF HandlesDisconnect, NetworkChanges, MarksGap, Takes
  <2>2. /\ slid' \in BOOLEAN /\ cursor' \in Time /\ (~slid' => NothingLost')
        /\ cursor' # Never => cursor' <= clock
    BY <2>1, CursorMoves
  <2> QED
    BY <2>1, <2>2, SocketCloses
<1>3. CASE ServerSwitches
  <2>1. /\ ClosesSocket /\ MovesCursor /\ caughtUp' = FALSE /\ again' = FALSE /\ unmarked' = FALSE
        /\ worker' = "idle" /\ answer' = NoAnswer /\ lastPacket' = Never
        /\ UNCHANGED <<clock, messages, handled, excused>>
    BY <1>3 DEF ServerSwitches, Forgets
  <2>2. /\ slid' \in BOOLEAN /\ cursor' \in Time /\ (~slid' => NothingLost')
        /\ cursor' # Never => cursor' <= clock
    BY <2>1, CursorMoves
  <2> QED
    BY <2>1, <2>2, SocketCloses
<1>4. CASE LoadFails \/ SignInChanges \/ ProcessDies \/ TurnsOff
  <2>1. /\ ClosesSocket /\ worker' = "idle" /\ UNCHANGED <<clock, messages, handled, excused, slid>>
        /\ answer' \in {answer, NoAnswer} /\ lastPacket' \in {lastPacket, Never}
        /\ cursor' = cursor \/ (cursor' = Never /\ again' = FALSE)
    BY <1>4 DEF LoadFails, SignInChanges, ProcessDies, TurnsOff, Forgets, noted
  <2>2. /\ {again', caughtUp', unmarked'} \subseteq BOOLEAN /\ (again' => again /\ cursor' = cursor)
        /\ caughtUp' => unmarked'
    <3>1. CASE LoadFails
      BY <1>1, <3>1 DEF LoadFails, noted, OneSocket
    <3>2. CASE SignInChanges
      <4>1. UNCHANGED <<again, cursor, caughtUp>> /\ unmarked' = (unmarked \/ caughtUp)
        BY <3>2 DEF SignInChanges
      <4> QED
        BY <1>1, <4>1
    <3>3. CASE ProcessDies \/ TurnsOff
      BY <3>3 DEF ProcessDies, TurnsOff, Forgets
    <3> QED
      BY <1>4, <3>1, <3>2, <3>3
  <2>3. ~slid' => NothingLost'
    BY <2>1 DEF PhoneInv, NothingLost, Numbers
  <2>4. /\ cursor' \in Time /\ slid' \in BOOLEAN /\ (again' => cursor' # Never)
        /\ cursor' # Never => cursor' <= clock
    BY <1>1, <2>1, <2>2 DEF PhoneInv, HeardInTime
  <2>5. {again', caughtUp', unmarked', slid'} \subseteq BOOLEAN
    BY <2>2, <2>4
  <2> QED
    BY <2>1, <2>2, <2>3, <2>4, <2>5, SocketCloses
<1> QED
  BY <1>2, <1>3, <1>4

\* The worker, on its own: neither the messages nor the socket nor its queue change.
Elsewhere == UNCHANGED <<clock, messages, line, inbox, connected, pending>>

LEMMA LostElsewhere ==
    ASSUME Elsewhere, Seen \subseteq Seen'
    PROVE  /\ Numbers' = Numbers /\ \A m : Deadline(m)' = Deadline(m)
           /\ \A m : Lost(m)' <=> Lost(m) /\ m \notin Seen'
           /\ lastPacket' = lastPacket => \A m : Unvouched(m)' <=> Unvouched(m)
<1>1. Numbers' = Numbers /\ \A m : Deadline(m)' = Deadline(m)
  BY DEF Elsewhere, Numbers, Deadline
<1>2. \A m : Lost(m)' <=> Lost(m) /\ m \notin Seen'
  BY <1>1 DEF Elsewhere, Lost
<1>3. lastPacket' = lastPacket => \A m : Unvouched(m)' <=> Unvouched(m)
  BY <1>1 DEF Elsewhere, Unvouched
<1> QED
  BY <1>1, <1>2, <1>3

LEMMA CursorTimerStep == ASSUME PhoneInv, CursorTimer PROVE PhoneInv'
<1>1. /\ MovesCursor /\ Elsewhere
      /\ UNCHANGED <<worker, answer, again, lastPacket, caughtUp, handled, excused, unmarked>>
  BY DEF CursorTimer, Elsewhere, social
<1>2. /\ slid' \in BOOLEAN /\ cursor' \in Time /\ (cursor' = Never <=> cursor = Never)
      /\ cursor' # Never => cursor' <= clock
      /\ ~slid' => ~slid /\ NothingLost'
  BY <1>1, CursorMoves DEF Elsewhere
<1>3. PhoneTyped' /\ HeardInTime' /\ OneSocket'
  <2>1. PhoneTyped'
    BY <1>1, <1>2 DEF PhoneInv, PhoneTyped, Elsewhere
  <2>2. HeardInTime'
    BY <1>1, <1>2 DEF PhoneInv, HeardInTime, Elsewhere, Numbers, Deadline
  <2>3. OneSocket'
    BY <1>1, <1>2 DEF PhoneInv, OneSocket, Elsewhere
  <2> QED
    BY <2>1, <2>2, <2>3
<1>4. ASSUME ~slid' PROVE GoneWhenMissed' /\ AnswerCovers'
  <2>1. Seen' = Seen /\ Numbers' = Numbers /\ \A m : (Lost(m)' <=> Lost(m)) /\ (Unvouched(m)' <=> Unvouched(m))
    BY <1>1, LostElsewhere DEF Seen, Lost
  <2> QED
    BY <1>1, <1>2, <1>4, <2>1 DEF PhoneInv, GoneWhenMissed, AnswerCovers, Elsewhere
<1> QED
  BY <1>2, <1>3, <1>4 DEF PhoneInv

LEMMA QuietStep ==
    ASSUME PhoneInv, OpenFails \/ RetryForNothing \/ AsksWhatWasMissed \/ \E retry \in BOOLEAN : CatchUpFails(retry)
    PROVE  PhoneInv'
<1>1. /\ Elsewhere /\ UNCHANGED <<cursor, handled, excused, slid>>
      /\ lastPacket' \in {lastPacket, Never} /\ answer'.now \in Nat /\ answer'.now <= clock
      /\ worker' = "answered" => worker = "answered" /\ UNCHANGED <<answer, lastPacket>>
  <2>1. answer.now \in Nat /\ answer.now <= clock /\ clock \in Nat
    BY DEF PhoneInv, PhoneTyped, HeardInTime
  <2>2. CASE OpenFails
    BY <2>1, <2>2 DEF OpenFails, Elsewhere, social, noted
  <2>3. CASE RetryForNothing
    BY <2>1, <2>3 DEF RetryForNothing, Elsewhere, social, noted
  <2>4. CASE AsksWhatWasMissed
    <3>1. answer' = [NoAnswer EXCEPT !.now = clock] /\ worker' = "asking"
      BY <2>4 DEF AsksWhatWasMissed
    <3>2. answer'.now = clock
      BY <3>1 DEF NoAnswer
    <3> QED
      BY <2>1, <2>4, <3>1, <3>2 DEF AsksWhatWasMissed, Elsewhere, social, noted
  <2>5. CASE \E retry \in BOOLEAN : CatchUpFails(retry)
    BY <2>1, <2>5 DEF CatchUpFails, Elsewhere, social, NoAnswer
  <2> QED
    BY <2>2, <2>3, <2>4, <2>5
<1>2. /\ worker' \in {"idle", "asking", worker} /\ again' \in BOOLEAN
      /\ worker' # "idle" => connected
      /\ worker' = "loading" => worker = "loading"
      /\ again' \/ worker' \in {"asking", "answered"} => cursor # Never
      /\ (UNCHANGED <<caughtUp, unmarked>>) \/ (caughtUp' = FALSE /\ unmarked' = FALSE)
  <2>1. OneSocket /\ PhoneTyped
    BY DEF PhoneInv
  <2>2. CASE OpenFails
    BY <2>1, <2>2 DEF OpenFails, noted, OneSocket, PhoneTyped
  <2>3. CASE RetryForNothing
    BY <2>1, <2>3 DEF RetryForNothing, noted, OneSocket, PhoneTyped
  <2>4. CASE AsksWhatWasMissed
    BY <2>1, <2>4 DEF AsksWhatWasMissed, noted, OneSocket, PhoneTyped
  <2>5. CASE \E retry \in BOOLEAN : CatchUpFails(retry)
    BY <2>1, <2>5 DEF CatchUpFails, OneSocket, PhoneTyped
  <2> QED
    BY <2>2, <2>3, <2>4, <2>5
<1>3. PhoneTyped'
  BY <1>1, <1>2 DEF PhoneInv, PhoneTyped, Elsewhere, Time
<1>4. HeardInTime'
  BY <1>1 DEF PhoneInv, HeardInTime, Elsewhere, Numbers, Deadline
<1>5. OneSocket'
  BY <1>1, <1>2 DEF PhoneInv, OneSocket, Elsewhere
<1>6. Seen' = Seen /\ Numbers' = Numbers /\ \A m : (Lost(m)' <=> Lost(m)) /\ (Unvouched(m) => Unvouched(m)')
  <2>1. Seen' = Seen
    BY <1>1 DEF Seen
  <2>2. Numbers' = Numbers /\ (\A m : Deadline(m)' = Deadline(m)) /\ \A m : Lost(m)' <=> Lost(m) /\ m \notin Seen'
    BY <1>1, <2>1, LostElsewhere
  <2>3. \A m : Unvouched(m) => Unvouched(m)'
    BY <1>1, <2>2 DEF Unvouched, Elsewhere
  <2>4. \A m : Lost(m) => m \notin Seen
    BY DEF Lost
  <2> QED
    BY <2>1, <2>2, <2>3, <2>4
<1>7. ASSUME ~slid' PROVE NothingLost' /\ GoneWhenMissed' /\ AnswerCovers'
  <2>1. NothingLost /\ GoneWhenMissed /\ AnswerCovers
    BY <1>1, <1>7 DEF PhoneInv
  <2>2. NothingLost'
    BY <1>1, <2>1 DEF NothingLost, Elsewhere, Numbers
  <2>3. GoneWhenMissed'
    BY <1>1, <1>2, <1>6, <2>1 DEF GoneWhenMissed, Elsewhere
  <2>4. AnswerCovers'
    BY <1>1, <1>6, <2>1 DEF AnswerCovers, Elsewhere
  <2> QED
    BY <2>2, <2>3, <2>4
<1> QED
  BY <1>3, <1>4, <1>5, <1>7 DEF PhoneInv

LEMMA StartsFreshStep == ASSUME PhoneInv, StartsFresh PROVE PhoneInv'
<1>1. /\ Elsewhere /\ UNCHANGED <<answer, again, lastPacket, handled, unmarked, slid>>
      /\ worker = "loading" /\ worker' = "idle" /\ cursor' = clock /\ caughtUp' = TRUE
      /\ excused' = excused \cup {m \in Numbers : messages[m].createdAt < clock \/ messages[m].at = "sent"}
  BY DEF StartsFresh, Elsewhere, social
<1>2. clock \in Nat /\ Never \notin Nat
  BY PhoneTypes DEF PhoneInv, PhoneTyped
<1>3. PhoneTyped' /\ HeardInTime'
  BY <1>1, <1>2 DEF PhoneInv, PhoneTyped, HeardInTime, Elsewhere, Numbers, Deadline, Time
<1>4. OneSocket'
  BY <1>1, <1>2 DEF PhoneInv, OneSocket, Elsewhere
<1>5. Seen \subseteq Seen' /\ Numbers' = Numbers /\ \A m : ~Lost(m)'
  <2>1. Seen \subseteq Seen'
    BY <1>1 DEF Seen
  <2>2. Numbers' = Numbers /\ \A m : Lost(m)' <=> Lost(m) /\ m \notin Seen'
    BY <1>1, <2>1, LostElsewhere
  <2>3. \A m : Lost(m) => m \in Seen'
    BY <1>1 DEF Lost, Seen
  <2> QED
    BY <2>1, <2>2, <2>3
<1>6. NothingLost'
  BY <1>1, <1>5 DEF NothingLost, Elsewhere, Seen
<1>7. GoneWhenMissed' /\ AnswerCovers'
  BY <1>1, <1>5 DEF GoneWhenMissed, AnswerCovers
<1> QED
  BY <1>3, <1>4, <1>6, <1>7 DEF PhoneInv

LEMMA ReadsMissedStep == ASSUME PhoneInv, ReadsMissed PROVE PhoneInv'
<1> DEFINE oldest   == IF answer.now > cursor + MaxAge THEN answer.now - MaxAge ELSE cursor
           inWindow == {m \in Numbers : Written(m) /\ messages[m].createdAt >= oldest}
           tooOld   == {m \in Numbers : messages[m].createdAt < oldest /\ messages[m].createdAt >= cursor}
           slipped  == {m \in Numbers : ~Written(m) /\ messages[m].createdAt < answer.now}
           brought  == inWindow \cup tooOld \cup slipped
<1>1. /\ worker = "asking" /\ worker' = "answered" /\ Elsewhere
      /\ answer' = [now |-> answer.now, events |-> Newest(inWindow),
                    gone |-> (inWindow \ Newest(inWindow)) \cup tooOld \cup slipped]
      /\ UNCHANGED <<again, cursor, lastPacket, caughtUp, handled, excused, unmarked, slid>>
  BY DEF ReadsMissed, Elsewhere, social, noted
<1>2. answer'.now = answer.now /\ answer'.events = Newest(inWindow)
      /\ answer'.gone = (inWindow \ Newest(inWindow)) \cup tooOld \cup slipped
  BY <1>1
<1>3. brought \subseteq answer'.events \cup answer'.gone
  BY <1>2
<1>4. PhoneTyped' /\ HeardInTime' /\ OneSocket'
  BY <1>1, <1>2 DEF PhoneInv, PhoneTyped, HeardInTime, OneSocket, Elsewhere, Numbers, Deadline
<1>5. Seen' = Seen /\ Numbers' = Numbers /\ \A m : (Lost(m)' <=> Lost(m)) /\ (Unvouched(m)' <=> Unvouched(m))
  <2>1. Seen' = Seen
    BY <1>1 DEF Seen
  <2>2. Numbers' = Numbers /\ (\A m : Lost(m)' <=> Lost(m) /\ m \notin Seen') /\ \A m : Unvouched(m)' <=> Unvouched(m)
    BY <1>1, <2>1, LostElsewhere
  <2> QED
    BY <2>1, <2>2 DEF Lost
<1>6. ASSUME ~slid' PROVE NothingLost' /\ GoneWhenMissed' /\ AnswerCovers'
  <2>1. NothingLost /\ GoneWhenMissed
    BY <1>1, <1>6 DEF PhoneInv
  <2>2. NothingLost' /\ GoneWhenMissed'
    BY <1>1, <1>5, <2>1 DEF NothingLost, GoneWhenMissed, Elsewhere
  <2>3. ASSUME NEW m \in Numbers, messages[m].at = "sent" \/ messages[m].createdAt < answer.now
        PROVE  m \in brought \cup Seen
    <3>1. /\ cursor \in Nat /\ cursor # Never /\ answer.now \in Nat /\ MaxAge \in Nat
          /\ messages[m].createdAt \in Nat
      BY <1>1, PhoneTypes, PhoneAssumption DEF PhoneInv, PhoneTyped, OneSocket, Time
    <3>2. oldest \in Nat /\ oldest >= cursor
      BY <3>1
    <3>3. messages[m].createdAt < cursor => m \in Seen
      BY <1>1, <1>6, <2>1, <3>1 DEF NothingLost, Seen
    <3>4. messages[m].at = "sent" => Written(m)
      BY DEF Written
    <3> HIDE DEF oldest
    <3> QED
      BY <2>3, <3>1, <3>2, <3>3, <3>4
  <2>4. ASSUME NEW m \in Numbers', Lost(m)' PROVE m \in answer'.events \cup answer'.gone
    <3>1. m \in Numbers /\ Lost(m)
      BY <1>5, <2>4
    <3> HIDE DEF brought
    <3> QED
      BY <1>3, <2>3, <3>1 DEF Lost
  <2>5. ASSUME NEW m \in Numbers', messages'[m].createdAt < answer'.now
        PROVE  m \in answer'.events \cup answer'.gone \cup Seen'
    <3> HIDE DEF brought
    <3> QED
      BY <1>1, <1>2, <1>3, <1>5, <2>3, <2>5 DEF Elsewhere
  <2>6. AnswerCovers'
    BY <2>4, <2>5 DEF AnswerCovers
  <2> QED
    BY <2>2, <2>6
<1> QED
  BY <1>4, <1>6 DEF PhoneInv

LEMMA CatchesUpStep == ASSUME PhoneInv, CatchesUp PROVE PhoneInv'
<1>1. /\ worker = "answered" /\ worker' = "idle" /\ answer' = NoAnswer /\ Elsewhere
      /\ handled' = handled \cup answer.events /\ excused' = excused \cup answer.gone
      /\ cursor' = (IF answer.now > cursor THEN answer.now ELSE cursor)
      /\ caughtUp' = TRUE /\ unmarked' = FALSE /\ UNCHANGED <<again, lastPacket, slid>>
  BY DEF CatchesUp, Elsewhere, social
<1>2. cursor \in Nat /\ cursor # Never /\ answer.now \in Nat /\ cursor' \in Nat /\ Never \notin Nat
  BY <1>1, PhoneAssumption DEF PhoneInv, PhoneTyped, OneSocket, Time
<1>3. answer'.now = 0 /\ clock \in Nat
  BY <1>1 DEF NoAnswer, PhoneInv, PhoneTyped
<1>4. PhoneTyped' /\ HeardInTime'
  <2>1. cursor' <= clock
    BY <1>1, <1>2, <1>3 DEF PhoneInv, HeardInTime
  <2>2. PhoneTyped'
    <3>1. lastPacket' \in Time /\ cursor' \in Time /\ answer'.now \in Nat
      BY <1>1, <1>2, <1>3 DEF PhoneInv, PhoneTyped, Time
    <3>2. {connected', pending', again', caughtUp', unmarked', slid'} \subseteq BOOLEAN
      BY <1>1 DEF PhoneInv, PhoneTyped, Elsewhere
    <3> QED
      BY <1>1, <3>1, <3>2 DEF PhoneInv, PhoneTyped, Elsewhere
  <2>3. HeardInTime'
    BY <1>1, <1>2, <1>3, <2>1 DEF PhoneInv, HeardInTime, Elsewhere, Numbers, Deadline
  <2> QED
    BY <2>2, <2>3
<1>5. OneSocket'
  BY <1>1, <1>2 DEF PhoneInv, OneSocket, Elsewhere
<1>6. /\ Seen' = Seen \cup answer.events \cup answer.gone /\ Numbers' = Numbers
      /\ \A m : (Lost(m)' <=> Lost(m) /\ m \notin Seen') /\ (Unvouched(m)' <=> Unvouched(m))
  <2>1. Seen' = Seen \cup answer.events \cup answer.gone
    BY <1>1 DEF Seen
  <2>2. Numbers' = Numbers /\ (\A m : Lost(m)' <=> Lost(m) /\ m \notin Seen') /\ \A m : Unvouched(m)' <=> Unvouched(m)
    BY <1>1, <2>1, LostElsewhere
  <2> QED
    BY <2>1, <2>2
<1>7. ASSUME ~slid' PROVE NothingLost' /\ GoneWhenMissed' /\ AnswerCovers'
  <2>1. NothingLost /\ AnswerCovers
    BY <1>1, <1>7 DEF PhoneInv
  <2>2. GoneWhenMissed'
    BY <1>1, <1>6, <2>1 DEF GoneWhenMissed, AnswerCovers, Elsewhere
  <2>3. NothingLost'
    <3>1. ASSUME NEW m \in Numbers', messages'[m].createdAt < cursor' PROVE m \in Seen'
      <4>1. m \in Numbers /\ messages'[m] = messages[m]
        BY <1>1, <1>6 DEF Elsewhere
      <4>2. messages[m].createdAt < answer.now \/ messages[m].createdAt < cursor
        BY <1>1, <3>1, <4>1
      <4>3. messages[m].createdAt < cursor => m \in Seen
        BY <1>1, <1>2, <1>7, <2>1, <4>1 DEF NothingLost, Seen
      <4> QED
        BY <1>1, <1>6, <2>1, <4>1, <4>2, <4>3 DEF AnswerCovers
    <3> QED
      BY <3>1 DEF NothingLost, Seen
  <2>4. AnswerCovers'
    BY <1>1 DEF AnswerCovers
  <2> QED
    BY <2>2, <2>3, <2>4
<1> QED
  BY <1>4, <1>5, <1>7 DEF PhoneInv

\* The server and the network: the queue, the worker and the cursor stay as they are.
LEMMA DiesStep == ASSUME PhoneInv, DiesSilently \/ JoinsRooms PROVE PhoneInv'
<1>1. /\ UNCHANGED <<clock, messages, phone, noted>> /\ line' \in {line, "dead"}
  BY DEF DiesSilently, JoinsRooms
<1>2. UNCHANGED <<inbox, connected, pending, worker, answer, again, cursor, lastPacket, caughtUp,
                  handled, excused, unmarked, slid>>
  BY <1>1 DEF phone, noted
<1>3. PhoneTyped'
  BY <1>1, <1>2 DEF PhoneInv, PhoneTyped
<1>4. HeardInTime' /\ OneSocket'
  <2>1. HeardInTime'
    BY <1>1, <1>2 DEF PhoneInv, HeardInTime, Numbers, Deadline
  <2>2. line = "down" => line' = line
    BY DEF DiesSilently, JoinsRooms
  <2> QED
    BY <1>2, <2>1, <2>2 DEF PhoneInv, OneSocket
<1>5. Seen' = Seen /\ Numbers' = Numbers /\ \A m : (Lost(m)' <=> Lost(m)) /\ (Unvouched(m)' <=> Unvouched(m))
  BY <1>1, <1>2 DEF Seen, Lost, Numbers, Unvouched, Deadline
<1>6. ASSUME ~slid' PROVE NothingLost' /\ GoneWhenMissed' /\ AnswerCovers'
  <2>1. NothingLost /\ GoneWhenMissed /\ AnswerCovers
    BY <1>2, <1>6 DEF PhoneInv
  <2>2. NothingLost'
    BY <1>1, <1>2, <1>5, <2>1 DEF NothingLost
  <2>3. GoneWhenMissed'
    BY <1>1, <1>2, <1>5, <2>1 DEF GoneWhenMissed
  <2>4. AnswerCovers'
    BY <1>1, <1>2, <1>5, <2>1 DEF AnswerCovers
  <2> QED
    BY <2>2, <2>3, <2>4
<1> QED
  BY <1>3, <1>4, <1>6 DEF PhoneInv

LEMMA TimeStep == ASSUME PhoneInv, TimePasses PROVE PhoneInv'
<1>1. /\ \A m \in Numbers : messages[m].at = "sent" \/ clock < messages[m].createdAt + Margin
      /\ clock' = clock + 1 /\ UNCHANGED <<messages, line, phone, noted>>
  BY DEF TimePasses, social
<1>2. UNCHANGED <<inbox, connected, pending, worker, answer, again, cursor, lastPacket, caughtUp,
                  handled, excused, unmarked, slid>>
  BY <1>1 DEF phone, noted
<1>3. PhoneTyped'
  BY <1>1, <1>2 DEF PhoneInv, PhoneTyped
<1>4. HeardInTime'
  <2>1. PhoneTyped /\ HeardInTime /\ clock \in Nat /\ answer.now \in Nat /\ clock <= clock'
    BY <1>1 DEF PhoneInv, PhoneTyped
  <2>2. /\ \A m \in Numbers : messages[m].createdAt \in Nat /\ Deadline(m) \in Nat
        /\ \A i \in DOMAIN inbox : inbox[i].heard \in Nat
    BY <2>1, PhoneTypes
  <2>3. \A m \in Numbers : messages[m].createdAt <= clock' /\ (messages[m].at # "sent" => clock' <= Deadline(m))
    <3>1. ASSUME NEW m \in Numbers
          PROVE  messages[m].createdAt <= clock' /\ (messages[m].at # "sent" => clock' <= Deadline(m))
      <4>1. messages[m].createdAt \in Nat /\ messages[m].createdAt <= clock /\ Margin \in Nat
        BY <2>1, <2>2, PhoneTypes DEF HeardInTime
      <4> QED
        BY <1>1, <2>1, <4>1 DEF Deadline
    <3> QED
      BY <3>1
  <2>4. /\ lastPacket # Never => lastPacket <= clock'
        /\ \A i \in DOMAIN inbox : inbox[i].heard <= clock'
        /\ answer.now <= clock' /\ (cursor # Never => cursor <= clock')
    BY <1>1, <2>1, <2>2 DEF HeardInTime, PhoneTyped, Time
  <2>5. Numbers' = Numbers /\ \A m : Deadline(m)' = Deadline(m)
    BY <1>1 DEF Numbers, Deadline
  <2> QED
    BY <1>1, <1>2, <2>1, <2>3, <2>4, <2>5 DEF HeardInTime
<1>5. OneSocket'
  BY <1>1, <1>2 DEF PhoneInv, OneSocket
<1>6. Seen' = Seen /\ Numbers' = Numbers /\ \A m : (Lost(m)' <=> Lost(m)) /\ (Unvouched(m)' <=> Unvouched(m))
  BY <1>1, <1>2 DEF Seen, Lost, Numbers, Unvouched, Deadline
<1>7. ASSUME ~slid' PROVE NothingLost' /\ GoneWhenMissed' /\ AnswerCovers'
  BY <1>1, <1>2, <1>6, <1>7 DEF PhoneInv, NothingLost, GoneWhenMissed, AnswerCovers
<1> QED
  BY <1>3, <1>4, <1>5, <1>7 DEF PhoneInv

LEMMA WritingStep ==
    ASSUME PhoneInv, (\E kind \in Conversation : Creates(kind)) \/ \E m \in Numbers : Writes(m)
    PROVE  PhoneInv'
<1> DEFINE R == [kind : Conversation, createdAt : Nat, at : {"created", "written", "sent"}]
<1>1. UNCHANGED <<clock, line, phone, noted>>
  BY DEF Creates, Writes, social
<1>2. UNCHANGED <<inbox, connected, pending, worker, answer, again, cursor, lastPacket, caughtUp,
                  handled, excused, unmarked, slid>>
  BY <1>1 DEF phone, noted
<1>3. PhoneTyped /\ clock \in Nat /\ Margin \in Nat /\ messages \in Seq(R) /\ answer.now \in Nat
  BY PhoneTypes DEF PhoneInv, PhoneTyped
<1>4. /\ messages' \in Seq(R) /\ Numbers \subseteq Numbers'
      /\ \A m \in Numbers : /\ messages'[m].createdAt = messages[m].createdAt
                            /\ messages'[m].at = "sent" <=> messages[m].at = "sent"
      /\ \A m \in Numbers' \ Numbers : messages'[m].createdAt = clock /\ messages'[m].at = "created"
  <2>1. ASSUME NEW kind \in Conversation, Creates(kind) PROVE <1>4!:
    <3> DEFINE new == [kind |-> kind, createdAt |-> clock, at |-> "created"]
    <3>1. new \in R /\ new.createdAt = clock /\ new.at = "created" /\ messages' = Append(messages, new)
      BY <1>3, <2>1 DEF Creates
    <3> HIDE DEF new, R
    <3>2. /\ messages' \in Seq(R) /\ DOMAIN messages' = DOMAIN messages \cup {Len(messages) + 1}
          /\ messages'[Len(messages) + 1] = new /\ \A m \in DOMAIN messages : messages'[m] = messages[m]
      BY <1>3, <3>1
    <3> QED
      BY <3>1, <3>2 DEF Numbers
  <2>2. ASSUME NEW k \in Numbers, Writes(k) PROVE <1>4!:
    <3>1. messages[k].at = "created" /\ messages' = [messages EXCEPT ![k].at = "written"]
      BY <2>2 DEF Writes
    <3>2. \A m \in Numbers : messages[m] \in R
      <4> HIDE DEF R
      <4> QED
        BY <1>3 DEF Numbers
    <3>3. [messages[k] EXCEPT !.at = "written"] \in R /\ [messages[k] EXCEPT !.at = "written"].at = "written"
          /\ [messages[k] EXCEPT !.at = "written"].createdAt = messages[k].createdAt
      BY <3>2
    <3>4. /\ DOMAIN messages' = DOMAIN messages /\ messages'[k] = [messages[k] EXCEPT !.at = "written"]
          /\ \A m \in Numbers \ {k} : messages'[m] = messages[m]
      BY <3>1 DEF Numbers
    <3> HIDE DEF R
    <3>5. messages' \in Seq(R)
      BY <1>3, <3>1, <3>3, <3>4 DEF Numbers
    <3> QED
      BY <3>1, <3>3, <3>4, <3>5 DEF Numbers
  <2> QED
    BY <2>1, <2>2
<1>5. PhoneTyped'
  BY <1>1, <1>2, <1>3, <1>4 DEF PhoneTyped
<1>6. \A m \in Numbers : Deadline(m)' = Deadline(m) /\ Deadline(m) \in Nat /\ messages[m].createdAt \in Nat
  BY <1>3, <1>4, PhoneTypes DEF Deadline
<1>7. \A m \in Numbers' \ Numbers : Deadline(m)' = clock + Margin
  BY <1>4 DEF Deadline
<1>8. HeardInTime'
  <2>1. HeardInTime
    BY DEF PhoneInv
  <2>2. ASSUME NEW m \in Numbers'
        PROVE  messages'[m].createdAt <= clock /\ (messages'[m].at # "sent" => clock <= Deadline(m)')
    <3> HIDE DEF R
    <3>1. CASE m \in Numbers
      BY <1>4, <1>6, <2>1, <3>1 DEF HeardInTime
    <3>2. CASE m \notin Numbers
      <4>1. clock <= clock + Margin /\ clock <= clock
        BY <1>3
      <4> QED
        BY <1>4, <1>7, <3>2, <4>1
    <3> QED
      BY <3>1, <3>2
  <2>3. ASSUME NEW i \in DOMAIN inbox, inbox[i].m # 0
        PROVE  inbox[i].m \in Numbers' /\ inbox[i].heard <= Deadline(inbox[i].m)'
    <3> HIDE DEF R
    <3>1. PICK k \in Numbers : k = inbox[i].m /\ inbox[i].heard <= Deadline(k)
      BY <2>1, <2>3 DEF HeardInTime
    <3>2. Deadline(k)' = Deadline(k) /\ k \in Numbers'
      BY <1>4, <1>6
    <3>3. inbox[i].heard <= Deadline(k)'
      BY <3>1, <3>2
    <3> QED
      BY <1>2, <3>1, <3>2, <3>3 DEF Deadline
  <2> QED
    BY <1>1, <1>2, <2>1, <2>2, <2>3 DEF HeardInTime
<1>9. OneSocket'
  BY <1>1, <1>2 DEF PhoneInv, OneSocket
<1>10. Seen' = Seen /\ \A m \in Numbers' : Lost(m)' => m \in Numbers /\ Lost(m)
  BY <1>2, <1>4 DEF Seen, Lost
<1>11. \A m \in Numbers : Unvouched(m) => Unvouched(m)'
  BY <1>2, <1>6 DEF Unvouched
<1>12. ASSUME ~slid' PROVE NothingLost' /\ GoneWhenMissed' /\ AnswerCovers'
  <2>1. NothingLost /\ GoneWhenMissed /\ AnswerCovers
    BY <1>2, <1>12 DEF PhoneInv
  <2>2. GoneWhenMissed'
    BY <1>1, <1>2, <1>10, <1>11, <2>1 DEF GoneWhenMissed
  <2>3. NothingLost'
    <3>1. ASSUME cursor # Never, NEW m \in Numbers', messages'[m].createdAt < cursor PROVE m \in Seen
      <4>1. cursor \in Nat /\ cursor <= clock
        BY <1>3, <3>1 DEF PhoneInv, PhoneTyped, Time, HeardInTime
      <4>2. m \in Numbers
        BY <1>3, <1>4, <3>1, <4>1
      <4> QED
        BY <1>2, <1>4, <1>12, <2>1, <3>1, <4>2 DEF NothingLost, Seen
    <3> QED
      BY <1>2, <3>1 DEF NothingLost, Seen
  <2>4. AnswerCovers'
    <3>1. ASSUME NEW m \in Numbers' \ Numbers PROVE ~(messages'[m].createdAt < answer.now)
      BY <1>3, <1>4 DEF PhoneInv, HeardInTime
    <3> QED
      BY <1>1, <1>2, <1>4, <1>10, <1>11, <2>1, <3>1 DEF AnswerCovers
  <2> QED
    BY <2>2, <2>3, <2>4
<1> QED
  BY <1>5, <1>8, <1>9, <1>12 DEF PhoneInv

\* A packet that joins the queue is the last, and was heard now.
LEMMA PacketQueued ==
    ASSUME PhoneInv, line # "down", line' \in {"up", "dead", "down"},
           NEW kind \in {"ping", "message", "disconnect"}, NEW n \in Nat,
           n # 0 => n \in Numbers /\ clock <= Deadline(n),
           inbox' = Append(inbox, Packet(kind, n)),
           UNCHANGED <<clock, connected, pending, worker, answer, again, cursor, lastPacket,
                       caughtUp, unmarked, slid>>,
           messages' \in Seq([kind : Conversation, createdAt : Nat, at : {"created", "written", "sent"}]),
           Numbers' = Numbers,
           \A m \in Numbers : /\ messages'[m].createdAt = messages[m].createdAt
                              /\ messages[m].at = "sent" => messages'[m].at = "sent"
    PROVE  /\ PhoneTyped' /\ HeardInTime' /\ OneSocket'
           /\ \A m : (\A i \in DOMAIN inbox' : inbox'[i].m # m) <=> (\A i \in DOMAIN inbox : inbox[i].m # m) /\ m # n
           /\ kind = "disconnect" => \A m \in Numbers : Unvouched(m) => Unvouched(m)'
<1> DEFINE R == [is : {"connect", "ping", "message", "disconnect"}, m : Nat, heard : Nat]
           p == Packet(kind, n)
           l == Len(inbox) + 1
<1>1. PhoneTyped /\ HeardInTime /\ OneSocket /\ clock \in Nat /\ inbox \in Seq(R) /\ ~pending
  BY DEF PhoneInv, PhoneTyped, OneSocket
<1>2. p \in R /\ p.is = kind /\ p.m = n /\ p.heard = clock
  BY <1>1 DEF Packet
<1> HIDE DEF p, R
<1>3. /\ inbox' \in Seq(R) /\ l \in Nat /\ DOMAIN inbox' = DOMAIN inbox \cup {l} /\ inbox'[l] = p
      /\ \A i \in DOMAIN inbox : inbox'[i] = inbox[i] /\ i \in Nat /\ i < l
  BY <1>1, <1>2 DEF p
<1> HIDE DEF l
<1>4. PhoneTyped'
  BY <1>1, <1>3 DEF PhoneTyped, R
<1>5. \A m \in Numbers : Deadline(m)' = Deadline(m)
  BY DEF Deadline
<1>6. HeardInTime'
  <2>1. /\ \A m \in Numbers : messages'[m].createdAt <= clock /\ (messages'[m].at # "sent" => clock <= Deadline(m)')
        /\ answer.now <= clock /\ (cursor # Never => cursor <= clock)
    BY <1>1, <1>5 DEF HeardInTime
  <2>2. lastPacket # Never => lastPacket <= clock /\ \A i \in DOMAIN inbox' : lastPacket <= inbox'[i].heard
    BY <1>1, <1>2, <1>3 DEF HeardInTime
  <2>3. ASSUME NEW i \in DOMAIN inbox'
        PROVE  /\ inbox'[i].heard <= clock
               /\ \A j \in DOMAIN inbox' : i < j => inbox'[i].heard <= inbox'[j].heard
    <3>1. CASE i = l
      BY <1>1, <1>2, <1>3, <3>1
    <3>2. CASE i \in DOMAIN inbox
      BY <1>1, <1>2, <1>3, <3>2 DEF HeardInTime
    <3> QED
      BY <1>3, <3>1, <3>2
  <2>4. ASSUME NEW i \in DOMAIN inbox', inbox'[i].m # 0
        PROVE  inbox'[i].m \in Numbers /\ inbox'[i].heard <= Deadline(inbox[i].m)'
    <3>1. PICK k \in Numbers : k = inbox'[i].m /\ inbox'[i].heard <= Deadline(k)
      <4>1. CASE i = l
        BY <1>2, <1>3, <2>4, <4>1
      <4>2. CASE i \in DOMAIN inbox
        BY <1>1, <1>3, <2>4, <4>2 DEF HeardInTime
      <4> QED
        BY <1>3, <4>1, <4>2
    <3>2. inbox'[i].heard <= Deadline(k)'
      BY <1>5, <3>1
    <3> QED
      BY <3>1, <3>2 DEF Deadline
  <2> QED
    BY <2>1, <2>2, <2>3, <2>4 DEF HeardInTime
<1>7. OneSocket'
  BY <1>1, <1>2, <1>3 DEF OneSocket
<1>8. \A m : (\A i \in DOMAIN inbox' : inbox'[i].m # m) <=> (\A i \in DOMAIN inbox : inbox[i].m # m) /\ m # n
  BY <1>2, <1>3
<1>9. ASSUME kind = "disconnect", NEW m \in Numbers, Unvouched(m) PROVE Unvouched(m)'
  BY <1>2, <1>3, <1>5, <1>9 DEF Unvouched
<1> QED
  BY <1>4, <1>6, <1>7, <1>8, <1>9

LEMMA SocketStep == ASSUME PhoneInv, PingArrives \/ LossIsNoticed PROVE PhoneInv'
<1>1. PICK kind \in {"ping", "disconnect"} :
        /\ inbox' = Append(inbox, Packet(kind, 0)) /\ line # "down"
        /\ (line = "up" /\ line' = "up") \/ (kind = "disconnect" /\ line' = "down")
        /\ UNCHANGED <<clock, messages, connected, pending, worker, answer, again, cursor, lastPacket,
                       caughtUp, handled, excused, unmarked, slid>>
  <2>1. CASE PingArrives
    BY <2>1 DEF PingArrives, social, noted
  <2>2. CASE LossIsNoticed
    BY <2>2 DEF LossIsNoticed, noted
  <2> QED
    BY <2>1, <2>2
<1>2. messages' \in Seq([kind : Conversation, createdAt : Nat, at : {"created", "written", "sent"}])
      /\ Numbers' = Numbers /\ messages' = messages
  BY <1>1 DEF PhoneInv, PhoneTyped, Numbers
<1>3. /\ PhoneTyped' /\ HeardInTime' /\ OneSocket'
      /\ \A m : (\A i \in DOMAIN inbox' : inbox'[i].m # m) <=> (\A i \in DOMAIN inbox : inbox[i].m # m) /\ m # 0
      /\ kind = "disconnect" => \A m \in Numbers : Unvouched(m) => Unvouched(m)'
  BY <1>1, <1>2, PacketQueued
<1>4. Seen' = Seen /\ \A m : Lost(m)' => Lost(m)
  BY <1>1, <1>2, <1>3 DEF Seen, Lost
<1>5. ASSUME ~slid' PROVE NothingLost' /\ GoneWhenMissed' /\ AnswerCovers'
  <2>1. NothingLost /\ GoneWhenMissed /\ AnswerCovers
    BY <1>1, <1>5 DEF PhoneInv
  <2>2. NothingLost'
    BY <1>1, <1>2, <2>1 DEF NothingLost
  <2>3. GoneWhenMissed'
    BY <1>1, <1>2, <1>3, <1>4, <2>1 DEF GoneWhenMissed
  <2>4. AnswerCovers'
    BY <1>1, <1>2, <1>3, <1>4, <2>1 DEF AnswerCovers
  <2> QED
    BY <2>2, <2>3, <2>4
<1> QED
  BY <1>3, <1>5 DEF PhoneInv

LEMMA EmitsStep == ASSUME PhoneInv, NEW n \in Numbers, Emits(n) PROVE PhoneInv'
<1> DEFINE R == [kind : Conversation, createdAt : Nat, at : {"created", "written", "sent"}]
           here == messages[n].kind = "dm" \/ joined
<1>1. /\ messages[n].at = "written" /\ messages' = [messages EXCEPT ![n].at = "sent"]
      /\ inbox' = IF line = "up" /\ here THEN Append(inbox, Packet("message", n)) ELSE inbox
      /\ excused' = IF line = "up" /\ ~here THEN excused \cup {n} ELSE excused
      /\ UNCHANGED <<clock, line, connected, pending, worker, answer, again, cursor, lastPacket,
                     caughtUp, handled, unmarked, slid>>
  BY DEF Emits, social
<1> HIDE DEF here
<1>2. /\ PhoneTyped /\ HeardInTime /\ OneSocket /\ clock \in Nat /\ messages \in Seq(R)
      /\ n \in Nat \ {0} /\ Deadline(n) \in Nat /\ clock <= Deadline(n)
  <2>1. PhoneTyped /\ HeardInTime /\ OneSocket
    BY DEF PhoneInv
  <2> QED
    BY <1>1, <2>1, PhoneTypes DEF PhoneTyped, HeardInTime
<1>3. /\ messages' \in Seq(R) /\ Numbers' = Numbers
      /\ \A m \in Numbers : /\ messages'[m].createdAt = messages[m].createdAt
                            /\ messages[m].at = "sent" => messages'[m].at = "sent"
                            /\ messages'[m].at = "sent" => messages[m].at = "sent" \/ m = n
  <2>1. \A m \in Numbers : messages[m] \in R
    <3> HIDE DEF R
    <3> QED
      BY <1>2 DEF Numbers
  <2>2. [messages[n] EXCEPT !.at = "sent"] \in R /\ [messages[n] EXCEPT !.at = "sent"].at = "sent"
        /\ [messages[n] EXCEPT !.at = "sent"].createdAt = messages[n].createdAt
    BY <2>1
  <2>3. /\ DOMAIN messages' = DOMAIN messages /\ messages'[n] = [messages[n] EXCEPT !.at = "sent"]
        /\ \A m \in Numbers \ {n} : messages'[m] = messages[m]
    BY <1>1 DEF Numbers
  <2> HIDE DEF R
  <2>4. messages' \in Seq(R)
    BY <1>1, <1>2, <2>2, <2>3 DEF Numbers
  <2> QED
    BY <2>2, <2>3, <2>4 DEF Numbers
<1>4. Seen \subseteq Seen'
  BY <1>1 DEF Seen
<1>5. /\ PhoneTyped' /\ HeardInTime' /\ OneSocket'
      /\ \A m \in Numbers : Lost(m)' => Lost(m) \/ (m = n /\ line # "up")
      /\ \A m \in Numbers : line # "up" /\ Unvouched(m) => Unvouched(m)'
  <2>1. CASE line = "up" /\ here
    <3>1. inbox' = Append(inbox, Packet("message", n))
      BY <1>1, <2>1
    <3>2. line # "down" /\ line' \in {"up", "dead", "down"}
      BY <1>1, <2>1
    <3>3. /\ PhoneTyped' /\ HeardInTime' /\ OneSocket'
          /\ \A m : (\A i \in DOMAIN inbox' : inbox'[i].m # m) <=> (\A i \in DOMAIN inbox : inbox[i].m # m) /\ m # n
      BY <1>1, <1>2, <1>3, <3>1, <3>2, PacketQueued
    <3>4. \A m \in Numbers : Lost(m)' => Lost(m)
      BY <1>3, <1>4, <3>3 DEF Lost
    <3> QED
      BY <2>1, <3>3, <3>4
  <2>2. CASE ~(line = "up" /\ here)
    <3>1. inbox' = inbox
      BY <1>1, <2>2
    <3>2. \A m \in Numbers : Deadline(m)' = Deadline(m)
      BY <1>3 DEF Deadline
    <3>3. PhoneTyped'
      BY <1>1, <1>2, <1>3, <3>1 DEF PhoneTyped
    <3>4. ASSUME NEW i \in DOMAIN inbox, inbox[i].m # 0
          PROVE  inbox[i].m \in Numbers /\ inbox[i].heard <= Deadline(inbox[i].m)'
      <4>1. PICK k \in Numbers : k = inbox[i].m /\ inbox[i].heard <= Deadline(k)
        BY <1>2, <3>4 DEF HeardInTime
      <4>2. inbox[i].heard <= Deadline(k)'
        BY <3>2, <4>1
      <4> QED
        BY <3>1, <4>1, <4>2 DEF Deadline
    <3>5. HeardInTime'
      BY <1>1, <1>2, <1>3, <3>1, <3>2, <3>4 DEF HeardInTime
    <3>6. OneSocket'
      BY <1>1, <1>2, <3>1 DEF OneSocket
    <3>7. \A m \in Numbers : Lost(m)' => Lost(m) \/ (m = n /\ line # "up")
      BY <1>1, <1>3, <1>4, <2>2, <3>1 DEF Lost, Seen
    <3>8. \A m \in Numbers : Unvouched(m) => Unvouched(m)'
      BY <1>1, <3>1, <3>2 DEF Unvouched
    <3> QED
      BY <3>3, <3>5, <3>6, <3>7, <3>8
  <2> QED
    BY <2>1, <2>2
<1>6. line # "up" => Unvouched(n)'
  <2>1. Unvouched(n)
    <3>1. lastPacket # Never => lastPacket <= Deadline(n)
      BY <1>2 DEF HeardInTime, PhoneTyped, Time
    <3>2. \A i \in DOMAIN inbox : inbox[i].heard <= Deadline(n)
      BY <1>2, PhoneTypes DEF HeardInTime
    <3> QED
      BY <3>1, <3>2 DEF Unvouched
  <2> QED
    BY <1>5, <2>1
<1>7. ASSUME ~slid' PROVE NothingLost' /\ GoneWhenMissed' /\ AnswerCovers'
  <2>1. NothingLost /\ GoneWhenMissed /\ AnswerCovers
    BY <1>1, <1>7 DEF PhoneInv
  <2>2. NothingLost'
    BY <1>1, <1>3, <1>4, <2>1 DEF NothingLost, Seen
  <2>3. GoneWhenMissed'
    BY <1>1, <1>3, <1>5, <1>6, <2>1 DEF GoneWhenMissed
  <2>4. AnswerCovers'
    BY <1>1, <1>3, <1>4, <1>5, <1>6, <2>1 DEF AnswerCovers
  <2> QED
    BY <2>2, <2>3, <2>4
<1> QED
  BY <1>5, <1>7 DEF PhoneInv

LEMMA OpensStep == ASSUME PhoneInv, Opens PROVE PhoneInv'
<1> DEFINE R == [is : {"connect", "ping", "message", "disconnect"}, m : Nat, heard : Nat]
           p == Packet("connect", 0)
<1>1. /\ worker = "idle" /\ pending /\ pending' = FALSE /\ lastPacket' = Never
      /\ line' = "up" /\ inbox' = <<p>>
      /\ UNCHANGED <<clock, messages, connected, worker, answer, again, cursor, caughtUp,
                     handled, excused, unmarked, slid>>
  BY DEF Opens, noted
<1>2. PhoneTyped /\ HeardInTime /\ OneSocket /\ clock \in Nat /\ ~connected /\ (~caughtUp \/ unmarked)
  BY <1>1 DEF PhoneInv, PhoneTyped, OneSocket
<1>3. p \in R /\ p.is = "connect" /\ p.m = 0 /\ p.heard = clock
  BY <1>2 DEF Packet
<1> HIDE DEF p, R
<1>4. inbox' \in Seq(R) /\ DOMAIN inbox' = {1} /\ inbox'[1] = p
  BY <1>1, <1>3
<1>5. PhoneTyped'
  <2>1. lastPacket' \in Time /\ pending' \in BOOLEAN
    BY <1>1 DEF Time
  <2> QED
    BY <1>1, <1>2, <1>4, <2>1 DEF PhoneTyped, R
<1>6. HeardInTime'
  BY <1>1, <1>2, <1>3, <1>4 DEF HeardInTime, Numbers, Deadline
<1>7. OneSocket'
  BY <1>1, <1>2, <1>3, <1>4 DEF OneSocket
<1>8. ~slid' => NothingLost' /\ GoneWhenMissed' /\ AnswerCovers'
  BY <1>1, <1>2 DEF PhoneInv, NothingLost, Numbers, GoneWhenMissed, AnswerCovers
<1> QED
  BY <1>5, <1>6, <1>7, <1>8 DEF PhoneInv

\* The worker takes the first of its queue, which vouches for what was lost before it.
LEMMA TakesStep == ASSUME PhoneInv, HandlesPacket \/ HandlesConnect PROVE PhoneInv'
<1> DEFINE R == [is : {"connect", "ping", "message", "disconnect"}, m : Nat, heard : Nat]
           p == Head(inbox)
<1>1. /\ worker = "idle" /\ inbox # <<>> /\ p.is \in {"connect", "ping", "message"}
      /\ inbox' = Tail(inbox) /\ lastPacket' = p.heard
      /\ UNCHANGED <<clock, messages, line, pending, answer, again, cursor, caughtUp,
                     excused, unmarked, slid>>
      /\ \/ /\ p.is # "connect" /\ handled' = handled \cup ({p.m} \ {0})
            /\ UNCHANGED <<connected, worker>>
         \/ /\ p.is = "connect" /\ handled' = handled /\ connected' = TRUE /\ worker' = "loading"
  <2>1. CASE HandlesPacket
    BY <2>1 DEF HandlesPacket, Takes, social
  <2>2. CASE HandlesConnect
    BY <2>2 DEF HandlesConnect, Takes, social, noted
  <2> QED
    BY <2>1, <2>2
<1>2. PhoneTyped /\ HeardInTime /\ OneSocket /\ clock \in Nat /\ inbox \in Seq(R) /\ Never \notin Nat
  BY PhoneTypes DEF PhoneInv, PhoneTyped
<1> HIDE DEF R
<1>3. /\ inbox' \in Seq(R) /\ p = inbox[1] /\ 1 \in DOMAIN inbox /\ p \in R
      /\ \A i \in DOMAIN inbox' : /\ i \in Nat \ {0} /\ i + 1 \in DOMAIN inbox /\ inbox'[i] = inbox[i + 1]
      /\ \A i \in DOMAIN inbox : i = 1 \/ (i - 1 \in DOMAIN inbox' /\ inbox'[i - 1] = inbox[i])
  BY <1>1, <1>2
<1>4. p.heard \in Nat /\ p.m \in Nat
  BY <1>3 DEF R
<1> HIDE DEF p
<1>5. PhoneTyped'
  <2>1. lastPacket' \in Time
    BY <1>1, <1>4 DEF Time
  <2>2. connected' \in BOOLEAN /\ worker' \in {"idle", "loading", "asking", "answered"}
    BY <1>1, <1>2 DEF PhoneTyped
  <2> QED
    BY <1>1, <1>2, <1>3, <2>1, <2>2 DEF PhoneTyped, R
<1>6. Numbers' = Numbers /\ \A m : Deadline(m)' = Deadline(m)
  BY <1>1 DEF Numbers, Deadline
<1>7. HeardInTime'
  <2>1. lastPacket' <= clock /\ \A i \in DOMAIN inbox' : lastPacket' <= inbox'[i].heard
    BY <1>1, <1>2, <1>3 DEF HeardInTime
  <2>2. ASSUME NEW i \in DOMAIN inbox'
        PROVE  /\ inbox'[i].heard <= clock
               /\ \A j \in DOMAIN inbox' : i < j => inbox'[i].heard <= inbox'[j].heard
    <3>1. inbox'[i].heard <= clock /\ i \in Nat /\ i + 1 \in DOMAIN inbox /\ inbox'[i] = inbox[i + 1]
      BY <1>2, <1>3 DEF HeardInTime
    <3>2. ASSUME NEW j \in DOMAIN inbox', i < j PROVE inbox'[i].heard <= inbox'[j].heard
      <4>1. j + 1 \in DOMAIN inbox /\ inbox'[j] = inbox[j + 1] /\ i + 1 < j + 1
        BY <1>3, <3>1, <3>2
      <4> QED
        BY <1>2, <3>1, <4>1 DEF HeardInTime
    <3> QED
      BY <3>1, <3>2
  <2>3. ASSUME NEW i \in DOMAIN inbox', inbox'[i].m # 0
        PROVE  inbox'[i].m \in Numbers /\ inbox'[i].heard <= Deadline(inbox[i].m)'
    <3>1. PICK k \in Numbers : k = inbox'[i].m /\ inbox'[i].heard <= Deadline(k)
      BY <1>2, <1>3, <2>3 DEF HeardInTime
    <3>2. inbox'[i].heard <= Deadline(k)'
      BY <1>6, <3>1
    <3> QED
      BY <3>1, <3>2 DEF Deadline
  <2>4. answer'.now <= clock' /\ (cursor' # Never => cursor' <= clock')
        /\ \A m \in Numbers' : messages'[m].createdAt <= clock' /\ (messages'[m].at # "sent" => clock' <= Deadline(m)')
    BY <1>1, <1>2, <1>6 DEF HeardInTime
  <2> QED
    BY <1>1, <1>6, <2>1, <2>2, <2>3, <2>4 DEF HeardInTime
<1>8. OneSocket'
  <2>1. \A i \in DOMAIN inbox' : inbox'[i].is # "connect"
    BY <1>2, <1>3 DEF OneSocket
  <2>2. ~pending /\ (p.is = "connect" => ~caughtUp \/ unmarked)
    BY <1>1, <1>2, <1>3 DEF OneSocket
  <2> QED
    BY <1>1, <1>2, <2>1, <2>2 DEF OneSocket
<1>9. Seen \subseteq Seen' /\ \A m \in Numbers : Lost(m)' => Lost(m)
  <2>1. Seen' = Seen \cup (handled' \ handled) /\ Seen \subseteq Seen'
    BY <1>1 DEF Seen
  <2>2. ASSUME NEW m \in Numbers, Lost(m)', NEW i \in DOMAIN inbox, inbox[i].m = m PROVE FALSE
    <3>1. i = 1
      BY <1>3, <2>2 DEF Lost
    <3>2. p.m = m /\ m # 0
      BY <1>2, <1>3, <2>2, <3>1, PhoneTypes
    <3>3. p.is # "connect"
      BY <1>2, <1>3, <3>2 DEF OneSocket
    <3> QED
      BY <1>1, <2>2, <3>2, <3>3 DEF Lost, Seen
  <2> QED
    BY <1>1, <2>1, <2>2 DEF Lost, Numbers
<1>10. \A m \in Numbers : Unvouched(m) => Unvouched(m)'
  <2>1. ASSUME NEW m \in Numbers, Unvouched(m) PROVE Unvouched(m)'
    <3>1. p.heard <= Deadline(m)
      BY <1>1, <1>3, <2>1 DEF Unvouched
    <3> QED
      BY <1>1, <1>3, <1>6, <2>1, <3>1 DEF Unvouched
  <2> QED
    BY <2>1
<1>11. ASSUME ~slid' PROVE NothingLost' /\ GoneWhenMissed' /\ AnswerCovers'
  <2>1. NothingLost /\ GoneWhenMissed
    BY <1>1, <1>11 DEF PhoneInv
  <2>2. NothingLost'
    BY <1>1, <1>6, <1>9, <2>1 DEF NothingLost, Seen
  <2>3. GoneWhenMissed'
    BY <1>1, <1>6, <1>9, <1>10, <2>1 DEF GoneWhenMissed
  <2>4. AnswerCovers'
    BY <1>1 DEF AnswerCovers
  <2> QED
    BY <2>2, <2>3, <2>4
<1> QED
  BY <1>5, <1>7, <1>8, <1>11 DEF PhoneInv

LEMMA PhoneStarts == ASSUME PhoneInit PROVE PhoneInv
<1>1. /\ clock = 0 /\ messages = <<>> /\ line = "down" /\ inbox = <<>> /\ connected = FALSE /\ pending = TRUE
      /\ worker = "idle" /\ answer.now = 0 /\ again = FALSE /\ cursor \in {Never, 0} /\ lastPacket = Never
      /\ caughtUp = FALSE /\ unmarked = FALSE /\ slid = FALSE
  BY DEF PhoneInit, NoAnswer
<1>2. PhoneTyped
  <2>1. {connected, pending, again, caughtUp, unmarked, slid} \subseteq BOOLEAN
    BY <1>1
  <2>2. messages \in Seq([kind : Conversation, createdAt : Nat, at : {"created", "written", "sent"}])
        /\ inbox \in Seq([is : {"connect", "ping", "message", "disconnect"}, m : Nat, heard : Nat])
    BY <1>1
  <2>3. cursor \in Time /\ lastPacket \in Time
    BY <1>1 DEF Time
  <2> QED
    BY <1>1, <2>1, <2>2, <2>3 DEF PhoneTyped
<1>3. Numbers = {}
  BY <1>1 DEF Numbers
<1> QED
  BY <1>1, <1>2, <1>3 DEF PhoneInv, HeardInTime, OneSocket, NothingLost, GoneWhenMissed, AnswerCovers

LEMMA PhoneSteps == ASSUME PhoneInv, [PhoneNext]_phoneNotices PROVE PhoneInv'
<1>1. CASE TimePasses
  BY <1>1, TimeStep
<1>2. CASE (\E kind \in Conversation : Creates(kind)) \/ \E m \in Numbers : Writes(m)
  BY <1>2, WritingStep
<1>3. ASSUME NEW m \in Numbers, Emits(m) PROVE PhoneInv'
  BY <1>3, EmitsStep
<1>4. CASE DiesSilently \/ JoinsRooms
  BY <1>4, DiesStep
<1>5. CASE Opens
  BY <1>5, OpensStep
<1>6. CASE PingArrives \/ LossIsNoticed
  BY <1>6, SocketStep
<1>7. CASE HandlesPacket \/ HandlesConnect
  BY <1>7, TakesStep
<1>8. CASE HandlesDisconnect \/ LoadFails \/ NetworkChanges \/ SignInChanges \/ ProcessDies \/ TurnsOff \/ ServerSwitches
  BY <1>8, ClosingStep
<1>9. CASE OpenFails \/ RetryForNothing \/ AsksWhatWasMissed \/ \E retry \in BOOLEAN : CatchUpFails(retry)
  BY <1>9, QuietStep
<1>10. CASE CursorTimer
  BY <1>10, CursorTimerStep
<1>11. CASE StartsFresh
  BY <1>11, StartsFreshStep
<1>12. CASE ReadsMissed
  BY <1>12, ReadsMissedStep
<1>13. CASE CatchesUp
  BY <1>13, CatchesUpStep
<1>14. CASE UNCHANGED phoneNotices
  <2>1. UNCHANGED <<clock, messages, line, inbox, connected, pending, worker, answer, again, cursor,
                    lastPacket, caughtUp, handled, excused, unmarked, slid>>
    BY <1>14 DEF phoneNotices, social, phone, noted
  <2>2. (PhoneTyped <=> PhoneTyped') /\ (HeardInTime <=> HeardInTime') /\ (OneSocket <=> OneSocket')
    BY <2>1 DEF PhoneTyped, HeardInTime, OneSocket, Numbers, Deadline
  <2>3. (NothingLost <=> NothingLost') /\ (GoneWhenMissed <=> GoneWhenMissed') /\ (AnswerCovers <=> AnswerCovers')
    BY <2>1 DEF NothingLost, GoneWhenMissed, AnswerCovers, Numbers, Lost, Seen, Unvouched, Deadline
  <2> QED
    BY <2>1, <2>2, <2>3 DEF PhoneInv
<1> QED
  BY <1>1, <1>2, <1>3, <1>4, <1>5, <1>6, <1>7, <1>8, <1>9, <1>10, <1>11, <1>12, <1>13, <1>14 DEF PhoneNext

\* Whatever the socket, the process and the network did, every message from before the
\* cursor was shown, or left to the rules that say which are not (moveCursor, openGap,
\* runCatchUp, getMissed), until a cursor moved in a gap that nobody marked.
THEOREM NothingBeforeTheCursorIsLost == PhoneSpec => []NothingLost
<1>1. PhoneInv => NothingLost
  BY DEF PhoneInv, NothingLost
<1>2. PhoneInit => PhoneInv
  BY PhoneStarts
<1>3. PhoneInv /\ [PhoneNext]_phoneNotices => PhoneInv'
  BY PhoneSteps
<1> QED
  BY <1>1, <1>2, <1>3, PTL DEF PhoneSpec
=============================================================================
