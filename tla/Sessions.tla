------------------------------- MODULE Sessions --------------------------------
(***************************************************************************)
(* One person's signed-in devices: server/services/sessions.ts with the    *)
(* handlers of authController.ts (login, refresh, logout, resetPassword),  *)
(* sessionsController.ts (revokeOne, revokeAllOthers) and usersController's *)
(* changePassword, at their awaits.                                        *)
(*                                                                         *)
(* A device is a cookie jar.  A cookie names a row by its sid, or none     *)
(* when it was issued before rows existed, and is good for the password    *)
(* version it was signed with until it ends.  The row is what revocation   *)
(* deletes.                                                                *)
(*                                                                         *)
(* Abstracted: a clock of days that stands still while a request is being  *)
(* served; access tokens are the answer "granted"; addresses, countries    *)
(* and labels are left out.  Mongo's expiry of rows is external.           *)
(***************************************************************************)
EXTENDS Naturals, FiniteSets

CONSTANTS
    Device,
    Sid,            \* sids, each made once
    NoSid,          \* what a cookie from before sessions names
    Ttl,            \* days a cookie lasts: refreshTtlMs
    RenewAfter,     \* RENEW_AFTER_MS in days
    LastDay,        \* bound
    MaxVersion,     \* bound: changes of password
    MaxBusy         \* bound: requests served at once

ASSUME SessionsAssumption ==
    /\ NoSid \notin Sid
    /\ Ttl \in Nat /\ RenewAfter \in Nat /\ RenewAfter < Ttl
    /\ LastDay \in Nat /\ MaxVersion \in Nat /\ MaxBusy \in Nat

NoCookie == [sid |-> NoSid, version |-> 0, issued |-> 0, ends |-> 0]

VARIABLES
    day,
    rows,       \* the Session documents: [sid, ends]
    version,    \* User.tokenVersion
    jar,        \* jar[d]: the refresh cookie d holds, or NoCookie
    busy,       \* requests being served, at an await
    made,       \* sids made so far
    signedOut,  \* history: sids somebody signed out, or a password change did
    reissued    \* history: sids whose cookie a password change issued anew

sessions == <<day, rows, version, jar, busy, made, signedOut, reissued>>

Cookie == [sid : Sid \cup {NoSid}, version : Nat, issued : Nat, ends : Nat]

SessionsTypeOK ==
    /\ day \in Nat /\ version \in Nat
    /\ rows \subseteq [sid : Sid, ends : Nat]
    /\ jar \in [Device -> Cookie]
    /\ made \subseteq Sid /\ signedOut \subseteq made /\ reissued \subseteq made

Live(sid)     == \E row \in rows : row.sid = sid
CookieOf(sid, v) == [sid |-> sid, version |-> v, issued |-> day, ends |-> day + Ttl]
Good(c)       == c # NoCookie /\ day < c.ends
IsFresh(sid)  == sid \in Sid \ made

\* Some device signed in before there were rows; the others are signed out.
SessionsInit ==
    /\ day = 1 /\ version = 0
    /\ rows = {} /\ busy = {} /\ made = {} /\ signedOut = {} /\ reissued = {}
    /\ \E old \in SUBSET Device :
          jar = [d \in Device |-> IF d \in old THEN CookieOf(NoSid, 0) ELSE NoCookie]

-----------------------------------------------------------------------------
Begin(q) == q \notin busy /\ Cardinality(busy) < MaxBusy /\ busy' = busy \cup {q}
Step(q, r) == busy' = (busy \ {q}) \cup {r}
Answer(q) == busy' = busy \ {q}

\* What a refused refresh leaves in the jar: clearRefreshCookie.
Clears(d) == jar' = [jar EXCEPT ![d] = NoCookie]

LoginReusing(d) ==
    /\ \E sid \in Sid : Begin([do |-> "start", d |-> d, sid |-> sid, v |-> version])
    /\ UNCHANGED <<day, rows, version, jar, made, signedOut, reissued>>

\* login, once the password is right: the version is the one read then.
Login(d) ==
    /\ \E sid \in Sid :
          /\ IsFresh(sid) /\ made' = made \cup {sid}
          /\ Begin([do |-> "start", d |-> d, sid |-> sid, v |-> version])
    /\ UNCHANGED <<day, rows, version, jar, signedOut, reissued>>

RowLater(q) ==
    /\ q \in busy /\ q.do = "start"
    /\ Step(q, [do |-> "cookie", d |-> q.d, sid |-> q.sid, v |-> q.v])
    /\ UNCHANGED <<day, rows, version, jar, made, signedOut, reissued>>

\* startSession: the row first ...
WritesRow(q) ==
    /\ q \in busy /\ q.do = "start"
    /\ rows' = rows \cup {[sid |-> q.sid, ends |-> day + Ttl]}
    /\ Step(q, [do |-> "cookie", d |-> q.d, sid |-> q.sid, v |-> q.v])
    /\ UNCHANGED <<day, version, jar, made, signedOut, reissued>>

\* ... then the cookie, which may never reach the device.
SetsCookie(q) ==
    /\ q \in busy /\ q.do = "cookie"
    /\ Answer(q)
    /\ jar' = [jar EXCEPT ![q.d] = CookieOf(q.sid, q.v)]
    /\ UNCHANGED <<day, rows, version, made, signedOut, reissued>>

\* The request dies with the process or a write that fails, or its answer is lost.
Dies(q) ==
    /\ q \in busy /\ Answer(q)
    /\ UNCHANGED <<day, rows, version, jar, made, signedOut, reissued>>

-----------------------------------------------------------------------------
(* refresh. *)

\* `dead`: the cookie was signed out before it was sent.
Refresh(d) ==
    /\ Good(jar[d])
    /\ Begin([do |-> "refresh", d |-> d, c |-> jar[d],
              dead |-> jar[d].sid \in signedOut \/ jar[d].version # version])
    /\ UNCHANGED <<day, rows, version, jar, made, signedOut, reissued>>

\* The user is read, with the version.
ReadsUser(q) ==
    /\ q \in busy /\ q.do = "refresh"
    /\ \/ q.c.version # version /\ Answer(q) /\ Clears(q.d) /\ UNCHANGED made
       \/ /\ q.c.version = version /\ q.c.sid # NoSid
          /\ Step(q, [q EXCEPT !.do = "touch"]) /\ UNCHANGED <<jar, made>>
       \/ /\ q.c.version = version /\ q.c.sid = NoSid
          /\ \E sid \in Sid :
                /\ IsFresh(sid) /\ made' = made \cup {sid}
                /\ Step(q, [do |-> "start", d |-> q.d, sid |-> sid, v |-> version])
          /\ UNCHANGED jar
    /\ UNCHANGED <<day, rows, version, signedOut, reissued>>

\* touchSession finds no row: signed out.
FindsNoRow(q) ==
    /\ q \in busy /\ q.do = "touch" /\ ~Live(q.c.sid)
    /\ Answer(q) /\ Clears(q.d)
    /\ UNCHANGED <<day, rows, version, made, signedOut, reissued>>

FindsRow(q) ==
    /\ q \in busy /\ q.do = "touch" /\ Live(q.c.sid)
    /\ \/ Step(q, [q EXCEPT !.do = "touched"])     \* nothing to write
       \/ Step(q, [q EXCEPT !.do = "save"])        \* lastSeenAt, or a new address
    /\ UNCHANGED <<day, rows, version, jar, made, signedOut, reissued>>

\* Saving a row that has gone is an error, which clears the cookie too.
SavesRow(q) ==
    /\ q \in busy /\ q.do = "save"
    /\ IF Live(q.c.sid) THEN Step(q, [q EXCEPT !.do = "touched"]) /\ UNCHANGED jar
       ELSE Answer(q) /\ Clears(q.d)
    /\ UNCHANGED <<day, rows, version, made, signedOut, reissued>>

RenewsInserting(q) ==
    /\ q \in busy /\ q.do = "touched" /\ day - q.c.issued > RenewAfter
    /\ rows' = {row \in rows : row.sid # q.c.sid} \cup {[sid |-> q.c.sid, ends |-> day + Ttl]}
    /\ Step(q, [do |-> "cookie", d |-> q.d, sid |-> q.c.sid, v |-> q.c.version])
    /\ UNCHANGED <<day, version, jar, made, signedOut, reissued>>

\* renewSession: the row's end, if the row is still there, then the cookie.
Renews(q) ==
    /\ q \in busy /\ q.do = "touched" /\ day - q.c.issued > RenewAfter
    /\ rows' = {IF row.sid = q.c.sid THEN [row EXCEPT !.ends = day + Ttl] ELSE row : row \in rows}
    /\ Step(q, [do |-> "cookie", d |-> q.d, sid |-> q.c.sid, v |-> q.c.version])
    /\ UNCHANGED <<day, version, jar, made, signedOut, reissued>>

GrantsAccess(q) ==
    /\ q \in busy /\ q.do = "touched" /\ day - q.c.issued <= RenewAfter
    /\ Answer(q)
    /\ UNCHANGED <<day, rows, version, jar, made, signedOut, reissued>>

-----------------------------------------------------------------------------
(* Signing out. *)

RemovesRows(gone) ==
    /\ rows' = {row \in rows : row.sid \notin gone}
    /\ signedOut' = signedOut \cup gone

\* logout: this row, or every cookie of this version when there is no row.
Logout(d) ==
    /\ jar[d] # NoCookie
    /\ Clears(d)
    /\ IF jar[d].sid # NoSid THEN RemovesRows({jar[d].sid}) /\ UNCHANGED version
       ELSE /\ version < MaxVersion /\ version' = version + 1
            /\ UNCHANGED <<rows, signedOut>>
    /\ UNCHANGED <<day, busy, made, reissued>>

\* revokeOne, from any device that lists it.
RevokeOne(sid) ==
    /\ Live(sid) /\ RemovesRows({sid})
    /\ UNCHANGED <<day, version, jar, busy, made, reissued>>

RevokeAllOthers(d) ==
    /\ Good(jar[d]) /\ jar[d].sid # NoSid
    /\ RemovesRows({row.sid : row \in rows} \ {jar[d].sid})
    /\ UNCHANGED <<day, version, jar, busy, made, reissued>>

\* changePassword: the version, then the caller's cookie anew, then the rows of
\* the others; resetPassword the same, with no cookie and no row kept.
SavesPassword(d, keeps) ==
    /\ version < MaxVersion /\ version' = version + 1
    /\ Begin([do |-> "password", d |-> d, keeps |-> keeps, v |-> version',
              sid |-> IF Good(jar[d]) THEN jar[d].sid ELSE NoSid])
    /\ UNCHANGED <<day, rows, jar, made, signedOut, reissued>>

DropsOthers(q) ==
    /\ q \in busy /\ q.do = "password"
    /\ Answer(q)
    /\ LET kept == IF q.keeps /\ q.sid # NoSid THEN {q.sid} ELSE {}
       IN  /\ RemovesRows({row.sid : row \in rows} \ kept)
           /\ reissued' = reissued \cup kept
    /\ jar' = [jar EXCEPT ![q.d] = IF q.keeps THEN CookieOf(q.sid, q.v) ELSE NoCookie]
    /\ UNCHANGED <<day, version, made>>

-----------------------------------------------------------------------------
\* A day passes; rows and cookies that have ended are dropped.
Tick ==
    /\ busy = {} /\ day < LastDay /\ day' = day + 1
    /\ rows' = {row \in rows : day' < row.ends}
    /\ jar' = [d \in Device |-> IF day' < jar[d].ends THEN jar[d] ELSE NoCookie]
    /\ UNCHANGED <<version, busy, made, signedOut, reissued>>

SessionsNext ==
    \/ \E d \in Device :
          \/ Login(d) \/ Refresh(d) \/ Logout(d) \/ RevokeAllOthers(d)
          \/ \E keeps \in BOOLEAN : SavesPassword(d, keeps)
    \/ \E sid \in Sid : RevokeOne(sid)
    \/ \E q \in busy :
          \/ WritesRow(q) \/ SetsCookie(q) \/ Dies(q)
          \/ ReadsUser(q) \/ FindsNoRow(q) \/ FindsRow(q) \/ SavesRow(q)
          \/ Renews(q) \/ GrantsAccess(q) \/ DropsOthers(q)
    \/ Tick

SessionsSpec == SessionsInit /\ [][SessionsNext]_sessions

-----------------------------------------------------------------------------
(* Properties. *)

\* A device that was signed out, by hand or by a change of password, before it
\* asked gets nothing: no refresh in flight and no renewal brings a row back.
SignedOutStaysOut == \A q \in busy : q.do \in {"touched", "save"} => ~q.dead

\* "a failure mid-login would sign the user straight back out with no way to
\* tell why": a cookie never names a row that is not there, unless somebody
\* signed the device out or a password change gave the cookie a new end.
CookieNamesRow ==
    \A d \in Device :
        Good(jar[d]) /\ jar[d].sid # NoSid =>
            \/ Live(jar[d].sid)
            \/ jar[d].sid \in signedOut \cup reissued
            \/ jar[d].version # version
=============================================================================
