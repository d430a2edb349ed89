-------------------------------- MODULE Accounts -------------------------------
(***************************************************************************)
(* The account of the web console and its sessions                         *)
(* (internal/server/auth.go).  User name and password hash are two         *)
(* settings, written one after the other; sessions and the counters of     *)
(* failed sign-ins live in memory under two mutexes of their own; the      *)
(* password is compared outside of both.  Every change of the password     *)
(* picks a new one, so the k-th password is the number k.                  *)
(***************************************************************************)
EXTENDS Integers, FiniteSets

CONSTANTS
  Conns,        \* requests served at the same time
  IPs,          \* addresses clients come from
  Names,        \* user names
  FailLimit,    \* loginFailLimit
  LastPassword, \* bound: the last password anybody changes to
  LastSession,  \* bound: sessions opened
  LastRestart,  \* bound: restarts of the control plane
  SettingFails, \* whether writing a setting may fail
  TokenSet      \* whether there is an API token, which authorises like a session

NoName == "none"
DefaultName == "admin"
Unset == -1

ASSUME LimitIsPositive == FailLimit \in Nat \ {0}
ASSUME BoundsAreNat == {LastPassword, LastSession, LastRestart} \subseteq Nat
ASSUME ConnsAreFinite == IsFiniteSet(Conns)
ASSUME NamesAreNames == DefaultName \in Names /\ NoName \notin Names

VARIABLES
  account,  \* the settings web_username and web_password_hash
  sess,     \* the sessions: id, name, the password it was opened with, whether it
            \* expired; late, for SessionsFollow, tells that the account was
            \* already another one when it was opened
  guard,    \* address -> failures counted and whether its lock still runs
  conn,     \* connection -> the request being served
  stage,    \* "down", "naming", "hashing" (ensureWebAccount) or "up"
  given,    \* bounds: the last session id, password and restart
  torn      \* for SessionsFollow: a change failed after it wrote the password

accountVars == <<account, sess, guard, conn, stage, given, torn>>

\* What a request carries and has read: name and pass are those it offers, was
\* and key the name and the password it read, new the password it changes to.
Req(op, ip, name, pass, at) ==
  [op |-> op, ip |-> ip, name |-> name, pass |-> pass, at |-> at,
   was |-> NoName, key |-> Unset, new |-> Unset]
Quiet == Req("none", CHOOSE ip \in IPs : TRUE, NoName, Unset, "none")

NoGuard == [fails |-> 0, locked |-> FALSE]
Passwords == 0 .. given.pass

AccountInit ==
  /\ account = [name |-> NoName, pass |-> Unset]
  /\ sess = {}
  /\ guard = [ip \in IPs |-> NoGuard]
  /\ conn = [c \in Conns |-> Quiet]
  /\ stage = "naming"
  /\ given = [id |-> 0, pass |-> 0, restart |-> 0]
  /\ torn = FALSE

-----------------------------------------------------------------------------
(* ensureWebAccount, when the control plane starts.                        *)

EnsureName ==
  /\ stage = "naming"
  /\ account' = [account EXCEPT !.name = IF @ = NoName THEN DefaultName ELSE @]
  /\ stage' = "hashing"
  /\ UNCHANGED <<sess, guard, conn, given, torn>>

EnsurePassword ==
  /\ stage = "hashing"
  /\ account' = [account EXCEPT !.pass = IF @ = Unset THEN 0 ELSE @]
  /\ stage' = "up"
  /\ UNCHANGED <<sess, guard, conn, given, torn>>

\* A setting that must be written cannot be: New logs it and serves all the same.
EnsureFails ==
  /\ SettingFails
  /\ \/ stage = "naming" /\ account.name = NoName
     \/ stage = "hashing" /\ account.pass = Unset
  /\ stage' = "up"
  /\ UNCHANGED <<account, sess, guard, conn, given, torn>>

\* The process ends: what it kept in memory is gone.
Restart ==
  /\ given.restart < LastRestart
  /\ given' = [given EXCEPT !.restart = @ + 1]
  /\ stage' = "naming"
  /\ sess' = {} /\ torn' = FALSE
  /\ guard' = [ip \in IPs |-> NoGuard]
  /\ conn' = [c \in Conns |-> Quiet]
  /\ UNCHANGED account

-----------------------------------------------------------------------------
(* Sessions, each operation under sessMu.                                  *)

Answered(c) == conn' = [conn EXCEPT ![c] = Quiet]

\* newSession, which first drops what has expired.
NewSession(c, name, pass) ==
  /\ given.id < LastSession
  /\ given' = [given EXCEPT !.id = @ + 1]
  /\ sess' = {s \in sess : s.live} \cup
             {[id |-> given.id + 1, name |-> name, pass |-> pass, live |-> TRUE,
               late |-> pass # account.pass]}

\* sessionUser: an expired session is dropped, any other lasts seven more days.
Visit(s) ==
  /\ stage = "up" /\ ~s.live
  /\ sess' = sess \ {s}
  /\ UNCHANGED <<account, guard, conn, stage, given, torn>>

Logout(s) ==
  /\ stage = "up"
  /\ sess' = sess \ {s}
  /\ UNCHANGED <<account, guard, conn, stage, given, torn>>

\* Seven days without a request.
Expire(s) ==
  /\ s.live
  /\ sess' = (sess \ {s}) \cup {[s EXCEPT !.live = FALSE]}
  /\ UNCHANGED <<account, guard, conn, stage, given, torn>>

-----------------------------------------------------------------------------
(* Signing in.                                                             *)

\* Faulty: one failure more.
PastLimit(g) == g.fails > FailLimit
AtLimit(g) == g.fails >= FailLimit

\* loginLocked.
Locked(ip) == AtLimit(guard[ip]) /\ guard[ip].locked

\* A counter whose lock has run out is forgotten; a sign-in that is not refused
\* goes on outside of the mutex.
Login(c, ip, name, pass) ==
  /\ stage = "up" /\ conn[c] = Quiet /\ ~Locked(ip)
  /\ guard' = [guard EXCEPT ![ip] = IF AtLimit(@) THEN NoGuard ELSE @]
  /\ conn' = [conn EXCEPT ![c] = Req("login", ip, name, pass, "name")]
  /\ UNCHANGED <<account, sess, stage, given, torn>>

At(c, op, at) == conn[c].op = op /\ conn[c].at = at

WebUser == IF account.name = NoName THEN DefaultName ELSE account.name

\* webUser and the hash are read one after the other.
LoginName(c) ==
  /\ At(c, "login", "name")
  /\ conn' = [conn EXCEPT ![c].was = WebUser, ![c].at = "hash"]
  /\ UNCHANGED <<account, sess, guard, stage, given, torn>>

LoginHash(c) ==
  /\ At(c, "login", "hash")
  /\ conn' = [conn EXCEPT ![c].key = account.pass, ![c].at = "note"]
  /\ UNCHANGED <<account, sess, guard, stage, given, torn>>

Matches(r) == r.name = r.was /\ r.pass = r.key

\* noteLogin; the failure that reaches the limit, and each one after it, starts
\* the lock anew.
LoginNote(c) ==
  LET r == conn[c] IN
  /\ At(c, "login", "note")
  /\ IF Matches(r)
     THEN /\ guard' = [guard EXCEPT ![r.ip] = NoGuard]
          /\ conn' = [conn EXCEPT ![c].at = "open"]
     ELSE /\ guard' = [guard EXCEPT ![r.ip].fails = @ + 1,
                                    ![r.ip].locked = guard[r.ip].fails + 1 >= FailLimit]
          /\ Answered(c)
  /\ UNCHANGED <<account, sess, stage, given, torn>>

LoginOpen(c) ==
  /\ At(c, "login", "open")
  /\ NewSession(c, conn[c].was, conn[c].key)
  /\ Answered(c)
  /\ UNCHANGED <<account, guard, stage, torn>>

\* 30 seconds pass.
LockEnds(ip) ==
  /\ guard[ip].locked
  /\ guard' = [guard EXCEPT ![ip].locked = FALSE]
  /\ UNCHANGED <<account, sess, conn, stage, given, torn>>

-----------------------------------------------------------------------------
(* putAccount.  An empty user name keeps the one there is, which is read   *)
(* and written back; renews tells whether a password is given.             *)

\* webAuth.
Authorised == TokenSet \/ \E s \in sess : s.live

Change(c, ip, name, pass, renews) ==
  /\ stage = "up" /\ conn[c] = Quiet /\ Authorised
  /\ renews => given.pass < LastPassword
  /\ conn' = [conn EXCEPT ![c] =
       [Req("change", ip, name, pass, "hash") EXCEPT !.new = IF renews THEN given.pass + 1 ELSE Unset]]
  /\ given' = IF renews THEN [given EXCEPT !.pass = @ + 1] ELSE given
  /\ UNCHANGED <<account, sess, guard, stage, torn>>

ChangeHash(c) ==
  /\ At(c, "change", "hash")
  /\ IF conn[c].pass = account.pass
     THEN conn' = [conn EXCEPT ![c].key = account.pass, ![c].at = "name"]
     ELSE Answered(c)
  /\ UNCHANGED <<account, sess, guard, stage, given, torn>>

ChangeName(c) ==
  /\ At(c, "change", "name")
  /\ conn' = [conn EXCEPT ![c].was = IF conn[c].name = NoName THEN WebUser ELSE conn[c].name,
                          ![c].at = IF conn[c].new = Unset THEN "user" ELSE "pass"]
  /\ UNCHANGED <<account, sess, guard, stage, given, torn>>

\* From here on the session the change opens is one of the new password.
ChangePass(c) ==
  /\ At(c, "change", "pass")
  /\ account' = [account EXCEPT !.pass = conn[c].new]
  /\ conn' = [conn EXCEPT ![c].key = conn[c].new, ![c].at = "user"]
  /\ UNCHANGED <<sess, guard, stage, given, torn>>

ChangeUser(c) ==
  /\ At(c, "change", "user")
  /\ account' = [account EXCEPT !.name = conn[c].was]
  /\ conn' = [conn EXCEPT ![c].at = "drop"]
  /\ UNCHANGED <<sess, guard, stage, given, torn>>

\* Writing a setting fails: the request ends, and the sessions stay.
ChangeFails(c) ==
  /\ SettingFails /\ conn[c].op = "change" /\ conn[c].at \in {"pass", "user"}
  /\ torn' = (torn \/ (conn[c].at = "user" /\ conn[c].new # Unset))
  /\ Answered(c)
  /\ UNCHANGED <<account, sess, guard, stage, given>>

\* Faulty: only the sessions of the name that changes are dropped.
DropOfName(c) ==
  /\ At(c, "change", "drop")
  /\ sess' = {s \in sess : s.name # conn[c].was}
  /\ conn' = [conn EXCEPT ![c].at = "open"]
  /\ UNCHANGED <<account, guard, stage, given, torn>>

\* dropSessions.
ChangeDrop(c) ==
  /\ At(c, "change", "drop")
  /\ sess' = {} /\ torn' = FALSE
  /\ conn' = [conn EXCEPT ![c].at = "open"]
  /\ UNCHANGED <<account, guard, stage, given>>

ChangeOpen(c) ==
  /\ At(c, "change", "open")
  /\ NewSession(c, conn[c].was, conn[c].key)
  /\ Answered(c)
  /\ UNCHANGED <<account, guard, stage, torn>>

-----------------------------------------------------------------------------
Arrive(c) ==
  \E ip \in IPs, pass \in Passwords :
    \/ \E name \in Names : Login(c, ip, name, pass)
    \/ \E name \in Names \cup {NoName}, renews \in BOOLEAN : Change(c, ip, name, pass, renews)

Step(c) ==
  \/ LoginName(c) \/ LoginHash(c) \/ LoginNote(c) \/ LoginOpen(c)
  \/ ChangeHash(c) \/ ChangeName(c) \/ ChangePass(c) \/ ChangeUser(c) \/ ChangeFails(c)
  \/ ChangeDrop(c) \/ ChangeOpen(c)

AccountNext ==
  \/ EnsureName \/ EnsurePassword \/ EnsureFails \/ Restart
  \/ \E c \in Conns : Arrive(c) \/ Step(c)
  \/ \E s \in sess : Visit(s) \/ Logout(s) \/ Expire(s)
  \/ \E ip \in IPs : LockEnds(ip)

AccountSpec == AccountInit /\ [][AccountNext]_accountVars

-----------------------------------------------------------------------------
\* A change that has written the password and not yet dropped the sessions.
Changing(c) == conn[c].op = "change" /\ conn[c].new # Unset /\ conn[c].at \in {"user", "drop"}

\* A change of the password ends every session opened with the one before (auth.go:
\* dropSessions after SetSetting).  It misses those of a sign-in that compared the old
\* password and opens its session afterwards, and of a change that failed half-way.
SessionsFollow ==
  \A s \in sess :
    s.pass # account.pass => s.late \/ torn \/ \E c \in Conns : Changing(c)

\* The sign-ins of an address whose outcome is not yet counted.
Tried(ip) == {c \in Conns : conn[c].op = "login" /\ conn[c].ip = ip /\ conn[c].at # "open"}

\* loginLocked and noteLogin are two critical sections around a slow comparison: more
\* than FailLimit passwords can be tried before the lock, but never more than one for
\* every other request in flight.
AttemptsBounded ==
  \A ip \in IPs : guard[ip].fails + Cardinality(Tried(ip)) < FailLimit + Cardinality(Conns)
===============================================================================
