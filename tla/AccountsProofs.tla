----------------------------- MODULE AccountsProofs -----------------------------
(***************************************************************************)
(* Proofs about the account of the console: the sessions follow the        *)
(* password, and the passwords tried before an address is locked are       *)
(* bounded, for any number of requests, addresses and restarts.            *)
(***************************************************************************)
EXTENDS Accounts, TLAPS, FiniteSetTheorems

ReqFields == {"op", "ip", "name", "pass", "at", "was", "key", "new"}

RequestsOK ==
  /\ DOMAIN conn = Conns
  /\ \A c \in Conns : DOMAIN conn[c] = ReqFields

CountersOK ==
  /\ DOMAIN guard = IPs
  /\ \A ip \in IPs : /\ DOMAIN guard[ip] = {"fails", "locked"}
                     /\ guard[ip].fails \in Nat

\* Until the account is there nobody is signed in and nobody is served.
StartsEmpty == stage # "up" => sess = {} /\ \A c \in Conns : conn[c].op = "none"

\* Only a request that brings a new password gets to write one.
WritesNew == \A c \in Conns : conn[c].at = "pass" => conn[c].op = "change" /\ conn[c].new # Unset

AccountFields == DOMAIN account = {"name", "pass"}

\* SessionsFollow and what it rests on; AttemptsBounded and what it rests on.
SessInv == RequestsOK /\ StartsEmpty /\ WritesNew /\ AccountFields /\ SessionsFollow
TryInv == RequestsOK /\ CountersOK /\ AttemptsBounded

-----------------------------------------------------------------------------
(* Requests.                                                               *)

LEMMA ReqFieldsAreThese ==
  ASSUME NEW op, NEW ip, NEW name, NEW pass, NEW at
  PROVE /\ DOMAIN Req(op, ip, name, pass, at) = ReqFields
        /\ Req(op, ip, name, pass, at).op = op
        /\ Req(op, ip, name, pass, at).ip = ip
        /\ Req(op, ip, name, pass, at).at = at
BY DEF Req, ReqFields

LEMMA QuietIsReq == DOMAIN Quiet = ReqFields /\ Quiet.op = "none" /\ Quiet.at = "none"
BY ReqFieldsAreThese DEF Quiet

\* One connection moves.
LEMMA OneConnMoves ==
  ASSUME RequestsOK, NEW c \in Conns, NEW r, DOMAIN r = ReqFields,
         conn' = [conn EXCEPT ![c] = r]
  PROVE /\ RequestsOK' /\ conn'[c] = r
        /\ \A d \in Conns : d # c => conn'[d] = conn[d]
BY DEF RequestsOK

-----------------------------------------------------------------------------
(* Every step of a connection is one of a few kinds.                       *)

\* The request goes on or ends; nobody's attempt is counted and no new one begins.
LEMMA FewerTries ==
  ASSUME RequestsOK, NEW c \in Conns, NEW r, DOMAIN r = ReqFields,
         conn' = [conn EXCEPT ![c] = r],
         r.op = "login" /\ r.at # "open" =>
           conn[c].op = "login" /\ conn[c].at # "open" /\ conn[c].ip = r.ip
  PROVE \A ip : Tried(ip)' \subseteq Tried(ip)
<1>1. conn'[c] = r /\ \A d \in Conns : d # c => conn'[d] = conn[d]
  BY OneConnMoves
<1> QED
  BY <1>1 DEF Tried

LEMMA TriedIsFinite ==
  ASSUME NEW ip
  PROVE /\ IsFiniteSet(Tried(ip)) /\ Tried(ip) \subseteq Conns
        /\ Cardinality(Tried(ip)) \in Nat /\ Cardinality(Conns) \in Nat
        /\ Cardinality(Tried(ip)) <= Cardinality(Conns)
<1>1. Tried(ip) \subseteq Conns
  BY DEF Tried
<1> QED
  BY <1>1, ConnsAreFinite, FS_Subset, FS_CardinalityType

\* The bound is kept when no counter grows and nobody begins to try.
LEMMA NothingNewTried ==
  ASSUME AttemptsBounded, CountersOK, CountersOK',
         \A ip \in IPs : Tried(ip)' \subseteq Tried(ip),
         \A ip \in IPs : guard'[ip].fails <= guard[ip].fails
  PROVE AttemptsBounded'
<1> SUFFICES ASSUME NEW ip \in IPs
             PROVE guard'[ip].fails + Cardinality(Tried(ip)') < FailLimit + Cardinality(Conns)
  BY DEF AttemptsBounded
<1>1. guard[ip].fails + Cardinality(Tried(ip)) < FailLimit + Cardinality(Conns)
  BY DEF AttemptsBounded
<1>2. Cardinality(Tried(ip)') <= Cardinality(Tried(ip)) /\ Cardinality(Tried(ip)') \in Nat
  BY TriedIsFinite, FS_Subset, FS_CardinalityType
<1>3. guard[ip].fails \in Nat /\ guard'[ip].fails \in Nat
  BY DEF CountersOK
<1> QED
  BY <1>1, <1>2, <1>3, TriedIsFinite, LimitIsPositive

\* A connection that moves without beginning to try keeps TryInv.
LEMMA MoveKeepsTry ==
  ASSUME TryInv, NEW c \in Conns, NEW r, DOMAIN r = ReqFields,
         conn' = [conn EXCEPT ![c] = r], guard' = guard,
         r.op = "login" /\ r.at # "open" =>
           conn[c].op = "login" /\ conn[c].at # "open" /\ conn[c].ip = r.ip
  PROVE TryInv'
<1>1. RequestsOK' /\ \A ip : Tried(ip)' \subseteq Tried(ip)
  BY OneConnMoves, FewerTries DEF TryInv
<1>2. CountersOK'
  BY DEF TryInv, CountersOK
<1>3. \A ip \in IPs : guard'[ip].fails <= guard[ip].fails
  BY DEF TryInv, CountersOK
<1>4. AttemptsBounded'
  BY <1>1, <1>2, <1>3, NothingNewTried DEF TryInv
<1> QED
  BY <1>1, <1>2, <1>4 DEF TryInv

LEMMA StillKeepsTry ==
  ASSUME TryInv, UNCHANGED <<conn, guard>> PROVE TryInv'
BY DEF TryInv, RequestsOK, CountersOK, AttemptsBounded, Tried

LEMMA AllQuietTry ==
  ASSUME conn' = [c \in Conns |-> Quiet], guard' = [ip \in IPs |-> NoGuard]
  PROVE TryInv'
<1>1. RequestsOK'
  BY QuietIsReq DEF RequestsOK
<1>2. CountersOK'
  BY DEF CountersOK, NoGuard
<1>3. ASSUME NEW ip \in IPs PROVE guard'[ip].fails = 0 /\ Tried(ip)' = {}
  BY <1>3, QuietIsReq DEF NoGuard, Tried
<1>4. Cardinality({}) = 0 /\ Cardinality(Conns) \in Nat
  BY ConnsAreFinite, FS_EmptySet, FS_CardinalityType
<1>5. ASSUME NEW ip \in IPs
      PROVE guard'[ip].fails + Cardinality(Tried(ip)') < FailLimit + Cardinality(Conns)
  <2>1. guard'[ip].fails = 0 /\ Cardinality(Tried(ip)') = 0
    BY <1>3, <1>4, Zenon
  <2>2. 0 + 0 < FailLimit + Cardinality(Conns)
    BY <1>4, LimitIsPositive
  <2> QED
    BY <2>1, <2>2, Zenon
<1>6. AttemptsBounded'
  BY <1>5 DEF AttemptsBounded
<1> QED
  BY <1>1, <1>2, <1>6 DEF TryInv

LEMMA LoginTry ==
  ASSUME TryInv, NEW c \in Conns, NEW ip \in IPs, NEW name, NEW pass, Login(c, ip, name, pass)
  PROVE TryInv'
<1> DEFINE r == Req("login", ip, name, pass, "name")
<1>1. conn' = [conn EXCEPT ![c] = r] /\ DOMAIN r = ReqFields /\ r.ip = ip
  BY ReqFieldsAreThese DEF Login
<1> HIDE DEF r
<1>2. RequestsOK' /\ conn'[c] = r /\ \A d \in Conns : d # c => conn'[d] = conn[d]
  BY <1>1, OneConnMoves DEF TryInv
<1>3. /\ DOMAIN guard' = IPs
      /\ guard'[ip] = IF guard[ip].fails >= FailLimit THEN NoGuard ELSE guard[ip]
      /\ \A j \in IPs : j # ip => guard'[j] = guard[j]
  BY DEF Login, AtLimit, TryInv, CountersOK
<1>4. CountersOK'
  BY <1>3 DEF TryInv, CountersOK, NoGuard
<1>5. ASSUME NEW j \in IPs
      PROVE guard'[j].fails + Cardinality(Tried(j)') < FailLimit + Cardinality(Conns)
  <2>1. CASE j = ip
    <3>1. guard'[ip].fails < FailLimit /\ guard'[ip].fails \in Nat
      BY <1>3, LimitIsPositive DEF NoGuard, TryInv, CountersOK
    <3>2. Cardinality(Tried(ip)') <= Cardinality(Conns) /\ Cardinality(Tried(ip)') \in Nat
          /\ Cardinality(Conns) \in Nat
      <4>1. Tried(ip)' \subseteq Conns
        BY DEF Tried
      <4> QED
        BY <4>1, ConnsAreFinite, FS_Subset, FS_CardinalityType
    <3> QED
      BY <2>1, <3>1, <3>2, LimitIsPositive
  <2>2. CASE j # ip
    <3>1. Tried(j)' \subseteq Tried(j)
      BY <1>1, <1>2, <2>2 DEF Tried
    <3>2. Cardinality(Tried(j)') <= Cardinality(Tried(j)) /\ Cardinality(Tried(j)') \in Nat
      BY <3>1, TriedIsFinite, FS_Subset, FS_CardinalityType
    <3>3. guard[j].fails + Cardinality(Tried(j)) < FailLimit + Cardinality(Conns)
      BY DEF TryInv, AttemptsBounded
    <3>4. guard'[j].fails = guard[j].fails /\ guard[j].fails \in Nat
      BY <1>3, <2>2 DEF TryInv, CountersOK
    <3> QED
      BY <3>2, <3>3, <3>4, TriedIsFinite, LimitIsPositive
  <2> QED
    BY <2>1, <2>2
<1>6. AttemptsBounded'
  BY <1>5 DEF AttemptsBounded
<1> QED
  BY <1>2, <1>4, <1>6 DEF TryInv

\* A failure that is counted is an attempt less in flight.
LEMMA LoginNoteTry ==
  ASSUME TryInv, NEW c \in Conns, LoginNote(c) PROVE TryInv'
<1> DEFINE r == conn[c]
           q == IF Matches(r) THEN [r EXCEPT !.at = "open"] ELSE Quiet
<1>1. conn' = [conn EXCEPT ![c] = q] /\ DOMAIN q = ReqFields
      /\ ~(q.op = "login" /\ q.at # "open")
  BY QuietIsReq DEF LoginNote, Answered, TryInv, RequestsOK, ReqFields
<1>2. c \in Tried(r.ip)
  BY DEF LoginNote, At, Tried
<1>3. /\ DOMAIN guard' = IPs
      /\ \A j \in IPs : /\ DOMAIN guard'[j] = {"fails", "locked"}
                        /\ j # r.ip => guard'[j] = guard[j]
                        /\ j = r.ip => guard'[j].fails \in {0, guard[j].fails + 1}
  BY DEF LoginNote, TryInv, CountersOK, NoGuard
<1> HIDE DEF q
<1>4. RequestsOK' /\ conn'[c] = q /\ \A d \in Conns : d # c => conn'[d] = conn[d]
  BY <1>1, OneConnMoves DEF TryInv
<1>5. CountersOK'
  BY <1>3 DEF TryInv, CountersOK
<1>6. ASSUME NEW j \in IPs
      PROVE guard'[j].fails + Cardinality(Tried(j)') < FailLimit + Cardinality(Conns)
  <2>1. guard[j].fails + Cardinality(Tried(j)) < FailLimit + Cardinality(Conns)
    BY DEF TryInv, AttemptsBounded
  <2>2. guard[j].fails \in Nat
    BY DEF TryInv, CountersOK
  <2>3. Tried(j)' = Tried(j) \ {c}
    BY <1>1, <1>4 DEF Tried
  <2>4. CASE j = r.ip
    <3>1. Cardinality(Tried(j)') = Cardinality(Tried(j)) - 1
      <4>1. c \in Tried(j) /\ IsFiniteSet(Tried(j))
        BY <1>2, <2>4, TriedIsFinite
      <4> QED
        BY <2>3, <4>1, FS_RemoveElement, Zenon
    <3>2. guard'[j].fails \in {0, guard[j].fails + 1}
      BY <1>3, <2>4
    <3>3. Cardinality(Tried(j)) \in Nat /\ Cardinality(Conns) \in Nat /\ FailLimit \in Nat
      BY TriedIsFinite, LimitIsPositive
    <3> QED
      BY <2>1, <2>2, <3>1, <3>2, <3>3
  <2>5. CASE j # r.ip
    <3>1. Cardinality(Tried(j)') <= Cardinality(Tried(j)) /\ Cardinality(Tried(j)') \in Nat
      BY <2>3, TriedIsFinite, FS_Subset, FS_CardinalityType
    <3>2. guard'[j].fails = guard[j].fails
      BY <1>3, <2>5
    <3>3. Cardinality(Tried(j)) \in Nat /\ Cardinality(Conns) \in Nat /\ FailLimit \in Nat
      BY TriedIsFinite, LimitIsPositive
    <3> QED
      BY <2>1, <2>2, <3>1, <3>2, <3>3
  <2> QED
    BY <2>4, <2>5
<1>7. AttemptsBounded'
  BY <1>6 DEF AttemptsBounded
<1> QED
  BY <1>4, <1>5, <1>7 DEF TryInv

LEMMA LockEndsTry ==
  ASSUME TryInv, NEW ip \in IPs, LockEnds(ip) PROVE TryInv'
<1>1. CountersOK' /\ \A j \in IPs : guard'[j].fails = guard[j].fails
  BY DEF LockEnds, TryInv, CountersOK
<1>2. RequestsOK' /\ \A j : Tried(j)' = Tried(j)
  BY DEF LockEnds, TryInv, RequestsOK, Tried
<1>3. AttemptsBounded'
  BY <1>1, <1>2 DEF TryInv, AttemptsBounded
<1> QED
  BY <1>1, <1>2, <1>3 DEF TryInv

\* A sign-in that reads on is the same attempt; every other request is none.
LEMMA ReadsTry ==
  ASSUME TryInv, NEW c \in Conns, LoginName(c) \/ LoginHash(c) PROVE TryInv'
<1>1. CASE LoginName(c)
  <2> DEFINE r == [conn[c] EXCEPT !.was = WebUser, !.at = "hash"]
  <2>1. /\ conn' = [conn EXCEPT ![c] = r] /\ guard' = guard /\ DOMAIN r = ReqFields
        /\ conn[c].op = "login" /\ conn[c].at # "open" /\ conn[c].ip = r.ip
    BY <1>1 DEF LoginName, At, TryInv, RequestsOK, ReqFields
  <2> QED
    BY <2>1, MoveKeepsTry
<1>2. CASE LoginHash(c)
  <2> DEFINE r == [conn[c] EXCEPT !.key = account.pass, !.at = "note"]
  <2>1. /\ conn' = [conn EXCEPT ![c] = r] /\ guard' = guard /\ DOMAIN r = ReqFields
        /\ conn[c].op = "login" /\ conn[c].at # "open" /\ conn[c].ip = r.ip
    BY <1>2 DEF LoginHash, At, TryInv, RequestsOK, ReqFields
  <2> QED
    BY <2>1, MoveKeepsTry
<1> QED
  BY <1>1, <1>2

LEMMA EndsTry ==
  ASSUME TryInv, NEW c \in Conns,
         LoginOpen(c) \/ ChangeOpen(c) \/ ChangeFails(c) \/ (ChangeHash(c) /\ Answered(c))
  PROVE TryInv'
<1>1. conn' = [conn EXCEPT ![c] = Quiet] /\ guard' = guard
  BY DEF LoginOpen, ChangeOpen, ChangeFails, ChangeHash, Answered
<1> QED
  BY <1>1, QuietIsReq, MoveKeepsTry

LEMMA ChangeTry ==
  ASSUME TryInv, NEW c \in Conns, NEW ip \in IPs, NEW name, NEW pass, NEW renews \in BOOLEAN,
         Change(c, ip, name, pass, renews)
  PROVE TryInv'
<1> DEFINE r == [Req("change", ip, name, pass, "hash") EXCEPT
                   !.new = IF renews THEN given.pass + 1 ELSE Unset]
<1>1. conn' = [conn EXCEPT ![c] = r] /\ guard' = guard
  BY DEF Change
<1>2. DOMAIN r = ReqFields /\ r.op = "change"
  BY ReqFieldsAreThese DEF ReqFields
<1> QED
  BY <1>1, <1>2, MoveKeepsTry

\* The steps of a change that go on.
LEMMA GoesOnTry ==
  ASSUME TryInv, NEW c \in Conns,
         \/ ChangeHash(c) /\ ~Answered(c)
         \/ ChangeName(c) \/ ChangePass(c) \/ ChangeUser(c) \/ ChangeDrop(c)
  PROVE TryInv'
<1>1. PICK r : /\ conn' = [conn EXCEPT ![c] = r] /\ guard' = guard
               /\ DOMAIN r = ReqFields /\ r.op = "change"
  <2>1. DOMAIN conn[c] = ReqFields /\ DOMAIN conn = Conns
    BY DEF TryInv, RequestsOK
  <2>3. CASE ChangeHash(c) /\ ~Answered(c)
    <3> DEFINE r == [conn[c] EXCEPT !.key = account.pass, !.at = "name"]
    <3>1. conn[c].op = "change" /\ guard' = guard /\ conn' = [conn EXCEPT ![c] = r]
      BY <2>1, <2>3 DEF ChangeHash, At, Answered
    <3>2. DOMAIN r = ReqFields /\ r.op = "change"
      BY <2>1, <3>1 DEF ReqFields
    <3> QED
      BY <3>1, <3>2
  <2>4. CASE ChangeName(c)
    <3> DEFINE r == [conn[c] EXCEPT !.was = IF conn[c].name = NoName THEN WebUser ELSE conn[c].name,
                               !.at = IF conn[c].new = Unset THEN "user" ELSE "pass"]
    <3>1. conn[c].op = "change" /\ guard' = guard /\ conn' = [conn EXCEPT ![c] = r]
      BY <2>1, <2>4 DEF ChangeName, At, Answered
    <3>2. DOMAIN r = ReqFields /\ r.op = "change"
      BY <2>1, <3>1 DEF ReqFields
    <3> QED
      BY <3>1, <3>2
  <2>5. CASE ChangePass(c)
    <3> DEFINE r == [conn[c] EXCEPT !.key = conn[c].new, !.at = "user"]
    <3>1. conn[c].op = "change" /\ guard' = guard /\ conn' = [conn EXCEPT ![c] = r]
      BY <2>1, <2>5 DEF ChangePass, At, Answered
    <3>2. DOMAIN r = ReqFields /\ r.op = "change"
      BY <2>1, <3>1 DEF ReqFields
    <3> QED
      BY <3>1, <3>2
  <2>6. CASE ChangeUser(c)
    <3> DEFINE r == [conn[c] EXCEPT !.at = "drop"]
    <3>1. conn[c].op = "change" /\ guard' = guard /\ conn' = [conn EXCEPT ![c] = r]
      BY <2>1, <2>6 DEF ChangeUser, At, Answered
    <3>2. DOMAIN r = ReqFields /\ r.op = "change"
      BY <2>1, <3>1 DEF ReqFields
    <3> QED
      BY <3>1, <3>2
  <2>7. CASE ChangeDrop(c)
    <3> DEFINE r == [conn[c] EXCEPT !.at = "open"]
    <3>1. conn[c].op = "change" /\ guard' = guard /\ conn' = [conn EXCEPT ![c] = r]
      BY <2>1, <2>7 DEF ChangeDrop, At, Answered
    <3>2. DOMAIN r = ReqFields /\ r.op = "change"
      BY <2>1, <3>1 DEF ReqFields
    <3> QED
      BY <3>1, <3>2
  <2> QED
    BY <2>3, <2>4, <2>5, <2>6, <2>7
<1> QED
  BY <1>1, MoveKeepsTry

LEMMA TryStep == TryInv /\ [AccountNext]_accountVars => TryInv'
<1> SUFFICES ASSUME TryInv, [AccountNext]_accountVars PROVE TryInv'
  OBVIOUS
<1>1. CASE \/ UNCHANGED accountVars \/ EnsureName \/ EnsurePassword \/ EnsureFails
           \/ \E s \in sess : Visit(s) \/ Logout(s) \/ Expire(s)
  <2>1. UNCHANGED <<conn, guard>>
    BY <1>1 DEF accountVars, EnsureName, EnsurePassword, EnsureFails, Visit, Logout, Expire
  <2> QED
    BY <2>1, StillKeepsTry
<1>2. CASE Restart
  BY <1>2, AllQuietTry DEF Restart
<1>3. ASSUME NEW c \in Conns, Arrive(c) PROVE TryInv'
  BY <1>3, LoginTry, ChangeTry DEF Arrive
<1>4. ASSUME NEW c \in Conns, Step(c) PROVE TryInv'
  BY <1>4, ReadsTry, LoginNoteTry, EndsTry, GoesOnTry DEF Step
<1>5. CASE \E ip \in IPs : LockEnds(ip)
  BY <1>5, LockEndsTry
<1> QED
  BY <1>1, <1>2, <1>3, <1>4, <1>5 DEF AccountNext

LEMMA TryInit == AccountInit => TryInv
<1> SUFFICES ASSUME AccountInit PROVE TryInv
  OBVIOUS
<1>1. RequestsOK
  BY QuietIsReq DEF AccountInit, RequestsOK
<1>2. CountersOK
  BY DEF AccountInit, CountersOK, NoGuard
<1>3. ASSUME NEW ip \in IPs PROVE guard[ip].fails = 0 /\ Tried(ip) = {}
  BY <1>3, QuietIsReq DEF AccountInit, NoGuard, Tried
<1>4. Cardinality({}) = 0 /\ Cardinality(Conns) \in Nat
  BY ConnsAreFinite, FS_EmptySet, FS_CardinalityType
<1>5. ASSUME NEW ip \in IPs
      PROVE guard[ip].fails + Cardinality(Tried(ip)) < FailLimit + Cardinality(Conns)
  <2>1. guard[ip].fails = 0 /\ Cardinality(Tried(ip)) = 0
    BY <1>3, <1>4, Zenon
  <2>2. 0 + 0 < FailLimit + Cardinality(Conns)
    BY <1>4, LimitIsPositive
  <2> QED
    BY <2>1, <2>2, Zenon
<1>6. AttemptsBounded
  BY <1>5 DEF AttemptsBounded
<1> QED
  BY <1>1, <1>2, <1>6 DEF TryInv

\* Whoever tries passwords at an address, with as many requests at once as are served: when
\* the address is locked, fewer than the limit and the requests in flight were tried.
THEOREM AlwaysAttemptsBounded == AccountSpec => []AttemptsBounded
<1>1. TryInv => AttemptsBounded
  BY DEF TryInv
<1> QED
  BY <1>1, TryInit, TryStep, PTL DEF AccountSpec

-----------------------------------------------------------------------------
(* Sessions.                                                               *)

\* A connection that is served, or is taken up when the account is there, moves.
LEMMA MoveKeepsSess ==
  ASSUME SessInv, NEW c \in Conns, NEW r, DOMAIN r = ReqFields,
         conn' = [conn EXCEPT ![c] = r],
         stage = "up" \/ conn[c].op # "none", stage' = stage,
         r.at = "pass" => r.op = "change" /\ r.new # Unset
  PROVE RequestsOK' /\ StartsEmpty' /\ WritesNew'
<1>1. RequestsOK' /\ conn'[c] = r /\ \A d \in Conns : d # c => conn'[d] = conn[d]
  BY OneConnMoves DEF SessInv
<1>2. StartsEmpty'
  BY DEF SessInv, StartsEmpty
<1>3. WritesNew'
  BY <1>1 DEF SessInv, WritesNew
<1> QED
  BY <1>1, <1>2, <1>3

\* The password is the same: sessions that are new are of this password, or late.
LEMMA SamePassFollows ==
  ASSUME SessionsFollow, account'.pass = account.pass, torn => torn',
         \A s \in sess' :
           \/ s.pass # account.pass => s.late
           \/ \E t \in sess : t.pass = s.pass /\ (t.late => s.late),
         \A c \in Conns : Changing(c) => Changing(c)' \/ torn'
  PROVE SessionsFollow'
BY DEF SessionsFollow

LEMMA MoveFollows ==
  ASSUME SessInv, NEW c \in Conns, NEW r, DOMAIN r = ReqFields,
         conn' = [conn EXCEPT ![c] = r], account'.pass = account.pass, torn => torn',
         \A s \in sess' : s \in sess \/ (s.pass # account.pass => s.late),
         Changing(c) => torn' \/ (r.op = "change" /\ r.new # Unset /\ r.at \in {"user", "drop"})
  PROVE SessionsFollow'
<1>1. conn'[c] = r /\ \A d \in Conns : d # c => conn'[d] = conn[d]
  BY OneConnMoves DEF SessInv
<1>2. \A d \in Conns : Changing(d) => Changing(d)' \/ torn'
  BY <1>1 DEF Changing
<1> QED
  BY <1>2, SamePassFollows DEF SessInv

LEMMA LoginSess ==
  ASSUME SessInv, NEW c \in Conns, NEW ip \in IPs, NEW name, NEW pass, Login(c, ip, name, pass)
  PROVE SessInv'
<1> DEFINE r == Req("login", ip, name, pass, "name")
<1>1. /\ conn' = [conn EXCEPT ![c] = r] /\ DOMAIN r = ReqFields /\ r.at = "name"
      /\ stage = "up" /\ conn[c].op = "none"
  BY ReqFieldsAreThese, QuietIsReq DEF Login
<1> HIDE DEF r
<1>2. UNCHANGED <<account, sess, stage, torn>>
  BY DEF Login
<1>3. RequestsOK' /\ StartsEmpty' /\ WritesNew'
  BY <1>1, <1>2, MoveKeepsSess
<1>4. SessionsFollow'
  BY <1>1, <1>2, MoveFollows DEF Changing
<1> QED
  BY <1>2, <1>3, <1>4 DEF SessInv, AccountFields

LEMMA ChangeSess ==
  ASSUME SessInv, NEW c \in Conns, NEW ip \in IPs, NEW name, NEW pass, NEW renews \in BOOLEAN,
         Change(c, ip, name, pass, renews)
  PROVE SessInv'
<1> DEFINE r == [Req("change", ip, name, pass, "hash") EXCEPT
                   !.new = IF renews THEN given.pass + 1 ELSE Unset]
<1>1. conn' = [conn EXCEPT ![c] = r] /\ stage = "up" /\ conn[c].op = "none"
  BY QuietIsReq DEF Change
<1>2. DOMAIN r = ReqFields /\ r.at = "hash"
  BY ReqFieldsAreThese DEF ReqFields
<1> HIDE DEF r
<1>3. UNCHANGED <<account, sess, stage, torn>>
  BY DEF Change
<1>4. RequestsOK' /\ StartsEmpty' /\ WritesNew'
  BY <1>1, <1>2, <1>3, MoveKeepsSess
<1>5. SessionsFollow'
  BY <1>1, <1>2, <1>3, MoveFollows DEF Changing
<1> QED
  BY <1>3, <1>4, <1>5 DEF SessInv, AccountFields

\* A sign-in that reads the name, reads the hash, or is counted.
LEMMA LoginGoesOnSess ==
  ASSUME SessInv, NEW c \in Conns, LoginName(c) \/ LoginHash(c) \/ LoginNote(c)
  PROVE SessInv'
<1>1. UNCHANGED <<account, sess, stage, torn>> /\ conn[c].op = "login"
  BY DEF LoginName, LoginHash, LoginNote, At
<1>2. DOMAIN conn[c] = ReqFields
  BY DEF SessInv, RequestsOK
<1>3. PICK r : conn' = [conn EXCEPT ![c] = r] /\ DOMAIN r = ReqFields /\ r.at # "pass"
  <2>1. CASE LoginName(c)
    <3> DEFINE r == [conn[c] EXCEPT !.was = WebUser, !.at = "hash"]
    <3>1. conn' = [conn EXCEPT ![c] = r] /\ DOMAIN r = ReqFields /\ r.at # "pass"
      BY <1>2, <2>1 DEF LoginName, ReqFields
    <3> QED
      BY <3>1
  <2>2. CASE LoginHash(c)
    <3> DEFINE r == [conn[c] EXCEPT !.key = account.pass, !.at = "note"]
    <3>1. conn' = [conn EXCEPT ![c] = r] /\ DOMAIN r = ReqFields /\ r.at # "pass"
      BY <1>2, <2>2 DEF LoginHash, ReqFields
    <3> QED
      BY <3>1
  <2>3. CASE LoginNote(c)
    <3> DEFINE r == IF Matches(conn[c]) THEN [conn[c] EXCEPT !.at = "open"] ELSE Quiet
    <3>1. conn' = [conn EXCEPT ![c] = r] /\ DOMAIN r = ReqFields /\ r.at # "pass"
      BY <1>2, <2>3, QuietIsReq DEF LoginNote, Answered, ReqFields
    <3> HIDE DEF r
    <3> QED
      BY <3>1
  <2> QED
    BY <2>1, <2>2, <2>3
<1>4. RequestsOK' /\ StartsEmpty' /\ WritesNew'
  BY <1>1, <1>3, MoveKeepsSess
<1>5. SessionsFollow'
  BY <1>1, <1>3, MoveFollows DEF Changing
<1> QED
  BY <1>1, <1>4, <1>5 DEF SessInv, AccountFields

\* A request that opens a session is answered.
LEMMA OpensSess ==
  ASSUME SessInv, NEW c \in Conns, LoginOpen(c) \/ ChangeOpen(c) PROVE SessInv'
<1>1. /\ conn' = [conn EXCEPT ![c] = Quiet] /\ UNCHANGED <<account, stage, torn>>
      /\ NewSession(c, conn[c].was, conn[c].key)
      /\ conn[c].op \in {"login", "change"} /\ conn[c].at = "open"
  BY DEF LoginOpen, ChangeOpen, Answered, At
<1>2. RequestsOK' /\ StartsEmpty' /\ WritesNew'
  BY <1>1, QuietIsReq, MoveKeepsSess
<1>3. ASSUME NEW s \in sess', s \notin sess, s.pass # account.pass PROVE s.late
  <2> DEFINE new == [id |-> given.id + 1, name |-> conn[c].was, pass |-> conn[c].key,
                     live |-> TRUE, late |-> conn[c].key # account.pass]
  <2>1. s = new
    BY <1>1, <1>3 DEF NewSession
  <2>2. new.pass = conn[c].key /\ new.late = (conn[c].key # account.pass)
    BY Zenon
  <2> QED
    BY <1>3, <2>1, <2>2, Zenon
<1>4. SessionsFollow'
  BY <1>1, <1>3, QuietIsReq, MoveFollows DEF Changing
<1> QED
  BY <1>1, <1>2, <1>4 DEF SessInv, AccountFields

\* A change that compares the password, or reads the name.
LEMMA ChangeReadsSess ==
  ASSUME SessInv, NEW c \in Conns, ChangeHash(c) \/ ChangeName(c) PROVE SessInv'
<1>1. UNCHANGED <<account, sess, stage, torn>> /\ conn[c].op = "change"
      /\ conn[c].at \in {"hash", "name"}
  BY DEF ChangeHash, ChangeName, At
<1>2. DOMAIN conn[c] = ReqFields
  BY DEF SessInv, RequestsOK
<1>3. PICK r : /\ conn' = [conn EXCEPT ![c] = r] /\ DOMAIN r = ReqFields
               /\ r.at = "pass" => r.op = "change" /\ r.new # Unset
  <2>1. CASE ChangeHash(c)
    <3> DEFINE r == IF conn[c].pass = account.pass
                    THEN [conn[c] EXCEPT !.key = account.pass, !.at = "name"] ELSE Quiet
    <3>1. conn' = [conn EXCEPT ![c] = r] /\ DOMAIN r = ReqFields /\ r.at # "pass"
      BY <1>2, <2>1, QuietIsReq DEF ChangeHash, Answered, ReqFields
    <3> QED
      BY <3>1
  <2>2. CASE ChangeName(c)
    <3> DEFINE r == [conn[c] EXCEPT !.was = IF conn[c].name = NoName THEN WebUser ELSE conn[c].name,
                                    !.at = IF conn[c].new = Unset THEN "user" ELSE "pass"]
    <3>1. conn' = [conn EXCEPT ![c] = r]
      BY <2>2 DEF ChangeName
    <3>2. DOMAIN r = ReqFields /\ r.op = "change" /\ r.new = conn[c].new
          /\ (r.at = "pass" => conn[c].new # Unset)
      BY <1>1, <1>2 DEF ReqFields
    <3> QED
      BY <3>1, <3>2
  <2> QED
    BY <1>1, <2>1, <2>2
<1>4. RequestsOK' /\ StartsEmpty' /\ WritesNew'
  BY <1>1, <1>3, MoveKeepsSess
<1>5. SessionsFollow'
  BY <1>1, <1>3, MoveFollows DEF Changing
<1> QED
  BY <1>1, <1>4, <1>5 DEF SessInv, AccountFields

\* From the moment the new password is there the change is on its way to drop the sessions.
LEMMA ChangePassSess ==
  ASSUME SessInv, NEW c \in Conns, ChangePass(c) PROVE SessInv'
<1> DEFINE r == [conn[c] EXCEPT !.key = conn[c].new, !.at = "user"]
<1>1. /\ conn' = [conn EXCEPT ![c] = r] /\ conn[c].op = "change"
      /\ UNCHANGED <<sess, stage, torn>>
  BY DEF ChangePass, At
<1>2. /\ DOMAIN r = ReqFields /\ r.op = "change" /\ r.at = "user"
      /\ r.new # Unset
  BY <1>1 DEF ChangePass, At, SessInv, RequestsOK, WritesNew, ReqFields
<1> HIDE DEF r
<1>3. RequestsOK' /\ StartsEmpty' /\ WritesNew'
  BY <1>1, <1>2, MoveKeepsSess
<1>4. Changing(c)'
  BY <1>1, <1>2, OneConnMoves DEF SessInv, Changing
<1>5. SessionsFollow' /\ AccountFields'
  BY <1>1, <1>4 DEF ChangePass, SessInv, SessionsFollow, AccountFields
<1> QED
  BY <1>3, <1>5 DEF SessInv

LEMMA ChangeUserSess ==
  ASSUME SessInv, NEW c \in Conns, ChangeUser(c) PROVE SessInv'
<1> DEFINE r == [conn[c] EXCEPT !.at = "drop"]
<1>1. /\ conn' = [conn EXCEPT ![c] = r] /\ conn[c].op = "change"
      /\ UNCHANGED <<sess, stage, torn>> /\ account'.pass = account.pass /\ AccountFields'
  BY DEF ChangeUser, At, SessInv, AccountFields
<1>2. /\ DOMAIN r = ReqFields /\ r.op = "change" /\ r.at = "drop" /\ r.new = conn[c].new
  BY <1>1 DEF SessInv, RequestsOK, ReqFields
<1> HIDE DEF r
<1>3. RequestsOK' /\ StartsEmpty' /\ WritesNew'
  BY <1>1, <1>2, MoveKeepsSess
<1>4. SessionsFollow'
  BY <1>1, <1>2, MoveFollows DEF Changing
<1> QED
  BY <1>1, <1>3, <1>4 DEF SessInv

\* A change that fails half-way is torn.
LEMMA ChangeFailsSess ==
  ASSUME SessInv, NEW c \in Conns, ChangeFails(c) PROVE SessInv'
<1>1. /\ conn' = [conn EXCEPT ![c] = Quiet] /\ UNCHANGED <<account, sess, stage>>
      /\ torn' = (torn \/ (conn[c].at = "user" /\ conn[c].new # Unset))
      /\ conn[c].op = "change" /\ conn[c].at \in {"pass", "user"}
  BY DEF ChangeFails, Answered
<1>2. RequestsOK' /\ StartsEmpty' /\ WritesNew'
  BY <1>1, QuietIsReq, MoveKeepsSess
<1>3. torn => torn'
  BY <1>1
<1>4. Changing(c) => torn'
  BY <1>1 DEF Changing
<1>5. SessionsFollow'
  BY <1>1, <1>3, <1>4, QuietIsReq, MoveFollows
<1> QED
  BY <1>1, <1>2, <1>5 DEF SessInv, AccountFields

LEMMA ChangeDropSess ==
  ASSUME SessInv, NEW c \in Conns, ChangeDrop(c) PROVE SessInv'
<1> DEFINE r == [conn[c] EXCEPT !.at = "open"]
<1>1. /\ conn' = [conn EXCEPT ![c] = r] /\ conn[c].op = "change"
      /\ UNCHANGED <<account, stage>> /\ sess' = {}
  BY DEF ChangeDrop, At
<1>2. DOMAIN r = ReqFields /\ r.at = "open"
  BY DEF SessInv, RequestsOK, ReqFields
<1> HIDE DEF r
<1>3. RequestsOK' /\ StartsEmpty' /\ WritesNew'
  BY <1>1, <1>2, MoveKeepsSess
<1> QED
  BY <1>1, <1>3 DEF SessInv, SessionsFollow, AccountFields

\* What happens without a request.
LEMMA QuietSess ==
  ASSUME SessInv,
         EnsureName \/ EnsureFails \/ \E ip \in IPs : LockEnds(ip)
  PROVE SessInv'
<1>1. /\ UNCHANGED <<sess, conn, torn>> /\ account'.pass = account.pass /\ AccountFields'
      /\ stage' # "up" => stage # "up"
  BY DEF EnsureName, EnsureFails, LockEnds, SessInv, AccountFields
<1>2. SessionsFollow'
  BY <1>1 DEF SessInv, SessionsFollow, Changing
<1> QED
  BY <1>1, <1>2 DEF SessInv, RequestsOK, StartsEmpty, WritesNew

LEMMA EnsurePasswordSess ==
  ASSUME SessInv, EnsurePassword PROVE SessInv'
<1>1. sess = {} /\ UNCHANGED <<sess, conn>> /\ stage' = "up" /\ AccountFields'
  BY DEF EnsurePassword, SessInv, StartsEmpty, AccountFields
<1> QED
  BY <1>1 DEF SessInv, RequestsOK, StartsEmpty, WritesNew, SessionsFollow

LEMMA RestartSess ==
  ASSUME SessInv, Restart PROVE SessInv'
BY QuietIsReq
DEF Restart, SessInv, RequestsOK, StartsEmpty, WritesNew, SessionsFollow, AccountFields

\* Sessions end one by one, and keep the password they were opened with.
LEMMA SessionsEnd ==
  ASSUME SessInv, NEW s \in sess, Visit(s) \/ Logout(s) \/ Expire(s) PROVE SessInv'
<1>1. UNCHANGED <<account, conn, stage, torn>> /\ stage = "up"
  BY DEF Visit, Logout, Expire, SessInv, StartsEmpty
<1>2. ASSUME NEW t \in sess'
      PROVE \E u \in sess : u.pass = t.pass /\ (u.late => t.late)
  <2>1. CASE t \in sess
    BY <2>1
  <2>2. CASE t \notin sess
    <3>1. t = [s EXCEPT !.live = FALSE]
      BY <1>2, <2>2 DEF Visit, Logout, Expire
    <3>2. t.pass = s.pass /\ t.late = s.late
      BY <3>1
    <3> QED
      BY <3>2
  <2> QED
    BY <2>1, <2>2
<1>3. SessionsFollow'
  BY <1>1, <1>2, SamePassFollows DEF SessInv, Changing
<1> QED
  BY <1>1, <1>3 DEF SessInv, RequestsOK, StartsEmpty, WritesNew, AccountFields

LEMMA SessStep == SessInv /\ [AccountNext]_accountVars => SessInv'
<1> SUFFICES ASSUME SessInv, [AccountNext]_accountVars PROVE SessInv'
  OBVIOUS
<1>1. CASE UNCHANGED accountVars
  BY <1>1 DEF accountVars, SessInv, RequestsOK, StartsEmpty, WritesNew, AccountFields,
              SessionsFollow, Changing
<1>2. CASE EnsureName \/ EnsureFails \/ \E ip \in IPs : LockEnds(ip)
  BY <1>2, QuietSess
<1>3. CASE EnsurePassword \/ Restart
  BY <1>3, EnsurePasswordSess, RestartSess
<1>4. ASSUME NEW s \in sess, Visit(s) \/ Logout(s) \/ Expire(s) PROVE SessInv'
  BY <1>4, SessionsEnd
<1>5. ASSUME NEW c \in Conns, Arrive(c) PROVE SessInv'
  BY <1>5, LoginSess, ChangeSess DEF Arrive
<1>6. ASSUME NEW c \in Conns, Step(c) PROVE SessInv'
  BY <1>6, LoginGoesOnSess, OpensSess, ChangeReadsSess, ChangePassSess, ChangeUserSess,
     ChangeFailsSess, ChangeDropSess DEF Step
<1> QED
  BY <1>1, <1>2, <1>3, <1>4, <1>5, <1>6 DEF AccountNext

LEMMA SessInit == AccountInit => SessInv
BY QuietIsReq
DEF AccountInit, SessInv, RequestsOK, StartsEmpty, WritesNew, AccountFields, SessionsFollow

\* A session is one of the password there is, unless a change is between the two, was cut
\* off between the two, or the session was opened by a sign-in that came before the change.
THEOREM AlwaysSessionsFollow == AccountSpec => []SessionsFollow
<1>1. SessInv => SessionsFollow
  BY DEF SessInv
<1> QED
  BY <1>1, SessInit, SessStep, PTL DEF AccountSpec
================================================================================
