---------------------------- MODULE ImageUploadProofs ----------------------------
(***************************************************************************)
(* For any number of browsers, requests served at a time, uploads and      *)
(* bytes, and whatever connections are lost and restarts happen: a chunk   *)
(* never leaves a hole, an upload becomes one image at most, the image is  *)
(* whole, and data without metadata are in somebody's hands.               *)
(***************************************************************************)
EXTENDS ImageUpload, TLAPS

-----------------------------------------------------------------------------
(* Types.                                                                  *)

Places == {"start", "clean", "cleanPart", "create", "save", "stat", "tmp", "rename", "write",
           "move", "forget", "row", "part"}
PCs == {"idle", "init", "resume", "fresh", "loop", "put", "complete", "ask", "realign", "done", "failed"}

Metas == [client : Clients \cup {None}, received : Nat, fresh : BOOLEAN] \cup {NoMeta}
Calls == [op : {None, "init", "get", "put", "complete", "abort"},
          from : Clients \cup {None}, by : Clients \cup {None}, id : Uploads \cup {None},
          off : Nat, at : Places, m : Metas]
Tabs == [pc : PCs, received : Nat, tries : Nat]

UploadTypes ==
  /\ meta \in [Uploads -> Metas] /\ tmp \in [Uploads -> Metas]
  /\ part \in [Uploads -> Nat \cup {-1}]
  /\ lock \in Slots \cup {NoSlot}
  /\ call \in [Slots -> Calls]
  /\ tab \in [Clients -> Tabs]
  /\ stored \in [Clients -> Uploads \cup {None}]
  /\ spent \in [tries : Nat, drops : Nat, crashes : Nat, others : Nat]

\* Where a handler has a copy of the metadata, and where it holds uploadMu.
Loaded(q) ==
  \/ q.op = "init" /\ q.at = "save"
  \/ q.op = "get" /\ q.at \in {"stat", "tmp", "rename"}
  \/ q.op = "put" /\ q.at \in {"write", "tmp", "rename"}
  \/ q.op = "complete" /\ q.at \in {"move", "forget", "row"}

InLock(q) ==
  \/ q.op = "put" /\ q.at \in {"write", "tmp", "rename"}
  \/ q.op = "complete" /\ q.at \in {"move", "forget", "row"}
  \/ q.op = "abort" /\ q.at = "part"

\* What a request says of itself.
CallOK(q) ==
  /\ q.op = None <=> q = NoCall
  /\ q.op \in {"get", "put", "complete", "abort"} => q.id \in Uploads
  /\ q.op = "init" /\ q.at \in {"clean", "cleanPart", "save"} => q.id \in Uploads
  /\ q.m # NoMeta <=> Loaded(q)
  /\ q.op = "init" /\ q.at = "save" => q.m.client = q.from /\ q.m.received = 0
  /\ q.op \in {"get", "put"} => q.from \in Clients
  /\ q.by \in {None, q.from}
  /\ q.op = "abort" => q.by = None
  /\ q.op = "complete" => q.at \in {"start", "move", "forget", "row"}
  /\ q.op = "put" /\ q.at \in {"tmp", "rename"} => q.off = ChunkEnd(q.m.received)

CallInv == \A s \in Slots : CallOK(call[s])

LockInv == \A s \in Slots : InLock(call[s]) => lock = s

-----------------------------------------------------------------------------
(* A browser and the request it waits for.                                 *)

Serves(op, pc) ==
  \/ op = "init" /\ pc = "init"
  \/ op = "get" /\ pc \in {"resume", "realign"}
  \/ op = "put" /\ pc = "put"
  \/ op = "complete" /\ pc = "complete"

Answers(q, c) ==
  /\ Serves(q.op, tab[c].pc)
  /\ q.op # "init" => q.id = stored[c]
  /\ q.op = "put" => tab[c].received = IF q.at = "start" THEN q.off ELSE q.m.received

WaitInv ==
  /\ \A s \in Slots, c \in Clients : call[s].by = c =>
       Answers(call[s], c) /\ \A t \in Slots : call[t].by = c => t = s
  /\ \A c \in Clients :
       tab[c].pc \in {"resume", "loop", "put", "ask", "realign", "complete"} => stored[c] \in Uploads

-----------------------------------------------------------------------------
(* Whose an upload is, in everything that refers to it.                    *)

OwnedBy(u, c) ==
  /\ meta[u] # NoMeta => meta[u].client = c
  /\ tmp[u] # NoMeta => tmp[u].client = c
  /\ \A s \in Slots : call[s].id = u => /\ call[s].m # NoMeta => call[s].m.client = c
                                        /\ call[s].op \in {"get", "put"} => call[s].from = c
  /\ \A d \in Clients : stored[d] = u => d = c
  /\ part[u] \in Nat \ {0} => c \in Clients

OwnerInv == \A u \in Uploads : \E c \in Clients \cup {None} : OwnedBy(u, c)

-----------------------------------------------------------------------------
(* Nobody is ahead of the data file.                                       *)

AheadInv ==
  \A u \in Uploads : part[u] # -1 =>
    /\ meta[u].received <= part[u] /\ tmp[u].received <= part[u]
    /\ \A s \in Slots : call[s].id = u =>
         /\ call[s].m.received <= part[u]
         /\ call[s].op = "put" /\ call[s].at # "start" => call[s].off <= part[u]
    /\ \A c \in Clients : stored[c] = u /\ tab[c].pc \in {"loop", "put"} => tab[c].received <= part[u]

-----------------------------------------------------------------------------
(* Rows, files and the requests that complete an upload.                   *)

NoRowOf(u) == \A r \in rows : r.id # u

RowInv ==
  /\ \A r \in rows : r.id \in Uploads /\ part[r.id] = -1
  /\ \A q, r \in rows : q.id = r.id => q = r
  /\ \A s \in Slots : call[s].op = "complete" /\ call[s].at # "start" =>
       /\ NoRowOf(call[s].id)
       /\ part[call[s].id] \in IF call[s].at = "move" THEN {Size, -1} ELSE {-1}
       /\ call[s].m.client \in Clients
  /\ \A c \in Clients : tab[c].pc = "done" => \E r \in rows : r.client = c

WholeFile(c) == [file |-> NameOf[c], client |-> c, length |-> Size]

\* Without it the last of two files of one name takes the place of the first.
NamesDiffer == \A c, d \in Clients : NameOf[c] = NameOf[d] => c = d

DiskInv ==
  NamesDiffer =>
    /\ \A r \in rows : r.client \in Clients /\ r.file = NameOf[r.client] /\ WholeFile(r.client) \in disk
    /\ \A s \in Slots : call[s].op = "complete" /\ call[s].at \in {"forget", "row"} =>
         WholeFile(call[s].m.client) \in disk

-----------------------------------------------------------------------------
(* Who will take care of data without metadata.                            *)

CaresFor(q, u) ==
  /\ q.id = u
  /\ \/ q.op = "init" /\ q.at \in {"cleanPart", "save"}
     \/ q.op = "abort" /\ q.at = "part"

CareInv ==
  spent.crashes = 0 =>
    \A u \in Uploads : part[u] # -1 /\ meta[u] = NoMeta => \E s \in Slots : CaresFor(call[s], u)

UploadInv ==
  /\ UploadTypes /\ CallInv /\ LockInv /\ WaitInv
  /\ OwnerInv /\ AheadInv /\ RowInv /\ DiskInv /\ CareInv

-----------------------------------------------------------------------------
(* Facts about records.                                                    *)

LEMMA NoMetaFacts ==
  /\ NoMeta \in Metas /\ NoMeta.received = -1
  /\ \A m \in Metas : m # NoMeta => m.received \in Nat /\ m.client \in Clients \cup {None}
  /\ \A c \in Clients \cup {None}, n \in Nat, f \in BOOLEAN :
       Meta(c, n, f) \in Metas \ {NoMeta} /\ Meta(c, n, f).client = c /\ Meta(c, n, f).received = n
BY DEF NoMeta, Meta, Metas

\* A copy that is written again belongs to whom it did.
LEMMA WrittenMeta ==
  ASSUME NEW m \in Metas \ {NoMeta}, NEW n \in Nat
  PROVE  /\ [m EXCEPT !.received = n] \in Metas \ {NoMeta} /\ [m EXCEPT !.fresh = TRUE] \in Metas \ {NoMeta}
         /\ [m EXCEPT !.received = n].client = m.client /\ [m EXCEPT !.received = n].received = n
         /\ [m EXCEPT !.fresh = TRUE].client = m.client /\ [m EXCEPT !.fresh = TRUE].received = m.received
<1> DEFINE Real == [client : Clients \cup {None}, received : Nat, fresh : BOOLEAN]
<1>1. Metas \ {NoMeta} = Real
  <2>1. NoMeta \notin Real
    BY DEF NoMeta, Meta
  <2> QED
    BY <2>1 DEF Metas
<1>2. m \in Real
  BY <1>1
<1>3. /\ [m EXCEPT !.received = n] \in Real
      /\ [m EXCEPT !.received = n].client = m.client /\ [m EXCEPT !.received = n].received = n
  BY <1>2
<1>4. /\ [m EXCEPT !.fresh = TRUE].client = m.client
      /\ [m EXCEPT !.fresh = TRUE].received = m.received
  BY <1>2
<1>5. [m EXCEPT !.fresh = TRUE] \in Real
  BY <1>2, Zenon
<1> QED
  BY <1>1, <1>3, <1>4, <1>5

LEMMA OlderMeta ==
  ASSUME NEW m \in Metas \ {NoMeta}
  PROVE  /\ [m EXCEPT !.fresh = FALSE] \in Metas \ {NoMeta}
         /\ [m EXCEPT !.fresh = FALSE].client = m.client /\ [m EXCEPT !.fresh = FALSE].received = m.received
<1> DEFINE Real == [client : Clients \cup {None}, received : Nat, fresh : BOOLEAN]
<1>1. Metas \ {NoMeta} = Real
  <2>1. NoMeta \notin Real
    BY DEF NoMeta, Meta
  <2> QED
    BY <2>1 DEF Metas
<1>2. m \in Real
  BY <1>1
<1>3. /\ [m EXCEPT !.fresh = FALSE].client = m.client
      /\ [m EXCEPT !.fresh = FALSE].received = m.received
  BY <1>2
<1>4. [m EXCEPT !.fresh = FALSE] \in Real
  BY <1>2, Zenon
<1> QED
  BY <1>1, <1>3, <1>4

LEMMA RequestFacts ==
  ASSUME NEW op \in {"init", "get", "put", "complete", "abort"}, NEW c \in Clients \cup {None},
         NEW u \in Uploads \cup {None}, NEW off \in Nat
  PROVE  Request(op, c, u, off) \in Calls
BY NoMetaFacts DEF Request, Calls, Places

LEMMA NoCallFacts ==
  /\ NoCall \in Calls /\ NoCall.op = None /\ NoCall.from = None /\ NoCall.by = None
  /\ NoCall.id = None /\ NoCall.off = 0 /\ NoCall.at = "start" /\ NoCall.m = NoMeta
BY NoMetaFacts DEF Request, Calls, NoCall, Places

LEMMA NoCallOK == CallOK(NoCall) /\ ~InLock(NoCall)
BY NoCallFacts DEF CallOK, InLock, Loaded, None

LEMMA LeastFacts == ASSUME NEW m \in Nat, NEW n \in Nat PROVE LeastOf(m, n) \in Nat
BY DEF LeastOf

LEMMA ChunkEndFacts == ASSUME NEW n \in Nat PROVE ChunkEnd(n) \in Nat
BY SizesArePositive DEF ChunkEnd, LeastOf

-----------------------------------------------------------------------------
(* Steps of a handler: it goes on, or it answers.                          *)

Moves(s, at, id, off, m) ==
  call' = [call EXCEPT ![s] = [call[s] EXCEPT !.at = at, !.id = id, !.off = off, !.m = m]]

LEMMA MoveFields ==
  ASSUME UploadTypes, NEW s \in Slots, NEW at \in Places, NEW id \in Uploads \cup {None},
         NEW off \in Nat, NEW m \in Metas, Moves(s, at, id, off, m)
  PROVE  /\ call' \in [Slots -> Calls] /\ \A t \in Slots \ {s} : call'[t] = call[t]
         /\ call'[s].op = call[s].op /\ call'[s].from = call[s].from /\ call'[s].by = call[s].by
         /\ call'[s].at = at /\ call'[s].id = id /\ call'[s].off = off /\ call'[s].m = m
<1> DEFINE r == [call[s] EXCEPT !.at = at, !.id = id, !.off = off, !.m = m]
<1>1. call[s] \in Calls
  BY DEF UploadTypes
<1>2. /\ r \in Calls /\ r.op = call[s].op /\ r.from = call[s].from /\ r.by = call[s].by
      /\ r.at = at /\ r.id = id /\ r.off = off /\ r.m = m
  BY <1>1 DEF Calls
<1>3. call' = [call EXCEPT ![s] = r]
  BY DEF Moves
<1> HIDE DEF r
<1> QED
  BY <1>2, <1>3 DEF UploadTypes

LEMMA GotoMoves ==
  ASSUME UploadTypes, NEW s \in Slots, NEW at, Goto(s, at)
  PROVE  Moves(s, at, call[s].id, call[s].off, call[s].m)
<1>1. call[s] \in Calls
  BY DEF UploadTypes
<1>2. [call[s] EXCEPT !.at = at]
      = [call[s] EXCEPT !.at = at, !.id = call[s].id, !.off = call[s].off, !.m = call[s].m]
  BY <1>1 DEF Calls
<1>3. call' = [call EXCEPT ![s] = [call[s] EXCEPT !.at = at]]
  BY DEF Goto
<1> QED
  BY <1>2, <1>3 DEF Moves

LEMMA GotoWithMoves ==
  ASSUME UploadTypes, NEW s \in Slots, NEW at, NEW m, GotoWith(s, at, m)
  PROVE  Moves(s, at, call[s].id, call[s].off, m)
<1>1. call[s] \in Calls /\ call \in [Slots -> Calls]
  BY DEF UploadTypes
<1>2. [call[s] EXCEPT !.at = at, !.m = m]
      = [call[s] EXCEPT !.at = at, !.id = call[s].id, !.off = call[s].off, !.m = m]
  BY <1>1 DEF Calls
<1>3. call' = [call EXCEPT ![s] = [call[s] EXCEPT !.at = at, !.m = m]]
  BY <1>1 DEF GotoWith
<1> QED
  BY <1>2, <1>3 DEF Moves

\* What a handler's step keeps of what it, its browser and uploadMu are to one another.
BaseInv == UploadTypes /\ CallInv /\ LockInv /\ WaitInv

LEMMA MovesKeepBase ==
  ASSUME BaseInv, NEW s \in Slots, NEW at \in Places, NEW id \in Uploads \cup {None},
         NEW off \in Nat, NEW m \in Metas, Moves(s, at, id, off, m), KeepBrowsers,
         call[s] # NoCall, CallOK(call'[s]),
         call[s].op # "init" => id = call[s].id,
         call[s].op = "put" => /\ at # "start"
                               /\ m.received = IF call[s].at = "start" THEN call[s].off ELSE call[s].m.received,
         \/ lock' = lock /\ (InLock(call'[s]) => InLock(call[s]))
         \/ lock = NoSlot /\ lock' = s
  PROVE  CallInv' /\ LockInv' /\ WaitInv'
<1>1. /\ \A t \in Slots \ {s} : call'[t] = call[t]
      /\ call'[s].op = call[s].op /\ call'[s].from = call[s].from /\ call'[s].by = call[s].by
      /\ call'[s].at = at /\ call'[s].id = id /\ call'[s].off = off /\ call'[s].m = m
      /\ tab' = tab /\ stored' = stored
  BY MoveFields DEF BaseInv, KeepBrowsers
<1>2. CallInv'
  BY <1>1 DEF BaseInv, CallInv
<1>3. LockInv'
  BY <1>1, SlotsAreNumbers DEF BaseInv, LockInv, NoSlot
<1>4. WaitInv'
  <2>1. ASSUME NEW c \in Clients, call[s].by = c PROVE Answers(call[s], c)'
    BY <1>1, <2>1 DEF BaseInv, WaitInv, Answers, Serves
  <2>2. ASSUME NEW t \in Slots \ {s}, NEW c \in Clients, call[t].by = c PROVE Answers(call[t], c)'
    BY <1>1, <2>2 DEF BaseInv, WaitInv, Answers
  <2> QED
    BY <1>1, <2>1, <2>2 DEF BaseInv, WaitInv
<1> QED
  BY <1>2, <1>3, <1>4

\* What an answer or an error makes of a tab.
LEMMA AcceptedFacts ==
  ASSUME NEW t \in Tabs, NEW n \in Nat
  PROVE  /\ Accepted(t, n) \in Tabs
         /\ Accepted(t, n).pc = IF t.pc = "complete" THEN "done" ELSE "loop"
         /\ t.pc = "put" => Accepted(t, n).received = LeastOf(t.received + ChunkSize, Size)
         /\ t.pc \notin {"put", "complete"} => Accepted(t, n).received = n
<1>1. LeastOf(t.received + ChunkSize, Size) \in Nat
  <2>1. t.received \in Nat /\ Size \in Nat /\ ChunkSize \in Nat
    BY SizesArePositive DEF Tabs
  <2> QED
    BY <2>1 DEF LeastOf
<1>2. CASE t.pc = "put"
  BY <1>1, <1>2 DEF Accepted, Tabs, PCs
<1>3. CASE t.pc = "complete"
  BY <1>3 DEF Accepted, Tabs, PCs
<1>4. CASE t.pc \notin {"put", "complete"}
  <2>1. Accepted(t, n) = [pc |-> "loop", received |-> n, tries |-> 0]
    BY <1>4 DEF Accepted
  <2>2. Accepted(t, n) \in Tabs
    BY <2>1 DEF Tabs, PCs
  <2>3. Accepted(t, n).pc = "loop" /\ Accepted(t, n).received = n
    BY <2>1
  <2> QED
    BY <1>4, <2>2, <2>3
<1> QED
  BY <1>2, <1>3, <1>4

LEMMA RefusedFacts ==
  ASSUME NEW t \in Tabs
  PROVE  /\ Refused(t) \in Tabs /\ Refused(t).received = t.received
         /\ t.pc = "resume" => Refused(t).pc = "fresh"
         /\ t.pc = "put" => Refused(t).pc \in {"loop", "ask"}
         /\ t.pc \notin {"resume", "put"} => Refused(t).pc = "failed"
BY DEF Refused, Tabs, PCs

\* Where an answer takes the browser that waits for it.
LEMMA Heard ==
  ASSUME BaseInv, NEW s \in Slots, NEW c \in Clients, call[s].by = c,
         NEW ok \in BOOLEAN, NEW n \in Nat, NEW u \in Uploads \cup {None},
         ok /\ call[s].op = "init" => u \in Uploads, Hear(c, ok, n, u)
  PROVE  /\ tab' \in [Clients -> Tabs] /\ stored' \in [Clients -> Uploads \cup {None}]
         /\ \A d \in Clients \ {c} : tab'[d] = tab[d] /\ stored'[d] = stored[d]
         /\ tab'[c].pc \in {"fresh", "loop", "ask", "done", "failed"}
         /\ tab'[c].pc \in {"loop", "ask"} => stored'[c] \in Uploads
         /\ stored'[c] \in {stored[c], None} \/ (ok /\ call[s].op = "init" /\ stored'[c] = u)
         /\ tab'[c].pc = "done" => ok /\ call[s].op = "complete"
         /\ tab'[c].pc = "loop" =>
              \/ ok /\ call[s].op \in {"init", "get"} /\ tab'[c].received = n
                 /\ (call[s].op = "init" => stored'[c] = u)
              \/ ok /\ call[s].op = "put" /\ tab'[c].received = LeastOf(tab[c].received + ChunkSize, Size)
              \/ call[s].op = "put" /\ tab'[c].received = tab[c].received
<1>1. Answers(call[s], c) /\ CallOK(call[s])
  BY DEF BaseInv, WaitInv, CallInv
<1>2. /\ tab \in [Clients -> Tabs] /\ stored \in [Clients -> Uploads \cup {None}]
      /\ tab[c].pc \in {"resume", "put", "realign", "complete"} => stored[c] \in Uploads
  BY DEF BaseInv, UploadTypes, WaitInv
<1>3. /\ tab'[c] = IF ok THEN Accepted(tab[c], n) ELSE Refused(tab[c])
      /\ stored'[c] = Stored(c, ok, u)
      /\ \A d \in Clients \ {c} : tab'[d] = tab[d] /\ stored'[d] = stored[d]
  BY <1>2 DEF Hear
<1>4. tab'[c] \in Tabs
  BY <1>2, <1>3, AcceptedFacts, RefusedFacts
<1>5. stored'[c] \in Uploads \cup {None}
  BY <1>1, <1>2, <1>3 DEF Stored, Answers, Serves
<1>6. tab' \in [Clients -> Tabs] /\ stored' \in [Clients -> Uploads \cup {None}]
  BY <1>2, <1>4, <1>5 DEF Hear
<1>7. tab[c] \in Tabs
  BY <1>2
<1>8. CASE ok
  <2>1. tab'[c] = Accepted(tab[c], n)
    BY <1>3, <1>8
  <2> QED
    BY <1>1, <1>2, <1>3, <1>6, <1>7, <1>8, <2>1, AcceptedFacts DEF Stored, Answers, Serves
<1>9. CASE ~ok
  <2>1. tab'[c] = Refused(tab[c])
    BY <1>3, <1>9
  <2> QED
    BY <1>1, <1>2, <1>3, <1>6, <1>7, <1>9, <2>1, RefusedFacts DEF Stored, Answers, Serves
<1> QED
  BY <1>8, <1>9

\* What an answer leaves: the slot is free, and only who waited for it heard.
Told(s, ok, n, u) ==
  /\ call' \in [Slots -> Calls] /\ call'[s] = NoCall /\ \A t \in Slots \ {s} : call'[t] = call[t]
  /\ tab' \in [Clients -> Tabs] /\ stored' \in [Clients -> Uploads \cup {None}]
  /\ \A d \in Clients :
       \/ tab'[d] = tab[d] /\ stored'[d] = stored[d]
       \/ /\ call[s].by = d /\ Answers(call[s], d)
          /\ stored'[d] \in {stored[d], None} \/ (ok /\ call[s].op = "init" /\ stored'[d] = u)
          /\ tab'[d].pc = "done" => ok /\ call[s].op = "complete"
          /\ tab'[d].pc # "put"
          /\ tab'[d].pc = "loop" =>
               \/ ok /\ call[s].op \in {"init", "get"} /\ tab'[d].received = n
               \/ ok /\ call[s].op = "put" /\ tab'[d].received = LeastOf(tab[d].received + ChunkSize, Size)
               \/ call[s].op = "put" /\ tab'[d].received = tab[d].received

LEMMA RepliesKeepBase ==
  ASSUME BaseInv, NEW s \in Slots, NEW ok \in BOOLEAN, NEW n \in Nat, NEW u \in Uploads \cup {None},
         ok /\ call[s].op = "init" => u \in Uploads, Reply(s, ok, n, u),
         lock' = lock \/ Release(s)
  PROVE  Told(s, ok, n, u) /\ CallInv' /\ LockInv' /\ WaitInv'
<1>1. call' \in [Slots -> Calls] /\ call'[s] = NoCall /\ \A t \in Slots \ {s} : call'[t] = call[t]
  BY NoCallFacts DEF Reply, BaseInv, UploadTypes
<1>2. CallInv'
  BY <1>1, NoCallOK DEF BaseInv, CallInv
<1>3. LockInv'
  <2>1. ASSUME NEW t \in Slots \ {s}, InLock(call[t]) PROVE lock' = t
    BY <2>1, SlotsAreNumbers DEF BaseInv, LockInv, Release
  <2> QED
    BY <1>1, <2>1, NoCallOK DEF LockInv
<1>4. CASE call[s].by = None
  <2>1. tab' = tab /\ stored' = stored
    BY <1>4 DEF Reply, KeepBrowsers
  <2>2. Told(s, ok, n, u)
    BY <1>1, <2>1 DEF Told, BaseInv, UploadTypes
  <2>3. WaitInv'
    <3>1. ASSUME NEW t \in Slots, NEW c \in Clients, call'[t].by = c PROVE t # s /\ call[t].by = c
      BY <1>1, <3>1, NoCallFacts, NoneIsNobody
    <3> QED
      BY <1>1, <2>1, <3>1 DEF BaseInv, WaitInv, Answers
  <2> QED
    BY <1>2, <1>3, <2>2, <2>3
<1>5. CASE call[s].by # None
  <2>1. PICK c \in Clients : call[s].by = c
    BY <1>5 DEF BaseInv, UploadTypes, Calls
  <2>2. Hear(c, ok, n, u) /\ Answers(call[s], c)
    BY <1>5, <2>1 DEF Reply, BaseInv, WaitInv
  <2>3. /\ tab' \in [Clients -> Tabs] /\ stored' \in [Clients -> Uploads \cup {None}]
        /\ \A d \in Clients \ {c} : tab'[d] = tab[d] /\ stored'[d] = stored[d]
        /\ tab'[c].pc \in {"fresh", "loop", "ask", "done", "failed"}
        /\ tab'[c].pc \in {"loop", "ask"} => stored'[c] \in Uploads
        /\ stored'[c] \in {stored[c], None} \/ (ok /\ call[s].op = "init" /\ stored'[c] = u)
        /\ tab'[c].pc = "done" => ok /\ call[s].op = "complete"
        /\ tab'[c].pc = "loop" =>
             \/ ok /\ call[s].op \in {"init", "get"} /\ tab'[c].received = n
                /\ (call[s].op = "init" => stored'[c] = u)
             \/ ok /\ call[s].op = "put" /\ tab'[c].received = LeastOf(tab[c].received + ChunkSize, Size)
             \/ call[s].op = "put" /\ tab'[c].received = tab[c].received
    BY <2>1, <2>2, Heard
  <2>4. Told(s, ok, n, u)
    BY <1>1, <2>1, <2>2, <2>3 DEF Told
  <2>5. WaitInv'
    <3>1. ASSUME NEW t \in Slots, NEW d \in Clients, call'[t].by = d
          PROVE t # s /\ call[t].by = d /\ d # c /\ call'[t] = call[t]
      BY <1>1, <2>1, <3>1, NoCallFacts, NoneIsNobody DEF BaseInv, WaitInv
    <3>2. ASSUME NEW t \in Slots, NEW d \in Clients, call'[t].by = d
          PROVE Answers(call[t], d)' /\ \A r \in Slots : call'[r].by = d => r = t
      BY <2>3, <3>1, <3>2 DEF BaseInv, WaitInv, Answers
    <3>3. ASSUME NEW d \in Clients,
                 tab'[d].pc \in {"resume", "loop", "put", "ask", "realign", "complete"}
          PROVE stored'[d] \in Uploads
      BY <2>3, <3>3 DEF BaseInv, WaitInv
    <3> QED
      BY <3>2, <3>3 DEF WaitInv
  <2> QED
    BY <1>2, <1>3, <2>4, <2>5
<1> QED
  BY <1>4, <1>5

\* What sending leaves.  c is the browser that sends, or None.
Sent(s, c, op, u, off) ==
  /\ call[s] = NoCall
  /\ call' \in [Slots -> Calls] /\ call'[s] # NoCall
  /\ call'[s].op = op /\ call'[s].from = c /\ call'[s].by = c /\ call'[s].id = u
  /\ call'[s].off = off /\ call'[s].at = "start" /\ call'[s].m = NoMeta
  /\ \A t \in Slots \ {s} : call'[t] = call[t]

LEMMA SendFields ==
  ASSUME UploadTypes, NEW s \in Slots, NEW op \in {"init", "get", "put", "complete", "abort"},
         NEW c \in Clients \cup {None}, NEW u \in Uploads \cup {None}, NEW off \in Nat,
         Send(s, c, op, u, off)
  PROVE  Sent(s, c, op, u, off)
<1> DEFINE r == Request(op, c, u, off)
<1>1. /\ r \in Calls /\ r # NoCall /\ r.op = op /\ r.from = c /\ r.by = c /\ r.id = u /\ r.off = off
      /\ r.at = "start" /\ r.m = NoMeta
  <2>1. r \in Calls
    BY RequestFacts
  <2>2. r # NoCall
    BY DEF Request, NoCall, None
  <2> QED
    BY <2>1, <2>2 DEF Request
<1>2. call \in [Slots -> Calls]
  BY DEF UploadTypes
<1>3. call' = [call EXCEPT ![s] = r] /\ call[s] = NoCall
  BY DEF Send
<1> HIDE DEF r
<1> QED
  BY <1>1, <1>2, <1>3 DEF Sent

LEMMA SendsKeepBase ==
  ASSUME BaseInv, NEW s \in Slots, NEW op \in {"init", "get", "put", "complete", "abort"},
         NEW c \in Clients \cup {None}, NEW u \in Uploads \cup {None}, NEW off \in Nat,
         Send(s, c, op, u, off), lock' = lock, stored' = stored,
         op # "init" => u \in Uploads, op \in {"get", "put"} => c \in Clients, op = "abort" => c = None,
         \A d \in Clients \ {c} : tab'[d] = tab[d],
         c \in Clients => /\ tab[c].pc \notin {"init", "resume", "put", "complete", "realign"}
                          /\ Serves(op, tab'[c].pc) /\ (op # "init" => u = stored[c])
                          /\ op = "put" => tab'[c].received = off
  PROVE  CallInv' /\ LockInv' /\ WaitInv'
<1>1. Sent(s, c, op, u, off)
  BY SendFields DEF BaseInv
<1>2. /\ call'[s] # NoCall /\ call'[s].op = op /\ call'[s].from = c /\ call'[s].by = c
      /\ call'[s].id = u /\ call'[s].off = off /\ call'[s].at = "start" /\ call'[s].m = NoMeta
  BY <1>1 DEF Sent
<1>3. \A t \in Slots \ {s} : call'[t] = call[t]
  BY <1>1 DEF Sent
<1>4. CallInv'
  <2>1. CallOK(call'[s])
    BY <1>2 DEF CallOK, Loaded, None
  <2> QED
    BY <1>3, <2>1 DEF BaseInv, CallInv
<1>5. LockInv'
  BY <1>2, <1>3 DEF BaseInv, LockInv, InLock
<1>6. WaitInv'
  <2>1. ASSUME NEW t \in Slots \ {s}, NEW d \in Clients, call[t].by = d PROVE d # c
    BY <2>1 DEF BaseInv, WaitInv, Answers, Serves
  <2>2. ASSUME c \in Clients PROVE Answers(call[s], c)'
    BY <1>2, <1>3, <2>2 DEF Answers
  <2>3. ASSUME NEW t \in Slots \ {s}, NEW d \in Clients, call[t].by = d PROVE Answers(call[t], d)'
    BY <1>3, <2>1, <2>3 DEF BaseInv, WaitInv, Answers
  <2>4. ASSUME NEW d \in Clients,
               tab'[d].pc \in {"resume", "loop", "put", "ask", "realign", "complete"}
        PROVE stored'[d] \in Uploads
    <3>1. CASE d = c
      BY <2>4, <3>1 DEF Serves
    <3> QED
      BY <2>4, <3>1 DEF BaseInv, WaitInv
  <2>5. ASSUME NEW t \in Slots, NEW d \in Clients, call'[t].by = d
        PROVE Answers(call[t], d)' /\ \A x \in Slots : call'[x].by = d => x = t
    <3>1. CASE t = s
      BY <1>2, <1>3, <2>1, <2>2, <2>5, <3>1
    <3>2. CASE t # s
      BY <1>2, <1>3, <2>1, <2>3, <2>5, <3>2 DEF BaseInv, WaitInv
    <3> QED
      BY <3>1, <3>2
  <2> QED
    BY <2>4, <2>5 DEF WaitInv
<1> QED
  BY <1>4, <1>5, <1>6

-----------------------------------------------------------------------------
(* The console's steps.                                                    *)

\* A request that was only sent disturbs nothing: it has loaded nothing yet.
LEMMA SendsKeepRest ==
  ASSUME UploadInv, NEW s \in Slots, NEW op \in {"init", "get", "put", "complete", "abort"},
         NEW c \in Clients \cup {None}, NEW u \in Uploads \cup {None}, NEW off \in Nat,
         Sent(s, c, op, u, off), UNCHANGED serverVars, stored' = stored, spent'.crashes = spent.crashes,
         \A d \in Clients \ {c} : tab'[d] = tab[d],
         c \in Clients => /\ tab'[c].pc \notin {"loop", "done"}
                          /\ tab'[c].pc = "put" => tab[c].pc = "loop" /\ tab'[c].received = tab[c].received,
         op \in {"get", "put"} => c \in Clients /\ u = stored[c]
  PROVE  OwnerInv' /\ AheadInv' /\ RowInv' /\ DiskInv' /\ CareInv'
<1>1. /\ call'[s] # NoCall /\ call'[s].op = op /\ call'[s].from = c /\ call'[s].by = c
      /\ call'[s].id = u /\ call'[s].off = off /\ call'[s].at = "start" /\ call'[s].m = NoMeta
  BY DEF Sent
<1>2. call[s] = NoCall /\ \A t \in Slots \ {s} : call'[t] = call[t]
  BY DEF Sent
<1>3. meta' = meta /\ tmp' = tmp /\ part' = part /\ disk' = disk /\ rows' = rows
  BY DEF serverVars
<1>4. OwnerInv'
  <2>1. ASSUME NEW v \in Uploads, NEW o \in Clients \cup {None}, OwnedBy(v, o) PROVE OwnedBy(v, o)'
    <3>1. call'[s].id = v => /\ call'[s].m = NoMeta
                             /\ call'[s].op \in {"get", "put"} => call'[s].from = o
      BY <1>1, <1>2, <2>1 DEF OwnedBy
    <3> QED
      BY <1>2, <1>3, <2>1, <3>1 DEF OwnedBy
  <2> QED
    BY <2>1 DEF UploadInv, OwnerInv
<1>5. AheadInv'
  <2>1. ASSUME NEW v \in Uploads, part[v] # -1
        PROVE  /\ \A t \in Slots : call'[t].id = v =>
                    /\ call'[t].m.received <= part[v]
                    /\ call'[t].op = "put" /\ call'[t].at # "start" => call'[t].off <= part[v]
               /\ \A d \in Clients : stored[d] = v /\ tab'[d].pc \in {"loop", "put"} =>
                    tab'[d].received <= part[v]
    <3>1. part[v] \in Nat
      BY <2>1 DEF UploadInv, UploadTypes
    <3>2. call'[s].m.received <= part[v] /\ call'[s].at = "start"
      BY <1>1, <1>2, <3>1, NoMetaFacts
    <3>3. ASSUME NEW d \in Clients, stored[d] = v, tab'[d].pc \in {"loop", "put"}
          PROVE  tab'[d].received <= part[v]
      BY <2>1, <3>3 DEF UploadInv, AheadInv
    <3> QED
      BY <1>2, <2>1, <3>2, <3>3 DEF UploadInv, AheadInv
  <2> QED
    BY <1>3, <2>1 DEF UploadInv, AheadInv
<1>6. RowInv'
  BY <1>1, <1>2, <1>3 DEF UploadInv, RowInv, NoRowOf
<1>7. DiskInv'
  BY <1>1, <1>2, <1>3 DEF UploadInv, DiskInv, WholeFile
<1>8. CareInv'
  <2>1. \A t \in Slots, v \in Uploads : CaresFor(call[t], v) => CaresFor(call'[t], v)
    BY <1>2, NoCallFacts DEF CaresFor, None
  <2> QED
    BY <1>3, <2>1 DEF UploadInv, CareInv
<1> QED
  BY <1>4, <1>5, <1>6, <1>7, <1>8

LEMMA SendsKeep ==
  ASSUME UploadInv, NEW s \in Slots, NEW op \in {"init", "get", "put", "complete", "abort"},
         NEW c \in Clients \cup {None}, NEW u \in Uploads \cup {None}, NEW off \in Nat,
         Send(s, c, op, u, off), UNCHANGED serverVars, stored' = stored,
         spent' \in [tries : Nat, drops : Nat, crashes : Nat, others : Nat],
         spent'.crashes = spent.crashes, tab' \in [Clients -> Tabs],
         op # "init" => u \in Uploads, op \in {"get", "put"} => c \in Clients, op = "abort" => c = None,
         \A d \in Clients \ {c} : tab'[d] = tab[d],
         c \in Clients => /\ tab[c].pc \notin {"init", "resume", "put", "complete", "realign"}
                          /\ Serves(op, tab'[c].pc) /\ (op # "init" => u = stored[c])
                          /\ op = "put" => /\ tab[c].pc = "loop" /\ off = tab[c].received
                                           /\ tab'[c].received = tab[c].received
  PROVE  UploadInv'
<1>1. Sent(s, c, op, u, off)
  BY SendFields DEF UploadInv
<1>2. lock' = lock /\ meta' = meta /\ tmp' = tmp /\ part' = part
  BY DEF serverVars
<1>3. UploadTypes'
  BY <1>1, <1>2 DEF UploadInv, UploadTypes, Sent
<1>4. BaseInv
  BY DEF UploadInv, BaseInv
<1>5. c \in Clients => /\ tab[c].pc \notin {"init", "resume", "put", "complete", "realign"}
                       /\ Serves(op, tab'[c].pc) /\ (op # "init" => u = stored[c])
                       /\ op = "put" => tab'[c].received = off
  OBVIOUS
<1>6. CallInv' /\ LockInv' /\ WaitInv'
  BY <1>2, <1>4, <1>5, SendsKeepBase
<1>7. c \in Clients => /\ tab'[c].pc \notin {"loop", "done"}
                       /\ tab'[c].pc = "put" => tab[c].pc = "loop" /\ tab'[c].received = tab[c].received
  BY DEF Serves
<1>8. op \in {"get", "put"} => c \in Clients /\ u = stored[c]
  OBVIOUS
<1>9. OwnerInv' /\ AheadInv' /\ RowInv' /\ DiskInv' /\ CareInv'
  BY <1>1, <1>7, <1>8, SendsKeepRest
<1> QED
  BY <1>3, <1>6, <1>9 DEF UploadInv

\* A tab that goes from one place to another.
LEMMA TabMoves ==
  ASSUME UploadTypes, NEW c \in Clients, NEW pc \in PCs, NEW n \in Nat,
         tab' = [tab EXCEPT ![c].pc = pc, ![c].tries = n]
  PROVE  /\ tab' \in [Clients -> Tabs] /\ \A d \in Clients \ {c} : tab'[d] = tab[d]
         /\ tab'[c].pc = pc /\ tab'[c].received = tab[c].received
<1> DEFINE t == [tab[c] EXCEPT !.pc = pc, !.tries = n]
<1>1. tab \in [Clients -> Tabs] /\ tab[c] \in Tabs
  BY DEF UploadTypes
<1>2. t \in Tabs /\ t.pc = pc /\ t.received = tab[c].received
  BY <1>1 DEF Tabs
<1>3. tab' = [tab EXCEPT ![c] = t]
  BY <1>1
<1> HIDE DEF t
<1> QED
  BY <1>1, <1>2, <1>3

LEMMA TabTurns ==
  ASSUME UploadTypes, NEW c \in Clients, NEW pc \in PCs, tab' = [tab EXCEPT ![c].pc = pc]
  PROVE  /\ tab' \in [Clients -> Tabs] /\ \A d \in Clients \ {c} : tab'[d] = tab[d]
         /\ tab'[c].pc = pc /\ tab'[c].received = tab[c].received
<1> DEFINE t == [tab[c] EXCEPT !.pc = pc]
<1>1. tab \in [Clients -> Tabs] /\ tab[c] \in Tabs
  BY DEF UploadTypes
<1>2. t \in Tabs /\ t.pc = pc /\ t.received = tab[c].received
  BY <1>1 DEF Tabs
<1>3. tab' = [tab EXCEPT ![c] = t]
  OBVIOUS
<1> HIDE DEF t
<1> QED
  BY <1>1, <1>2, <1>3

LEMMA BeginKeeps ==
  ASSUME UploadInv, NEW c \in Clients, NEW s \in Slots, Begin(c, s)
  PROVE  UploadInv'
<1> DEFINE op == IF stored[c] = None THEN "init" ELSE "get"
           t == [Idle EXCEPT !.pc = IF stored[c] = None THEN "init" ELSE "resume"]
<1>1. /\ tab \in [Clients -> Tabs] /\ stored[c] \in Uploads \cup {None} /\ tab[c].pc \in {"idle", "failed"}
      /\ spent \in [tries : Nat, drops : Nat, crashes : Nat, others : Nat]
  BY DEF UploadInv, UploadTypes, Begin
<1>2. t \in Tabs /\ Serves(op, t.pc)
  BY DEF Tabs, PCs, Idle, Serves
<1>3. op \in {"init", "get"} /\ (op # "init" => stored[c] \in Uploads)
  BY <1>1
<1>4. Send(s, c, op, stored[c], 0) /\ tab' = [tab EXCEPT ![c] = t] /\ UNCHANGED serverVars /\ stored' = stored
  BY DEF Begin
<1>5. /\ spent' \in [tries : Nat, drops : Nat, crashes : Nat, others : Nat]
      /\ spent'.crashes = spent.crashes
  BY <1>1 DEF Begin
<1> HIDE DEF op, t
<1>6. /\ tab' \in [Clients -> Tabs] /\ Serves(op, tab'[c].pc)
      /\ \A d \in Clients \ {c} : tab'[d] = tab[d]
  BY <1>1, <1>2, <1>4
<1> QED
  BY <1>1, <1>3, <1>4, <1>5, <1>6, SendsKeep

LEMMA ClientKeeps ==
  ASSUME UploadInv, NEW c \in Clients, NEW s \in Slots,
         Fresh(c, s) \/ NextChunk(c, s) \/ Finish(c, s) \/ Realign(c, s)
  PROVE  UploadInv'
<1>1. /\ UploadTypes /\ stored[c] \in Uploads \cup {None} /\ tab[c] \in Tabs
      /\ tab[c].pc \in {"loop", "ask"} => stored[c] \in Uploads
      /\ tab[c].received \in Nat /\ tab[c].tries + 1 \in Nat
  BY DEF UploadInv, UploadTypes, WaitInv, Tabs
<1>2. UNCHANGED serverVars /\ stored' = stored /\ spent' = spent
  BY DEF Fresh, NextChunk, Finish, Realign
<1>3. /\ spent' \in [tries : Nat, drops : Nat, crashes : Nat, others : Nat]
      /\ spent'.crashes = spent.crashes
  BY <1>2 DEF UploadInv, UploadTypes
<1>4. CASE Fresh(c, s)
  <2>1. tab[c].pc = "fresh" /\ Send(s, c, "init", None, 0) /\ tab' = [tab EXCEPT ![c].pc = "init"]
    BY <1>4 DEF Fresh
  <2>2. /\ tab' \in [Clients -> Tabs] /\ \A d \in Clients \ {c} : tab'[d] = tab[d]
        /\ Serves("init", tab'[c].pc)
    BY <1>1, <2>1, TabTurns DEF PCs, Serves
  <2> QED
    BY <1>2, <1>3, <2>1, <2>2, SendsKeep
<1>5. CASE NextChunk(c, s)
  <2>1. /\ tab[c].pc = "loop" /\ Send(s, c, "put", stored[c], tab[c].received)
        /\ tab' = [tab EXCEPT ![c].pc = "put", ![c].tries = tab[c].tries + 1]
    BY <1>5 DEF NextChunk
  <2>2. /\ tab' \in [Clients -> Tabs] /\ \A d \in Clients \ {c} : tab'[d] = tab[d]
        /\ Serves("put", tab'[c].pc) /\ tab'[c].received = tab[c].received
    BY <1>1, <2>1, TabMoves DEF PCs, Serves
  <2> QED
    BY <1>1, <1>2, <1>3, <2>1, <2>2, SendsKeep
<1>6. CASE Finish(c, s)
  <2>1. /\ tab[c].pc = "loop" /\ Send(s, c, "complete", stored[c], 0)
        /\ tab' = [tab EXCEPT ![c].pc = "complete"]
    BY <1>6 DEF Finish
  <2>2. /\ tab' \in [Clients -> Tabs] /\ \A d \in Clients \ {c} : tab'[d] = tab[d]
        /\ Serves("complete", tab'[c].pc)
    BY <1>1, <2>1, TabTurns DEF PCs, Serves
  <2> QED
    BY <1>1, <1>2, <1>3, <2>1, <2>2, SendsKeep
<1>7. CASE Realign(c, s)
  <2>1. /\ tab[c].pc = "ask" /\ Send(s, c, "get", stored[c], 0)
        /\ tab' = [tab EXCEPT ![c].pc = "realign"]
    BY <1>7 DEF Realign
  <2>2. /\ tab' \in [Clients -> Tabs] /\ \A d \in Clients \ {c} : tab'[d] = tab[d]
        /\ Serves("get", tab'[c].pc)
    BY <1>1, <2>1, TabTurns DEF PCs, Serves
  <2> QED
    BY <1>1, <1>2, <1>3, <2>1, <2>2, SendsKeep
<1> QED
  BY <1>4, <1>5, <1>6, <1>7

LEMMA OtherKeeps ==
  ASSUME UploadInv, NEW s \in Slots, Other(s)
  PROVE  UploadInv'
<1>1. /\ UNCHANGED serverVars /\ stored' = stored /\ tab' = tab
      /\ spent' = [spent EXCEPT !.others = spent.others + 1]
      /\ tab \in [Clients -> Tabs]
      /\ spent \in [tries : Nat, drops : Nat, crashes : Nat, others : Nat]
  BY DEF Other, UploadInv, UploadTypes
<1>2. /\ spent' \in [tries : Nat, drops : Nat, crashes : Nat, others : Nat]
      /\ spent'.crashes = spent.crashes
  BY <1>1
<1>3. None \notin Clients
  BY NoneIsNobody
<1>4. CASE Send(s, None, "init", None, 0)
  BY <1>1, <1>2, <1>3, <1>4, SendsKeep
<1>5. ASSUME NEW u \in Uploads, NEW op \in {"abort", "complete"}, Send(s, None, op, u, 0) PROVE UploadInv'
  BY <1>1, <1>2, <1>3, <1>5, SendsKeep
<1> QED
  BY <1>4, <1>5 DEF Other

-----------------------------------------------------------------------------
(* Accidents.                                                              *)

LEMMA AgeKeeps ==
  ASSUME UploadInv, Age
  PROVE  UploadInv'
<1> DEFINE Old(m) == IF m = NoMeta THEN NoMeta ELSE [m EXCEPT !.fresh = FALSE]
<1>1. /\ tmp' = tmp /\ part' = part /\ disk' = disk /\ rows' = rows /\ lock' = lock /\ call' = call
      /\ tab' = tab /\ stored' = stored /\ spent' = spent
      /\ meta' = [u \in Uploads |-> Old(meta[u])] /\ \A s \in Slots : call[s] = NoCall
  BY DEF Age, KeepBrowsers, KeepBounds
<1>2. ASSUME NEW m \in Metas
      PROVE  /\ Old(m) \in Metas /\ (Old(m) = NoMeta <=> m = NoMeta)
             /\ Old(m).client = m.client /\ Old(m).received = m.received
  <2>1. CASE m = NoMeta
    BY <2>1, NoMetaFacts
  <2>2. CASE m # NoMeta
    BY <2>2, OlderMeta
  <2> QED
    BY <2>1, <2>2
<1> HIDE DEF Old
<1>3. ASSUME NEW u \in Uploads
      PROVE  /\ meta'[u] \in Metas /\ (meta'[u] = NoMeta <=> meta[u] = NoMeta)
             /\ meta'[u].client = meta[u].client /\ meta'[u].received = meta[u].received
  BY <1>1, <1>2 DEF UploadInv, UploadTypes
<1>4. UploadTypes'
  BY <1>1, <1>2 DEF UploadInv, UploadTypes
<1>5. CallInv' /\ LockInv' /\ WaitInv'
  BY <1>1 DEF UploadInv, CallInv, LockInv, WaitInv, Answers
<1>6. OwnerInv'
  BY <1>1, <1>3 DEF UploadInv, OwnerInv, OwnedBy
<1>7. AheadInv'
  BY <1>1, <1>3 DEF UploadInv, AheadInv
<1>8. RowInv' /\ DiskInv' /\ CareInv'
  BY <1>1, <1>3 DEF UploadInv, RowInv, NoRowOf, DiskInv, WholeFile, CareInv
<1> QED
  BY <1>4, <1>5, <1>6, <1>7, <1>8 DEF UploadInv

LEMMA DropKeeps ==
  ASSUME UploadInv, NEW s \in Slots, Drop(s)
  PROVE  UploadInv'
<1> DEFINE r == [call[s] EXCEPT !.by = None]
<1>1. /\ meta' = meta /\ tmp' = tmp /\ part' = part /\ disk' = disk /\ rows' = rows /\ lock' = lock
      /\ spent' = [spent EXCEPT !.drops = spent.drops + 1] /\ call' = [call EXCEPT ![s] = r]
      /\ call[s] # NoCall /\ call[s].by # None
  BY DEF Drop, serverVars
<1>2. PICK c \in Clients : call[s].by = c
  BY <1>1 DEF UploadInv, UploadTypes, Calls
<1>3. Hear(c, FALSE, 0, None) /\ BaseInv /\ Answers(call[s], c)
  BY <1>2 DEF Drop, UploadInv, BaseInv, WaitInv
<1>4. /\ tab' \in [Clients -> Tabs] /\ stored' \in [Clients -> Uploads \cup {None}]
      /\ \A d \in Clients \ {c} : tab'[d] = tab[d] /\ stored'[d] = stored[d]
      /\ tab'[c].pc \in {"fresh", "loop", "ask", "failed"}
      /\ tab'[c].pc \in {"loop", "ask"} => stored'[c] \in Uploads
      /\ stored'[c] \in {stored[c], None}
      /\ tab'[c].pc = "loop" => call[s].op = "put" /\ tab'[c].received = tab[c].received
  BY <1>2, <1>3, Heard
<1>5. call \in [Slots -> Calls] /\ call[s] \in Calls
  BY DEF UploadInv, UploadTypes
<1>6. /\ r \in Calls /\ r.op = call[s].op /\ r.from = call[s].from /\ r.by = None /\ r.id = call[s].id
      /\ r.at = call[s].at /\ r.off = call[s].off /\ r.m = call[s].m
  BY <1>5 DEF Calls
<1> HIDE DEF r
<1>7. call' \in [Slots -> Calls] /\ call'[s] = r /\ \A t \in Slots \ {s} : call'[t] = call[t]
  BY <1>1, <1>5, <1>6
<1>8. UploadTypes'
  BY <1>1, <1>4, <1>7 DEF UploadInv, UploadTypes
<1>9. CallInv'
  <2>1. r # NoCall /\ CallOK(call[s]) /\ call[s].op # None
    BY <1>1, <1>6, NoCallFacts DEF UploadInv, CallInv, CallOK
  <2>2. CallOK(r)
    BY <1>1, <1>6, <2>1 DEF CallOK, Loaded
  <2> QED
    BY <1>7, <2>2 DEF UploadInv, CallInv
<1>10. LockInv'
  BY <1>1, <1>6, <1>7 DEF UploadInv, LockInv, InLock
<1>11. WaitInv'
  <2>1. ASSUME NEW t \in Slots, NEW d \in Clients, call'[t].by = d
        PROVE t # s /\ call'[t] = call[t] /\ d # c
    BY <1>2, <1>6, <1>7, <2>1, NoneIsNobody DEF UploadInv, WaitInv
  <2>2. ASSUME NEW t \in Slots, NEW d \in Clients, call'[t].by = d
        PROVE Answers(call[t], d)' /\ \A x \in Slots : call'[x].by = d => x = t
    BY <1>4, <2>1, <2>2 DEF UploadInv, WaitInv, Answers
  <2>3. ASSUME NEW d \in Clients,
               tab'[d].pc \in {"resume", "loop", "put", "ask", "realign", "complete"}
        PROVE stored'[d] \in Uploads
    BY <1>4, <2>3 DEF UploadInv, WaitInv
  <2> QED
    BY <2>2, <2>3 DEF WaitInv
<1>12. OwnerInv'
  <2>1. ASSUME NEW u \in Uploads, NEW o \in Clients \cup {None}, OwnedBy(u, o) PROVE OwnedBy(u, o)'
    <3>1. \A d \in Clients : stored'[d] = u => stored[d] = u
      BY <1>4, NoneIsNobody
    <3>2. \A t \in Slots : /\ call'[t].id = call[t].id /\ call'[t].m = call[t].m
                           /\ call'[t].op = call[t].op /\ call'[t].from = call[t].from
      BY <1>6, <1>7
    <3> QED
      BY <1>1, <2>1, <3>1, <3>2 DEF OwnedBy
  <2> QED
    BY <2>1 DEF UploadInv, OwnerInv
<1>13. AheadInv'
  <2>1. ASSUME NEW u \in Uploads, part[u] # -1, NEW d \in Clients,
               stored'[d] = u, tab'[d].pc \in {"loop", "put"}
        PROVE  tab'[d].received <= part[u]
    <3>1. CASE d = c
      BY <1>3, <1>4, <2>1, <3>1, NoneIsNobody DEF UploadInv, AheadInv, Answers, Serves
    <3> QED
      BY <1>4, <2>1, <3>1 DEF UploadInv, AheadInv
  <2>2. \A t \in Slots : /\ call'[t].id = call[t].id /\ call'[t].m = call[t].m /\ call'[t].off = call[t].off
                         /\ call'[t].op = call[t].op /\ call'[t].at = call[t].at
    BY <1>6, <1>7
  <2> QED
    BY <1>1, <2>1, <2>2 DEF UploadInv, AheadInv
<1>14. RowInv' /\ DiskInv' /\ CareInv'
  <2>1. \A t \in Slots : /\ call'[t].id = call[t].id /\ call'[t].m = call[t].m
                         /\ call'[t].op = call[t].op /\ call'[t].at = call[t].at
    BY <1>6, <1>7
  <2>2. \A d \in Clients : tab'[d].pc = "done" => tab[d].pc = "done"
    BY <1>4
  <2>3. spent'.crashes = spent.crashes
    BY <1>1 DEF UploadInv, UploadTypes
  <2>4. RowInv'
    BY <1>1, <2>1, <2>2 DEF UploadInv, RowInv, NoRowOf
  <2>5. DiskInv'
    BY <1>1, <2>1 DEF UploadInv, DiskInv, WholeFile
  <2>6. CareInv'
    BY <1>1, <2>1, <2>3 DEF UploadInv, CareInv, CaresFor
  <2> QED
    BY <2>4, <2>5, <2>6
<1> QED
  BY <1>8, <1>9, <1>10, <1>11, <1>12, <1>13, <1>14 DEF UploadInv

LEMMA CrashKeeps ==
  ASSUME UploadInv, Crash
  PROVE  UploadInv'
<1>1. /\ meta' = meta /\ tmp' = tmp /\ part' = part /\ disk' = disk /\ rows' = rows /\ lock' = NoSlot
      /\ spent' = [spent EXCEPT !.crashes = spent.crashes + 1] /\ call' = [s \in Slots |-> NoCall]
  BY DEF Crash
<1>2. tab \in [Clients -> Tabs] /\ stored \in [Clients -> Uploads \cup {None}]
  BY DEF UploadInv, UploadTypes
<1>3. ASSUME NEW c \in Clients
      PROVE  /\ tab'[c] \in Tabs /\ stored'[c] \in {stored[c], None}
             /\ \/ tab'[c] = tab[c] /\ stored'[c] = stored[c]
                \/ \E s \in Slots : call[s].by = c /\ tab'[c] = Refused(tab[c]) /\ stored'[c] = Stored(c, FALSE, None)
  <2> DEFINE waits == \E s \in Slots : call[s] # NoCall /\ call[s].by = c
  <2>1. /\ tab'[c] = IF waits THEN Refused(tab[c]) ELSE tab[c]
        /\ stored'[c] = IF waits THEN Stored(c, FALSE, None) ELSE stored[c]
    BY DEF Crash
  <2>2. Refused(tab[c]) \in Tabs /\ Stored(c, FALSE, None) \in {stored[c], None}
    BY <1>2, RefusedFacts DEF Stored
  <2> QED
    BY <1>2, <2>1, <2>2
<1>4. tab' \in [Clients -> Tabs] /\ stored' \in [Clients -> Uploads \cup {None}]
  <2>1. DOMAIN tab' = Clients /\ DOMAIN stored' = Clients
    BY DEF Crash
  <2>2. tab' = [c \in Clients |-> tab'[c]] /\ stored' = [c \in Clients |-> stored'[c]]
    BY DEF Crash
  <2>3. \A c \in Clients : tab'[c] \in Tabs /\ stored'[c] \in Uploads \cup {None}
    BY <1>2, <1>3
  <2> QED
    BY <2>2, <2>3
<1>5. ASSUME NEW c \in Clients
      PROVE  /\ tab'[c].pc = "done" => tab[c].pc = "done"
             /\ tab'[c].pc \in {"resume", "put", "realign", "complete"} => tab'[c] = tab[c]
             /\ tab'[c].pc \in {"resume", "loop", "put", "ask", "realign", "complete"} =>
                  /\ stored'[c] = stored[c] /\ stored[c] \in Uploads
                  /\ tab'[c].received = tab[c].received
             /\ tab'[c].pc = "loop" => tab[c].pc \in {"loop", "put"}
  <2>1. CASE tab'[c] = tab[c] /\ stored'[c] = stored[c]
    BY <2>1 DEF UploadInv, WaitInv
  <2>2. ASSUME NEW s \in Slots, call[s].by = c, tab'[c] = Refused(tab[c]), stored'[c] = Stored(c, FALSE, None)
        PROVE  /\ tab'[c].pc = "done" => tab[c].pc = "done"
               /\ tab'[c].pc \notin {"resume", "put", "realign", "complete"}
               /\ tab'[c].pc \in {"resume", "loop", "put", "ask", "realign", "complete"} =>
                    /\ stored'[c] = stored[c] /\ stored[c] \in Uploads
                    /\ tab'[c].received = tab[c].received
               /\ tab'[c].pc = "loop" => tab[c].pc \in {"loop", "put"}
    <3>1. tab[c].pc \in {"init", "resume", "put", "realign", "complete"}
      BY <2>2 DEF UploadInv, WaitInv, Answers, Serves
    <3>2. tab[c] \in Tabs
      BY <1>2
    <3>3. tab[c].pc = "put" => stored'[c] = stored[c] /\ stored[c] \in Uploads
      BY <2>2 DEF UploadInv, WaitInv, Stored
    <3>4. /\ tab'[c].received = tab[c].received
          /\ tab[c].pc = "resume" => tab'[c].pc = "fresh"
          /\ tab[c].pc = "put" => tab'[c].pc \in {"loop", "ask"}
          /\ tab[c].pc \notin {"resume", "put"} => tab'[c].pc = "failed"
      BY <2>2, <3>2, RefusedFacts
    <3> QED
      BY <3>1, <3>3, <3>4
  <2> QED
    BY <1>3, <2>1, <2>2
<1>6. UploadTypes'
  <2>1. spent' \in [tries : Nat, drops : Nat, crashes : Nat, others : Nat]
    BY <1>1 DEF UploadInv, UploadTypes
  <2>2. call' \in [Slots -> Calls]
    BY <1>1, NoCallFacts
  <2> QED
    BY <1>1, <1>4, <2>1, <2>2 DEF UploadInv, UploadTypes
<1>7. CallInv' /\ LockInv'
  BY <1>1, NoCallOK DEF CallInv, LockInv
<1>8. \A s \in Slots : /\ call'[s] = NoCall /\ call'[s].by = None /\ call'[s].id = None /\ call'[s].op = None
  BY <1>1, NoCallFacts
<1>9. WaitInv'
  BY <1>5, <1>8, NoneIsNobody DEF WaitInv
<1>10. OwnerInv'
  <2>1. ASSUME NEW u \in Uploads, NEW o \in Clients \cup {None}, OwnedBy(u, o) PROVE OwnedBy(u, o)'
    <3>1. ASSUME NEW d \in Clients, stored'[d] = u PROVE stored[d] = u
      <4>1. stored'[d] \in {stored[d], None}
        BY <1>3
      <4> QED
        BY <3>1, <4>1, NoneIsNobody
    <3> QED
      BY <1>1, <1>8, <2>1, <3>1, NoneIsNobody DEF OwnedBy
  <2> QED
    BY <2>1 DEF UploadInv, OwnerInv
<1>11. AheadInv'
  BY <1>1, <1>5, <1>8, NoneIsNobody DEF UploadInv, AheadInv
<1>12. RowInv'
  BY <1>1, <1>5, <1>8 DEF UploadInv, RowInv, None
<1>13. DiskInv'
  BY <1>1, <1>8 DEF UploadInv, DiskInv, WholeFile, None
<1>14. CareInv'
  BY <1>1 DEF UploadInv, UploadTypes, CareInv
<1> QED
  BY <1>6, <1>7, <1>9, <1>10, <1>11, <1>12, <1>13, <1>14 DEF UploadInv

-----------------------------------------------------------------------------
(* Handlers.                                                               *)

LEMMA AtFacts ==
  ASSUME UploadInv, NEW s \in Slots, NEW op, NEW place, At(s, op, place)
  PROVE  /\ UploadTypes /\ BaseInv /\ CallOK(call[s])
         /\ call[s] # NoCall /\ call[s].op = op /\ call[s].at = place
         /\ call[s].from \in Clients \cup {None} /\ call[s].id \in Uploads \cup {None}
         /\ call[s].off \in Nat /\ call[s].m \in Metas
BY DEF At, UploadInv, UploadTypes, BaseInv, CallInv, Calls

\* What is asked of the files: every upload is whose it was, its data at least as
\* long, and nobody's copy is ahead of it.  id and m are what the handler goes on with.
DataGo(s, id, off, m) ==
  /\ meta' \in [Uploads -> Metas] /\ tmp' \in [Uploads -> Metas] /\ part' \in [Uploads -> Nat \cup {-1}]
  /\ spent' = spent
  /\ \A v \in Uploads, o \in Clients \cup {None} : OwnedBy(v, o) =>
       /\ meta'[v] # NoMeta => meta'[v].client = o
       /\ tmp'[v] # NoMeta => tmp'[v].client = o
       /\ id = v /\ m # NoMeta => m.client = o
       /\ part'[v] \in Nat \ {0} => o \in Clients
  /\ \A v \in Uploads : part'[v] # -1 =>
       /\ part[v] # -1 /\ part[v] <= part'[v]
       /\ meta'[v].received <= part'[v] /\ tmp'[v].received <= part'[v]
       /\ id = v => /\ m.received <= part'[v]
                    /\ call[s].op = "put" => off <= part'[v]

\* Nothing is registered, and no data grow while somebody completes an upload.
ImagesStay ==
  /\ rows' = rows /\ disk' = disk
  /\ \A v \in Uploads :
       \/ part'[v] \in {part[v], -1}
       \/ part[v] # -1 /\ \A t \in Slots : call[t].op = "complete" => call[t].at = "start"

FilesGo(s, id, off, m) == DataGo(s, id, off, m) /\ ImagesStay

\* Who cared for data without metadata goes on caring, or has done it.
CareGoes(s) ==
  \A v \in Uploads : part'[v] # -1 /\ meta'[v] = NoMeta =>
    \/ CaresFor(call'[s], v)
    \/ part[v] # -1 /\ meta[v] = NoMeta /\ ~CaresFor(call[s], v)

LEMMA GoKeepsMost ==
  ASSUME UploadInv, NEW s \in Slots, NEW at \in Places, NEW id \in Uploads \cup {None},
         NEW off \in Nat, NEW m \in Metas, Moves(s, at, id, off, m), KeepBrowsers,
         call[s] # NoCall, CallOK(call'[s]),
         call[s].op # "init" => id = call[s].id,
         call[s].op = "put" => /\ at # "start"
                               /\ m.received = IF call[s].at = "start" THEN call[s].off ELSE call[s].m.received,
         \/ lock' = lock /\ (InLock(call'[s]) => InLock(call[s]))
         \/ lock = NoSlot /\ lock' = s,
         DataGo(s, id, off, m), CareGoes(s)
  PROVE  /\ UploadTypes' /\ CallInv' /\ LockInv' /\ WaitInv' /\ OwnerInv' /\ AheadInv' /\ CareInv'
         /\ \A t \in Slots \ {s} : call'[t] = call[t]
         /\ call'[s].op = call[s].op /\ call'[s].at = at /\ call'[s].id = id /\ call'[s].m = m
         /\ tab' = tab
<1>1. UploadTypes /\ BaseInv
  BY DEF UploadInv, BaseInv
<1>2. /\ call' \in [Slots -> Calls] /\ \A t \in Slots \ {s} : call'[t] = call[t]
      /\ call'[s].op = call[s].op /\ call'[s].from = call[s].from /\ call'[s].by = call[s].by
      /\ call'[s].at = at /\ call'[s].id = id /\ call'[s].off = off /\ call'[s].m = m
  BY <1>1, MoveFields
<1>3. CallInv' /\ LockInv' /\ WaitInv'
  BY <1>1, MovesKeepBase
<1>4. /\ tab' = tab /\ stored' = stored /\ spent' = spent
  BY DEF KeepBrowsers, DataGo
<1>5. UploadTypes'
  BY <1>1, <1>2, <1>4 DEF UploadTypes, DataGo
<1>6. OwnerInv'
  <2>1. ASSUME NEW v \in Uploads, NEW o \in Clients \cup {None}, OwnedBy(v, o) PROVE OwnedBy(v, o)'
    <3>1. /\ meta'[v] # NoMeta => meta'[v].client = o
          /\ tmp'[v] # NoMeta => tmp'[v].client = o
          /\ call'[s].id = v /\ call'[s].m # NoMeta => call'[s].m.client = o
          /\ part'[v] \in Nat \ {0} => o \in Clients
      BY <1>2, <2>1 DEF DataGo
    <3>2. call'[s].id = v /\ call'[s].op \in {"get", "put"} => call'[s].from = o
      BY <1>2, <2>1 DEF OwnedBy
    <3> QED
      BY <1>2, <1>4, <2>1, <3>1, <3>2 DEF OwnedBy
  <2> QED
    BY <2>1 DEF UploadInv, OwnerInv
<1>7. AheadInv'
  <2> SUFFICES ASSUME NEW v \in Uploads, part'[v] # -1
               PROVE  /\ meta'[v].received <= part'[v] /\ tmp'[v].received <= part'[v]
                      /\ \A t \in Slots : call'[t].id = v =>
                           /\ call'[t].m.received <= part'[v]
                           /\ call'[t].op = "put" /\ call'[t].at # "start" => call'[t].off <= part'[v]
                      /\ \A c \in Clients : stored'[c] = v /\ tab'[c].pc \in {"loop", "put"} =>
                           tab'[c].received <= part'[v]
    BY DEF AheadInv
  <2>1. part[v] # -1 /\ part[v] <= part'[v] /\ part[v] \in Nat /\ part'[v] \in Nat
    BY <1>1, <1>5 DEF DataGo, UploadTypes
  <2>2. meta'[v].received <= part'[v] /\ tmp'[v].received <= part'[v]
    BY DEF DataGo
  <2>3. call'[s].id = v => /\ call'[s].m.received <= part'[v]
                           /\ call'[s].op = "put" => call'[s].off <= part'[v]
    BY <1>2 DEF DataGo
  <2>4. ASSUME NEW t \in Slots \ {s}, call'[t].id = v
        PROVE  /\ call'[t].m.received <= part'[v]
               /\ call'[t].op = "put" /\ call'[t].at # "start" => call'[t].off <= part'[v]
    <3>1. /\ call[t].m.received <= part[v] /\ call[t].m.received \in Int /\ call[t].off \in Nat
          /\ call[t].op = "put" /\ call[t].at # "start" => call[t].off <= part[v]
      <4>1. call[t] \in Calls /\ call[t].m.received \in Int
        BY <1>1, NoMetaFacts DEF UploadTypes, Calls
      <4> QED
        BY <1>2, <2>1, <2>4, <4>1 DEF UploadInv, AheadInv, Calls
    <3> QED
      BY <1>2, <2>1, <3>1
  <2>5. ASSUME NEW c \in Clients, stored'[c] = v, tab'[c].pc \in {"loop", "put"}
        PROVE  tab'[c].received <= part'[v]
    <3>1. tab[c].received \in Nat /\ tab[c].received <= part[v]
      BY <1>1, <1>4, <2>1, <2>5 DEF UploadInv, AheadInv, UploadTypes, Tabs
    <3> QED
      BY <1>4, <2>1, <3>1
  <2> QED
    BY <2>2, <2>3, <2>4, <2>5
<1>8. CareInv'
  <2>1. ASSUME spent.crashes = 0, NEW v \in Uploads, part'[v] # -1, meta'[v] = NoMeta
        PROVE  \E t \in Slots : CaresFor(call'[t], v)
    BY <1>2, <2>1 DEF CareGoes, UploadInv, CareInv
  <2> QED
    BY <1>4, <2>1 DEF CareInv
<1> QED
  BY <1>2, <1>3, <1>4, <1>5, <1>6, <1>7, <1>8

LEMMA ImagesKeep ==
  ASSUME UploadInv, ImagesStay, UploadTypes',
         \A t \in Slots : call'[t].op = "complete" => call'[t] = call[t],
         \A c \in Clients : tab'[c].pc = "done" => tab[c].pc = "done"
  PROVE  RowInv' /\ DiskInv'
<1>1. rows' = rows /\ disk' = disk
  BY DEF ImagesStay
<1>2. \A v \in Uploads : part[v] = -1 => part'[v] = -1
  BY DEF ImagesStay, UploadInv, UploadTypes
<1>3. ASSUME NEW t \in Slots, call'[t].op = "complete", call'[t].at # "start"
      PROVE  /\ call'[t] = call[t] /\ call[t].id \in Uploads
             /\ part'[call[t].id] \in {part[call[t].id], -1}
  <2>1. call'[t] = call[t] /\ call[t].id \in Uploads
    BY <1>3 DEF UploadInv, CallInv, CallOK
  <2> QED
    BY <1>3, <2>1 DEF ImagesStay
<1>4. RowInv'
  BY <1>1, <1>2, <1>3 DEF UploadInv, RowInv, NoRowOf
<1>5. DiskInv'
  BY <1>1, <1>3 DEF UploadInv, DiskInv, WholeFile
<1> QED
  BY <1>4, <1>5

LEMMA GoKeeps ==
  ASSUME UploadInv, NEW s \in Slots, NEW at \in Places, NEW id \in Uploads \cup {None},
         NEW off \in Nat, NEW m \in Metas, Moves(s, at, id, off, m), KeepBrowsers,
         call[s] # NoCall, CallOK(call'[s]), call[s].op # "complete",
         call[s].op # "init" => id = call[s].id,
         call[s].op = "put" => /\ at # "start"
                               /\ m.received = IF call[s].at = "start" THEN call[s].off ELSE call[s].m.received,
         \/ lock' = lock /\ (InLock(call'[s]) => InLock(call[s]))
         \/ lock = NoSlot /\ lock' = s,
         FilesGo(s, id, off, m), CareGoes(s)
  PROVE  UploadInv'
<1>1. /\ UploadTypes' /\ CallInv' /\ LockInv' /\ WaitInv' /\ OwnerInv' /\ AheadInv' /\ CareInv'
      /\ \A t \in Slots \ {s} : call'[t] = call[t]
      /\ call'[s].op = call[s].op /\ tab' = tab
  BY GoKeepsMost DEF FilesGo
<1>2. RowInv' /\ DiskInv'
  <2>1. \A t \in Slots : call'[t].op = "complete" => call'[t] = call[t]
    BY <1>1
  <2> QED
    BY <1>1, <2>1, ImagesKeep DEF FilesGo, UploadInv
<1> QED
  BY <1>1, <1>2 DEF UploadInv

LEMMA AnswersKeepMost ==
  ASSUME UploadInv, NEW s \in Slots, NEW ok \in BOOLEAN, NEW n \in Nat, NEW u \in Uploads \cup {None},
         Reply(s, ok, n, u), lock' = lock \/ Release(s), call[s] # NoCall,
         ok /\ call[s].op = "init" => n = 0 /\ u = call[s].id /\ call[s].at = "save",
         ok /\ call[s].op = "get" => n <= call[s].m.received,
         ok /\ call[s].op = "put" => call[s].at = "rename",
         DataGo(s, None, 0, NoMeta), CareGoes(s)
  PROVE  /\ UploadTypes' /\ CallInv' /\ LockInv' /\ WaitInv' /\ OwnerInv' /\ AheadInv' /\ CareInv'
         /\ call'[s] = NoCall /\ \A t \in Slots \ {s} : call'[t] = call[t]
         /\ \A d \in Clients : \/ tab'[d] = tab[d]
                               \/ call[s].by = d /\ (tab'[d].pc = "done" => ok /\ call[s].op = "complete")
<1>1. UploadTypes /\ BaseInv /\ CallOK(call[s]) /\ call[s] \in Calls
  BY DEF UploadInv, BaseInv, CallInv, UploadTypes
<1>2. ok /\ call[s].op = "init" => u \in Uploads
  BY <1>1 DEF CallOK
<1>3. Told(s, ok, n, u) /\ CallInv' /\ LockInv' /\ WaitInv'
  BY <1>1, <1>2, RepliesKeepBase
<1>4. /\ call' \in [Slots -> Calls] /\ call'[s] = NoCall /\ \A t \in Slots \ {s} : call'[t] = call[t]
      /\ tab' \in [Clients -> Tabs] /\ stored' \in [Clients -> Uploads \cup {None}]
      /\ \A d \in Clients :
           \/ tab'[d] = tab[d] /\ stored'[d] = stored[d]
           \/ /\ call[s].by = d /\ Answers(call[s], d)
              /\ stored'[d] \in {stored[d], None} \/ (ok /\ call[s].op = "init" /\ stored'[d] = u)
              /\ tab'[d].pc = "done" => ok /\ call[s].op = "complete"
              /\ tab'[d].pc # "put"
              /\ tab'[d].pc = "loop" =>
                   \/ ok /\ call[s].op \in {"init", "get"} /\ tab'[d].received = n
                   \/ ok /\ call[s].op = "put" /\ tab'[d].received = LeastOf(tab[d].received + ChunkSize, Size)
                   \/ call[s].op = "put" /\ tab'[d].received = tab[d].received
  BY <1>3 DEF Told
<1>5. spent' = spent
  BY DEF DataGo
<1>6. UploadTypes'
  <2>1. lock' \in Slots \cup {NoSlot}
    BY <1>1 DEF Release, UploadTypes
  <2> QED
    BY <1>1, <1>4, <1>5, <2>1 DEF UploadTypes, DataGo
<1>7. OwnerInv'
  <2>1. ASSUME NEW v \in Uploads, NEW o \in Clients \cup {None}, OwnedBy(v, o) PROVE OwnedBy(v, o)'
    <3>1. /\ meta'[v] # NoMeta => meta'[v].client = o
          /\ tmp'[v] # NoMeta => tmp'[v].client = o
          /\ part'[v] \in Nat \ {0} => o \in Clients
      BY <2>1 DEF DataGo
    <3>2. ASSUME NEW d \in Clients, stored'[d] = v PROVE d = o
      <4>1. CASE stored[d] = v
        BY <2>1, <4>1 DEF OwnedBy
      <4>2. CASE stored[d] # v
        <5>1. /\ ok /\ call[s].op = "init" /\ u = v /\ call[s].by = d
          BY <1>4, <3>2, <4>2, NoneIsNobody
        <5>2. /\ call[s].id = v /\ call[s].m # NoMeta /\ call[s].m.client = d
          BY <1>1, <5>1, NoneIsNobody DEF CallOK, Loaded
        <5> QED
          BY <2>1, <5>2 DEF OwnedBy
      <4> QED
        BY <4>1, <4>2
    <3>3. call'[s].id # v
      BY <1>4, NoCallFacts, NoneIsNobody
    <3> QED
      BY <1>4, <2>1, <3>1, <3>2, <3>3 DEF OwnedBy
  <2> QED
    BY <2>1 DEF UploadInv, OwnerInv
<1>8. AheadInv'
  <2> SUFFICES ASSUME NEW v \in Uploads, part'[v] # -1
               PROVE  /\ meta'[v].received <= part'[v] /\ tmp'[v].received <= part'[v]
                      /\ \A t \in Slots : call'[t].id = v =>
                           /\ call'[t].m.received <= part'[v]
                           /\ call'[t].op = "put" /\ call'[t].at # "start" => call'[t].off <= part'[v]
                      /\ \A c \in Clients : stored'[c] = v /\ tab'[c].pc \in {"loop", "put"} =>
                           tab'[c].received <= part'[v]
    BY DEF AheadInv
  <2>1. part[v] # -1 /\ part[v] <= part'[v] /\ part[v] \in Nat /\ part'[v] \in Nat
    BY <1>1, <1>6 DEF DataGo, UploadTypes
  <2>2. meta'[v].received <= part'[v] /\ tmp'[v].received <= part'[v]
    BY DEF DataGo
  <2>3. call'[s].id # v
    BY <1>4, NoCallFacts, NoneIsNobody
  <2>4. ASSUME NEW t \in Slots \ {s}, call'[t].id = v
        PROVE  /\ call'[t].m.received <= part'[v]
               /\ call'[t].op = "put" /\ call'[t].at # "start" => call'[t].off <= part'[v]
    <3>1. /\ call[t].m.received <= part[v] /\ call[t].m.received \in Int /\ call[t].off \in Nat
          /\ call[t].op = "put" /\ call[t].at # "start" => call[t].off <= part[v]
      <4>1. call[t] \in Calls /\ call[t].m.received \in Int
        BY <1>1, NoMetaFacts DEF UploadTypes, Calls
      <4> QED
        BY <1>4, <2>1, <2>4, <4>1 DEF UploadInv, AheadInv, Calls
    <3> QED
      BY <1>4, <2>1, <3>1
  <2>5. ASSUME NEW c \in Clients, stored'[c] = v, tab'[c].pc \in {"loop", "put"}
        PROVE  tab'[c].received <= part'[v]
    <3>1. tab[c] \in Tabs /\ tab'[c] \in Tabs /\ tab[c].received \in Nat /\ tab'[c].received \in Nat
      BY <1>1, <1>4 DEF UploadTypes, Tabs
    <3>2. stored[c] = v /\ tab[c].pc \in {"loop", "put"} => tab[c].received <= part[v]
      BY <2>1 DEF UploadInv, AheadInv
    <3>3. CASE tab'[c] = tab[c] /\ stored'[c] = stored[c]
      BY <2>1, <2>5, <3>1, <3>2, <3>3
    <3>4. CASE ~(tab'[c] = tab[c] /\ stored'[c] = stored[c])
      <4>1. /\ Answers(call[s], c) /\ tab'[c].pc = "loop"
            /\ stored[c] = v \/ (ok /\ call[s].op = "init")
            /\ \/ ok /\ call[s].op \in {"init", "get"} /\ tab'[c].received = n
               \/ ok /\ call[s].op = "put" /\ tab'[c].received = LeastOf(tab[c].received + ChunkSize, Size)
               \/ call[s].op = "put" /\ tab'[c].received = tab[c].received
        BY <1>4, <2>5, <3>4, NoneIsNobody
      <4>2. CASE call[s].op = "init"
        BY <2>1, <4>1, <4>2
      <4>3. CASE call[s].op = "get"
        <5>1. call[s].id = v /\ n <= call[s].m.received /\ tab'[c].received = n
          BY <4>1, <4>3 DEF Answers
        <5>2. call[s].m.received <= part[v] /\ call[s].m.received \in Int
          BY <1>1, <2>1, <5>1, NoMetaFacts DEF UploadInv, AheadInv, Calls
        <5> QED
          BY <2>1, <5>1, <5>2
      <4>4. CASE call[s].op = "put" /\ tab'[c].received = tab[c].received
        <5>1. stored[c] = v /\ tab[c].pc = "put"
          BY <4>1, <4>4 DEF Answers, Serves
        <5> QED
          BY <2>1, <3>1, <3>2, <4>4, <5>1
      <4>5. CASE /\ call[s].op = "put" /\ ok
                 /\ tab'[c].received = LeastOf(tab[c].received + ChunkSize, Size)
        <5>1. call[s].id = v /\ tab[c].received = call[s].m.received /\ call[s].at = "rename"
          BY <4>1, <4>5 DEF Answers
        <5>2. call[s].off = ChunkEnd(call[s].m.received) /\ call[s].off <= part[v] /\ call[s].off \in Nat
          BY <1>1, <2>1, <4>5, <5>1 DEF CallOK, UploadInv, AheadInv, Calls
        <5>3. tab'[c].received = call[s].off
          BY <4>5, <5>1, <5>2 DEF ChunkEnd
        <5> QED
          BY <2>1, <5>2, <5>3
      <4> QED
        BY <4>1, <4>2, <4>3, <4>4, <4>5
    <3> QED
      BY <3>3, <3>4
  <2> QED
    BY <2>2, <2>3, <2>4, <2>5
<1>9. CareInv'
  <2>1. ASSUME spent.crashes = 0, NEW v \in Uploads, part'[v] # -1, meta'[v] = NoMeta
        PROVE  \E t \in Slots : CaresFor(call'[t], v)
    BY <1>4, <2>1 DEF CareGoes, UploadInv, CareInv
  <2> QED
    BY <1>5, <2>1 DEF CareInv
<1>10. \A d \in Clients : \/ tab'[d] = tab[d]
                          \/ call[s].by = d /\ (tab'[d].pc = "done" => ok /\ call[s].op = "complete")
  BY <1>4
<1>11. call'[s] = NoCall /\ \A t \in Slots \ {s} : call'[t] = call[t]
  BY <1>4
<1> QED
  BY <1>3, <1>6, <1>7, <1>8, <1>9, <1>10, <1>11

\* An answer that registers nothing.
LEMMA AnswersKeep ==
  ASSUME UploadInv, NEW s \in Slots, NEW ok \in BOOLEAN, NEW n \in Nat, NEW u \in Uploads \cup {None},
         Reply(s, ok, n, u), lock' = lock \/ Release(s), call[s] # NoCall,
         ok => call[s].op # "complete",
         ok /\ call[s].op = "init" => n = 0 /\ u = call[s].id /\ call[s].at = "save",
         ok /\ call[s].op = "get" => n <= call[s].m.received,
         ok /\ call[s].op = "put" => call[s].at = "rename",
         FilesGo(s, None, 0, NoMeta), CareGoes(s)
  PROVE  UploadInv'
<1>1. /\ UploadTypes' /\ CallInv' /\ LockInv' /\ WaitInv' /\ OwnerInv' /\ AheadInv' /\ CareInv'
      /\ call'[s] = NoCall /\ \A t \in Slots \ {s} : call'[t] = call[t]
      /\ \A d \in Clients : \/ tab'[d] = tab[d]
                            \/ call[s].by = d /\ (tab'[d].pc = "done" => ok /\ call[s].op = "complete")
  BY AnswersKeepMost DEF FilesGo
<1>2. RowInv' /\ DiskInv'
  <2>1. \A t \in Slots : call'[t].op = "complete" => call'[t] = call[t]
    BY <1>1, NoCallFacts DEF None
  <2>2. \A c \in Clients : tab'[c].pc = "done" => tab[c].pc = "done"
    BY <1>1
  <2> QED
    BY <1>1, <2>1, <2>2, ImagesKeep DEF FilesGo
<1> QED
  BY <1>1, <1>2 DEF UploadInv

\* The two answers, each with what it needs.
LEMMA AgreementKeeps ==
  ASSUME UploadInv, NEW s \in Slots, NEW n \in Nat, NEW u \in Uploads \cup {None},
         Reply(s, TRUE, n, u), lock' = lock \/ Release(s), call[s] # NoCall, call[s].op # "complete",
         call[s].op = "init" => n = 0 /\ u = call[s].id /\ call[s].at = "save",
         call[s].op = "get" => n <= call[s].m.received,
         call[s].op = "put" => call[s].at = "rename",
         FilesGo(s, None, 0, NoMeta), CareGoes(s)
  PROVE  UploadInv'
<1>1. ASSUME NEW ok \in BOOLEAN, ok = TRUE PROVE UploadInv'
  <2>1. Reply(s, ok, n, u)
    BY <1>1, Zenon
  <2> QED
    BY <2>1, AnswersKeep
<1>2. TRUE \in BOOLEAN
  OBVIOUS
<1> QED
  BY <1>1, <1>2, Zenon

LEMMA RefusalKeeps ==
  ASSUME UploadInv, NEW s \in Slots, Reply(s, FALSE, 0, None), lock' = lock \/ Release(s),
         call[s] # NoCall, FilesGo(s, None, 0, NoMeta), CareGoes(s)
  PROVE  UploadInv'
<1>1. ASSUME NEW ok \in BOOLEAN, ok = FALSE PROVE UploadInv'
  <2>1. Reply(s, ok, 0, None)
    BY <1>1, Zenon
  <2> QED
    BY <1>1, <2>1, AnswersKeep
<1>2. FALSE \in BOOLEAN
  OBVIOUS
<1> QED
  BY <1>1, <1>2, Zenon

LEMMA StillFiles ==
  ASSUME UploadInv, NEW s \in Slots, NEW id, NEW off \in Nat, NEW m \in Metas,
         UNCHANGED <<meta, tmp, part, disk, rows, spent>>,
         \A v \in Uploads, o \in Clients \cup {None} :
           OwnedBy(v, o) /\ id = v /\ m # NoMeta => m.client = o,
         \A v \in Uploads : part[v] # -1 /\ id = v =>
           m.received <= part[v] /\ (call[s].op = "put" => off <= part[v])
  PROVE  FilesGo(s, id, off, m)
<1>1. UploadTypes
  BY DEF UploadInv
<1>2. \A v \in Uploads : part[v] # -1 =>
        part[v] <= part[v] /\ meta[v].received <= part[v] /\ tmp[v].received <= part[v]
  BY <1>1 DEF UploadInv, UploadTypes, AheadInv
<1>3. \A v \in Uploads, o \in Clients \cup {None} : OwnedBy(v, o) =>
        /\ meta[v] # NoMeta => meta[v].client = o
        /\ tmp[v] # NoMeta => tmp[v].client = o
        /\ part[v] \in Nat \ {0} => o \in Clients
  BY DEF OwnedBy
<1> QED
  BY <1>1, <1>2, <1>3 DEF FilesGo, DataGo, ImagesStay, UploadTypes

LEMMA StillCare ==
  ASSUME UNCHANGED <<meta, part>>, NEW s \in Slots,
         \A v \in Uploads : CaresFor(call[s], v) => CaresFor(call'[s], v)
  PROVE  CareGoes(s)
BY DEF CareGoes

LEMMA AnswersStill ==
  ASSUME UploadInv, NEW s \in Slots, UNCHANGED <<meta, tmp, part, disk, rows, spent>>
  PROVE  FilesGo(s, None, 0, NoMeta)
<1>1. \A v \in Uploads : None # v
  BY NoneIsNobody
<1> QED
  BY <1>1, NoMetaFacts, StillFiles

LEMMA CleanCheckKeeps ==
  ASSUME UploadInv, NEW s \in Slots, CleanCheck(s)
  PROVE  UploadInv'
<1>1. At(s, "init", "start") /\ UNCHANGED <<meta, tmp, part, disk, rows, spent>> /\ lock' = lock /\ KeepBrowsers
  BY DEF CleanCheck, serverVars, KeepBounds
<1>2. /\ UploadTypes /\ CallOK(call[s]) /\ call[s] # NoCall /\ call[s].op = "init" /\ call[s].at = "start"
      /\ call[s].id \in Uploads \cup {None} /\ call[s].off \in Nat /\ call[s].m \in Metas
  BY <1>1, AtFacts
<1>3. call[s].m = NoMeta /\ ~InLock(call[s]) /\ \A v : ~CaresFor(call[s], v)
  BY <1>2 DEF CallOK, Loaded, InLock, CaresFor
<1>4. ASSUME NEW at \in {"clean", "create"}, NEW id \in Uploads \cup {None}, at = "clean" => id \in Uploads,
             Moves(s, at, id, call[s].off, call[s].m)
      PROVE  UploadInv'
  <2>1. at \in Places
    BY DEF Places
  <2>2. /\ call'[s].op = "init" /\ call'[s].from = call[s].from /\ call'[s].by = call[s].by
        /\ call'[s].at = at /\ call'[s].id = id /\ call'[s].m = NoMeta
    BY <1>2, <1>3, <1>4, <2>1, MoveFields
  <2>3. CallOK(call'[s]) /\ ~InLock(call'[s])
    BY <1>2, <1>4, <2>2, NoCallFacts DEF CallOK, Loaded, InLock, None
  <2>4. FilesGo(s, id, call[s].off, call[s].m)
    <3>1. \A v \in Uploads : part[v] # -1 => NoMeta.received <= part[v]
      BY <1>2, NoMetaFacts DEF UploadTypes
    <3> QED
      BY <1>1, <1>2, <1>3, <3>1, StillFiles
  <2>5. CareGoes(s)
    BY <1>1, <1>3, StillCare
  <2> QED
    BY <1>1, <1>2, <1>4, <2>1, <2>3, <2>4, <2>5, GoKeeps
<1>5. ASSUME NEW u \in Uploads, call' = [call EXCEPT ![s].at = "clean", ![s].id = u] PROVE UploadInv'
  <2>1. call[s] \in Calls /\ call \in [Slots -> Calls]
    BY <1>2 DEF UploadTypes
  <2>2. [call[s] EXCEPT !.at = "clean", !.id = u]
        = [call[s] EXCEPT !.at = "clean", !.id = u, !.off = call[s].off, !.m = call[s].m]
    BY <2>1 DEF Calls
  <2>3. call' = [call EXCEPT ![s] = [call[s] EXCEPT !.at = "clean", !.id = u]]
    BY <1>5, <2>1
  <2>4. Moves(s, "clean", u, call[s].off, call[s].m)
    BY <2>2, <2>3 DEF Moves
  <2> QED
    BY <1>4, <2>4
<1>6. CASE Goto(s, "create")
  <2>1. Moves(s, "create", call[s].id, call[s].off, call[s].m)
    BY <1>2, <1>6, GotoMoves
  <2> QED
    BY <1>2, <1>4, <2>1
<1> QED
  BY <1>5, <1>6 DEF CleanCheck

LEMMA CleanMetaKeeps ==
  ASSUME UploadInv, NEW s \in Slots, CleanMeta(s)
  PROVE  UploadInv'
<1> DEFINE u == call[s].id
<1>1. /\ At(s, "init", "clean") /\ meta' = [meta EXCEPT ![u] = NoMeta] /\ Goto(s, "cleanPart")
      /\ UNCHANGED <<tmp, part, disk, rows, spent>> /\ lock' = lock /\ KeepBrowsers
  BY DEF CleanMeta, KeepBounds
<1>2. /\ UploadTypes /\ CallOK(call[s]) /\ call[s] # NoCall /\ call[s].op = "init" /\ call[s].at = "clean"
      /\ call[s].off \in Nat /\ call[s].m \in Metas
  BY <1>1, AtFacts
<1>3. call[s].m = NoMeta /\ ~InLock(call[s]) /\ u \in Uploads /\ "cleanPart" \in Places
  BY <1>2 DEF CallOK, Loaded, InLock, Places
<1>4. Moves(s, "cleanPart", u, call[s].off, call[s].m)
  BY <1>1, <1>2, GotoMoves
<1>5. /\ call'[s].op = "init" /\ call'[s].from = call[s].from /\ call'[s].by = call[s].by
      /\ call'[s].at = "cleanPart" /\ call'[s].id = u /\ call'[s].m = NoMeta
  BY <1>2, <1>3, <1>4, MoveFields
<1> HIDE DEF u
<1>6. CallOK(call'[s]) /\ ~InLock(call'[s])
  BY <1>2, <1>3, <1>5, NoCallFacts DEF CallOK, Loaded, InLock, None
<1>7. meta' \in [Uploads -> Metas] /\ meta'[u] = NoMeta /\ \A v \in Uploads \ {u} : meta'[v] = meta[v]
  BY <1>1, <1>2, <1>3, NoMetaFacts DEF UploadTypes
<1>8. FilesGo(s, u, call[s].off, call[s].m)
  <2>1. ASSUME NEW v \in Uploads, part[v] # -1
        PROVE  /\ part[v] <= part[v] /\ meta'[v].received <= part[v] /\ tmp[v].received <= part[v]
               /\ call[s].m.received <= part[v]
    BY <1>2, <1>3, <1>7, <2>1, NoMetaFacts DEF UploadInv, UploadTypes, AheadInv
  <2> QED
    BY <1>1, <1>2, <1>3, <1>7, <2>1 DEF FilesGo, DataGo, ImagesStay, UploadTypes, OwnedBy
<1>9. CareGoes(s)
  BY <1>1, <1>2, <1>5, <1>7 DEF CareGoes, CaresFor
<1> QED
  BY <1>1, <1>2, <1>3, <1>4, <1>6, <1>8, <1>9, GoKeeps DEF u

LEMMA CleanPartKeeps ==
  ASSUME UploadInv, NEW s \in Slots, CleanPart(s)
  PROVE  UploadInv'
<1> DEFINE u == call[s].id
<1>1. /\ At(s, "init", "cleanPart") /\ part' = [part EXCEPT ![u] = -1] /\ Goto(s, "start")
      /\ UNCHANGED <<meta, tmp, disk, rows, spent>> /\ lock' = lock /\ KeepBrowsers
  BY DEF CleanPart, KeepBounds
<1>2. /\ UploadTypes /\ CallOK(call[s]) /\ call[s] # NoCall /\ call[s].op = "init" /\ call[s].at = "cleanPart"
      /\ call[s].off \in Nat /\ call[s].m \in Metas
  BY <1>1, AtFacts
<1>3. call[s].m = NoMeta /\ ~InLock(call[s]) /\ u \in Uploads /\ "start" \in Places
  BY <1>2 DEF CallOK, Loaded, InLock, Places
<1>4. Moves(s, "start", u, call[s].off, call[s].m)
  BY <1>1, <1>2, GotoMoves
<1>5. /\ call'[s].op = "init" /\ call'[s].from = call[s].from /\ call'[s].by = call[s].by
      /\ call'[s].at = "start" /\ call'[s].id = u /\ call'[s].m = NoMeta
  BY <1>2, <1>3, <1>4, MoveFields
<1> HIDE DEF u
<1>6. CallOK(call'[s]) /\ ~InLock(call'[s])
  BY <1>2, <1>3, <1>5, NoCallFacts DEF CallOK, Loaded, InLock, None
<1>7. part' \in [Uploads -> Nat \cup {-1}] /\ part'[u] = -1 /\ \A v \in Uploads \ {u} : part'[v] = part[v]
  BY <1>1, <1>2, <1>3 DEF UploadTypes
<1>8. FilesGo(s, u, call[s].off, call[s].m)
  <2>1. ASSUME NEW v \in Uploads, part'[v] # -1
        PROVE  /\ part'[v] = part[v] /\ part[v] <= part'[v]
               /\ meta[v].received <= part'[v] /\ tmp[v].received <= part'[v] /\ v # u
    BY <1>2, <1>7, <2>1 DEF UploadInv, UploadTypes, AheadInv
  <2>2. \A v \in Uploads : part'[v] \in {part[v], -1}
    BY <1>7
  <2> QED
    BY <1>1, <1>2, <1>3, <1>7, <2>1, <2>2 DEF FilesGo, DataGo, ImagesStay, UploadTypes, OwnedBy
<1>9. CareGoes(s)
  BY <1>1, <1>7 DEF CareGoes, CaresFor, u
<1> QED
  BY <1>1, <1>2, <1>3, <1>4, <1>6, <1>8, <1>9, GoKeeps DEF u

LEMMA InitSaveKeeps ==
  ASSUME UploadInv, NEW s \in Slots, InitSave(s)
  PROVE  UploadInv'
<1> DEFINE u == call[s].id
           m == call[s].m
<1>1. /\ At(s, "init", "save") /\ meta' = [meta EXCEPT ![u] = m] /\ Reply(s, TRUE, 0, u)
      /\ UNCHANGED <<tmp, part, disk, rows, spent>> /\ lock' = lock
  BY DEF InitSave, KeepBounds
<1>2. /\ UploadTypes /\ CallOK(call[s]) /\ call[s] # NoCall /\ call[s].op = "init" /\ call[s].at = "save"
      /\ m \in Metas
  BY <1>1, AtFacts
<1>3. m # NoMeta /\ m.received = 0 /\ u \in Uploads
  BY <1>2 DEF CallOK, Loaded
<1>4. meta' \in [Uploads -> Metas] /\ meta'[u] = m /\ \A v \in Uploads \ {u} : meta'[v] = meta[v]
  BY <1>1, <1>2, <1>3 DEF UploadTypes
<1>5. FilesGo(s, None, 0, NoMeta)
  <2>1. ASSUME NEW v \in Uploads, part[v] # -1
        PROVE  /\ part[v] <= part[v] /\ meta'[v].received <= part[v] /\ tmp[v].received <= part[v]
    BY <1>2, <1>3, <1>4, <2>1 DEF UploadInv, UploadTypes, AheadInv
  <2>2. \A o \in Clients \cup {None} : OwnedBy(u, o) => m.client = o
    BY <1>3 DEF OwnedBy
  <2>3. ASSUME NEW v \in Uploads, NEW o \in Clients \cup {None}, OwnedBy(v, o)
        PROVE  /\ meta'[v] # NoMeta => meta'[v].client = o
               /\ tmp[v] # NoMeta => tmp[v].client = o
               /\ part[v] \in Nat \ {0} => o \in Clients
    BY <1>4, <2>2, <2>3 DEF OwnedBy
  <2> QED
    BY <1>1, <1>2, <1>4, <2>1, <2>3, NoneIsNobody DEF FilesGo, DataGo, ImagesStay, UploadTypes
<1>6. CareGoes(s)
  BY <1>1, <1>3, <1>4 DEF CareGoes, CaresFor
<1>7. /\ 0 \in Nat /\ u \in Uploads \cup {None} /\ call[s].op # "get" /\ call[s].op # "put"
      /\ call[s].op # "complete" /\ call[s].op = "init" => 0 = 0 /\ u = call[s].id /\ call[s].at = "save"
  BY <1>2, <1>3
<1> HIDE DEF u, m
<1> QED
  BY <1>1, <1>2, <1>5, <1>6, <1>7, AgreementKeeps

LEMMA GetLoadKeeps ==
  ASSUME UploadInv, NEW s \in Slots, GetLoad(s)
  PROVE  UploadInv'
<1> DEFINE u == call[s].id
           m == meta[u]
<1>1. At(s, "get", "start") /\ UNCHANGED <<meta, tmp, part, disk, rows, spent>> /\ lock' = lock
  BY DEF GetLoad, serverVars, KeepBounds
<1>2. /\ UploadTypes /\ CallOK(call[s]) /\ call[s] # NoCall /\ call[s].op = "get" /\ call[s].at = "start"
      /\ call[s].off \in Nat /\ call[s].m \in Metas
  BY <1>1, AtFacts
<1>3. u \in Uploads /\ ~InLock(call[s]) /\ \A v : ~CaresFor(call[s], v)
  BY <1>2 DEF CallOK, InLock, CaresFor
<1>4. CareGoes(s)
  BY <1>1, <1>3, StillCare
<1>5. CASE m = NoMeta
  <2>1. Reply(s, FALSE, 0, None)
    BY <1>5 DEF GetLoad
  <2> QED
    BY <1>1, <1>2, <1>4, <2>1, AnswersStill, RefusalKeeps
<1>6. CASE m # NoMeta
  <2>1. GotoWith(s, "stat", m) /\ KeepBrowsers
    BY <1>6 DEF GetLoad
  <2>2. m \in Metas /\ "stat" \in Places
    BY <1>2, <1>3 DEF UploadTypes, Places
  <2> HIDE DEF m
  <2>3. Moves(s, "stat", u, call[s].off, m)
    BY <1>2, <2>1, GotoWithMoves
  <2>4. /\ call'[s].op = "get" /\ call'[s].from = call[s].from /\ call'[s].by = call[s].by
        /\ call'[s].at = "stat" /\ call'[s].id = u /\ call'[s].m = m
    BY <1>2, <1>3, <2>2, <2>3, MoveFields
  <2>5. CallOK(call'[s]) /\ ~InLock(call'[s])
    BY <1>2, <1>3, <1>6, <2>4, NoCallFacts DEF CallOK, Loaded, InLock, None
  <2>6. FilesGo(s, u, call[s].off, m)
    <3>1. \A v \in Uploads, o \in Clients \cup {None} : OwnedBy(v, o) /\ u = v /\ m # NoMeta => m.client = o
      BY DEF OwnedBy, m
    <3>2. \A v \in Uploads : part[v] # -1 /\ u = v => m.received <= part[v]
      BY DEF UploadInv, AheadInv, m
    <3> QED
      BY <1>1, <1>2, <2>2, <3>1, <3>2, StillFiles
  <2> QED
    BY <1>1, <1>2, <1>3, <1>4, <2>1, <2>2, <2>3, <2>5, <2>6, GoKeeps
<1> QED
  BY <1>5, <1>6

LEMMA GetStatKeeps ==
  ASSUME UploadInv, NEW s \in Slots, GetStat(s)
  PROVE  UploadInv'
<1> DEFINE u == call[s].id
           m == call[s].m
           n == part[u]
           w == [m EXCEPT !.received = n]
<1>1. At(s, "get", "stat") /\ UNCHANGED <<meta, tmp, part, disk, rows, spent>> /\ lock' = lock
  BY DEF GetStat, serverVars, KeepBounds
<1>2. /\ UploadTypes /\ CallOK(call[s]) /\ call[s] # NoCall /\ call[s].op = "get" /\ call[s].at = "stat"
      /\ call[s].off \in Nat /\ m \in Metas
  BY <1>1, AtFacts
<1>3. u \in Uploads /\ ~InLock(call[s]) /\ m # NoMeta /\ m.received \in Nat /\ \A v : ~CaresFor(call[s], v)
  BY <1>2, NoMetaFacts DEF CallOK, InLock, CaresFor, Loaded
<1>4. CareGoes(s)
  BY <1>1, <1>3, StillCare
<1>5. CASE n \in {-1, m.received}
  <2>1. Reply(s, TRUE, m.received, None)
    BY <1>5 DEF GetStat
  <2>2. m.received <= call[s].m.received /\ None \in Uploads \cup {None}
    BY <1>3
  <2>3. FilesGo(s, None, 0, NoMeta) /\ call[s].op # "init" /\ call[s].op # "put" /\ call[s].op # "complete"
    BY <1>1, <1>2, AnswersStill
  <2>4. m.received \in Nat /\ lock' = lock /\ call[s] # NoCall
    BY <1>1, <1>2, <1>3
  <2> HIDE DEF m, n
  <2> QED
    BY <1>4, <2>1, <2>2, <2>3, <2>4, AgreementKeeps
<1>6. CASE n \notin {-1, m.received}
  <2>1. GotoWith(s, "tmp", w) /\ KeepBrowsers
    BY <1>6 DEF GetStat
  <2>2. n \in Nat /\ "tmp" \in Places
    BY <1>2, <1>3, <1>6 DEF UploadTypes, Places
  <2> HIDE DEF m, n
  <2>3. w \in Metas \ {NoMeta} /\ w.client = m.client /\ w.received = n
    BY <1>2, <1>3, <2>2, WrittenMeta
  <2> HIDE DEF w
  <2>4. Moves(s, "tmp", u, call[s].off, w)
    BY <1>2, <2>1, GotoWithMoves
  <2>5. /\ call'[s].op = "get" /\ call'[s].from = call[s].from /\ call'[s].by = call[s].by
        /\ call'[s].at = "tmp" /\ call'[s].id = u /\ call'[s].m = w
    BY <1>2, <1>3, <2>2, <2>3, <2>4, MoveFields
  <2>6. CallOK(call'[s]) /\ ~InLock(call'[s])
    BY <1>2, <1>3, <2>3, <2>5, NoCallFacts DEF CallOK, Loaded, InLock, None
  <2>7. FilesGo(s, u, call[s].off, w)
    <3>1. \A v \in Uploads, o \in Clients \cup {None} : OwnedBy(v, o) /\ u = v => w.client = o
      BY <1>3, <2>3 DEF OwnedBy, m
    <3>2. \A v \in Uploads : part[v] # -1 /\ u = v => w.received <= part[v]
      BY <2>2, <2>3 DEF n
    <3> QED
      BY <1>1, <1>2, <2>3, <3>1, <3>2, StillFiles
  <2> QED
    BY <1>1, <1>2, <1>3, <1>4, <2>1, <2>2, <2>3, <2>4, <2>6, <2>7, GoKeeps
<1> QED
  BY <1>5, <1>6

\* A metadata file is written, by whom the upload is, and no more than the data has.
LEMMA WriteTmpFiles ==
  ASSUME UploadInv, NEW s \in Slots, NEW n \in Nat, call[s].m # NoMeta, call[s].id \in Uploads,
         WriteTmp(call[s].id, [call[s].m EXCEPT !.received = n]) \/
           (WriteTmp(call[s].id, call[s].m) /\ n = call[s].m.received),
         UNCHANGED <<meta, part, disk, rows, spent>>,
         part[call[s].id] # -1 => n <= part[call[s].id] /\ (call[s].op = "put" => call[s].off <= part[call[s].id])
  PROVE  FilesGo(s, call[s].id, call[s].off, call[s].m)
<1> DEFINE u == call[s].id
           m == call[s].m
           w == [m EXCEPT !.received = n]
           x == tmp'[u]
<1>1. UploadTypes /\ m \in Metas \ {NoMeta}
  BY DEF UploadInv, UploadTypes, Calls
<1>2. w \in Metas \ {NoMeta} /\ w.client = m.client /\ w.received = n
  BY <1>1, WrittenMeta
<1>3. /\ [w EXCEPT !.fresh = TRUE] \in Metas /\ [m EXCEPT !.fresh = TRUE] \in Metas
      /\ [w EXCEPT !.fresh = TRUE].client = m.client /\ [w EXCEPT !.fresh = TRUE].received = n
      /\ [m EXCEPT !.fresh = TRUE].client = m.client /\ [m EXCEPT !.fresh = TRUE].received = m.received
  BY <1>1, <1>2, WrittenMeta
<1>4. \/ tmp' = [tmp EXCEPT ![u] = [w EXCEPT !.fresh = TRUE]]
      \/ tmp' = [tmp EXCEPT ![u] = [m EXCEPT !.fresh = TRUE]] /\ n = m.received
  BY DEF WriteTmp
<1> HIDE DEF u, m, w
<1>5. /\ tmp' \in [Uploads -> Metas] /\ x.client = m.client /\ x.received = n
      /\ \A v \in Uploads \ {u} : tmp'[v] = tmp[v]
  <2>1. ASSUME NEW y \in Metas, tmp' = [tmp EXCEPT ![u] = y], y.client = m.client, y.received = n
        PROVE  /\ tmp' \in [Uploads -> Metas] /\ x.client = m.client /\ x.received = n
               /\ \A v \in Uploads \ {u} : tmp'[v] = tmp[v]
    BY <1>1, <2>1 DEF UploadTypes, u
  <2> HIDE DEF x
  <2> QED
    BY <1>3, <1>4, <2>1
<1> HIDE DEF x
<1>6. ASSUME NEW v \in Uploads, part[v] # -1
      PROVE  /\ part[v] <= part[v] /\ meta[v].received <= part[v] /\ tmp'[v].received <= part[v]
             /\ u = v => m.received <= part[v] /\ (call[s].op = "put" => call[s].off <= part[v])
  BY <1>1, <1>5, <1>6 DEF UploadInv, UploadTypes, AheadInv, u, m, x
<1>7. ASSUME NEW v \in Uploads, NEW o \in Clients \cup {None}, OwnedBy(v, o)
      PROVE  /\ meta[v] # NoMeta => meta[v].client = o
             /\ tmp'[v] # NoMeta => tmp'[v].client = o
             /\ u = v => m.client = o
             /\ part[v] \in Nat \ {0} => o \in Clients
  BY <1>1, <1>5, <1>7 DEF OwnedBy, u, m, x
<1> QED
  BY <1>1, <1>5, <1>6, <1>7 DEF FilesGo, DataGo, ImagesStay, UploadTypes, u, m

LEMMA GetTmpKeeps ==
  ASSUME UploadInv, NEW s \in Slots, GetTmp(s)
  PROVE  UploadInv'
<1>1. /\ At(s, "get", "tmp") /\ UNCHANGED <<meta, part, disk, rows, spent>> /\ lock' = lock
      /\ WriteTmp(call[s].id, call[s].m) /\ Goto(s, "rename") /\ KeepBrowsers
  BY DEF GetTmp, KeepBounds
<1>2. /\ UploadTypes /\ CallOK(call[s]) /\ call[s] # NoCall /\ call[s].op = "get" /\ call[s].at = "tmp"
      /\ call[s].off \in Nat /\ call[s].m \in Metas
  BY <1>1, AtFacts
<1>3. /\ call[s].id \in Uploads /\ ~InLock(call[s]) /\ call[s].m # NoMeta /\ call[s].m.received \in Nat
      /\ "rename" \in Places /\ \A v : ~CaresFor(call[s], v)
  BY <1>2, NoMetaFacts DEF CallOK, InLock, CaresFor, Loaded, Places
<1>4. CareGoes(s)
  BY <1>1, <1>3, StillCare
<1>5. Moves(s, "rename", call[s].id, call[s].off, call[s].m)
  BY <1>1, <1>2, GotoMoves
<1>6. /\ call'[s].op = "get" /\ call'[s].from = call[s].from /\ call'[s].by = call[s].by
      /\ call'[s].at = "rename" /\ call'[s].id = call[s].id /\ call'[s].m = call[s].m
  BY <1>2, <1>3, <1>5, MoveFields
<1>7. CallOK(call'[s]) /\ ~InLock(call'[s])
  BY <1>2, <1>3, <1>6, NoCallFacts DEF CallOK, Loaded, InLock, None
<1>8. FilesGo(s, call[s].id, call[s].off, call[s].m)
  <2>1. part[call[s].id] # -1 => call[s].m.received <= part[call[s].id]
    BY <1>3 DEF UploadInv, AheadInv
  <2> QED
    BY <1>1, <1>2, <1>3, <2>1, WriteTmpFiles
<1> QED
  BY <1>1, <1>2, <1>3, <1>4, <1>5, <1>7, <1>8, GoKeeps

\* The metadata file is replaced, or there is nothing to replace it with.
LEMMA RenameFiles ==
  ASSUME UploadInv, NEW s \in Slots, NEW u \in Uploads, RenameTmp(u) \/ RenameFails(u),
         UNCHANGED <<part, disk, rows, spent>>
  PROVE  /\ FilesGo(s, None, 0, NoMeta)
         /\ (\A v : ~CaresFor(call[s], v)) => CareGoes(s)
<1>1. UploadTypes
  BY DEF UploadInv
<1>2. CASE RenameFails(u)
  BY <1>2, AnswersStill DEF RenameFails, CareGoes
<1>3. CASE RenameTmp(u)
  <2>1. /\ tmp[u] # NoMeta /\ meta' = [meta EXCEPT ![u] = tmp[u]] /\ tmp' = [tmp EXCEPT ![u] = NoMeta]
    BY <1>3 DEF RenameTmp
  <2>2. /\ meta' \in [Uploads -> Metas] /\ tmp' \in [Uploads -> Metas]
        /\ meta'[u] = tmp[u] /\ tmp'[u] = NoMeta
        /\ \A v \in Uploads \ {u} : meta'[v] = meta[v] /\ tmp'[v] = tmp[v]
    BY <1>1, <2>1, NoMetaFacts DEF UploadTypes
  <2>3. ASSUME NEW v \in Uploads, part[v] # -1
        PROVE  /\ part[v] <= part[v] /\ meta'[v].received <= part[v] /\ tmp'[v].received <= part[v]
    BY <1>1, <2>2, <2>3, NoMetaFacts DEF UploadInv, UploadTypes, AheadInv
  <2>4. ASSUME NEW v \in Uploads, NEW o \in Clients \cup {None}, OwnedBy(v, o)
        PROVE  /\ meta'[v] # NoMeta => meta'[v].client = o
               /\ tmp'[v] # NoMeta => tmp'[v].client = o
               /\ part[v] \in Nat \ {0} => o \in Clients
    BY <2>2, <2>4 DEF OwnedBy
  <2>5. FilesGo(s, None, 0, NoMeta)
    BY <1>1, <2>2, <2>3, <2>4, NoneIsNobody DEF FilesGo, DataGo, ImagesStay, UploadTypes
  <2>6. (\A v : ~CaresFor(call[s], v)) => CareGoes(s)
    BY <2>1, <2>2 DEF CareGoes
  <2> QED
    BY <2>5, <2>6
<1> QED
  BY <1>2, <1>3

LEMMA GetRenameKeeps ==
  ASSUME UploadInv, NEW s \in Slots, GetRename(s)
  PROVE  UploadInv'
<1> DEFINE m == call[s].m
<1>1. /\ At(s, "get", "rename") /\ UNCHANGED <<part, disk, rows, spent>> /\ lock' = lock
      /\ RenameTmp(call[s].id) \/ RenameFails(call[s].id)
      /\ Reply(s, TRUE, m.received, None)
  BY DEF GetRename, KeepBounds
<1>2. /\ UploadTypes /\ CallOK(call[s]) /\ call[s] # NoCall /\ call[s].op = "get" /\ call[s].at = "rename"
      /\ call[s].m \in Metas
  BY <1>1, AtFacts
<1>3. /\ call[s].id \in Uploads /\ m.received \in Nat /\ \A v : ~CaresFor(call[s], v)
  BY <1>2, NoMetaFacts DEF CallOK, CaresFor, Loaded
<1>4. FilesGo(s, None, 0, NoMeta) /\ CareGoes(s)
  BY <1>1, <1>3, RenameFiles
<1>5. /\ m.received <= call[s].m.received /\ None \in Uploads \cup {None}
      /\ call[s].op # "init" /\ call[s].op # "put" /\ call[s].op # "complete"
  BY <1>2, <1>3
<1> HIDE DEF m
<1> QED
  BY <1>1, <1>2, <1>3, <1>4, <1>5, AgreementKeeps

LEMMA PutLoadKeeps ==
  ASSUME UploadInv, NEW s \in Slots, PutLoad(s)
  PROVE  UploadInv'
<1> DEFINE u == call[s].id
           m == meta[u]
<1>1. At(s, "put", "start") /\ UNCHANGED <<meta, tmp, part, disk, rows, spent>>
  BY DEF PutLoad, KeepBounds
<1>2. /\ UploadTypes /\ CallOK(call[s]) /\ call[s] # NoCall /\ call[s].op = "put" /\ call[s].at = "start"
      /\ call[s].off \in Nat /\ call[s].m \in Metas
  BY <1>1, AtFacts
<1>3. u \in Uploads /\ \A v : ~CaresFor(call[s], v)
  BY <1>2 DEF CallOK, CaresFor
<1>4. CareGoes(s)
  BY <1>1, <1>3, StillCare
<1>5. CASE ~(m # NoMeta /\ PutAllowed(m, u, call[s].off))
  <2>1. lock' = lock /\ Reply(s, FALSE, 0, None)
    BY <1>5 DEF PutLoad
  <2> QED
    BY <1>1, <1>2, <1>4, <2>1, AnswersStill, RefusalKeeps
<1>6. CASE m # NoMeta /\ PutAllowed(m, u, call[s].off)
  <2>1. Take(s) /\ GotoWith(s, "write", m) /\ KeepBrowsers
    BY <1>6 DEF PutLoad
  <2>2. m \in Metas /\ "write" \in Places /\ m.received = call[s].off /\ m # NoMeta
    BY <1>2, <1>3, <1>6 DEF UploadTypes, Places, PutAllowed
  <2> HIDE DEF m
  <2>3. Moves(s, "write", u, call[s].off, m)
    BY <1>2, <2>1, GotoWithMoves
  <2>4. /\ call'[s].op = "put" /\ call'[s].from = call[s].from /\ call'[s].by = call[s].by
        /\ call'[s].at = "write" /\ call'[s].id = u /\ call'[s].m = m
    BY <1>2, <1>3, <2>2, <2>3, MoveFields
  <2>5. CallOK(call'[s]) /\ lock = NoSlot /\ lock' = s
    BY <1>2, <1>3, <2>1, <2>2, <2>4, NoCallFacts DEF CallOK, Loaded, Take, None
  <2>6. FilesGo(s, u, call[s].off, m)
    <3>1. \A v \in Uploads, o \in Clients \cup {None} : OwnedBy(v, o) /\ u = v /\ m # NoMeta => m.client = o
      BY DEF OwnedBy, m
    <3>2. \A v \in Uploads : part[v] # -1 /\ u = v => m.received <= part[v]
      BY DEF UploadInv, AheadInv, m
    <3> QED
      BY <1>1, <1>2, <2>2, <3>1, <3>2, StillFiles
  <2> QED
    BY <1>1, <1>2, <1>3, <1>4, <2>1, <2>2, <2>3, <2>5, <2>6, GoKeeps
<1> QED
  BY <1>5, <1>6

\* Nobody completes an upload while somebody else holds uploadMu.
LEMMA HolderIsAlone ==
  ASSUME UploadInv, NEW s \in Slots, InLock(call[s]), NEW t \in Slots \ {s}
  PROVE  ~InLock(call[t])
BY DEF UploadInv, LockInv

LEMMA PutWriteKeeps ==
  ASSUME UploadInv, NEW s \in Slots, PutWrite(s)
  PROVE  UploadInv'
<1> DEFINE u == call[s].id
           m == call[s].m
           e == call[s].off + 1
           at == IF e = ChunkEnd(m.received) THEN "tmp" ELSE "write"
<1>1. /\ At(s, "put", "write") /\ UNCHANGED <<meta, tmp, disk, rows, spent>> /\ lock' = lock /\ KeepBrowsers
      /\ part' = [part EXCEPT ![u] = IF part[u] # -1 /\ part[u] < e THEN e ELSE part[u]]
      /\ call' = [call EXCEPT ![s].off = e, ![s].at = at]
  BY DEF PutWrite, KeepBounds
<1>2. /\ UploadTypes /\ CallOK(call[s]) /\ call[s] # NoCall /\ call[s].op = "put" /\ call[s].at = "write"
      /\ call[s].off \in Nat /\ m \in Metas /\ e \in Nat /\ at \in Places
  BY <1>1, AtFacts DEF Places
<1>3. u \in Uploads /\ m # NoMeta /\ InLock(call[s]) /\ call[s].from \in Clients /\ \A v : ~CaresFor(call[s], v)
  BY <1>2 DEF CallOK, CaresFor, Loaded, InLock
<1>4. Moves(s, at, u, e, m)
  <2>1. call[s] \in Calls /\ call \in [Slots -> Calls]
    BY <1>2 DEF UploadTypes
  <2> HIDE DEF e, at
  <2>2. [call[s] EXCEPT !.off = e, !.at = at]
        = [call[s] EXCEPT !.at = at, !.id = call[s].id, !.off = e, !.m = call[s].m]
    BY <2>1 DEF Calls
  <2>3. call' = [call EXCEPT ![s] = [call[s] EXCEPT !.off = e, !.at = at]]
    BY <1>1, <2>1
  <2> QED
    BY <2>2, <2>3 DEF Moves
<1>5. /\ call'[s].op = "put" /\ call'[s].from = call[s].from /\ call'[s].by = call[s].by
      /\ call'[s].at = at /\ call'[s].id = u /\ call'[s].m = m /\ call'[s].off = e
  <2> HIDE DEF e, at, m
  <2> QED
    BY <1>2, <1>3, <1>4, MoveFields
<1>6. at \in {"write", "tmp"} /\ (at = "tmp" => e = ChunkEnd(m.received))
  OBVIOUS
<1> HIDE DEF e, at
<1>7. CallOK(call'[s])
  BY <1>2, <1>3, <1>5, <1>6, NoCallFacts DEF CallOK, Loaded, None
<1>8. /\ part' \in [Uploads -> Nat \cup {-1}] /\ (part[u] = -1 => part'[u] = -1)
      /\ part[u] # -1 => part'[u] \in Nat /\ part[u] <= part'[u] /\ e <= part'[u]
      /\ \A v \in Uploads \ {u} : part'[v] = part[v]
  BY <1>1, <1>2, <1>3 DEF UploadTypes
<1>9. FilesGo(s, u, e, m)
  <2>1. ASSUME NEW v \in Uploads, part'[v] # -1
        PROVE  /\ part[v] # -1 /\ part[v] <= part'[v]
               /\ meta[v].received <= part'[v] /\ tmp[v].received <= part'[v]
               /\ u = v => m.received <= part'[v] /\ e <= part'[v]
    <3>1. part[v] # -1 /\ part[v] \in Nat /\ part'[v] \in Nat /\ part[v] <= part'[v]
      BY <1>2, <1>8, <2>1 DEF UploadTypes
    <3>2. /\ meta[v].received \in Int /\ tmp[v].received \in Int /\ m.received \in Int
          /\ meta[v].received <= part[v] /\ tmp[v].received <= part[v] /\ (u = v => m.received <= part[v])
      BY <1>2, <3>1, NoMetaFacts DEF UploadInv, AheadInv, UploadTypes
    <3> HIDE DEF m
    <3> QED
      BY <1>8, <3>1, <3>2
  <2>2. ASSUME NEW v \in Uploads, NEW o \in Clients \cup {None}, OwnedBy(v, o)
        PROVE  /\ meta[v] # NoMeta => meta[v].client = o
               /\ tmp[v] # NoMeta => tmp[v].client = o
               /\ u = v => m.client = o
               /\ part'[v] \in Nat \ {0} => o \in Clients
    <3>1. u = v => call[s].from = o
      BY <1>2, <2>2 DEF OwnedBy
    <3> QED
      BY <1>3, <1>8, <2>2, <3>1 DEF OwnedBy
  <2>3. \A t \in Slots : call[t].op = "complete" => call[t].at = "start"
    <3>1. \A t \in Slots \ {s} : ~InLock(call[t])
      BY <1>3, HolderIsAlone
    <3>2. \A t \in Slots : call[t].op = "complete" => call[t].at \in {"start", "move", "forget", "row"}
      BY DEF UploadInv, CallInv, CallOK
    <3> QED
      BY <1>2, <3>1, <3>2 DEF InLock
  <2> HIDE DEF u, m
  <2> QED
    BY <1>1, <1>2, <1>3, <1>8, <2>1, <2>2, <2>3 DEF FilesGo, DataGo, ImagesStay, UploadTypes
<1>10. CareGoes(s)
  BY <1>1, <1>3, <1>8 DEF CareGoes
<1> QED
  BY <1>1, <1>2, <1>3, <1>4, <1>6, <1>7, <1>9, <1>10, GoKeeps

LEMMA PutBreaksKeeps ==
  ASSUME UploadInv, NEW s \in Slots, PutBreaks(s)
  PROVE  UploadInv'
<1>1. /\ At(s, "put", "write") /\ UNCHANGED <<meta, tmp, part, disk, rows, spent>>
      /\ Release(s) /\ Reply(s, FALSE, 0, None)
  BY DEF PutBreaks, KeepBounds
<1>2. call[s] # NoCall /\ call[s].op = "put"
  BY <1>1, AtFacts
<1>3. CareGoes(s)
  BY <1>1, <1>2, StillCare DEF CaresFor
<1> QED
  BY <1>1, <1>2, <1>3, AnswersStill, RefusalKeeps

LEMMA PutTmpKeeps ==
  ASSUME UploadInv, NEW s \in Slots, PutTmp(s)
  PROVE  UploadInv'
<1>1. /\ At(s, "put", "tmp") /\ UNCHANGED <<meta, part, disk, rows, spent>> /\ lock' = lock
      /\ WriteTmp(call[s].id, [call[s].m EXCEPT !.received = call[s].off]) /\ Goto(s, "rename") /\ KeepBrowsers
  BY DEF PutTmp, KeepBounds
<1>2. /\ UploadTypes /\ CallOK(call[s]) /\ call[s] # NoCall /\ call[s].op = "put" /\ call[s].at = "tmp"
      /\ call[s].off \in Nat /\ call[s].m \in Metas
  BY <1>1, AtFacts
<1>3. /\ call[s].id \in Uploads /\ InLock(call[s]) /\ call[s].m # NoMeta
      /\ "rename" \in Places /\ \A v : ~CaresFor(call[s], v)
  BY <1>2 DEF CallOK, InLock, CaresFor, Loaded, Places
<1>4. CareGoes(s)
  BY <1>1, <1>3, StillCare
<1>5. Moves(s, "rename", call[s].id, call[s].off, call[s].m)
  BY <1>1, <1>2, GotoMoves
<1>6. /\ call'[s].op = "put" /\ call'[s].from = call[s].from /\ call'[s].by = call[s].by
      /\ call'[s].at = "rename" /\ call'[s].id = call[s].id /\ call'[s].m = call[s].m
      /\ call'[s].off = call[s].off
  BY <1>2, <1>3, <1>5, MoveFields
<1>7. CallOK(call'[s])
  BY <1>2, <1>3, <1>6, NoCallFacts DEF CallOK, Loaded, None
<1>8. FilesGo(s, call[s].id, call[s].off, call[s].m)
  <2>1. part[call[s].id] # -1 => call[s].off <= part[call[s].id]
    BY <1>2, <1>3 DEF UploadInv, AheadInv
  <2> QED
    BY <1>1, <1>2, <1>3, <2>1, WriteTmpFiles
<1> QED
  BY <1>1, <1>2, <1>3, <1>4, <1>5, <1>7, <1>8, GoKeeps

LEMMA PutRenameKeeps ==
  ASSUME UploadInv, NEW s \in Slots, PutRename(s)
  PROVE  UploadInv'
<1>1. /\ At(s, "put", "rename") /\ UNCHANGED <<part, disk, rows, spent>> /\ Release(s)
      /\ \/ RenameTmp(call[s].id) /\ Reply(s, TRUE, 0, None)
         \/ RenameFails(call[s].id) /\ Reply(s, FALSE, 0, None)
  BY DEF PutRename, KeepBounds
<1>2. /\ UploadTypes /\ CallOK(call[s]) /\ call[s] # NoCall /\ call[s].op = "put" /\ call[s].at = "rename"
  BY <1>1, AtFacts
<1>3. call[s].id \in Uploads /\ \A v : ~CaresFor(call[s], v)
  BY <1>2 DEF CallOK, CaresFor
<1>4. FilesGo(s, None, 0, NoMeta) /\ CareGoes(s)
  BY <1>1, <1>3, RenameFiles
<1>5. CASE Reply(s, TRUE, 0, None)
  <2>1. /\ 0 \in Nat /\ None \in Uploads \cup {None}
        /\ call[s].op # "init" /\ call[s].op # "get" /\ call[s].op # "complete"
    BY <1>2
  <2> QED
    BY <1>1, <1>2, <1>4, <1>5, <2>1, AgreementKeeps
<1>6. CASE Reply(s, FALSE, 0, None)
  BY <1>1, <1>2, <1>4, <1>6, RefusalKeeps
<1> QED
  BY <1>1, <1>5, <1>6

LEMMA AbortMetaKeeps ==
  ASSUME UploadInv, NEW s \in Slots, AbortMeta(s)
  PROVE  UploadInv'
<1> DEFINE u == call[s].id
<1>1. /\ At(s, "abort", "start") /\ meta' = [meta EXCEPT ![u] = NoMeta] /\ Goto(s, "part") /\ Take(s)
      /\ UNCHANGED <<tmp, part, disk, rows, spent>> /\ KeepBrowsers
  BY DEF AbortMeta, KeepBounds
<1>2. /\ UploadTypes /\ CallOK(call[s]) /\ call[s] # NoCall /\ call[s].op = "abort" /\ call[s].at = "start"
      /\ call[s].off \in Nat /\ call[s].m \in Metas
  BY <1>1, AtFacts
<1>3. call[s].m = NoMeta /\ u \in Uploads /\ "part" \in Places
  BY <1>2 DEF CallOK, Loaded, Places
<1>4. Moves(s, "part", u, call[s].off, call[s].m)
  BY <1>1, <1>2, GotoMoves
<1>5. /\ call'[s].op = "abort" /\ call'[s].from = call[s].from /\ call'[s].by = call[s].by
      /\ call'[s].at = "part" /\ call'[s].id = u /\ call'[s].m = NoMeta
  BY <1>2, <1>3, <1>4, MoveFields
<1> HIDE DEF u
<1>6. CallOK(call'[s]) /\ lock = NoSlot /\ lock' = s
  BY <1>1, <1>2, <1>3, <1>5, NoCallFacts DEF CallOK, Loaded, Take, None
<1>7. meta' \in [Uploads -> Metas] /\ meta'[u] = NoMeta /\ \A v \in Uploads \ {u} : meta'[v] = meta[v]
  BY <1>1, <1>2, <1>3, NoMetaFacts DEF UploadTypes
<1>8. FilesGo(s, u, call[s].off, call[s].m)
  <2>1. ASSUME NEW v \in Uploads, part[v] # -1
        PROVE  /\ part[v] <= part[v] /\ meta'[v].received <= part[v] /\ tmp[v].received <= part[v]
               /\ call[s].m.received <= part[v]
    BY <1>2, <1>3, <1>7, <2>1, NoMetaFacts DEF UploadInv, UploadTypes, AheadInv
  <2> QED
    BY <1>1, <1>2, <1>3, <1>7, <2>1 DEF FilesGo, DataGo, ImagesStay, UploadTypes, OwnedBy
<1>9. CareGoes(s)
  BY <1>1, <1>2, <1>5, <1>7 DEF CareGoes, CaresFor
<1> QED
  BY <1>1, <1>2, <1>3, <1>4, <1>6, <1>8, <1>9, GoKeeps DEF u

LEMMA AbortPartKeeps ==
  ASSUME UploadInv, NEW s \in Slots, AbortPart(s)
  PROVE  UploadInv'
<1> DEFINE u == call[s].id
<1>1. /\ At(s, "abort", "part") /\ part' = [part EXCEPT ![u] = -1] /\ Reply(s, TRUE, 0, None) /\ Release(s)
      /\ UNCHANGED <<meta, tmp, disk, rows, spent>>
  BY DEF AbortPart, KeepBounds
<1>2. /\ UploadTypes /\ CallOK(call[s]) /\ call[s] # NoCall /\ call[s].op = "abort" /\ call[s].at = "part"
  BY <1>1, AtFacts
<1>3. u \in Uploads
  BY <1>2 DEF CallOK
<1>4. part' \in [Uploads -> Nat \cup {-1}] /\ part'[u] = -1 /\ \A v \in Uploads \ {u} : part'[v] = part[v]
  BY <1>1, <1>2, <1>3 DEF UploadTypes
<1>5. FilesGo(s, None, 0, NoMeta)
  <2>1. ASSUME NEW v \in Uploads, part'[v] # -1
        PROVE  /\ part'[v] = part[v] /\ part[v] <= part'[v]
               /\ meta[v].received <= part'[v] /\ tmp[v].received <= part'[v]
    BY <1>2, <1>4, <2>1 DEF UploadInv, UploadTypes, AheadInv
  <2>2. \A v \in Uploads : part'[v] \in {part[v], -1}
    BY <1>4
  <2> QED
    BY <1>1, <1>2, <1>4, <2>1, <2>2, NoneIsNobody DEF FilesGo, DataGo, ImagesStay, UploadTypes, OwnedBy
<1>6. CareGoes(s)
  BY <1>1, <1>4 DEF CareGoes, CaresFor, u
<1>7. /\ 0 \in Nat /\ None \in Uploads \cup {None} /\ call[s].op # "init" /\ call[s].op # "get"
      /\ call[s].op # "complete" /\ call[s].op # "put"
  BY <1>2
<1> QED
  BY <1>1, <1>2, <1>5, <1>6, <1>7, AgreementKeeps

\* The id is new to everything: nobody's copy, row or request refers to it.
LEMMA CreateKeeps ==
  ASSUME UploadInv, NEW s \in Slots, Create(s)
  PROVE  UploadInv'
<1>0. PICK u \in Uploads : Unused(u) /\ u = (CHOOSE v \in Uploads : Unused(v))
  BY DEF Create
<1> DEFINE m == Meta(call[s].from, 0, TRUE)
<1>1. /\ At(s, "init", "create")
      /\ part' = [part EXCEPT ![u] = 0] /\ meta' = meta /\ tmp' = tmp /\ disk' = disk /\ rows' = rows
      /\ lock' = lock /\ spent' = spent /\ KeepBrowsers
      /\ call' = [call EXCEPT ![s].at = "save", ![s].id = u, ![s].m = m]
  BY <1>0 DEF Create, KeepBounds
<1>2. /\ UploadTypes /\ BaseInv /\ CallOK(call[s]) /\ call[s] # NoCall /\ call[s].op = "init"
      /\ call[s].at = "create" /\ call[s].from \in Clients \cup {None} /\ call[s].off \in Nat
  BY <1>1, AtFacts
<1>3. u \in Uploads /\ Unused(u)
  BY <1>0
<1>4. m \in Metas /\ m # NoMeta /\ m.client = call[s].from /\ m.received = 0
  BY <1>2, NoMetaFacts
<1> HIDE DEF m
<1>5. Moves(s, "save", u, call[s].off, m)
  <2>1. call[s] \in Calls /\ call \in [Slots -> Calls]
    BY <1>2 DEF UploadTypes
  <2>2. [call[s] EXCEPT !.at = "save", !.id = u, !.m = m]
        = [call[s] EXCEPT !.at = "save", !.id = u, !.off = call[s].off, !.m = m]
    BY <2>1 DEF Calls
  <2>3. call' = [call EXCEPT ![s] = [call[s] EXCEPT !.at = "save", !.id = u, !.m = m]]
    BY <1>1, <2>1
  <2> QED
    BY <2>2, <2>3 DEF Moves
<1>6. "save" \in Places
  BY DEF Places
<1>7. /\ call' \in [Slots -> Calls] /\ \A t \in Slots \ {s} : call'[t] = call[t]
      /\ call'[s].op = "init" /\ call'[s].from = call[s].from /\ call'[s].by = call[s].by
      /\ call'[s].at = "save" /\ call'[s].id = u /\ call'[s].m = m
  BY <1>2, <1>3, <1>4, <1>5, <1>6, MoveFields
<1>8. CallOK(call'[s]) /\ ~InLock(call'[s])
  BY <1>2, <1>3, <1>4, <1>7, NoCallFacts DEF CallOK, Loaded, InLock, None
<1>9. CallInv' /\ LockInv' /\ WaitInv'
  BY <1>1, <1>2, <1>3, <1>4, <1>5, <1>6, <1>8, MovesKeepBase
<1>10. tab' = tab /\ stored' = stored
  BY <1>1 DEF KeepBrowsers
<1>11. part' \in [Uploads -> Nat \cup {-1}] /\ part'[u] = 0 /\ \A v \in Uploads \ {u} : part'[v] = part[v]
  BY <1>1, <1>2, <1>3 DEF UploadTypes
<1>12. UploadTypes'
  BY <1>1, <1>2, <1>7, <1>10, <1>11 DEF UploadTypes
<1>13. /\ meta[u] = NoMeta /\ tmp[u] = NoMeta /\ part[u] = -1 /\ \A r \in rows : r.id # u
       /\ \A c \in Clients : stored[c] # u
       /\ \A t \in Slots : call[t].id # u
  BY <1>3, NoCallFacts, NoneIsNobody DEF Unused
<1>14. OwnerInv'
  <2>1. ASSUME NEW o \in Clients \cup {None}, o = call[s].from PROVE OwnedBy(u, o)'
    <3>1. meta'[u] = NoMeta /\ tmp'[u] = NoMeta /\ part'[u] = 0 /\ \A c \in Clients : stored'[c] # u
      BY <1>1, <1>10, <1>11, <1>13
    <3>2. \A t \in Slots : call'[t].id = u => call'[t].m.client = o /\ call'[t].op = "init"
      BY <1>4, <1>7, <1>13, <2>1
    <3> QED
      BY <3>1, <3>2 DEF OwnedBy
  <2>2. ASSUME NEW v \in Uploads \ {u}, NEW o \in Clients \cup {None}, OwnedBy(v, o) PROVE OwnedBy(v, o)'
    BY <1>1, <1>7, <1>10, <1>11, <2>2 DEF OwnedBy
  <2> QED
    BY <1>2, <2>1, <2>2 DEF UploadInv, OwnerInv
<1>15. AheadInv'
  <2>1. ASSUME NEW v \in Uploads, part'[v] # -1
        PROVE  /\ meta[v].received <= part'[v] /\ tmp[v].received <= part'[v]
               /\ \A t \in Slots : call'[t].id = v =>
                    /\ call'[t].m.received <= part'[v]
                    /\ call'[t].op = "put" /\ call'[t].at # "start" => call'[t].off <= part'[v]
               /\ \A c \in Clients : stored[c] = v /\ tab[c].pc \in {"loop", "put"} => tab[c].received <= part'[v]
    <3>1. CASE v = u
      <4>1. meta[v].received <= part'[v] /\ tmp[v].received <= part'[v] /\ part'[v] = 0
        BY <1>11, <1>13, <3>1, NoMetaFacts
      <4>2. \A t \in Slots : call'[t].id = v => call'[t].m.received = 0 /\ call'[t].op = "init"
        BY <1>4, <1>7, <1>13, <3>1
      <4>3. \A c \in Clients : stored[c] # v
        BY <1>13, <3>1
      <4> QED
        BY <4>1, <4>2, <4>3
    <3>2. CASE v # u
      BY <1>7, <1>11, <2>1, <3>2 DEF UploadInv, AheadInv
    <3> QED
      BY <3>1, <3>2
  <2> QED
    BY <1>1, <1>10, <2>1 DEF AheadInv
<1>16. RowInv'
  BY <1>1, <1>7, <1>10, <1>11, <1>13 DEF UploadInv, RowInv, NoRowOf, CallInv, CallOK
<1>17. DiskInv'
  BY <1>1, <1>7 DEF UploadInv, DiskInv, WholeFile
<1>18. CareInv'
  <2>1. ASSUME spent.crashes = 0, NEW v \in Uploads, part'[v] # -1, meta[v] = NoMeta
        PROVE  \E t \in Slots : CaresFor(call'[t], v)
    <3>1. CASE v = u
      BY <1>7, <3>1 DEF CaresFor
    <3>2. CASE v # u
      <4>1. PICK t \in Slots : CaresFor(call[t], v)
        BY <1>11, <2>1, <3>2 DEF UploadInv, CareInv
      <4>2. t # s
        BY <1>2, <4>1 DEF CaresFor
      <4> QED
        BY <1>7, <4>1, <4>2
    <3> QED
      BY <3>1, <3>2
  <2> QED
    BY <1>1, <2>1 DEF CareInv
<1> QED
  BY <1>9, <1>12, <1>14, <1>15, <1>16, <1>17, <1>18 DEF UploadInv

-----------------------------------------------------------------------------
(* Completing an upload.                                                   *)

LEMMA CompleteLoadKeeps ==
  ASSUME UploadInv, NEW s \in Slots, CompleteLoad(s)
  PROVE  UploadInv'
<1> DEFINE u == call[s].id
           m == meta[u]
<1>1. At(s, "complete", "start") /\ UNCHANGED <<meta, tmp, part, disk, rows, spent>>
  BY DEF CompleteLoad, KeepBounds
<1>2. /\ UploadTypes /\ CallOK(call[s]) /\ call[s] # NoCall /\ call[s].op = "complete" /\ call[s].at = "start"
      /\ call[s].off \in Nat /\ call[s].m \in Metas
  BY <1>1, AtFacts
<1>3. u \in Uploads /\ \A v : ~CaresFor(call[s], v)
  BY <1>2 DEF CallOK, CaresFor
<1>4. CareGoes(s)
  BY <1>1, <1>3, StillCare
<1>5. CASE ~CompleteAllowed(u)
  <2>1. lock' = lock /\ Reply(s, FALSE, 0, None)
    BY <1>5 DEF CompleteLoad
  <2> QED
    BY <1>1, <1>2, <1>4, <2>1, AnswersStill, RefusalKeeps
<1>6. CASE CompleteAllowed(u)
  <2>1. Take(s) /\ GotoWith(s, "move", m) /\ KeepBrowsers
    BY <1>6 DEF CompleteLoad
  <2>2. m \in Metas /\ "move" \in Places /\ m # NoMeta /\ part[u] = Size
    BY <1>2, <1>3, <1>6 DEF UploadTypes, Places, CompleteAllowed
  <2>3. m.client \in Clients
    <3>1. PICK o \in Clients \cup {None} : OwnedBy(u, o)
      BY <1>3 DEF UploadInv, OwnerInv
    <3> QED
      BY <2>2, <3>1, SizesArePositive DEF OwnedBy
  <2>4. NoRowOf(u)
    BY <2>2, SizesArePositive DEF NoRowOf, UploadInv, RowInv
  <2>5. Moves(s, "move", u, call[s].off, m)
    BY <1>2, <2>1, GotoWithMoves
  <2>6. FilesGo(s, u, call[s].off, m)
    <3>1. \A v \in Uploads, o \in Clients \cup {None} : OwnedBy(v, o) /\ u = v /\ m # NoMeta => m.client = o
      BY DEF OwnedBy
    <3>2. \A v \in Uploads : part[v] # -1 /\ u = v => m.received <= part[v]
      BY DEF UploadInv, AheadInv
    <3> HIDE DEF m
    <3> QED
      BY <1>1, <1>2, <2>2, <3>1, <3>2, StillFiles
  <2> HIDE DEF m
  <2>7. /\ call'[s].op = "complete" /\ call'[s].from = call[s].from /\ call'[s].by = call[s].by
        /\ call'[s].at = "move" /\ call'[s].id = u /\ call'[s].m = m
    BY <1>2, <1>3, <2>2, <2>5, MoveFields
  <2>8. CallOK(call'[s]) /\ lock = NoSlot /\ lock' = s
    BY <1>2, <1>3, <2>1, <2>2, <2>7, NoCallFacts DEF CallOK, Loaded, Take, None
  <2>9. /\ UploadTypes' /\ CallInv' /\ LockInv' /\ WaitInv' /\ OwnerInv' /\ AheadInv' /\ CareInv'
        /\ \A t \in Slots \ {s} : call'[t] = call[t]
        /\ tab' = tab
    BY <1>2, <1>3, <1>4, <2>1, <2>2, <2>5, <2>6, <2>8, GoKeepsMost DEF FilesGo
  <2>10. RowInv'
    BY <1>1, <2>2, <2>3, <2>4, <2>7, <2>9 DEF UploadInv, RowInv, NoRowOf
  <2>11. DiskInv'
    BY <1>1, <2>7, <2>9 DEF UploadInv, DiskInv, WholeFile
  <2> QED
    BY <2>9, <2>10, <2>11 DEF UploadInv
<1> QED
  BY <1>5, <1>6

\* Only one request at a time completes an upload.
LEMMA CompletesAlone ==
  ASSUME UploadInv, NEW s \in Slots, InLock(call[s])
  PROVE  \A t \in Slots \ {s} : call[t].op = "complete" => call[t].at = "start"
BY HolderIsAlone DEF UploadInv, CallInv, CallOK, InLock

LEMMA CompleteMoveKeeps ==
  ASSUME UploadInv, NEW s \in Slots, CompleteMove(s)
  PROVE  UploadInv'
<1> DEFINE u == call[s].id
           c == call[s].m.client
           f == NameOf[c]
<1>1. At(s, "complete", "move") /\ UNCHANGED <<meta, tmp, rows, spent>>
  BY DEF CompleteMove, KeepBounds
<1>2. /\ UploadTypes /\ CallOK(call[s]) /\ call[s] # NoCall /\ call[s].op = "complete" /\ call[s].at = "move"
      /\ call[s].off \in Nat /\ call[s].m \in Metas
  BY <1>1, AtFacts
<1>3. /\ u \in Uploads /\ call[s].m # NoMeta /\ InLock(call[s]) /\ c \in Clients /\ NoRowOf(u)
      /\ part[u] \in {Size, -1} /\ "forget" \in Places /\ \A v : ~CaresFor(call[s], v)
  BY <1>2 DEF UploadInv, RowInv, CallOK, CaresFor, Loaded, InLock, Places
<1>4. CASE part[u] = -1
  <2>1. UNCHANGED <<disk, part>> /\ Release(s) /\ Reply(s, FALSE, 0, None)
    BY <1>4 DEF CompleteMove
  <2> QED
    BY <1>1, <1>2, <1>3, <2>1, AnswersStill, RefusalKeeps, StillCare
<1>5. CASE part[u] # -1
  <2>1. /\ disk' = {d \in disk : d.file # f} \cup {[file |-> f, client |-> c, length |-> part[u]]}
        /\ part' = [part EXCEPT ![u] = -1] /\ Goto(s, "forget") /\ lock' = lock /\ KeepBrowsers
    BY <1>5 DEF CompleteMove
  <2>2. part' \in [Uploads -> Nat \cup {-1}] /\ part'[u] = -1 /\ \A v \in Uploads \ {u} : part'[v] = part[v]
    BY <1>2, <1>3, <2>1 DEF UploadTypes
  <2>3. Moves(s, "forget", u, call[s].off, call[s].m)
    BY <1>2, <2>1, GotoMoves
  <2>4. /\ call'[s].op = "complete" /\ call'[s].from = call[s].from /\ call'[s].by = call[s].by
        /\ call'[s].at = "forget" /\ call'[s].id = u /\ call'[s].m = call[s].m
    BY <1>2, <1>3, <2>3, MoveFields
  <2>5. CallOK(call'[s])
    BY <1>2, <1>3, <2>4, NoCallFacts DEF CallOK, Loaded, None
  <2>6. DataGo(s, u, call[s].off, call[s].m)
    <3>1. ASSUME NEW v \in Uploads, part'[v] # -1
          PROVE  /\ part'[v] = part[v] /\ part[v] <= part'[v]
                 /\ meta[v].received <= part'[v] /\ tmp[v].received <= part'[v] /\ v # u
      BY <1>2, <2>2, <3>1 DEF UploadInv, UploadTypes, AheadInv
    <3>2. ASSUME NEW v \in Uploads, NEW o \in Clients \cup {None}, OwnedBy(v, o)
          PROVE  /\ meta[v] # NoMeta => meta[v].client = o
                 /\ tmp[v] # NoMeta => tmp[v].client = o
                 /\ u = v => call[s].m.client = o
                 /\ part'[v] \in Nat \ {0} => o \in Clients
      BY <1>3, <2>2, <3>2 DEF OwnedBy
    <3> QED
      BY <1>1, <1>2, <1>3, <2>2, <3>1, <3>2 DEF DataGo, UploadTypes
  <2>7. CareGoes(s)
    BY <1>1, <1>3, <2>2 DEF CareGoes
  <2>8. /\ UploadTypes' /\ CallInv' /\ LockInv' /\ WaitInv' /\ OwnerInv' /\ AheadInv' /\ CareInv'
        /\ \A t \in Slots \ {s} : call'[t] = call[t]
        /\ tab' = tab
    BY <1>2, <1>3, <2>1, <2>3, <2>5, <2>6, <2>7, GoKeepsMost
  <2>9. \A t \in Slots \ {s} : call'[t].op = "complete" => call'[t].at = "start"
    BY <1>3, <2>8, CompletesAlone
  <2>10. RowInv'
    <3>1. \A v \in Uploads : part[v] = -1 => part'[v] = -1
      BY <2>2
    <3> QED
      BY <1>1, <1>3, <2>2, <2>4, <2>8, <2>9, <3>1 DEF UploadInv, RowInv, NoRowOf
  <2>11. DiskInv'
    <3> SUFFICES ASSUME NamesDiffer
                 PROVE  /\ \A r \in rows : /\ r.client \in Clients /\ r.file = NameOf[r.client]
                                           /\ WholeFile(r.client) \in disk'
                        /\ WholeFile(c) \in disk'
      BY <1>1, <2>4, <2>8, <2>9 DEF DiskInv, WholeFile
    <3>1. WholeFile(c) \in disk'
      BY <1>3, <1>5, <2>1 DEF WholeFile
    <3>2. ASSUME NEW d \in Clients, WholeFile(d) \in disk PROVE WholeFile(d) \in disk'
      <4>1. CASE d = c
        BY <3>1, <4>1
      <4>2. CASE d # c
        <5>1. WholeFile(d).file # f
          BY <1>3, <4>2 DEF NamesDiffer, WholeFile
        <5> QED
          BY <2>1, <3>2, <5>1
      <4> QED
        BY <4>1, <4>2
    <3> QED
      BY <3>1, <3>2 DEF UploadInv, DiskInv
  <2> QED
    BY <2>8, <2>10, <2>11 DEF UploadInv
<1> QED
  BY <1>4, <1>5

LEMMA CompleteForgetKeeps ==
  ASSUME UploadInv, NEW s \in Slots, CompleteForget(s)
  PROVE  UploadInv'
<1> DEFINE u == call[s].id
<1>1. /\ At(s, "complete", "forget") /\ meta' = [meta EXCEPT ![u] = NoMeta] /\ Goto(s, "row")
      /\ UNCHANGED <<tmp, part, disk, rows, spent>> /\ lock' = lock /\ KeepBrowsers
  BY DEF CompleteForget, KeepBounds
<1>2. /\ UploadTypes /\ CallOK(call[s]) /\ call[s] # NoCall /\ call[s].op = "complete" /\ call[s].at = "forget"
      /\ call[s].off \in Nat /\ call[s].m \in Metas
  BY <1>1, AtFacts
<1>3. /\ u \in Uploads /\ call[s].m # NoMeta /\ InLock(call[s]) /\ part[u] = -1
      /\ "row" \in Places /\ \A v : ~CaresFor(call[s], v)
  BY <1>2 DEF UploadInv, RowInv, CallOK, CaresFor, Loaded, InLock, Places
<1>4. Moves(s, "row", u, call[s].off, call[s].m)
  BY <1>1, <1>2, GotoMoves
<1>5. /\ call'[s].op = "complete" /\ call'[s].from = call[s].from /\ call'[s].by = call[s].by
      /\ call'[s].at = "row" /\ call'[s].id = u /\ call'[s].m = call[s].m
  BY <1>2, <1>3, <1>4, MoveFields
<1> HIDE DEF u
<1>6. CallOK(call'[s])
  BY <1>2, <1>3, <1>5, NoCallFacts DEF CallOK, Loaded, None
<1>7. meta' \in [Uploads -> Metas] /\ meta'[u] = NoMeta /\ \A v \in Uploads \ {u} : meta'[v] = meta[v]
  BY <1>1, <1>2, <1>3, NoMetaFacts DEF UploadTypes
<1>8. DataGo(s, u, call[s].off, call[s].m)
  <2>1. ASSUME NEW v \in Uploads, part[v] # -1
        PROVE  /\ part[v] <= part[v] /\ meta'[v].received <= part[v] /\ tmp[v].received <= part[v] /\ v # u
    BY <1>2, <1>3, <1>7, <2>1, NoMetaFacts DEF UploadInv, UploadTypes, AheadInv
  <2>2. ASSUME NEW v \in Uploads, NEW o \in Clients \cup {None}, OwnedBy(v, o)
        PROVE  /\ meta'[v] # NoMeta => meta'[v].client = o
               /\ tmp[v] # NoMeta => tmp[v].client = o
               /\ u = v => call[s].m.client = o
               /\ part[v] \in Nat \ {0} => o \in Clients
    BY <1>3, <1>7, <2>2 DEF OwnedBy, u
  <2> QED
    BY <1>1, <1>2, <1>7, <2>1, <2>2 DEF DataGo, UploadTypes
<1>9. CareGoes(s)
  BY <1>1, <1>3, <1>7 DEF CareGoes
<1>10. /\ UploadTypes' /\ CallInv' /\ LockInv' /\ WaitInv' /\ OwnerInv' /\ AheadInv' /\ CareInv'
       /\ \A t \in Slots \ {s} : call'[t] = call[t]
       /\ tab' = tab
  BY <1>1, <1>2, <1>3, <1>4, <1>6, <1>8, <1>9, GoKeepsMost DEF u
<1>11. RowInv'
  BY <1>1, <1>2, <1>3, <1>5, <1>10 DEF UploadInv, RowInv, NoRowOf, u
<1>12. DiskInv'
  BY <1>1, <1>2, <1>5, <1>10 DEF UploadInv, DiskInv, WholeFile
<1> QED
  BY <1>10, <1>11, <1>12 DEF UploadInv

\* The row is the browser's that waits for it, and the first of its upload.
LEMMA CompleteRowKeeps ==
  ASSUME UploadInv, NEW s \in Slots, CompleteRow(s)
  PROVE  UploadInv'
<1> DEFINE u == call[s].id
           c == call[s].m.client
           new == [file |-> NameOf[c], client |-> c, id |-> u, n |-> Cardinality(rows)]
<1>1. /\ At(s, "complete", "row") /\ rows' = rows \cup {new} /\ Release(s) /\ Reply(s, TRUE, 0, None)
      /\ UNCHANGED <<meta, tmp, part, disk, spent>>
  BY DEF CompleteRow, KeepBounds
<1>2. /\ UploadTypes /\ CallOK(call[s]) /\ call[s] # NoCall /\ call[s].op = "complete" /\ call[s].at = "row"
      /\ call[s].off \in Nat /\ call[s].m \in Metas
  BY <1>1, AtFacts
<1>3. /\ u \in Uploads /\ call[s].m # NoMeta /\ InLock(call[s]) /\ part[u] = -1 /\ c \in Clients /\ NoRowOf(u)
      /\ NamesDiffer => WholeFile(c) \in disk
      /\ \A v : ~CaresFor(call[s], v)
  BY <1>2 DEF UploadInv, RowInv, DiskInv, CallOK, CaresFor, Loaded, InLock
<1>4. new.file = NameOf[c] /\ new.client = c /\ new.id = u
  OBVIOUS
<1> HIDE DEF new
<1>5. DataGo(s, None, 0, NoMeta) /\ CareGoes(s)
  <2>1. UNCHANGED <<meta, tmp, part>>
    BY <1>1
  <2>2. ASSUME NEW v \in Uploads, part[v] # -1
        PROVE  part[v] <= part[v] /\ meta[v].received <= part[v] /\ tmp[v].received <= part[v]
    BY <1>2, <2>2 DEF UploadInv, UploadTypes, AheadInv
  <2>3. DataGo(s, None, 0, NoMeta)
    BY <1>1, <1>2, <2>2, NoneIsNobody DEF DataGo, UploadTypes, OwnedBy
  <2>4. CareGoes(s)
    BY <1>1, <1>3, StillCare
  <2> QED
    BY <2>3, <2>4
<1>6. /\ UploadTypes' /\ CallInv' /\ LockInv' /\ WaitInv' /\ OwnerInv' /\ AheadInv' /\ CareInv'
      /\ call'[s] = NoCall /\ \A t \in Slots \ {s} : call'[t] = call[t]
      /\ \A d \in Clients : tab'[d] = tab[d] \/ call[s].by = d
  <2>1. ASSUME NEW ok \in BOOLEAN, ok = TRUE
        PROVE  /\ UploadTypes' /\ CallInv' /\ LockInv' /\ WaitInv' /\ OwnerInv' /\ AheadInv' /\ CareInv'
               /\ call'[s] = NoCall /\ \A t \in Slots \ {s} : call'[t] = call[t]
               /\ \A d \in Clients : tab'[d] = tab[d] \/ call[s].by = d
    <3>1. Reply(s, ok, 0, None)
      BY <1>1, <2>1, Zenon
    <3> QED
      BY <1>1, <1>2, <1>5, <3>1, AnswersKeepMost
  <2>2. TRUE \in BOOLEAN
    OBVIOUS
  <2> QED
    BY <2>1, <2>2, Zenon
<1>7. \A t \in Slots : call'[t].op = "complete" => call'[t].at = "start"
  BY <1>3, <1>6, CompletesAlone, NoCallFacts DEF None
<1>8. RowInv'
  <2>1. ASSUME NEW d \in Clients, tab'[d].pc = "done" PROVE \E r \in rows' : r.client = d
    <3>1. CASE tab'[d] = tab[d]
      BY <1>1, <2>1, <3>1 DEF UploadInv, RowInv
    <3>2. CASE call[s].by = d
      <4>1. stored[d] = u
        BY <1>2, <3>2 DEF UploadInv, WaitInv, Answers
      <4>2. PICK o \in Clients \cup {None} : OwnedBy(u, o)
        BY <1>3 DEF UploadInv, OwnerInv
      <4>3. c = o /\ d = o
        BY <1>3, <4>1, <4>2 DEF OwnedBy
      <4> QED
        BY <1>1, <1>4, <4>3
    <3> QED
      BY <1>6, <3>1, <3>2
  <2>2. \A r \in rows' : r.id \in Uploads /\ part'[r.id] = -1
    BY <1>1, <1>3, <1>4 DEF UploadInv, RowInv
  <2>3. \A q, r \in rows' : q.id = r.id => q = r
    BY <1>1, <1>3, <1>4 DEF UploadInv, RowInv, NoRowOf
  <2> QED
    BY <1>7, <2>1, <2>2, <2>3 DEF RowInv
<1>9. DiskInv'
  BY <1>1, <1>3, <1>4, <1>7 DEF UploadInv, DiskInv, WholeFile
<1> QED
  BY <1>6, <1>8, <1>9 DEF UploadInv

-----------------------------------------------------------------------------
(* The theorems.                                                           *)

LEMMA UploadStarts == UploadInit => UploadInv
<1> SUFFICES ASSUME UploadInit PROVE UploadInv
  OBVIOUS
<1>1. /\ meta = [u \in Uploads |-> NoMeta] /\ tmp = [u \in Uploads |-> NoMeta]
      /\ part = [u \in Uploads |-> -1] /\ disk = {} /\ rows = {} /\ lock = NoSlot
      /\ call = [s \in Slots |-> NoCall] /\ tab = [c \in Clients |-> Idle]
      /\ stored = [c \in Clients |-> None]
      /\ spent = [tries |-> 0, drops |-> 0, crashes |-> 0, others |-> 0]
  BY DEF UploadInit
<1>2. /\ \A s \in Slots : call[s] = NoCall /\ call[s].by = None /\ call[s].id = None /\ call[s].op = None
      /\ \A c \in Clients : tab[c].pc = "idle" /\ stored[c] = None
      /\ \A u \in Uploads : meta[u] = NoMeta /\ tmp[u] = NoMeta /\ part[u] = -1
  BY <1>1, NoCallFacts DEF Idle
<1>3. UploadTypes
  <2>1. Idle \in Tabs
    BY DEF Idle, Tabs, PCs
  <2>2. NoMeta \in Metas /\ NoCall \in Calls
    BY NoMetaFacts, NoCallFacts
  <2> QED
    BY <1>1, <2>1, <2>2 DEF UploadTypes
<1>4. CallInv /\ LockInv
  BY <1>2, NoCallOK DEF CallInv, LockInv
<1>5. WaitInv
  BY <1>2, NoneIsNobody DEF WaitInv
<1>6. OwnerInv
  BY <1>2, NoneIsNobody DEF OwnerInv, OwnedBy
<1>7. AheadInv /\ CareInv
  BY <1>2 DEF AheadInv, CareInv
<1>8. RowInv /\ DiskInv
  BY <1>1, <1>2 DEF RowInv, DiskInv, None
<1> QED
  BY <1>3, <1>4, <1>5, <1>6, <1>7, <1>8 DEF UploadInv

LEMMA ServeKeeps ==
  ASSUME UploadInv, NEW s \in Slots, Serve(s)
  PROVE  UploadInv'
BY CleanCheckKeeps, CleanMetaKeeps, CleanPartKeeps, CreateKeeps, InitSaveKeeps, GetLoadKeeps, GetStatKeeps,
   GetTmpKeeps, GetRenameKeeps, PutLoadKeeps, PutWriteKeeps, PutBreaksKeeps, PutTmpKeeps, PutRenameKeeps,
   CompleteLoadKeeps, CompleteMoveKeeps, CompleteForgetKeeps, CompleteRowKeeps, AbortMetaKeeps, AbortPartKeeps
   DEF Serve

LEMMA UploadSteps == UploadInv /\ [UploadNext]_upVars => UploadInv'
<1> SUFFICES ASSUME UploadInv, [UploadNext]_upVars PROVE UploadInv'
  OBVIOUS
<1>1. ASSUME NEW c \in Clients, ClientStep(c) PROVE UploadInv'
  BY <1>1, ClientKeeps DEF ClientStep
<1>2. ASSUME NEW c \in Clients, NEW s \in Slots, Begin(c, s) PROVE UploadInv'
  BY <1>2, BeginKeeps
<1>3. ASSUME NEW s \in Slots, Serve(s) PROVE UploadInv'
  BY <1>3, ServeKeeps
<1>4. ASSUME NEW s \in Slots, Drop(s) PROVE UploadInv'
  BY <1>4, DropKeeps
<1>5. ASSUME NEW s \in Slots, Other(s) PROVE UploadInv'
  BY <1>5, OtherKeeps
<1>6. CASE Age
  BY <1>6, AgeKeeps
<1>7. CASE Crash
  BY <1>7, CrashKeeps
<1>8. CASE UNCHANGED upVars
  BY <1>8 DEF upVars, UploadInv, UploadTypes, CallInv, LockInv, WaitInv, Answers, OwnerInv, OwnedBy,
     AheadInv, RowInv, NoRowOf, DiskInv, WholeFile, CareInv
<1> QED
  BY <1>1, <1>2, <1>3, <1>4, <1>5, <1>6, <1>7, <1>8 DEF UploadNext

THEOREM AlwaysUploadInv == UploadSpec => []UploadInv
BY UploadStarts, UploadSteps, PTL DEF UploadSpec

\* A chunk never leaves a hole: neither the metadata, nor a copy of it about to be
\* renamed, nor the console counts more bytes than the data file has.
THEOREM AlwaysNothingAhead == UploadSpec => []NothingAhead
<1>1. UploadInv => NothingAhead
  BY DEF UploadInv, AheadInv, NothingAhead
<1> QED
  BY <1>1, AlwaysUploadInv, PTL

\* An upload becomes one image at most, and a console that was told so has one:
\* completeImageUpload moves the data away before it adds the row.
THEOREM AlwaysRegisteredOnce == UploadSpec => []RegisteredOnce
<1>1. UploadInv => RegisteredOnce
  BY DEF UploadInv, RowInv, RegisteredOnce
<1> QED
  BY <1>1, AlwaysUploadInv, PTL

\* Where no two browsers send files of one name, a registered image is on disk,
\* whole and its own.
THEOREM AlwaysImageWhole == UploadSpec => [](NamesDiffer => ImageWhole)
<1>1. UploadInv => (NamesDiffer => ImageWhole)
  BY DEF UploadInv, DiskInv, WholeFile, ImageWhole
<1> QED
  BY <1>1, AlwaysUploadInv, PTL

\* Data without metadata are in the hands of a request, unless the control plane
\* was restarted: of an init that creates or cleans up, or of an abort.
THEOREM AlwaysPartsHaveMeta == UploadSpec => []PartsHaveMeta
<1>1. UploadInv => PartsHaveMeta
  <2> SUFFICES ASSUME UploadInv, spent.crashes = 0, NEW u \in Uploads, part[u] # -1, meta[u] = NoMeta
               PROVE  \E s \in Slots : call[s] # NoCall /\ call[s].id = u
    BY DEF PartsHaveMeta
  <2>1. PICK s \in Slots : CaresFor(call[s], u)
    BY DEF UploadInv, CareInv
  <2> QED
    BY <2>1, NoCallFacts, NoneIsNobody DEF CaresFor
<1> QED
  BY <1>1, AlwaysUploadInv, PTL
===============================================================================
