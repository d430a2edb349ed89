------------------------------ MODULE ImageUpload ------------------------------
(***************************************************************************)
(* Uploading an image in chunks.  The console (web/app.js) keeps the id of *)
(* its upload in the browser's session storage, sends the file chunk by    *)
(* chunk and asks where to go on after an error; the control plane         *)
(* (internal/server/upload.go) keeps an upload as two files, the metadata  *)
(* <id>.json and the data <id>.part.  Every file operation is a step: GET, *)
(* init and the clean-up in it take no lock.  A dropped connection leaves  *)
(* its handler running.                                                    *)
(***************************************************************************)
EXTENDS Integers, FiniteSets

CONSTANTS
  Clients,      \* browsers, each with one file to upload
  Slots,        \* numbers of the requests the control plane serves at the same time
  Uploads,      \* ids initImageUpload may draw
  NameOf,       \* client -> the name of its file
  Size,         \* bytes of each file
  ChunkSize,    \* bytes a PUT carries at most
  Retries,      \* how often putUploadChunkRetry sends a chunk
  MaxTries,     \* bound: uploads a user starts
  MaxDrops,     \* bound: connections lost
  MaxCrashes,   \* bound: restarts of the control plane
  MaxOthers,    \* bound: requests of somebody else
  Ages          \* whether 48 hours may pass

ASSUME SizesArePositive == Size \in Nat \ {0} /\ ChunkSize \in Nat \ {0}

None == "none"
NoSlot == -1
ASSUME SlotsAreNumbers == Slots \subseteq Nat
ASSUME NoneIsNobody == None \notin Clients \cup Uploads

VARIABLES
  meta,     \* upload -> its metadata file, or None
  tmp,      \* upload -> the metadata file being written, or None
  part,     \* upload -> the length of its data file, or -1
  disk,     \* files of the image directory: name, whose file it is, and its length
  rows,     \* the images table: records of file, client, upload and number
  lock,     \* the slot that holds uploadMu, or NoSlot
  call,     \* slot -> the request it serves, or None
  tab,      \* client -> where uploadControlPlaneImage stands
  stored,   \* client -> the upload id in session storage, or None
  spent     \* what was used of the bounds

serverVars == <<meta, tmp, part, disk, rows, lock>>
upVars == <<meta, tmp, part, disk, rows, lock, call, tab, stored, spent>>

\* What a metadata file holds, as far as it changes; NoMeta stands for no file.
Meta(c, received, fresh) == [client |-> c, received |-> received, fresh |-> fresh]
NoMeta == Meta(None, -1, TRUE)
Request(op, c, u, off) ==
  [op |-> op, from |-> c, by |-> c, id |-> u, off |-> off, at |-> "start", m |-> NoMeta]
NoCall == Request(None, None, None, 0)
Idle == [pc |-> "idle", received |-> 0, tries |-> 0]

UploadInit ==
  /\ meta = [u \in Uploads |-> NoMeta]
  /\ tmp = [u \in Uploads |-> NoMeta]
  /\ part = [u \in Uploads |-> -1]
  /\ disk = {}
  /\ rows = {}
  /\ lock = NoSlot
  /\ call = [s \in Slots |-> NoCall]
  /\ tab = [c \in Clients |-> Idle]
  /\ stored = [c \in Clients |-> None]
  /\ spent = [tries |-> 0, drops |-> 0, crashes |-> 0, others |-> 0]

KeepBrowsers == UNCHANGED <<tab, stored>>
KeepBounds == UNCHANGED spent

-----------------------------------------------------------------------------
(* The console.                                                            *)

\* A request takes the first free slot.  by is the browser that still waits for it, m the
\* handler's copy of the metadata.
Send(s, c, op, u, off) ==
  /\ call[s] = NoCall /\ \A t \in Slots : call[t] = NoCall => s <= t
  /\ call' = [call EXCEPT ![s] = Request(op, c, u, off)]

\* The user picks the file: a stored upload is asked for, else one is begun.
Begin(c, s) ==
  /\ tab[c].pc \in {"idle", "failed"} /\ spent.tries < MaxTries
  /\ spent' = [spent EXCEPT !.tries = @ + 1]
  /\ Send(s, c, IF stored[c] = None THEN "init" ELSE "get", stored[c], 0)
  /\ tab' = [tab EXCEPT ![c] = [Idle EXCEPT !.pc = IF stored[c] = None THEN "init" ELSE "resume"]]
  /\ UNCHANGED stored /\ UNCHANGED serverVars

\* The upload that was stored cannot be resumed: a new one is begun.
Fresh(c, s) ==
  /\ tab[c].pc = "fresh"
  /\ Send(s, c, "init", None, 0)
  /\ tab' = [tab EXCEPT ![c].pc = "init"]
  /\ UNCHANGED <<stored, spent>> /\ UNCHANGED serverVars

\* The loop: the next chunk, or the same again; then the upload is completed.
NextChunk(c, s) ==
  /\ tab[c].pc = "loop" /\ tab[c].received < Size
  /\ Send(s, c, "put", stored[c], tab[c].received)
  /\ tab' = [tab EXCEPT ![c].pc = "put", ![c].tries = @ + 1]
  /\ UNCHANGED <<stored, spent>> /\ UNCHANGED serverVars

Finish(c, s) ==
  /\ tab[c].pc = "loop" /\ tab[c].received = Size
  /\ Send(s, c, "complete", stored[c], 0)
  /\ tab' = [tab EXCEPT ![c].pc = "complete"]
  /\ UNCHANGED <<stored, spent>> /\ UNCHANGED serverVars

\* After the last try the console asks where to go on.
Realign(c, s) ==
  /\ tab[c].pc = "ask"
  /\ Send(s, c, "get", stored[c], 0)
  /\ tab' = [tab EXCEPT ![c].pc = "realign"]
  /\ UNCHANGED <<stored, spent>> /\ UNCHANGED serverVars

LeastOf(m, n) == IF m <= n THEN m ELSE n

\* Faulty: the console goes on where it was, whatever the control plane has.
AcceptedStubborn(t, n) ==
  CASE t.pc = "realign" -> [t EXCEPT !.pc = "loop", !.tries = 0]
    [] t.pc = "put" -> [pc |-> "loop", received |-> LeastOf(t.received + ChunkSize, Size), tries |-> 0]
    [] t.pc = "complete" -> [t EXCEPT !.pc = "done"]
    [] OTHER -> [pc |-> "loop", received |-> n, tries |-> 0]

\* Where an answer takes the tab; n is the length it tells of.
Accepted(t, n) ==
  CASE t.pc = "put" -> [pc |-> "loop", received |-> LeastOf(t.received + ChunkSize, Size), tries |-> 0]
    [] t.pc = "complete" -> [t EXCEPT !.pc = "done"]
    [] OTHER -> [pc |-> "loop", received |-> n, tries |-> 0]

\* Where an error takes it: an upload that cannot be resumed is begun again, a
\* chunk is sent again, anything else is shown to the user.
Refused(t) ==
  CASE t.pc = "resume" -> [t EXCEPT !.pc = "fresh"]
    [] t.pc = "put" -> [t EXCEPT !.pc = IF t.tries < Retries THEN "loop" ELSE "ask"]
    [] OTHER -> [t EXCEPT !.pc = "failed"]

\* The id is stored when the upload is begun, and forgotten when it is complete
\* or cannot be resumed.
Stored(c, ok, u) ==
  CASE tab[c].pc = "init" /\ ok -> u
    [] tab[c].pc = "complete" /\ ok -> None
    [] tab[c].pc = "resume" /\ ~ok -> None
    [] OTHER -> stored[c]

Hear(c, ok, n, u) ==
  /\ tab' = [tab EXCEPT ![c] = IF ok THEN Accepted(@, n) ELSE Refused(@)]
  /\ stored' = [stored EXCEPT ![c] = Stored(c, ok, u)]

\* The answer reaches the browser, unless the connection was lost.
Reply(s, ok, n, u) ==
  /\ call' = [call EXCEPT ![s] = NoCall]
  /\ IF call[s].by = None THEN KeepBrowsers ELSE Hear(call[s].by, ok, n, u)

-----------------------------------------------------------------------------
(* The handlers.                                                           *)

At(s, op, place) == call[s] # NoCall /\ call[s].op = op /\ call[s].at = place
Goto(s, place) == call' = [call EXCEPT ![s].at = place]
GotoWith(s, place, m) == call' = [call EXCEPT ![s].at = place, ![s].m = m]

Take(s) == lock = NoSlot /\ lock' = s
Release(s) == lock' = IF lock = s THEN NoSlot ELSE lock

\* saveUploadMeta: a temporary file that is renamed; every writer of one upload
\* uses the same one.
WriteTmp(u, m) == tmp' = [tmp EXCEPT ![u] = [m EXCEPT !.fresh = TRUE]]
RenameTmp(u) ==
  /\ tmp[u] # NoMeta
  /\ meta' = [meta EXCEPT ![u] = tmp[u]]
  /\ tmp' = [tmp EXCEPT ![u] = NoMeta]
RenameFails(u) == tmp[u] = NoMeta /\ UNCHANGED <<meta, tmp>>

\* initImageUpload cleans up first: the metadata file and then the data of each
\* upload that is 48 hours old.
CleanCheck(s) ==
  /\ At(s, "init", "start")
  /\ \/ \E u \in Uploads :
          /\ meta[u] # NoMeta /\ ~meta[u].fresh
          /\ call' = [call EXCEPT ![s].at = "clean", ![s].id = u]
     \/ /\ \A u \in Uploads : meta[u] # NoMeta => meta[u].fresh
        /\ Goto(s, "create")
  /\ UNCHANGED serverVars /\ KeepBrowsers /\ KeepBounds

\* Faulty: the data stays.
CleanMetaOnly(s) ==
  /\ At(s, "init", "clean")
  /\ meta' = [meta EXCEPT ![call[s].id] = NoMeta]
  /\ Goto(s, "start")
  /\ UNCHANGED <<tmp, part, disk, rows, lock>> /\ KeepBrowsers /\ KeepBounds

CleanMeta(s) ==
  /\ At(s, "init", "clean")
  /\ meta' = [meta EXCEPT ![call[s].id] = NoMeta]
  /\ Goto(s, "cleanPart")
  /\ UNCHANGED <<tmp, part, disk, rows, lock>> /\ KeepBrowsers /\ KeepBounds

CleanPart(s) ==
  /\ At(s, "init", "cleanPart")
  /\ part' = [part EXCEPT ![call[s].id] = -1]
  /\ Goto(s, "start")
  /\ UNCHANGED <<meta, tmp, disk, rows, lock>> /\ KeepBrowsers /\ KeepBounds

\* Ids are random: one that was ever in use is not drawn again.
Unused(u) ==
  /\ meta[u] = NoMeta /\ tmp[u] = NoMeta /\ part[u] = -1
  /\ \A r \in rows : r.id # u
  /\ \A c \in Clients : stored[c] # u
  /\ \A s \in Slots : call[s] # NoCall => call[s].id # u

Create(s) ==
  /\ At(s, "init", "create")
  /\ \E v \in Uploads : Unused(v)
  /\ LET u == CHOOSE v \in Uploads : Unused(v) IN
       /\ part' = [part EXCEPT ![u] = 0]
       /\ call' = [call EXCEPT ![s].at = "save", ![s].id = u,
                               ![s].m = Meta(call[s].from, 0, TRUE)]
  /\ UNCHANGED <<meta, tmp, disk, rows, lock>> /\ KeepBrowsers /\ KeepBounds

InitSave(s) ==
  /\ At(s, "init", "save")
  /\ meta' = [meta EXCEPT ![call[s].id] = call[s].m]
  /\ Reply(s, TRUE, 0, call[s].id)
  /\ UNCHANGED <<tmp, part, disk, rows, lock>> /\ KeepBounds

\* getImageUpload reads the metadata, then the length of the data, and writes the
\* metadata again where they differ.
GetLoad(s) ==
  /\ At(s, "get", "start")
  /\ IF meta[call[s].id] = NoMeta
     THEN Reply(s, FALSE, 0, None)
     ELSE GotoWith(s, "stat", meta[call[s].id]) /\ KeepBrowsers
  /\ UNCHANGED serverVars /\ KeepBounds

GetStat(s) ==
  LET length == part[call[s].id] IN
  /\ At(s, "get", "stat")
  /\ IF length \in {-1, call[s].m.received}
     THEN Reply(s, TRUE, call[s].m.received, None)
     ELSE GotoWith(s, "tmp", [call[s].m EXCEPT !.received = length]) /\ KeepBrowsers
  /\ UNCHANGED serverVars /\ KeepBounds

GetTmp(s) ==
  /\ At(s, "get", "tmp")
  /\ WriteTmp(call[s].id, call[s].m)
  /\ Goto(s, "rename")
  /\ UNCHANGED <<meta, part, disk, rows, lock>> /\ KeepBrowsers /\ KeepBounds

GetRename(s) ==
  /\ At(s, "get", "rename")
  /\ RenameTmp(call[s].id) \/ RenameFails(call[s].id)
  /\ Reply(s, TRUE, call[s].m.received, None)
  /\ UNCHANGED <<part, disk, rows, lock>> /\ KeepBounds

\* putImageUploadChunk: the chunk begins where the last one ended, and there is a
\* data file to write into.
PutAllowed(m, u, off) == off = m.received /\ part[u] # -1

PutLoad(s) ==
  LET u == call[s].id
      m == meta[u] IN
  /\ At(s, "put", "start")
  /\ IF m # NoMeta /\ PutAllowed(m, u, call[s].off)
     THEN Take(s) /\ GotoWith(s, "write", m) /\ KeepBrowsers
     ELSE lock = NoSlot /\ UNCHANGED lock /\ Reply(s, FALSE, 0, None)
  /\ UNCHANGED <<meta, tmp, part, disk, rows>> /\ KeepBounds

ChunkEnd(off) == LeastOf(off + ChunkSize, Size)

\* The body is copied piece by piece; off is where the next piece goes.  An open
\* data file that was removed takes what is written with it.
PutWrite(s) ==
  LET u == call[s].id
      e == call[s].off + 1 IN
  /\ At(s, "put", "write") /\ e <= ChunkEnd(call[s].m.received)
  /\ part' = [part EXCEPT ![u] = IF @ # -1 /\ @ < e THEN e ELSE @]
  /\ call' = [call EXCEPT ![s].off = e, ![s].at = IF e = ChunkEnd(call[s].m.received) THEN "tmp" ELSE "write"]
  /\ UNCHANGED <<meta, tmp, disk, rows, lock>> /\ KeepBrowsers /\ KeepBounds

\* Faulty: a short body goes unnoticed.
PutGoesOn(s) ==
  /\ At(s, "put", "write") /\ call[s].by = None
  /\ call' = [call EXCEPT ![s].at = "tmp", ![s].off = ChunkEnd(call[s].m.received)]
  /\ UNCHANGED serverVars /\ KeepBrowsers /\ KeepBounds

\* The connection was lost before all of the body was there.
PutBreaks(s) ==
  /\ At(s, "put", "write") /\ call[s].by = None
  /\ Release(s) /\ Reply(s, FALSE, 0, None)
  /\ UNCHANGED <<meta, tmp, part, disk, rows>> /\ KeepBounds

PutTmp(s) ==
  /\ At(s, "put", "tmp")
  /\ WriteTmp(call[s].id, [call[s].m EXCEPT !.received = call[s].off])
  /\ Goto(s, "rename")
  /\ UNCHANGED <<meta, part, disk, rows, lock>> /\ KeepBrowsers /\ KeepBounds

PutRename(s) ==
  /\ At(s, "put", "rename")
  /\ \/ RenameTmp(call[s].id) /\ Reply(s, TRUE, 0, None)
     \/ RenameFails(call[s].id) /\ Reply(s, FALSE, 0, None)
  /\ Release(s)
  /\ UNCHANGED <<part, disk, rows>> /\ KeepBounds

\* Faulty: the console is believed.
CompleteEarly(u) == meta[u] # NoMeta /\ part[u] # -1

\* completeImageUpload: the data is all there, and the metadata says so.
CompleteAllowed(u) == meta[u] # NoMeta /\ part[u] = Size /\ meta[u].received = Size

CompleteLoad(s) ==
  LET u == call[s].id IN
  /\ At(s, "complete", "start")
  /\ IF CompleteAllowed(u)
     THEN Take(s) /\ GotoWith(s, "move", meta[u]) /\ KeepBrowsers
     ELSE lock = NoSlot /\ UNCHANGED lock /\ Reply(s, FALSE, 0, None)
  /\ UNCHANGED <<meta, tmp, part, disk, rows>> /\ KeepBounds

\* The data is renamed to <second>-<name>, replacing what has that name: all this
\* happens within one second here.  It fails when the clean-up took the data away.
CompleteMove(s) ==
  LET u == call[s].id
      c == call[s].m.client
      f == NameOf[c] IN
  /\ At(s, "complete", "move")
  /\ IF part[u] # -1
     THEN /\ disk' = {d \in disk : d.file # f} \cup {[file |-> f, client |-> c, length |-> part[u]]}
          /\ part' = [part EXCEPT ![u] = -1]
          /\ Goto(s, "forget")
          /\ UNCHANGED lock /\ KeepBrowsers
     ELSE UNCHANGED <<disk, part>> /\ Release(s) /\ Reply(s, FALSE, 0, None)
  /\ UNCHANGED <<meta, tmp, rows>> /\ KeepBounds

\* Faulty: the answer is given before the image is in the table.
CompleteAnswers(s) ==
  /\ At(s, "complete", "forget")
  /\ meta' = [meta EXCEPT ![call[s].id] = NoMeta]
  /\ Release(s) /\ Reply(s, TRUE, 0, None)
  /\ UNCHANGED <<tmp, part, disk, rows>> /\ KeepBounds

CompleteForget(s) ==
  /\ At(s, "complete", "forget")
  /\ meta' = [meta EXCEPT ![call[s].id] = NoMeta]
  /\ Goto(s, "row")
  /\ UNCHANGED <<tmp, part, disk, rows, lock>> /\ KeepBrowsers /\ KeepBounds

CompleteRow(s) ==
  LET c == call[s].m.client IN
  /\ At(s, "complete", "row")
  /\ rows' = rows \cup {[file |-> NameOf[c], client |-> c,
                         id |-> call[s].id, n |-> Cardinality(rows)]}
  /\ Release(s) /\ Reply(s, TRUE, 0, None)
  /\ UNCHANGED <<meta, tmp, part, disk>> /\ KeepBounds

\* Somebody else begins an upload, or aborts or completes one over the API.
Other(s) ==
  /\ spent.others < MaxOthers
  /\ spent' = [spent EXCEPT !.others = @ + 1]
  /\ \/ Send(s, None, "init", None, 0)
     \/ \E u \in Uploads, op \in {"abort", "complete"} : part[u] # -1 /\ Send(s, None, op, u, 0)
  /\ UNCHANGED <<tab, stored>> /\ UNCHANGED serverVars

\* abortImageUpload, which the console does not use.
AbortMeta(s) ==
  /\ At(s, "abort", "start") /\ Take(s)
  /\ meta' = [meta EXCEPT ![call[s].id] = NoMeta]
  /\ Goto(s, "part")
  /\ UNCHANGED <<tmp, part, disk, rows>> /\ KeepBrowsers /\ KeepBounds

AbortPart(s) ==
  /\ At(s, "abort", "part")
  /\ part' = [part EXCEPT ![call[s].id] = -1]
  /\ Release(s) /\ Reply(s, TRUE, 0, None)
  /\ UNCHANGED <<meta, tmp, disk, rows>> /\ KeepBounds

-----------------------------------------------------------------------------
(* Accidents.                                                              *)

\* 48 hours pass; no request takes that long.
Age ==
  /\ Ages /\ \A s \in Slots : call[s] = NoCall
  /\ meta' = [u \in Uploads |-> IF meta[u] = NoMeta THEN NoMeta ELSE [meta[u] EXCEPT !.fresh = FALSE]]
  /\ UNCHANGED <<tmp, part, disk, rows, lock, call>> /\ KeepBrowsers /\ KeepBounds

\* The browser loses a connection and takes it for an error; the handler goes on.
Drop(s) ==
  /\ call[s] # NoCall /\ call[s].by # None /\ spent.drops < MaxDrops
  /\ spent' = [spent EXCEPT !.drops = @ + 1]
  /\ call' = [call EXCEPT ![s].by = None]
  /\ Hear(call[s].by, FALSE, 0, None)
  /\ UNCHANGED serverVars

\* The control plane stops and starts again: requests end where they are.
Crash ==
  /\ spent.crashes < MaxCrashes
  /\ spent' = [spent EXCEPT !.crashes = @ + 1]
  /\ lock' = NoSlot
  /\ call' = [s \in Slots |-> NoCall]
  /\ LET waiting == {c \in Clients : \E s \in Slots : call[s] # NoCall /\ call[s].by = c} IN
     /\ tab' = [c \in Clients |-> IF c \in waiting THEN Refused(tab[c]) ELSE tab[c]]
     /\ stored' = [c \in Clients |-> IF c \in waiting THEN Stored(c, FALSE, None) ELSE stored[c]]
  /\ UNCHANGED <<meta, tmp, part, disk, rows>>

ClientStep(c) ==
  \E s \in Slots : Fresh(c, s) \/ NextChunk(c, s) \/ Finish(c, s) \/ Realign(c, s)

Serve(s) ==
  \/ CleanCheck(s) \/ CleanMeta(s) \/ CleanPart(s) \/ Create(s) \/ InitSave(s)
  \/ GetLoad(s) \/ GetStat(s) \/ GetTmp(s) \/ GetRename(s)
  \/ PutLoad(s) \/ PutWrite(s) \/ PutBreaks(s) \/ PutTmp(s) \/ PutRename(s)
  \/ CompleteLoad(s) \/ CompleteMove(s) \/ CompleteForget(s) \/ CompleteRow(s)
  \/ AbortMeta(s) \/ AbortPart(s)

UploadNext ==
  \/ \E c \in Clients : ClientStep(c) \/ \E s \in Slots : Begin(c, s)
  \/ \E s \in Slots : Serve(s) \/ Drop(s) \/ Other(s)
  \/ Age \/ Crash

UploadSpec == UploadInit /\ [][UploadNext]_upVars

\* The browser goes on, and so does every request: uploadMu is fair, like all
\* mutexes of Go, and the chunks of a browser that stays connected arrive.
UploadFair ==
  /\ \A c \in Clients : SF_upVars(ClientStep(c))
  /\ \A s \in Slots : SF_upVars(Serve(s))

FairUploadSpec == UploadSpec /\ UploadFair

-----------------------------------------------------------------------------
\* Neither the metadata of an upload, nor a copy of it about to be written, nor
\* the console counts more bytes as received than the data file has: a chunk
\* never leaves a hole (upload.go: the offset of a PUT is compared with Received).
NothingAhead ==
  \A u \in Uploads : part[u] # -1 =>
    /\ meta[u] # NoMeta => meta[u].received <= part[u]
    /\ tmp[u] # NoMeta => tmp[u].received <= part[u]
    /\ \A c \in Clients : stored[c] = u /\ tab[c].pc \in {"loop", "put"} =>
         tab[c].received <= part[u]

\* A registered image is on disk, whole and its own; two files of one name that
\* are complete within one second are excluded by NameOf.
ImageWhole ==
  \A r \in rows : \E d \in disk : d = [file |-> r.file, client |-> r.client, length |-> Size]

\* An upload becomes one image at most, however often completing it is tried, and
\* a console that was told so has its image.
RegisteredOnce ==
  /\ \A q, r \in rows : q.id = r.id => q = r
  /\ \A c \in Clients : tab[c].pc = "done" => \E r \in rows : r.client = c

\* Data without metadata is never removed by the clean-up, which looks for the
\* metadata: none stays behind, unless the control plane was restarted.
PartsHaveMeta ==
  spent.crashes = 0 =>
    \A u \in Uploads : part[u] # -1 /\ meta[u] = NoMeta =>
      \E s \in Slots : call[s] # NoCall /\ call[s].id = u

\* Metadata that was written again after the data was taken away.
Ghost(u) == u # None /\ meta[u] # NoMeta /\ part[u] = -1

\* An upload comes to an end, with an image or an error to show the user, whatever
\* connections are lost, unless its metadata is a ghost: then the console sends
\* its chunk for ever (app.js: the loop of uploadControlPlaneImage).
Ended(c) == tab[c].pc \in {"done", "failed"} \/ Ghost(stored[c])
UploadEnds == \A c \in Clients : tab[c].pc # "idle" ~> Ended(c)
===============================================================================
