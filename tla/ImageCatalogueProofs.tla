-------------------------- MODULE ImageCatalogueProofs --------------------------
(***************************************************************************)
(* Two proofs, for any number of images, requests, failures and stops of   *)
(* the server: a deletion leaves nothing of an image behind, unless        *)
(* another request had the image in its hands; and a boot.wim whose marker *)
(* is believed was patched, unless extractions met another request.        *)
(***************************************************************************)
EXTENDS ImageCatalogue, TLAPS

WorkFields == {"op", "at", "img", "todo", "row", "data", "from", "idx", "on"}
Copying == {"receive", "extract", "borrow", "copy", "rename"}

\* A request is what it is where it is, and never writes "there is no row".
WorkOK(r) ==
  /\ DOMAIN r = WorkFields
  /\ r.op = "none" => r.at = "rest"
  /\ r.op = "delete" <=> r.at \in {"wipe", "drop"}
  /\ r.op = "delete" => r.todo = {}
  /\ r.row # "none"

DomainsOK ==
  /\ DOMAIN work = Workers /\ \A w \in Workers : WorkOK(work[w])
  /\ DOMAIN row = Catalogue /\ DOMAIN file = Catalogue /\ DOMAIN boot = Catalogue
  /\ DOMAIN spare = Catalogue /\ DOMAIN mark = Catalogue /\ DOMAIN fate = Catalogue

Empty(i) == file[i] = "none" /\ boot[i] = NoWim /\ spare[i] = NoWim /\ mark[i] = "none"

\* What is deleted is in nobody's hands.
GoneOK(i) ==
  row[i] = "none" /\ "known" \in fate[i] /\ "shared" \notin fate[i] => Quiet(i) /\ Empty(i)

\* A request that came to an image while it was being deleted: it has found no file to
\* copy from, and after the directory went it does not write to boot.wim.
Harmless(v, i, at) ==
  work[v].img = i =>
    /\ work[v].op # "delete" /\ work[v].at \notin Copying
    /\ at = "drop" => ~(work[v].at = "patched" /\ work[v].on = "boot")

DoomOK(w, i) ==
  work[w].op = "delete" /\ work[w].img = i /\ "shared" \notin fate[i] =>
    /\ "doomed" \in fate[i] /\ file[i] = "none"
    /\ work[w].at = "drop" => Empty(i)
    /\ \A v \in Workers \ {w} : Has(v, i) => Harmless(v, i, work[w].at)

CatInv ==
  /\ DomainsOK
  /\ \A i \in Catalogue : GoneOK(i)
  /\ \A i \in Catalogue, w \in Workers : DoomOK(w, i)

-----------------------------------------------------------------------------
(* A step of one request changes its own image and, of other requests for  *)
(* that image, only which name the file has that they write.               *)

Same(i) ==
  /\ row'[i] = row[i] /\ file'[i] = file[i] /\ boot'[i] = boot[i]
  /\ spare'[i] = spare[i] /\ mark'[i] = mark[i] /\ fate'[i] = fate[i]

SameReq(v, j) ==
  /\ DOMAIN work'[v] = WorkFields
  /\ work'[v].op = work[v].op /\ work'[v].at = work[v].at /\ work'[v].img = work[v].img
  /\ work'[v].todo = work[v].todo /\ work'[v].row = work[v].row
  /\ work'[v].on = work[v].on \/ (work[v].img = j /\ (work'[v].on = "gone" \/ ~Empty(j)))

StepBy(w, j) ==
  /\ DOMAIN work' = Workers /\ WorkOK(work'[w])
  /\ DOMAIN row' = Catalogue /\ DOMAIN file' = Catalogue /\ DOMAIN boot' = Catalogue
  /\ DOMAIN spare' = Catalogue /\ DOMAIN mark' = Catalogue /\ DOMAIN fate' = Catalogue
  /\ \A v \in Workers \ {w} : SameReq(v, j)
  /\ \A i \in Catalogue \ {j} : Same(i)

\* A request that comes to have an image had it, or the image has a row.
Comes(w, i) == Has(w, i)' => Has(w, i) \/ row[i] # "none"

LEMMA StepKeepsDomains ==
  ASSUME CatInv, NEW w \in Workers, NEW j, StepBy(w, j) PROVE DomainsOK'
<1>1. ASSUME NEW v \in Workers \ {w} PROVE WorkOK(work'[v])
  BY <1>1 DEF CatInv, DomainsOK, StepBy, SameReq, WorkOK
<1> QED
  BY <1>1 DEF StepBy, DomainsOK

\* Other images are as they were.
LEMMA OtherImages ==
  ASSUME CatInv, NEW w \in Workers, NEW j, StepBy(w, j),
         work'[w].img # j => work'[w].at \in {"fill", "rest"} /\ work'[w].op # "delete",
         NEW i \in Catalogue, i # j, Comes(w, i)
  PROVE GoneOK(i)' /\ \A u \in Workers : DoomOK(u, i)'
<1>1. Same(i) /\ (Empty(i) <=> Empty(i)')
  BY DEF StepBy, Same, Empty
<1>2. \A v \in Workers \ {w} : SameReq(v, j) /\ (Has(v, i)' <=> Has(v, i))
  BY DEF StepBy, SameReq, Has
<1>3. GoneOK(i)'
  <2> SUFFICES ASSUME row'[i] = "none", "known" \in fate'[i], "shared" \notin fate'[i]
               PROVE Quiet(i)' /\ Empty(i)'
    BY DEF GoneOK
  <2>1. Quiet(i) /\ Empty(i)
    BY <1>1 DEF CatInv, GoneOK, Same
  <2>2. ~Has(w, i)'
    BY <1>1, <2>1 DEF Comes, Quiet, Same
  <2> QED
    BY <1>1, <1>2, <2>1, <2>2 DEF Quiet
<1>4. ASSUME NEW u \in Workers PROVE DoomOK(u, i)'
  <2> SUFFICES ASSUME work'[u].op = "delete", work'[u].img = i, "shared" \notin fate'[i]
               PROVE /\ "doomed" \in fate'[i] /\ file'[i] = "none"
                     /\ work'[u].at = "drop" => Empty(i)'
                     /\ \A v \in Workers \ {u} : Has(v, i)' => Harmless(v, i, work[u].at)'
    BY DEF DoomOK
  <2>1. u # w
    OBVIOUS
  <2>2. SameReq(u, j) /\ work[u].op = "delete" /\ work[u].img = i /\ "shared" \notin fate[i]
    BY <1>1, <1>2, <2>1 DEF SameReq, Same
  <2>3. /\ "doomed" \in fate[i] /\ file[i] = "none" /\ (work[u].at = "drop" => Empty(i))
        /\ \A v \in Workers \ {u} : Has(v, i) => Harmless(v, i, work[u].at)
    BY <2>2 DEF CatInv, DoomOK
  <2>4. ASSUME NEW v \in Workers \ {u}, Has(v, i)' PROVE Harmless(v, i, work[u].at)'
    <3>1. CASE v = w
      BY <3>1 DEF Harmless, Copying
    <3>2. CASE v # w
      BY <1>2, <2>2, <2>3, <2>4, <3>2 DEF SameReq, Harmless
    <3> QED
      BY <3>1, <3>2
  <2> QED
    BY <1>1, <2>2, <2>3, <2>4 DEF Same, SameReq
<1> QED
  BY <1>3, <1>4

-----------------------------------------------------------------------------
(* Requests on their way.                                                  *)

\* A request that is no deletion and goes on: what it does to its image.
GoesOn(w) ==
  LET j == work[w].img IN
  /\ StepBy(w, j)
  /\ work[w].op \notin {"none", "delete"} /\ work'[w].op # "delete"
  /\ work'[w].img # j => work'[w].at \in {"fill", "rest"}
  /\ \A i \in Catalogue : Has(w, i)' => Has(w, i)
  /\ j \in Catalogue =>
       /\ row'[j] = "none" => row[j] = "none" /\ ("known" \in fate'[j] => "known" \in fate[j])
       /\ "shared" \in fate[j] => "shared" \in fate'[j]
       /\ "doomed" \in fate[j] => "doomed" \in fate'[j]

\* While the file is gone and nothing is copied, none of it comes back.
Leaves(w) ==
  \A j \in Catalogue :
    (j = work[w].img /\ work[w].at \notin Copying /\ file[j] = "none") =>
      /\ file'[j] = "none"
      /\ work'[w].at \notin Copying
      /\ Empty(j) /\ ~(work[w].at = "patched" /\ work[w].on = "boot")
           => Empty(j)' /\ ~(work'[w].at = "patched" /\ work'[w].on = "boot")

LEMMA OwnImage ==
  ASSUME CatInv, NEW w \in Workers, GoesOn(w), Leaves(w),
         NEW j \in Catalogue, j = work[w].img
  PROVE GoneOK(j)' /\ \A u \in Workers : DoomOK(u, j)'
<1>1. Has(w, j)
  BY DEF GoesOn, Has
<1>2. \A v \in Workers \ {w} : SameReq(v, j) /\ (Has(v, j)' <=> Has(v, j))
  BY DEF GoesOn, StepBy, SameReq, Has
<1>3. GoneOK(j)'
  <2> SUFFICES ASSUME row'[j] = "none", "known" \in fate'[j], "shared" \notin fate'[j]
               PROVE FALSE
    BY DEF GoneOK
  <2>1. Quiet(j)
    BY DEF CatInv, GoneOK, GoesOn
  <2> QED
    BY <1>1, <2>1 DEF Quiet
<1>4. ASSUME NEW u \in Workers PROVE DoomOK(u, j)'
  <2> SUFFICES ASSUME work'[u].op = "delete", work'[u].img = j, "shared" \notin fate'[j]
               PROVE /\ "doomed" \in fate'[j] /\ file'[j] = "none"
                     /\ work'[u].at = "drop" => Empty(j)'
                     /\ \A v \in Workers \ {u} : Has(v, j)' => Harmless(v, j, work[u].at)'
    BY DEF DoomOK
  <2>1. u # w
    BY DEF GoesOn
  <2>2. /\ SameReq(u, j) /\ work[u].op = "delete" /\ work[u].img = j /\ "shared" \notin fate[j]
        /\ work'[u].at = work[u].at
    BY <1>2, <2>1 DEF SameReq, GoesOn
  <2>3. /\ "doomed" \in fate[j] /\ file[j] = "none" /\ (work[u].at = "drop" => Empty(j))
        /\ \A v \in Workers \ {u} : Has(v, j) => Harmless(v, j, work[u].at)
    BY <2>2 DEF CatInv, DoomOK
  <2>4. /\ work[w].at \notin Copying
        /\ work[u].at = "drop" => ~(work[w].at = "patched" /\ work[w].on = "boot")
    BY <1>1, <2>1, <2>3 DEF Harmless
  <2>5. /\ file'[j] = "none" /\ work'[w].at \notin Copying
        /\ work[u].at = "drop" =>
             Empty(j)' /\ ~(work'[w].at = "patched" /\ work'[w].on = "boot")
    BY <2>3, <2>4 DEF Leaves
  <2>6. ASSUME NEW v \in Workers \ {u}, Has(v, j)' PROVE Harmless(v, j, work[u].at)'
    <3>1. CASE v = w
      BY <2>2, <2>5, <3>1 DEF Harmless, GoesOn
    <3>2. CASE v # w
      <4>1. SameReq(v, j) /\ Harmless(v, j, work[u].at) /\ (work[u].at = "drop" => Empty(j))
        BY <1>2, <2>3, <2>6, <3>2
      <4> QED
        BY <2>2, <4>1 DEF SameReq, Harmless
    <3> QED
      BY <3>1, <3>2
  <2> QED
    BY <2>2, <2>3, <2>5, <2>6 DEF GoesOn
<1> QED
  BY <1>3, <1>4

LEMMA GoesOnKeepsInv ==
  ASSUME CatInv, NEW w \in Workers, GoesOn(w), Leaves(w) PROVE CatInv'
<1> DEFINE j == work[w].img
<1>1. StepBy(w, j) /\ (\A i \in Catalogue : Comes(w, i))
      /\ (work'[w].img # j => work'[w].at \in {"fill", "rest"} /\ work'[w].op # "delete")
  BY DEF GoesOn, Comes
<1> HIDE DEF j
<1>2. DomainsOK'
  BY <1>1, StepKeepsDomains
<1>3. ASSUME NEW i \in Catalogue PROVE GoneOK(i)' /\ \A u \in Workers : DoomOK(u, i)'
  <2>1. CASE i = j
    BY <2>1, OwnImage DEF j
  <2>2. CASE i # j
    BY <1>1, <2>2, OtherImages
  <2> QED
    BY <2>1, <2>2
<1> QED
  BY <1>2, <1>3 DEF CatInv

LEMMA OneRequest ==
  ASSUME CatInv, NEW w \in Workers, NEW r, work' = [work EXCEPT ![w] = r], NEW j
  PROVE /\ DOMAIN work' = Workers /\ work'[w] = r
        /\ \A v \in Workers \ {w} : work'[v] = work[v] /\ SameReq(v, j)
BY DEF CatInv, DomainsOK, WorkOK, SameReq

\* The tables and files of an image: who else they belong to is as it was.
OneImage(j) ==
  /\ DOMAIN row' = Catalogue /\ DOMAIN file' = Catalogue /\ DOMAIN boot' = Catalogue
  /\ DOMAIN spare' = Catalogue /\ DOMAIN mark' = Catalogue /\ DOMAIN fate' = Catalogue
  /\ \A i \in Catalogue \ {j} : Same(i)

\* Its row and its fate, when the request is no deletion.
RowKept(j) ==
  j \in Catalogue =>
    /\ row'[j] = "none" => row[j] = "none" /\ ("known" \in fate'[j] => "known" \in fate[j])
    /\ "shared" \in fate[j] => "shared" \in fate'[j]
    /\ "doomed" \in fate[j] => "doomed" \in fate'[j]

\* What a request becomes: itself, further on; one for the next image of a list; or none.
Becomes(q, r) ==
  /\ WorkOK(r) /\ r.op # "delete"
  /\ \/ r.img = q.img /\ r.todo = q.todo
     \/ r.at = "fill" /\ r.img \in q.todo /\ r.todo \subseteq q.todo
     \/ r.op = "none" /\ r.at = "rest"

LEMMA ActsKeepsInv ==
  ASSUME CatInv, NEW w \in Workers, NEW r, work' = [work EXCEPT ![w] = r],
         work[w].op \notin {"none", "delete"}, Becomes(work[w], r),
         OneImage(work[w].img), RowKept(work[w].img), Leaves(w)
  PROVE CatInv'
<1> DEFINE j == work[w].img
<1>1. work'[w] = r /\ DOMAIN work' = Workers /\ \A v \in Workers \ {w} : SameReq(v, j)
  BY OneRequest
<1>2. WorkOK(work'[w])
  BY <1>1 DEF Becomes
<1>3. StepBy(w, j)
  BY <1>1, <1>2 DEF StepBy, OneImage
<1>4. /\ work'[w].img # j => work'[w].at \in {"fill", "rest"}
      /\ \A i \in Catalogue : Has(w, i)' => Has(w, i)
  BY <1>1 DEF Becomes, Has
<1>5. GoesOn(w)
  BY <1>1, <1>3, <1>4 DEF GoesOn, RowKept, Becomes
<1> QED
  BY <1>5, GoesOnKeepsInv

\* Only the request goes on, and maybe something is noted of its image.
Noted(j) ==
  /\ DOMAIN fate' = Catalogue
  /\ \A i \in Catalogue \ {j} : fate'[i] = fate[i]
  /\ j \in Catalogue => \A what \in {"known", "shared", "doomed"} : what \in fate'[j] <=> what \in fate[j]

LEMMA ReadsKeepsInv ==
  ASSUME CatInv, NEW w \in Workers, NEW r, work' = [work EXCEPT ![w] = r],
         work[w].op \notin {"none", "delete"}, Becomes(work[w], r),
         UNCHANGED <<row, file, boot, spare, mark>>, Noted(work[w].img),
         r.at # "patched",
         \A j \in Catalogue : j = work[w].img /\ file[j] = "none" /\ work[w].at \notin Copying
                              => r.at \notin Copying
  PROVE CatInv'
<1>1. OneImage(work[w].img) /\ RowKept(work[w].img)
  BY DEF CatInv, DomainsOK, Noted, OneImage, RowKept, Same
<1>2. Leaves(w)
  BY OneRequest DEF Leaves, Empty
<1> QED
  BY <1>1, <1>2, ActsKeepsInv

LEMMA AtTells ==
  ASSUME CatInv, NEW w \in Workers, work[w].at \notin {"rest", "wipe", "drop"}
  PROVE work[w].op \notin {"none", "delete"} /\ WorkOK(work[w])
BY DEF CatInv, DomainsOK, WorkOK

LEMMA RestIsOK == WorkOK(Rest) /\ Rest.op = "none" /\ Rest.at = "rest"
BY DEF Rest, WorkOK, WorkFields

LEMMA UnchangedIsNoted == ASSUME CatInv, UNCHANGED fate, NEW j PROVE Noted(j)
BY DEF CatInv, DomainsOK, Noted

LEMMA NoteIsNoted ==
  ASSUME CatInv, NEW j, NEW what, what \cap {"known", "shared", "doomed"} = {}, Note(j, what)
  PROVE Noted(j)
BY DEF CatInv, DomainsOK, Noted, Note

\* The same request, at another place.
LEMMA Further ==
  ASSUME NEW q, WorkOK(q), q.op \notin {"none", "delete"}, NEW r, DOMAIN r = WorkFields,
         r.op = q.op, r.img = q.img, r.todo = q.todo, r.row # "none", r.at \notin {"wipe", "drop"}
  PROVE Becomes(q, r)
BY DEF WorkOK, Becomes

LEMMA Ended ==
  ASSUME NEW q, q.op \notin {"none", "delete"} PROVE Becomes(q, Rest)
BY RestIsOK DEF Becomes

-----------------------------------------------------------------------------
(* The actions that only read.                                             *)

LEMMA FillInv == ASSUME CatInv, NEW w \in Workers, Fill(w) PROVE CatInv'
<1> DEFINE q == work[w]
           at == CASE file[q.img] = "none" -> "store"
                   [] file[q.img] # "none" /\ q.img \in ISOs -> "extract"
                   [] OTHER -> "borrow"
           r == [q EXCEPT !.row = IF file[q.img] # "none" /\ q.img \in ISOs THEN "named" ELSE "",
                          !.at = at]
<1>1. q.op \notin {"none", "delete"} /\ WorkOK(q)
  BY AtTells DEF Fill, Is
<1>2. work' = [work EXCEPT ![w] = r] /\ UNCHANGED <<row, file, boot, spare, mark, fate>>
  BY DEF Fill
<1>3. at \in {"store", "extract", "borrow"} /\ (file[q.img] = "none" => at = "store")
  OBVIOUS
<1> HIDE DEF at
<1>4. /\ DOMAIN r = WorkFields /\ r.op = q.op /\ r.img = q.img /\ r.todo = q.todo
      /\ r.row # "none" /\ r.at = at
  BY <1>1 DEF WorkOK, WorkFields
<1> HIDE DEF r
<1>5. Becomes(q, r)
  BY <1>1, <1>3, <1>4, Further
<1>6. r.at # "patched" /\ (file[q.img] = "none" => r.at \notin Copying)
  BY <1>3, <1>4 DEF Copying
<1>7. Noted(q.img)
  BY <1>2, UnchangedIsNoted
<1> QED
  BY <1>1, <1>2, <1>5, <1>6, <1>7, ReadsKeepsInv

\* Any step to a place where nothing is copied or patched.
LEMMA MoveKeepsInv ==
  ASSUME CatInv, NEW w \in Workers, work[w].at \notin {"rest", "wipe", "drop"},
         NEW r, work' = [work EXCEPT ![w] = r],
         \/ r = Rest
         \/ /\ DOMAIN r = WorkFields /\ r.op = work[w].op /\ r.img = work[w].img
            /\ r.todo = work[w].todo /\ r.row # "none"
            /\ r.at \in {"look", "fix", "store", "hive", "patch", "mark"},
         UNCHANGED <<row, file, boot, spare, mark>>, Noted(work[w].img)
  PROVE CatInv'
<1>1. work[w].op \notin {"none", "delete"} /\ WorkOK(work[w])
  BY AtTells
<1>2. Becomes(work[w], r)
  BY <1>1, Further, Ended
<1>3. r.at # "patched" /\ r.at \notin Copying
  BY RestIsOK DEF Copying
<1> QED
  BY <1>1, <1>2, <1>3, ReadsKeepsInv

LEMMA LookInv == ASSUME CatInv, NEW w \in Workers, Look(w) PROVE CatInv'
<1> DEFINE r == IF LooksHere(work[w].img) THEN [work[w] EXCEPT !.row = "here", !.at = "fix"]
                ELSE [work[w] EXCEPT !.at = "store"]
<1>1. /\ work[w].at = "look" /\ work' = [work EXCEPT ![w] = r]
      /\ UNCHANGED <<row, file, boot, spare, mark, fate>>
  BY DEF Look, Is
<1>2. WorkOK(work[w])
  BY DEF CatInv, DomainsOK
<1>3. /\ DOMAIN r = WorkFields /\ r.op = work[w].op /\ r.img = work[w].img
      /\ r.todo = work[w].todo /\ r.row # "none" /\ r.at \in {"fix", "store"}
  BY <1>2 DEF WorkOK, WorkFields
<1> HIDE DEF r
<1> QED
  BY <1>1, <1>3, UnchangedIsNoted, MoveKeepsInv

\* FixBootWIM ends.
LEMMA FixedMoves ==
  ASSUME CatInv, NEW w \in Workers, work' = Fixed(w)
  PROVE \E r : /\ work' = [work EXCEPT ![w] = r]
              /\ \/ r = Rest
                 \/ /\ DOMAIN r = WorkFields /\ r.op = work[w].op /\ r.img = work[w].img
                    /\ r.todo = work[w].todo /\ r.row # "none" /\ r.at = "store"
<1> DEFINE r == [work[w] EXCEPT !.at = "store", !.on = "gone"]
<1>1. WorkOK(work[w])
  BY DEF CatInv, DomainsOK
<1>2. work' = [work EXCEPT ![w] = Rest] \/ work' = [work EXCEPT ![w] = r]
  BY DEF Fixed
<1>3. /\ DOMAIN r = WorkFields /\ r.op = work[w].op /\ r.img = work[w].img
      /\ r.todo = work[w].todo /\ r.row # "none" /\ r.at = "store"
  BY <1>1 DEF WorkOK, WorkFields
<1> HIDE DEF r
<1> QED
  BY <1>2, <1>3

\* The next index, or the marker.
LEMMA NextMoves ==
  ASSUME CatInv, NEW w \in Workers, NextIndex(w)
  PROVE \E r : /\ work' = [work EXCEPT ![w] = r]
              /\ DOMAIN r = WorkFields /\ r.op = work[w].op /\ r.img = work[w].img
              /\ r.todo = work[w].todo /\ r.row # "none" /\ r.at \in {"mark", "hive"}
<1> DEFINE r == [work[w] EXCEPT !.at = IF work[w].idx = Count THEN "mark" ELSE "hive",
                                !.idx = IF @ = Count THEN @ ELSE @ + 1, !.on = "gone"]
<1>1. WorkOK(work[w])
  BY DEF CatInv, DomainsOK
<1>2. work' = [work EXCEPT ![w] = r]
  BY DEF NextIndex
<1>3. /\ DOMAIN r = WorkFields /\ r.op = work[w].op /\ r.img = work[w].img
      /\ r.todo = work[w].todo /\ r.row # "none" /\ r.at \in {"mark", "hive"}
  BY <1>1 DEF WorkOK, WorkFields
<1> HIDE DEF r
<1> QED
  BY <1>2, <1>3

LEMMA MoveMoves ==
  ASSUME CatInv, NEW w \in Workers, NEW at, Move(w, at)
  PROVE \E r : /\ work' = [work EXCEPT ![w] = r]
              /\ DOMAIN r = WorkFields /\ r.op = work[w].op /\ r.img = work[w].img
              /\ r.todo = work[w].todo /\ r.row # "none" /\ r.at = at /\ r.on = work[w].on
<1> DEFINE r == [work[w] EXCEPT !.at = at]
<1>1. WorkOK(work[w])
  BY DEF CatInv, DomainsOK
<1>2. work' = [work EXCEPT ![w] = r]
  BY DEF Move
<1>3. /\ DOMAIN r = WorkFields /\ r.op = work[w].op /\ r.img = work[w].img
      /\ r.todo = work[w].todo /\ r.row # "none" /\ r.at = at /\ r.on = work[w].on
  BY <1>1 DEF WorkOK, WorkFields
<1> HIDE DEF r
<1> QED
  BY <1>2, <1>3

LEMMA FixInv ==
  ASSUME CatInv, NEW w \in Workers, Fix(w) \/ Hive(w) \/ HiveFails(w) \/ PatchFails(w)
  PROVE CatInv'
<1>1. /\ work[w].at \notin {"rest", "wipe", "drop"}
      /\ UNCHANGED <<row, file, boot, spare, mark>>
  BY DEF Fix, Hive, HiveFails, PatchFails, Is
<1>2. CASE work' = Fixed(w) /\ Noted(work[w].img)
  BY <1>1, <1>2, FixedMoves, MoveKeepsInv
<1>3. CASE NextIndex(w) /\ Noted(work[w].img)
  BY <1>1, <1>3, NextMoves, MoveKeepsInv
<1>4. CASE Hive(w)
  <2>1. Noted(work[w].img) /\ (Move(w, "patch") \/ NextIndex(w))
    BY <1>4, UnchangedIsNoted DEF Hive
  <2> QED
    BY <1>1, <1>3, <2>1, MoveMoves, MoveKeepsInv
<1>5. ASSUME FixFails(w) PROVE Noted(work[w].img) /\ work' = Fixed(w)
  BY <1>5, NoteIsNoted DEF FixFails
<1>6. CASE Fix(w)
  <2>1. \/ FixFails(w)
        \/ work' = Fixed(w) /\ UNCHANGED fate
        \/ work' = [work EXCEPT ![w].at = "hive", ![w].idx = 1] /\ UNCHANGED fate
    BY <1>6 DEF Fix
  <2>2. CASE work' = [work EXCEPT ![w].at = "hive", ![w].idx = 1] /\ UNCHANGED fate
    <3> DEFINE r == [work[w] EXCEPT !.at = "hive", !.idx = 1]
    <3>1. WorkOK(work[w]) /\ work' = [work EXCEPT ![w] = r]
      BY <2>2 DEF CatInv, DomainsOK
    <3>2. /\ DOMAIN r = WorkFields /\ r.op = work[w].op /\ r.img = work[w].img
          /\ r.todo = work[w].todo /\ r.row # "none" /\ r.at = "hive"
      BY <3>1 DEF WorkOK, WorkFields
    <3> HIDE DEF r
    <3> QED
      BY <1>1, <2>2, <3>1, <3>2, UnchangedIsNoted, MoveKeepsInv
  <2> QED
    BY <1>2, <1>5, <2>1, <2>2, UnchangedIsNoted
<1>7. CASE HiveFails(w)
  <2>1. \/ FixFails(w)
        \/ NextIndex(w) /\ \E what \in SUBSET {"skipped"} : Note(work[w].img, what)
    BY <1>7 DEF HiveFails
  <2> QED
    BY <1>2, <1>3, <1>5, <2>1, NoteIsNoted
<1>8. CASE PatchFails(w)
  BY <1>2, <1>5, <1>8 DEF PatchFails
<1> QED
  BY <1>4, <1>6, <1>7, <1>8

-----------------------------------------------------------------------------
(* The actions that copy.                                                  *)

\* Whoever copies had the file before the deletion began.
LEMMA CopyKeepsInv ==
  ASSUME CatInv, NEW w \in Workers, work[w].at \in Copying,
         NEW r, work' = [work EXCEPT ![w] = r],
         \/ r = Rest
         \/ /\ DOMAIN r = WorkFields /\ r.op = work[w].op /\ r.img = work[w].img
            /\ r.todo = work[w].todo /\ r.row # "none" /\ r.at \notin {"wipe", "drop"},
         OneImage(work[w].img), UNCHANGED <<row, fate>>
  PROVE CatInv'
<1>1. work[w].op \notin {"none", "delete"} /\ WorkOK(work[w])
  BY AtTells DEF Copying
<1>2. Becomes(work[w], r)
  BY <1>1, Further, Ended
<1>3. RowKept(work[w].img) /\ Leaves(w)
  BY DEF RowKept, Leaves
<1> QED
  BY <1>1, <1>2, <1>3, ActsKeepsInv

LEMMA ReceivedInv == ASSUME CatInv, NEW w \in Workers, Received(w) PROVE CatInv'
<1>1. OneImage(work[w].img) /\ UNCHANGED <<row, fate>> /\ work[w].at \in Copying
  BY DEF Received, Is, Copying, CatInv, DomainsOK, OneImage, Same
<1>2. Move(w, "fill") \/ work' = [work EXCEPT ![w] = Rest]
  BY DEF Received
<1> QED
  BY <1>1, <1>2, MoveMoves, CopyKeepsInv

LEMMA BeginInv ==
  ASSUME CatInv, NEW w \in Workers, ExtractBoot(w) \/ Borrow(w) PROVE CatInv'
<1>1. /\ UNCHANGED <<row, file, boot, mark, fate>> /\ work[w].at \in Copying
      /\ \/ \E data, from : BeginCopy(w, work[w].img, data, from)
         \/ Move(w, "look") /\ UNCHANGED spare
  BY DEF ExtractBoot, Borrow, Is, Copying
<1>2. CASE Move(w, "look") /\ UNCHANGED spare
  <2>1. OneImage(work[w].img)
    BY <1>1, <1>2 DEF CatInv, DomainsOK, OneImage, Same
  <2> QED
    BY <1>1, <1>2, <2>1, MoveMoves, CopyKeepsInv
<1>3. ASSUME NEW data, NEW from, BeginCopy(w, work[w].img, data, from) PROVE CatInv'
  <2> DEFINE r == [work[w] EXCEPT !.at = "copy", !.data = data, !.from = from, !.on = "tmp"]
  <2>1. WorkOK(work[w]) /\ work' = [work EXCEPT ![w] = r]
    BY <1>3 DEF CatInv, DomainsOK, BeginCopy
  <2>2. /\ DOMAIN r = WorkFields /\ r.op = work[w].op /\ r.img = work[w].img
        /\ r.todo = work[w].todo /\ r.row # "none" /\ r.at = "copy"
    BY <2>1 DEF WorkOK, WorkFields
  <2> HIDE DEF r
  <2>3. OneImage(work[w].img)
    BY <1>1, <1>3 DEF CatInv, DomainsOK, OneImage, Same, BeginCopy
  <2> QED
    BY <1>1, <2>1, <2>2, <2>3, CopyKeepsInv
<1> QED
  BY <1>1, <1>2, <1>3

LEMMA CopyInv == ASSUME CatInv, NEW w \in Workers, Copy(w) PROVE CatInv'
<1>1. UNCHANGED <<row, file, fate>> /\ work[w].at \in Copying /\ Move(w, "rename")
  BY DEF Copy, Is, Copying
<1>2. /\ DOMAIN boot' = Catalogue /\ DOMAIN spare' = Catalogue /\ DOMAIN mark' = Catalogue
      /\ \A i \in Catalogue \ {work[w].img} :
           boot'[i] = boot[i] /\ spare'[i] = spare[i] /\ mark'[i] = mark[i]
  BY DEF Copy, CatInv, DomainsOK
<1>3. OneImage(work[w].img)
  BY <1>1, <1>2 DEF CatInv, DomainsOK, OneImage, Same
<1> QED
  BY <1>1, <1>3, MoveMoves, CopyKeepsInv

-----------------------------------------------------------------------------
(* The actions that take or change names of files others may be writing.   *)

\* Renamed changes the name that requests for the same image write to, and nothing else.
LEMMA RenamedIsSame ==
  ASSUME CatInv, NEW w \in Workers, NEW j, NEW names, DOMAIN names \subseteq {"tmp", "boot"},
         \A n \in DOMAIN names : names[n] = "gone" \/ ~Empty(j),
         NEW r, work' = [Renamed(w, j, names) EXCEPT ![w] = r]
  PROVE /\ DOMAIN work' = Workers /\ work'[w] = r
        /\ \A v \in Workers \ {w} :
             /\ SameReq(v, j)
             /\ IF work[v].img = j /\ work[v].on \in DOMAIN names
                THEN work'[v].on = names[work[v].on] ELSE work'[v] = work[v]
<1>1. DOMAIN Renamed(w, j, names) = Workers
  BY DEF Renamed
<1>2. DOMAIN work' = Workers /\ work'[w] = r
      /\ \A v \in Workers \ {w} : work'[v] = Renamed(w, j, names)[v]
  BY <1>1
<1>3. ASSUME NEW v \in Workers \ {w}
      PROVE /\ SameReq(v, j)
            /\ IF work[v].img = j /\ work[v].on \in DOMAIN names
               THEN work'[v].on = names[work[v].on] ELSE work'[v] = work[v]
  <2> DEFINE q == [work[v] EXCEPT !.on = names[work[v].on]]
             b == work[v].img = j /\ work[v].on \in DOMAIN names
  <2>1. work'[v] = IF b THEN q ELSE work[v]
    BY <1>2 DEF Renamed
  <2>2. WorkOK(work[v])
    BY DEF CatInv, DomainsOK
  <2>3. /\ DOMAIN q = WorkFields /\ q.op = work[v].op /\ q.at = work[v].at /\ q.img = work[v].img
        /\ q.todo = work[v].todo /\ q.row = work[v].row /\ q.on = names[work[v].on]
    BY <2>2 DEF WorkOK, WorkFields
  <2> HIDE DEF q
  <2>4. CASE b
    BY <2>1, <2>3, <2>4 DEF SameReq
  <2>5. CASE ~b
    BY <2>1, <2>2, <2>5 DEF SameReq, WorkOK
  <2> QED
    BY <2>4, <2>5
<1> QED
  BY <1>2, <1>3

\* A copy that ends, well or not.
LEMMA CopyEndsKeepsInv ==
  ASSUME CatInv, NEW w \in Workers, work[w].at \in Copying,
         NEW names, DOMAIN names \subseteq {"tmp", "boot"},
         \A n \in DOMAIN names : names[n] = "gone" \/ ~Empty(work[w].img),
         NEW r, work' = [Renamed(w, work[w].img, names) EXCEPT ![w] = r],
         DOMAIN r = WorkFields, r.op = work[w].op, r.img = work[w].img,
         r.todo = work[w].todo, r.row # "none", r.at \notin {"wipe", "drop"},
         OneImage(work[w].img), RowKept(work[w].img)
  PROVE CatInv'
<1> DEFINE j == work[w].img
<1>1. work[w].op \notin {"none", "delete"} /\ WorkOK(work[w])
  BY AtTells DEF Copying
<1>2. DOMAIN work' = Workers /\ work'[w] = r /\ \A v \in Workers \ {w} : SameReq(v, j)
  BY RenamedIsSame
<1>3. WorkOK(r)
  BY <1>1 DEF WorkOK
<1>4. StepBy(w, j)
  BY <1>2, <1>3 DEF StepBy, OneImage
<1>5. GoesOn(w)
  BY <1>1, <1>2, <1>4 DEF GoesOn, RowKept, Has
<1>6. Leaves(w)
  BY DEF Leaves
<1> QED
  BY <1>5, <1>6, GoesOnKeepsInv

LEMMA CopyFailsInv == ASSUME CatInv, NEW w \in Workers, CopyFails(w) PROVE CatInv'
<1> DEFINE r == [work[w] EXCEPT !.at = "look", !.on = "gone"]
<1>1. WorkOK(work[w]) /\ work[w].at \in Copying /\ UNCHANGED <<row, file, boot, mark, fate>>
  BY DEF CatInv, DomainsOK, CopyFails, Is, Copying
<1>2. Renamed(w, work[w].img, NoTmp)[w] = work[w] /\ DOMAIN Renamed(w, work[w].img, NoTmp) = Workers
  BY DEF Renamed
<1>3. work' = [Renamed(w, work[w].img, NoTmp) EXCEPT ![w] = r]
  BY <1>2 DEF CopyFails
<1>4. /\ DOMAIN r = WorkFields /\ r.op = work[w].op /\ r.img = work[w].img
      /\ r.todo = work[w].todo /\ r.row # "none" /\ r.at = "look"
  BY <1>1 DEF WorkOK, WorkFields
<1> HIDE DEF r
<1>5. OneImage(work[w].img) /\ RowKept(work[w].img)
  BY <1>1 DEF CatInv, DomainsOK, CopyFails, OneImage, Same, RowKept
<1>6. DOMAIN NoTmp = {"tmp"} /\ NoTmp["tmp"] = "gone"
  BY DEF NoTmp
<1> QED
  BY <1>1, <1>3, <1>4, <1>5, <1>6, CopyEndsKeepsInv

LEMMA RenameInv == ASSUME CatInv, NEW w \in Workers, Rename(w) PROVE CatInv'
<1> DEFINE r == [work[w] EXCEPT !.at = "look", !.on = "gone"]
<1>1. WorkOK(work[w]) /\ work[w].at \in Copying /\ UNCHANGED <<row, file>>
  BY DEF CatInv, DomainsOK, Rename, Is, Copying
<1>2. /\ DOMAIN r = WorkFields /\ r.op = work[w].op /\ r.img = work[w].img
      /\ r.todo = work[w].todo /\ r.row # "none" /\ r.at = "look"
  BY <1>1 DEF WorkOK, WorkFields
<1>3. CASE spare[work[w].img].there
  <2>1. Renamed(w, work[w].img, Moved)[w] = work[w] /\ DOMAIN Renamed(w, work[w].img, Moved) = Workers
    BY DEF Renamed
  <2>2. work' = [Renamed(w, work[w].img, Moved) EXCEPT ![w] = r]
    BY <1>3, <2>1 DEF Rename
  <2> HIDE DEF r
  <2>3. OneImage(work[w].img) /\ RowKept(work[w].img)
    BY <1>1, <1>3 DEF CatInv, DomainsOK, Rename, OneImage, Same, RowKept
  <2>4. DOMAIN Moved \subseteq {"tmp", "boot"} /\ ~Empty(work[w].img)
    BY <1>3 DEF Moved, Empty, NoWim
  <2> QED
    BY <1>1, <1>2, <2>2, <2>3, <2>4, CopyEndsKeepsInv
<1>4. CASE ~spare[work[w].img].there
  <2>1. work' = [work EXCEPT ![w] = r] /\ UNCHANGED <<boot, spare, mark, fate>>
    BY <1>4 DEF Rename
  <2> HIDE DEF r
  <2>2. OneImage(work[w].img)
    BY <1>1, <2>1 DEF CatInv, DomainsOK, OneImage, Same
  <2> QED
    BY <1>1, <1>2, <2>1, <2>2, CopyKeepsInv
<1> QED
  BY <1>3, <1>4

-----------------------------------------------------------------------------
(* The actions that patch, mark and store.                                 *)

LEMMA PatchInv == ASSUME CatInv, NEW w \in Workers, Patch(w) PROVE CatInv'
<1> DEFINE r == [work[w] EXCEPT !.at = "patched", !.on = "boot"]
<1>1. /\ work[w].at = "patch" /\ boot[work[w].img].whole
      /\ UNCHANGED <<row, file, spare, fate>> /\ work' = [work EXCEPT ![w] = r]
  BY DEF Patch, Is
<1>2. work[w].op \notin {"none", "delete"} /\ WorkOK(work[w])
  BY <1>1, AtTells
<1>3. /\ DOMAIN r = WorkFields /\ r.op = work[w].op /\ r.img = work[w].img
      /\ r.todo = work[w].todo /\ r.row # "none" /\ r.at = "patched"
  BY <1>2 DEF WorkOK, WorkFields
<1> HIDE DEF r
<1>4. Becomes(work[w], r)
  BY <1>2, <1>3, Further
<1>5. OneImage(work[w].img) /\ RowKept(work[w].img)
  BY <1>1 DEF CatInv, DomainsOK, Patch, OneImage, Same, RowKept
<1>6. ~Empty(work[w].img)
  <2>1. NoWim.whole = FALSE
    BY DEF NoWim
  <2> QED
    BY <1>1, <2>1, Zenon DEF Empty
<1>7. work'[w] = r
  BY <1>1, OneRequest
<1>8. Leaves(w)
  BY <1>1, <1>3, <1>6, <1>7 DEF Leaves, Copying
<1> QED
  BY <1>1, <1>2, <1>4, <1>5, <1>8, ActsKeepsInv

LEMMA PatchesInv == ASSUME CatInv, NEW w \in Workers, Patches(w) PROVE CatInv'
<1>1. work[w].at = "patched" /\ NextIndex(w) /\ UNCHANGED <<row, file, spare, fate>>
  BY DEF Patches, Is
<1>2. work[w].op \notin {"none", "delete"} /\ WorkOK(work[w])
  BY <1>1, AtTells
<1>3. PICK r : /\ work' = [work EXCEPT ![w] = r]
               /\ DOMAIN r = WorkFields /\ r.op = work[w].op /\ r.img = work[w].img
               /\ r.todo = work[w].todo /\ r.row # "none" /\ r.at \in {"mark", "hive"}
  BY <1>1, NextMoves
<1>4. Becomes(work[w], r)
  BY <1>2, <1>3, Further
<1>5. OneImage(work[w].img) /\ RowKept(work[w].img)
  BY <1>1 DEF CatInv, DomainsOK, Patches, OneImage, Same, RowKept
<1>6. work'[w] = r /\ (work[w].on # "boot" => UNCHANGED <<boot, mark>>)
  BY <1>3, OneRequest DEF Patches
<1>7. Leaves(w)
  BY <1>1, <1>3, <1>6 DEF Leaves, Copying, Empty
<1> QED
  BY <1>2, <1>3, <1>4, <1>5, <1>7, ActsKeepsInv

\* Nothing is marked where nothing is.
LEMMA MarkInv == ASSUME CatInv, NEW w \in Workers, Mark(w) PROVE CatInv'
<1>1. work[w].at = "mark" /\ UNCHANGED <<row, file, boot, spare>> /\ work' = Fixed(w)
  BY DEF Mark, Is, FixFails
<1>2. work[w].op \notin {"none", "delete"} /\ WorkOK(work[w])
  BY <1>1, AtTells
<1>3. PICK r : /\ work' = [work EXCEPT ![w] = r]
               /\ \/ r = Rest
                  \/ /\ DOMAIN r = WorkFields /\ r.op = work[w].op /\ r.img = work[w].img
                     /\ r.todo = work[w].todo /\ r.row # "none" /\ r.at = "store"
  BY <1>1, FixedMoves
<1>4. Becomes(work[w], r) /\ work'[w] = r /\ r.at \in {"rest", "store"}
  <2>1. work'[w] = r
    BY <1>3, OneRequest
  <2>2. CASE r = Rest
    BY <1>2, <2>1, <2>2, Ended, RestIsOK
  <2>3. CASE r # Rest
    BY <1>2, <1>3, <2>1, <2>3, Further
  <2> QED
    BY <2>2, <2>3
<1>5. OneImage(work[w].img) /\ RowKept(work[w].img)
  BY <1>1 DEF CatInv, DomainsOK, Mark, FixFails, Note, OneImage, Same, RowKept
<1>6. Empty(work[w].img) => UNCHANGED mark
  BY DEF Mark, Empty, NoWim
<1>7. Leaves(w)
  BY <1>1, <1>4, <1>6 DEF Leaves, Copying, Empty
<1> QED
  BY <1>2, <1>3, <1>4, <1>5, <1>7, ActsKeepsInv

LEMMA StoreInv == ASSUME CatInv, NEW w \in Workers, Store(w) PROVE CatInv'
<1> DEFINE q == work[w]
           Next(j) == [Rest EXCEPT !.op = "list", !.at = "fill", !.img = j, !.todo = q.todo \ {j}]
<1>1. q.at = "store" /\ UNCHANGED <<file, boot, spare, mark>>
  BY DEF Store, Is
<1>2. q.op \notin {"none", "delete"} /\ WorkOK(q)
  BY <1>1, AtTells
<1>3. \/ work' = [work EXCEPT ![w] = Rest]
      \/ \E j \in q.todo : work' = [work EXCEPT ![w] = Next(j)]
  BY DEF Store
<1>4. ASSUME NEW j \in q.todo PROVE Becomes(q, Next(j)) /\ Next(j).at = "fill"
  BY <1>4 DEF Becomes, WorkOK, WorkFields, Rest
<1>5. PICK r : work' = [work EXCEPT ![w] = r] /\ Becomes(q, r) /\ r.at \in {"rest", "fill"}
  <2>1. Becomes(q, Rest) /\ Rest.at = "rest"
    BY <1>2, Ended, RestIsOK
  <2> HIDE DEF Next
  <2> QED
    BY <1>3, <1>4, <2>1
<1>6. OneImage(q.img)
  BY <1>1 DEF CatInv, DomainsOK, Store, Note, OneImage, Same
<1>7. RowKept(q.img)
  BY <1>2 DEF CatInv, DomainsOK, Store, Note, RowKept, WorkOK
<1>8. work'[w] = r
  BY <1>5, OneRequest
<1>9. Leaves(w)
  BY <1>1, <1>5, <1>8 DEF Leaves, Copying, Empty
<1> QED
  BY <1>2, <1>5, <1>6, <1>7, <1>9, ActsKeepsInv

-----------------------------------------------------------------------------
(* Requests that come.                                                     *)

LEMMA StartsWith ==
  ASSUME NEW w, NEW op, NEW at, NEW i, NEW todo, Start(w, op, at, i, todo)
  PROVE \E r : /\ work' = [work EXCEPT ![w] = r] /\ work[w].at = "rest"
              /\ DOMAIN r = WorkFields /\ r.op = op /\ r.at = at /\ r.img = i
              /\ r.todo = todo /\ r.row # "none" /\ r.on = "gone"
<1> DEFINE r == [Rest EXCEPT !.op = op, !.at = at, !.img = i, !.todo = todo]
<1>1. work' = [work EXCEPT ![w] = r] /\ work[w].at = "rest"
  BY DEF Start, Is
<1>2. /\ DOMAIN r = WorkFields /\ r.op = op /\ r.at = at /\ r.img = i
      /\ r.todo = todo /\ r.row # "none" /\ r.on = "gone"
  BY DEF Rest, WorkFields
<1> HIDE DEF r
<1> QED
  BY <1>1, <1>2

\* Whoever comes to an image that is being deleted is not about to copy.
LEMMA StartKeepsInv ==
  ASSUME CatInv, NEW w \in Workers, NEW i \in Catalogue,
         NEW op \in {"upload", "inspect", "list", "get"}, NEW at \in {"receive", "fill", "fix"},
         NEW todo, \A k \in Catalogue : k \in todo => row[k] # "none",
         Start(w, op, at, i, todo),
         UNCHANGED <<row, boot, spare, mark, fate>>,
         IF at = "receive" THEN fate[i] = {} /\ \E f : file' = [file EXCEPT ![i] = f]
                           ELSE row[i] # "none" /\ UNCHANGED file
  PROVE CatInv'
<1>1. PICK r : /\ work' = [work EXCEPT ![w] = r] /\ work[w].at = "rest"
               /\ DOMAIN r = WorkFields /\ r.op = op /\ r.at = at /\ r.img = i
               /\ r.todo = todo /\ r.row # "none" /\ r.on = "gone"
  BY StartsWith
<1>2. DOMAIN work' = Workers /\ work'[w] = r /\ \A v \in Workers \ {w} : work'[v] = work[v] /\ SameReq(v, i)
  BY <1>1, OneRequest
<1>3. WorkOK(r)
  BY <1>1 DEF WorkOK
<1>4. StepBy(w, i)
  BY <1>2, <1>3 DEF CatInv, DomainsOK, StepBy, Same
<1>5. DomainsOK'
  BY <1>4, StepKeepsDomains
<1>6. ASSUME NEW k \in Catalogue, k # i PROVE GoneOK(k)' /\ \A u \in Workers : DoomOK(u, k)'
  <2>1. Comes(w, k)
    BY <1>1, <1>2, <1>6 DEF Comes, Has
  <2> QED
    BY <1>1, <1>2, <1>4, <1>6, <2>1, OtherImages
<1>7. GoneOK(i)'
  BY DEF GoneOK
<1>8. ASSUME NEW u \in Workers PROVE DoomOK(u, i)'
  <2> SUFFICES ASSUME work'[u].op = "delete", work'[u].img = i, "shared" \notin fate'[i]
               PROVE /\ "doomed" \in fate'[i] /\ file'[i] = "none"
                     /\ work'[u].at = "drop" => Empty(i)'
                     /\ \A v \in Workers \ {u} : Has(v, i)' => Harmless(v, i, work[u].at)'
    BY DEF DoomOK
  <2>1. u # w
    BY <1>1, <1>2
  <2>2. work'[u] = work[u] /\ fate' = fate
    BY <1>2, <2>1
  <2>3. /\ "doomed" \in fate[i] /\ file[i] = "none" /\ (work[u].at = "drop" => Empty(i))
        /\ \A v \in Workers \ {u} : Has(v, i) => Harmless(v, i, work[u].at)
    BY <2>2 DEF CatInv, DoomOK
  <2>4. at # "receive" /\ UNCHANGED file
    BY <2>3
  <2>5. ASSUME NEW v \in Workers \ {u}, Has(v, i)' PROVE Harmless(v, i, work[u].at)'
    <3>1. CASE v = w
      BY <1>1, <1>2, <2>4, <3>1 DEF Harmless, Copying
    <3>2. CASE v # w
      BY <1>2, <2>2, <2>3, <2>5, <3>2 DEF Has, Harmless
    <3> QED
      BY <3>1, <3>2
  <2> QED
    BY <2>2, <2>3, <2>4, <2>5 DEF Empty
<1> QED
  BY <1>5, <1>6, <1>7, <1>8 DEF CatInv

LEMMA StartInv ==
  ASSUME CatInv, NEW w \in Workers,
         \/ \E i \in Catalogue : Upload(w, i) \/ Inspect(w, i) \/ GetBoot(w, i)
         \/ List(w)
  PROVE CatInv'
<1>1. ASSUME NEW i \in Catalogue, Upload(w, i) PROVE CatInv'
  <2>1. Start(w, "upload", "receive", i, {}) /\ fate[i] = {} /\ UNCHANGED <<row, boot, spare, mark, fate>>
        /\ \E f : file' = [file EXCEPT ![i] = f]
    BY <1>1 DEF Upload
  <2> QED
    BY <2>1, StartKeepsInv
<1>2. ASSUME NEW i \in Catalogue, Inspect(w, i) PROVE CatInv'
  <2>1. Start(w, "inspect", "fill", i, {}) /\ row[i] # "none" /\ UNCHANGED <<row, file, boot, spare, mark, fate>>
    BY <1>2 DEF Inspect
  <2> QED
    BY <2>1, StartKeepsInv
<1>3. ASSUME NEW i \in Catalogue, GetBoot(w, i) PROVE CatInv'
  <2>1. Start(w, "get", "fix", i, {}) /\ row[i] # "none" /\ UNCHANGED <<row, file, boot, spare, mark, fate>>
    BY <1>3 DEF GetBoot
  <2> QED
    BY <2>1, StartKeepsInv
<1>4. CASE List(w)
  <2> DEFINE bare == {k \in Catalogue : row[k] = "bare"}
  <2>1. PICK i \in bare : Start(w, "list", "fill", i, bare \ {i}) /\ UNCHANGED <<row, file, boot, spare, mark, fate>>
    BY <1>4 DEF List
  <2>2. i \in Catalogue /\ row[i] # "none" /\ \A k \in Catalogue : k \in bare \ {i} => row[k] # "none"
    BY <2>1
  <2> HIDE DEF bare
  <2> QED
    BY <2>1, <2>2, StartKeepsInv
<1> QED
  BY <1>1, <1>2, <1>3, <1>4

-----------------------------------------------------------------------------
(* Deletions.                                                              *)

\* It begins: with the image to itself, or the image is shared.
LEMMA DeleteInv ==
  ASSUME CatInv, NEW w \in Workers, NEW i \in Catalogue, Delete(w, i) PROVE CatInv'
<1>1. Start(w, "delete", "wipe", i, {}) /\ row[i] # "none" /\ UNCHANGED <<row, boot, spare, mark>>
      /\ file' = [file EXCEPT ![i] = "none"] /\ Note(i, {"doomed"} \cup Shared(w, i))
  BY DEF Delete
<1>2. PICK r : /\ work' = [work EXCEPT ![w] = r]
               /\ DOMAIN r = WorkFields /\ r.op = "delete" /\ r.at = "wipe" /\ r.img = i
               /\ r.todo = {} /\ r.row # "none"
  BY <1>1, StartsWith
<1>3. DOMAIN work' = Workers /\ work'[w] = r /\ \A v \in Workers \ {w} : work'[v] = work[v] /\ SameReq(v, i)
  BY <1>2, OneRequest
<1>4. WorkOK(r)
  BY <1>2 DEF WorkOK
<1>5. StepBy(w, i)
  BY <1>1, <1>3, <1>4 DEF CatInv, DomainsOK, StepBy, Same, Note
<1>6. DomainsOK'
  BY <1>5, StepKeepsDomains
<1>7. ASSUME NEW k \in Catalogue, k # i PROVE GoneOK(k)' /\ \A u \in Workers : DoomOK(u, k)'
  <2>1. Comes(w, k)
    BY <1>2, <1>3, <1>7 DEF Comes, Has
  <2> QED
    BY <1>2, <1>3, <1>5, <1>7, <2>1, OtherImages
<1>8. GoneOK(i)'
  BY <1>1 DEF GoneOK
<1>9. fate'[i] = fate[i] \cup {"doomed"} \cup Shared(w, i) /\ file'[i] = "none"
  BY <1>1 DEF CatInv, DomainsOK, Note
<1>10. ASSUME NEW u \in Workers PROVE DoomOK(u, i)'
  <2> SUFFICES ASSUME work'[u].op = "delete", work'[u].img = i, "shared" \notin fate'[i]
               PROVE u = w /\ \A v \in Workers \ {w} : ~Has(v, i)'
    BY <1>2, <1>3, <1>9 DEF DoomOK
  <2>1. \A v \in Workers \ {w} : ~Has(v, i)'
    BY <1>3, <1>9 DEF Shared, Alone, Has
  <2> QED
    BY <2>1 DEF Has
<1> QED
  BY <1>6, <1>7, <1>8, <1>10 DEF CatInv

\* With the directory go the names of what is being written there.
LEMMA WipeInv == ASSUME CatInv, NEW w \in Workers, Wipe(w) PROVE CatInv'
<1> DEFINE r == [work[w] EXCEPT !.at = "drop"]
           j == work[w].img
<1>1. /\ work[w].at = "wipe" /\ UNCHANGED <<row, file, fate>>
      /\ boot' = [boot EXCEPT ![j] = NoWim] /\ spare' = [spare EXCEPT ![j] = NoWim]
      /\ mark' = [mark EXCEPT ![j] = "none"]
  BY DEF Wipe, Is
<1>2. WorkOK(work[w]) /\ work[w].op = "delete"
  BY <1>1 DEF CatInv, DomainsOK, WorkOK
<1>3. work' = [Renamed(w, j, Neither) EXCEPT ![w] = r]
  <2>1. Renamed(w, j, Neither)[w] = work[w] /\ DOMAIN Renamed(w, j, Neither) = Workers
    BY DEF Renamed
  <2> QED
    BY <2>1 DEF Wipe
<1>4. DOMAIN r = WorkFields /\ r.op = "delete" /\ r.img = j /\ r.todo = work[w].todo /\ r.row # "none" /\ r.at = "drop"
  BY <1>2 DEF WorkOK, WorkFields
<1>5. WorkOK(r)
  BY <1>2, <1>4 DEF WorkOK
<1> HIDE DEF r, j
<1>6. DOMAIN Neither = {"tmp", "boot"} /\ \A n \in {"tmp", "boot"} : Neither[n] = "gone"
  BY DEF Neither
<1>7. /\ DOMAIN work' = Workers /\ work'[w] = r
      /\ \A v \in Workers \ {w} :
           /\ SameReq(v, j)
           /\ IF work[v].img = j /\ work[v].on \in {"tmp", "boot"}
              THEN work'[v].on = "gone" ELSE work'[v] = work[v]
  <2>1. DOMAIN Neither \subseteq {"tmp", "boot"} /\ \A n \in DOMAIN Neither : Neither[n] = "gone" \/ ~Empty(j)
    BY <1>6
  <2>2. /\ DOMAIN work' = Workers /\ work'[w] = r
        /\ \A v \in Workers \ {w} :
             /\ SameReq(v, j)
             /\ IF work[v].img = j /\ work[v].on \in DOMAIN Neither
                THEN work'[v].on = Neither[work[v].on] ELSE work'[v] = work[v]
    BY <1>3, <2>1, RenamedIsSame
  <2> QED
    BY <1>6, <2>2
<1>8. StepBy(w, j)
  BY <1>1, <1>5, <1>7 DEF CatInv, DomainsOK, StepBy, Same
<1>9. DomainsOK'
  BY <1>8, StepKeepsDomains
<1>10. ASSUME NEW k \in Catalogue, k # j PROVE GoneOK(k)' /\ \A u \in Workers : DoomOK(u, k)'
  <2>1. Comes(w, k)
    BY <1>2, <1>4, <1>7 DEF Comes, Has, j
  <2> QED
    BY <1>4, <1>7, <1>8, <1>10, <2>1, OtherImages
<1>11. ASSUME NEW k \in Catalogue, k = j PROVE GoneOK(k)' /\ \A u \in Workers : DoomOK(u, k)'
  <2>1. Has(w, k) /\ UNCHANGED <<row, fate>>
    BY <1>1, <1>2, <1>11 DEF Has, j
  <2>2. GoneOK(k)'
    <3> SUFFICES ASSUME row'[k] = "none", "known" \in fate'[k], "shared" \notin fate'[k] PROVE FALSE
      BY DEF GoneOK
    <3>1. Quiet(k)
      BY <2>1 DEF CatInv, GoneOK
    <3> QED
      BY <2>1, <3>1 DEF Quiet
  <2>3. ASSUME NEW u \in Workers PROVE DoomOK(u, k)'
    <3> SUFFICES ASSUME work'[u].op = "delete", work'[u].img = k, "shared" \notin fate'[k]
                 PROVE /\ "doomed" \in fate'[k] /\ file'[k] = "none" /\ Empty(k)'
                       /\ \A v \in Workers \ {u} : Has(v, k)' => Harmless(v, k, work[u].at)'
      BY DEF DoomOK
    <3>1. u = w
      <4> SUFFICES ASSUME u # w PROVE FALSE
        OBVIOUS
      <4>1. work[u].op = "delete" /\ work[u].img = k /\ "shared" \notin fate[k]
        BY <1>7, <2>1 DEF SameReq
      <4>2. Harmless(w, k, work[u].at)
        BY <2>1, <4>1 DEF CatInv, DoomOK
      <4> QED
        BY <1>2, <1>11, <4>2 DEF Harmless, j
    <3>2. /\ "doomed" \in fate[k] /\ file[k] = "none"
          /\ \A v \in Workers \ {w} : Has(v, k) => Harmless(v, k, work[w].at)
      BY <1>2, <1>11, <2>1 DEF CatInv, DoomOK, j
    <3>3. Empty(k)'
      BY <1>1, <1>11, <3>2 DEF CatInv, DomainsOK, Empty
    <3>4. ASSUME NEW v \in Workers \ {w}, Has(v, k)' PROVE Harmless(v, k, work[w].at)'
      <4>1. SameReq(v, j) /\ Harmless(v, k, work[w].at)
        BY <1>7, <3>2, <3>4 DEF SameReq, Has
      <4>2. work[v].img = k => work'[v].on # "boot"
        BY <1>7, <1>11
      <4> QED
        BY <4>1, <4>2 DEF SameReq, Harmless
    <3> QED
      BY <2>1, <1>1, <3>1, <3>2, <3>3, <3>4
  <2> QED
    BY <2>2, <2>3
<1> QED
  BY <1>9, <1>10, <1>11 DEF CatInv

\* It ends: nobody came meanwhile, or the image is shared.
LEMMA DropInv == ASSUME CatInv, NEW w \in Workers, Drop(w) PROVE CatInv'
<1> DEFINE j == work[w].img
<1>1. /\ work[w].at = "drop" /\ UNCHANGED <<file, boot, spare, mark>>
      /\ row' = [row EXCEPT ![j] = "none"] /\ Note(j, Shared(w, j))
      /\ work' = [work EXCEPT ![w] = Rest]
  BY DEF Drop, Is
<1>2. work[w].op = "delete"
  BY <1>1 DEF CatInv, DomainsOK, WorkOK
<1>3. DOMAIN work' = Workers /\ work'[w] = Rest /\ \A v \in Workers \ {w} : work'[v] = work[v] /\ SameReq(v, j)
  BY <1>1, OneRequest
<1> HIDE DEF j
<1>4. StepBy(w, j)
  BY <1>1, <1>3, RestIsOK DEF CatInv, DomainsOK, StepBy, Same, Note
<1>5. DomainsOK'
  BY <1>4, StepKeepsDomains
<1>6. ASSUME NEW k \in Catalogue, k # j PROVE GoneOK(k)' /\ \A u \in Workers : DoomOK(u, k)'
  <2>1. Comes(w, k)
    BY <1>3, RestIsOK DEF Comes, Has
  <2> QED
    BY <1>3, <1>4, <1>6, <2>1, RestIsOK, OtherImages
<1>7. ASSUME NEW k \in Catalogue, k = j PROVE GoneOK(k)' /\ \A u \in Workers : DoomOK(u, k)'
  <2>1. fate'[k] = fate[k] \cup Shared(w, k)
    BY <1>1, <1>7 DEF CatInv, DomainsOK, Note
  <2>2. ASSUME "shared" \notin fate'[k] PROVE "shared" \notin fate[k] /\ Quiet(k)'
    <3>1. \A v \in Workers \ {w} : ~Has(v, k)
      BY <2>1, <2>2 DEF Shared, Alone
    <3> QED
      BY <1>3, <2>1, <2>2, <3>1, RestIsOK DEF Quiet, Has
  <2>3. GoneOK(k)'
    <3> SUFFICES ASSUME "shared" \notin fate'[k] PROVE Quiet(k)' /\ Empty(k)'
      BY DEF GoneOK
    <3>1. Empty(k)
      BY <1>1, <1>2, <1>7, <2>2 DEF CatInv, DoomOK, j
    <3> QED
      BY <1>1, <2>2, <3>1 DEF Empty
  <2>4. ASSUME NEW u \in Workers PROVE DoomOK(u, k)'
    BY <2>2 DEF DoomOK, Quiet, Has
  <2> QED
    BY <2>3, <2>4
<1> QED
  BY <1>5, <1>6, <1>7 DEF CatInv

\* A stop ends every request, and whatever was begun stays begun.
LEMMA StopInv == ASSUME CatInv, StopServer PROVE CatInv'
<1>1. /\ work' = [w \in Workers |-> Rest] /\ UNCHANGED <<row, file, boot, spare, mark>>
      /\ fate' = [i \in Catalogue |-> IF Quiet(i) THEN fate[i] ELSE fate[i] \cup {"cut"}]
  BY DEF StopServer
<1>2. DomainsOK'
  BY <1>1, RestIsOK DEF CatInv, DomainsOK
<1>3. ASSUME NEW i \in Catalogue PROVE GoneOK(i)'
  <2>1. Quiet(i)'
    BY <1>1, RestIsOK DEF Quiet, Has
  <2>2. \A what \in {"known", "shared"} : what \in fate'[i] <=> what \in fate[i]
    BY <1>1
  <2> QED
    BY <1>1, <2>1, <2>2 DEF CatInv, GoneOK, Empty
<1>4. ASSUME NEW i \in Catalogue, NEW w \in Workers PROVE DoomOK(w, i)'
  BY <1>1, RestIsOK DEF DoomOK
<1> QED
  BY <1>2, <1>3, <1>4 DEF CatInv

-----------------------------------------------------------------------------
(* The theorem.                                                            *)

LEMMA CatInit == CatalogueInit => CatInv
<1> SUFFICES ASSUME CatalogueInit PROVE CatInv
  OBVIOUS
<1>1. DomainsOK
  BY RestIsOK DEF CatalogueInit, DomainsOK
<1>2. ASSUME NEW i \in Catalogue PROVE GoneOK(i)
  <2>1. row[i] = "none" => fate[i] = {}
    BY DEF CatalogueInit
  <2> QED
    BY <2>1 DEF GoneOK
<1>3. ASSUME NEW i \in Catalogue, NEW w \in Workers PROVE DoomOK(w, i)
  BY RestIsOK DEF CatalogueInit, DoomOK
<1> QED
  BY <1>1, <1>2, <1>3 DEF CatInv

LEMMA CatStep == CatInv /\ [CatalogueNext]_catalogueVars => CatInv'
<1> SUFFICES ASSUME CatInv, [CatalogueNext]_catalogueVars PROVE CatInv'
  OBVIOUS
<1>1. CASE UNCHANGED catalogueVars
  BY <1>1 DEF catalogueVars, CatInv, DomainsOK, GoneOK, DoomOK, Quiet, Empty, Has, Harmless
<1>2. ASSUME NEW w \in Workers, NEW i \in Catalogue,
             Upload(w, i) \/ Inspect(w, i) \/ GetBoot(w, i) \/ Delete(w, i)
      PROVE CatInv'
  BY <1>2, StartInv, DeleteInv
<1>3. ASSUME NEW w \in Workers,
             \/ List(w) \/ Received(w) \/ Fill(w) \/ Store(w)
             \/ ExtractBoot(w) \/ Borrow(w) \/ Copy(w) \/ CopyFails(w) \/ Rename(w) \/ Look(w)
             \/ Fix(w) \/ Hive(w) \/ HiveFails(w) \/ Patch(w) \/ PatchFails(w) \/ Patches(w) \/ Mark(w)
             \/ Wipe(w) \/ Drop(w)
      PROVE CatInv'
  BY <1>3, StartInv, ReceivedInv, FillInv, StoreInv, BeginInv, CopyInv, CopyFailsInv, RenameInv,
     LookInv, FixInv, PatchInv, PatchesInv, MarkInv, WipeInv, DropInv
<1>4. CASE StopServer
  BY <1>4, StopInv
<1> QED
  BY <1>1, <1>2, <1>3, <1>4 DEF CatalogueNext

\* Whatever is uploaded, inspected, extracted, patched or stopped meanwhile, in any order:
\* once deleteImage has removed an image's row, its file, boot.wim, boot.wim.tmp and marker
\* are gone, unless another request had the image in its hands.
THEOREM AlwaysDeleteIsWhole == CatalogueSpec => []DeleteIsWhole
<1>1. CatInv => DeleteIsWhole
  <2>1. NoWim.there = FALSE
    BY DEF NoWim
  <2> QED
    BY <2>1, Zenon DEF CatInv, GoneOK, Empty, DeleteIsWhole
<1> QED
  BY <1>1, CatInit, CatStep, PTL DEF CatalogueSpec

-----------------------------------------------------------------------------
(* A boot.wim that the row calls ready: what holds of an image and of the  *)
(* requests that have it, step by step.                                    *)

Wim == [there : BOOLEAN, whole : BOOLEAN, raw : SUBSET PE]

\* A request has an image of the catalogue, is at an index of boot.wim, and copies a WIM.
ReqOK(r) ==
  /\ r.op # "none" => r.img \in Catalogue /\ r.todo \subseteq Catalogue
  /\ r.idx \in 1 .. Count
  /\ r.data \in Wim
  /\ r.at = "copy" => r.data.there

WimTypes ==
  /\ \A i \in Catalogue : boot[i] \in Wim /\ spare[i] \in Wim
  /\ \A v \in Workers : ReqOK(work[v])

At(v, i, places) == work[v].img = i /\ work[v].at \in places
Fixing == {"hive", "patch", "patched", "mark"}
Minding == {"look", "fix"} \cup Fixing

\* What the property leaves out, but for a patching that failed.
Dirty == {"raced", "skipped", "cut", "doomed"}

\* boot.wim is whole, or in the hands of the request that is patching it.
Patching(v, i) == At(v, i, {"patched"}) /\ work[v].on = "boot"
WholeOrPatched(i) == boot[i].whole \/ \E v \in Workers : Patching(v, i)

\* The indexes a request is through with.
Cleaned(r) == IF r.at = "mark" THEN 1 .. Count ELSE 1 .. r.idx - 1

\* Where a row, or a request that will write it, calls boot.wim here, there is one.
HereOK(i) ==
  row[i] = "here" \/ (\E v \in Workers : work[v].img = i /\ work[v].row = "here") => boot[i].there

\* A young marker tells the truth.
MarkedOK(i) == mark[i] = "fresh" => boot[i].there /\ boot[i].raw = {} /\ WholeOrPatched(i)

\* What a request that patches is through with stays patched.
FixerOK(v, i) ==
  At(v, i, Fixing) =>
    /\ boot[i].there /\ WholeOrPatched(i)
    /\ boot[i].raw \cap Cleaned(work[v]) = {}
    /\ work[v].at = "patched" => work[v].on = "boot"

\* A boot.wim without a young marker is some request's to patch.
MindedOK(i) == boot[i].there => mark[i] = "fresh" \/ \E v \in Workers : At(v, i, Minding)

\* Whoever writes over a boot.wim in place, or removes one, is known to.
KnownOK(v, i) ==
  /\ At(v, i, {"copy"}) /\ work[v].on = "boot" => "raced" \in fate[i]
  /\ At(v, i, {"wipe", "drop"}) => "doomed" \in fate[i]

ImageOK(i) ==
  /\ "doomed" \notin fate[i] => HereOK(i)
  /\ fate[i] \cap Dirty = {} => MarkedOK(i) /\ \A v \in Workers : FixerOK(v, i)
  /\ fate[i] \cap (Dirty \cup {"failed"}) = {} => MindedOK(i)
  /\ \A v \in Workers : KnownOK(v, i)

PatchInvariant == WimTypes /\ \A i \in Catalogue : ImageOK(i)

-----------------------------------------------------------------------------
(* A step of one request, seen from the other images and requests.         *)

Others(w, j) ==
  \A v \in Workers \ {w} :
    /\ work'[v].op = work[v].op /\ work'[v].at = work[v].at /\ work'[v].img = work[v].img
    /\ work'[v].todo = work[v].todo /\ work'[v].row = work[v].row
    /\ work'[v].data = work[v].data /\ work'[v].idx = work[v].idx
    /\ work'[v].on = work[v].on \/ work[v].img = j

StepOf(w, j) ==
  /\ work[w].img = j \/ work[w].at = "rest"
  /\ work'[w].img = j \/ (work'[w].at \in {"fill", "rest"} /\ work'[w].row # "here")
  /\ Others(w, j)
  /\ \A i \in Catalogue \ {j} : Same(i)

LEMMA OthersOK ==
  ASSUME PatchInvariant, NEW w \in Workers, NEW j, StepOf(w, j), NEW i \in Catalogue, i # j
  PROVE ImageOK(i)'
<1>1. Same(i) /\ ImageOK(i)
  BY DEF StepOf, PatchInvariant
<1>2. \A v \in Workers \ {w} :
        /\ work'[v].at = work[v].at /\ work'[v].img = work[v].img /\ work'[v].row = work[v].row
        /\ work'[v].idx = work[v].idx /\ (work[v].img = i => work'[v].on = work[v].on)
  BY DEF StepOf, Others
<1>3. /\ work[w].img = i => work[w].at = "rest"
      /\ work'[w].img = i => work'[w].at \in {"fill", "rest"} /\ work'[w].row # "here"
  BY DEF StepOf
<1>4. \A places \in {{"patched"}, Fixing, Minding, {"copy"}, {"wipe", "drop"}} :
        ~At(w, i, places) /\ ~At(w, i, places)'
  BY <1>3 DEF At, Fixing, Minding
<1>5. \A v \in Workers : \A places \in {{"patched"}, Fixing, Minding, {"copy"}, {"wipe", "drop"}} :
        At(v, i, places)' <=> At(v, i, places)
  BY <1>2, <1>4 DEF At
<1>6. \A v \in Workers : Patching(v, i)' <=> Patching(v, i)
  BY <1>2, <1>4, <1>5 DEF Patching, At
<1>7. WholeOrPatched(i)' <=> WholeOrPatched(i)
  BY <1>1, <1>6 DEF WholeOrPatched, Same
<1>8. "doomed" \notin fate'[i] => HereOK(i)'
  BY <1>1, <1>2, <1>3 DEF ImageOK, HereOK, Same
<1>9. ASSUME fate'[i] \cap Dirty = {} PROVE MarkedOK(i)'
  BY <1>1, <1>7, <1>9 DEF ImageOK, MarkedOK, Same
<1>10. ASSUME fate'[i] \cap Dirty = {}, NEW v \in Workers PROVE FixerOK(v, i)'
  <2> SUFFICES ASSUME At(v, i, Fixing)' PROVE FixerOK(v, i)'
    BY DEF FixerOK
  <2>1. v # w /\ At(v, i, Fixing) /\ FixerOK(v, i) /\ work[v].img = i
    BY <1>1, <1>4, <1>5, <1>10 DEF ImageOK, Same, At
  <2>2. Cleaned(work[v])' = Cleaned(work[v])
    BY <1>2, <2>1 DEF Cleaned
  <2> QED
    BY <1>1, <1>2, <1>7, <2>1, <2>2 DEF FixerOK, Same
<1>11. fate'[i] \cap (Dirty \cup {"failed"}) = {} => MindedOK(i)'
  BY <1>1, <1>5 DEF ImageOK, MindedOK, Same
<1>12. ASSUME NEW v \in Workers PROVE KnownOK(v, i)'
  <2>1. At(v, i, {"copy"})' => v # w /\ work'[v].on = work[v].on
    BY <1>2, <1>4 DEF At
  <2> QED
    BY <1>1, <1>5, <2>1 DEF ImageOK, KnownOK, Same
<1> QED
  BY <1>8, <1>9, <1>10, <1>11, <1>12 DEF ImageOK

\* So a step is about its own image.
LEMMA StepKeeps ==
  ASSUME PatchInvariant, NEW w \in Workers, NEW j \in Catalogue, StepOf(w, j), ReqOK(work'[w]),
         boot'[j] \in Wim, spare'[j] \in Wim, ImageOK(j)'
  PROVE PatchInvariant'
<1>1. \A v \in Workers \ {w} : ReqOK(work'[v])
  BY DEF PatchInvariant, WimTypes, StepOf, Others, ReqOK
<1>2. WimTypes'
  BY <1>1 DEF PatchInvariant, WimTypes, StepOf, Same
<1> QED
  BY <1>2, OthersOK DEF PatchInvariant

\* Where the step leaves the request.
WillBe(w, j, places) == work'[w].img = j /\ work'[w].at \in places

\* The step leaves boot.wim and its marker alone, is not one of patching, and what it
\* makes of the request is what the invariant asks of one.
Aside(w, j) ==
  /\ boot'[j] = boot[j] /\ mark'[j] = mark[j] /\ fate[j] \subseteq fate'[j]
  /\ ~At(w, j, {"patched"}) /\ ~WillBe(w, j, {"patched"})
  /\ \/ row'[j] = row[j] \/ row'[j] # "here"
     \/ work[w].img = j /\ row'[j] = work[w].row
  /\ work'[w].img = j /\ work'[w].row = "here" =>
       boot[j].there \/ (work[w].img = j /\ work[w].row = "here")
  /\ WillBe(w, j, Fixing) /\ fate'[j] \cap Dirty = {} =>
       /\ boot[j].there /\ WholeOrPatched(j)
       /\ boot[j].raw \cap Cleaned(work'[w]) = {}
  /\ fate'[j] \cap (Dirty \cup {"failed"}) = {} /\ boot[j].there /\ At(w, j, Minding) =>
       WillBe(w, j, Minding) \/ mark[j] = "fresh"
  /\ WillBe(w, j, {"wipe", "drop"}) => "doomed" \in fate'[j]
  /\ WillBe(w, j, {"copy"}) => work'[w].on # "boot"
  /\ \A v \in Workers \ {w} : work[v].img = j =>
       work'[v].on = work[v].on \/ (work[v].on # "boot" /\ work'[v].on # "boot")

LEMMA AsideKeeps ==
  ASSUME PatchInvariant, NEW w \in Workers, NEW j \in Catalogue, StepOf(w, j), Aside(w, j)
  PROVE ImageOK(j)'
<1>1. ImageOK(j)
  BY DEF PatchInvariant
<1>2. \A v \in Workers \ {w} :
        /\ work'[v].at = work[v].at /\ work'[v].img = work[v].img /\ work'[v].row = work[v].row
        /\ work'[v].idx = work[v].idx
  BY DEF StepOf, Others
<1>3. \A v \in Workers \ {w} : \A places : At(v, j, places)' <=> At(v, j, places)
  BY <1>2 DEF At
<1>4. \A v \in Workers : Patching(v, j)' <=> Patching(v, j)
  BY <1>2, <1>3 DEF Aside, WillBe, Patching, At
<1>5. WholeOrPatched(j)' <=> WholeOrPatched(j)
  BY <1>4 DEF Aside, WholeOrPatched
<1>6. "doomed" \notin fate'[j] => HereOK(j)'
  BY <1>1, <1>2 DEF ImageOK, HereOK, Aside
<1>7. ASSUME fate'[j] \cap Dirty = {} PROVE MarkedOK(j)'
  BY <1>1, <1>5, <1>7 DEF ImageOK, MarkedOK, Aside
<1>8. ASSUME fate'[j] \cap Dirty = {}, NEW v \in Workers PROVE FixerOK(v, j)'
  <2> SUFFICES ASSUME At(v, j, Fixing)' PROVE FixerOK(v, j)'
    BY DEF FixerOK
  <2>1. CASE v = w
    <3>1. work'[w].at # "patched"
      BY <2>1 DEF Aside, WillBe, At
    <3>2. /\ boot'[j].there /\ WholeOrPatched(j)'
          /\ boot'[j].raw \cap Cleaned(work'[w]) = {}
      BY <1>5, <1>8, <2>1 DEF Aside, WillBe, At
    <3> QED
      BY <2>1, <3>1, <3>2 DEF FixerOK
  <2>2. CASE v # w
    <3>1. At(v, j, Fixing) /\ fate[j] \cap Dirty = {} /\ work[v].img = j
      BY <1>3, <1>8, <2>2 DEF Aside, At
    <3>2. FixerOK(v, j)
      BY <1>1, <3>1 DEF ImageOK
    <3>3. Cleaned(work[v])' = Cleaned(work[v])
      BY <1>2, <2>2 DEF Cleaned
    <3> QED
      BY <1>2, <1>5, <2>2, <3>1, <3>2, <3>3 DEF FixerOK, Aside
  <2> QED
    BY <2>1, <2>2
<1>9. ASSUME fate'[j] \cap (Dirty \cup {"failed"}) = {} PROVE MindedOK(j)'
  <2>1. MindedOK(j)
    BY <1>1, <1>9 DEF ImageOK, Aside
  <2> QED
    BY <1>3, <1>9, <2>1 DEF MindedOK, Aside, WillBe, At
<1>10. ASSUME NEW v \in Workers PROVE KnownOK(v, j)'
  <2>1. CASE v = w
    BY <2>1 DEF KnownOK, Aside, WillBe, At
  <2>2. CASE v # w
    BY <1>1, <1>3, <2>2 DEF ImageOK, KnownOK, Aside, At
  <2> QED
    BY <2>1, <2>2
<1> QED
  BY <1>6, <1>7, <1>8, <1>9, <1>10 DEF ImageOK


-----------------------------------------------------------------------------
(* What each kind of step makes of its request.                            *)

LEMMA Working ==
  ASSUME CatInv, PatchInvariant, NEW w \in Workers, work[w].at # "rest"
  PROVE work[w].img \in Catalogue /\ work[w].todo \subseteq Catalogue /\ WorkOK(work[w]) /\ ReqOK(work[w])
BY DEF CatInv, DomainsOK, WorkOK, PatchInvariant, WimTypes, ReqOK

LEMMA WimsAreWims == NoWim \in Wim /\ TornWim \in Wim /\ RawWim \in Wim /\ RawWim.there
BY DEF NoWim, TornWim, RawWim, Wim

LEMMA RestReq ==
  /\ ReqOK(Rest) /\ Rest.at = "rest" /\ Rest.row = "" /\ Rest.on = "gone"
  /\ DOMAIN Rest = WorkFields /\ Rest.data = NoWim /\ Rest.idx = 1
BY WimsAreWims, IndexesAreNumbers DEF Rest, ReqOK, WorkFields

Apart(w) == \A v \in Workers \ {w} : work'[v] = work[v]

LEMMA ApartIsOthers == ASSUME NEW w, Apart(w), NEW j PROVE Others(w, j)
BY DEF Apart, Others

LEMMA OneOther ==
  ASSUME CatInv, NEW w \in Workers, NEW r, work' = [work EXCEPT ![w] = r]
  PROVE Apart(w) /\ work'[w] = r
BY DEF CatInv, DomainsOK, Apart

SameTask(w) ==
  /\ work'[w].op = work[w].op /\ work'[w].img = work[w].img /\ work'[w].todo = work[w].todo
  /\ work'[w].data = work[w].data /\ work'[w].idx = work[w].idx

LEMMA SameTaskReq ==
  ASSUME PatchInvariant, NEW w \in Workers, SameTask(w), work'[w].at # "copy" PROVE ReqOK(work'[w])
BY DEF PatchInvariant, WimTypes, ReqOK, SameTask

LEMMA AtStep ==
  ASSUME CatInv, NEW w \in Workers, NEW at, Move(w, at)
  PROVE /\ Apart(w) /\ SameTask(w) /\ work'[w].at = at
        /\ work'[w].row = work[w].row /\ work'[w].on = work[w].on
<1> DEFINE r == [work[w] EXCEPT !.at = at]
<1>1. WorkOK(work[w]) /\ work' = [work EXCEPT ![w] = r]
  BY DEF CatInv, DomainsOK, Move
<1>2. /\ r.op = work[w].op /\ r.img = work[w].img /\ r.todo = work[w].todo
      /\ r.data = work[w].data /\ r.idx = work[w].idx /\ r.at = at
      /\ r.row = work[w].row /\ r.on = work[w].on
  BY <1>1 DEF WorkOK, WorkFields
<1> HIDE DEF r
<1> QED
  BY <1>1, <1>2, OneOther DEF SameTask

LEMMA RestStep ==
  ASSUME CatInv, NEW w \in Workers, work' = [work EXCEPT ![w] = Rest]
  PROVE Apart(w) /\ work'[w].at = "rest" /\ work'[w].row = "" /\ ReqOK(work'[w])
BY OneOther, RestReq

LEMMA FixedStep ==
  ASSUME CatInv, PatchInvariant, NEW w \in Workers, work' = Fixed(w)
  PROVE /\ Apart(w) /\ ReqOK(work'[w])
        /\ \/ work'[w].at = "rest" /\ work'[w].row = ""
           \/ work'[w].at = "store" /\ work'[w].img = work[w].img /\ work'[w].row = work[w].row
<1> DEFINE r == [work[w] EXCEPT !.at = "store", !.on = "gone"]
<1>1. WorkOK(work[w])
  BY DEF CatInv, DomainsOK
<1>2. /\ r.op = work[w].op /\ r.img = work[w].img /\ r.todo = work[w].todo
      /\ r.data = work[w].data /\ r.idx = work[w].idx /\ r.at = "store" /\ r.row = work[w].row
  BY <1>1 DEF WorkOK, WorkFields
<1>3. work' = [work EXCEPT ![w] = Rest] \/ work' = [work EXCEPT ![w] = r]
  BY DEF Fixed
<1> HIDE DEF r
<1>4. CASE work' = [work EXCEPT ![w] = Rest]
  BY <1>4, RestStep
<1>5. CASE work' = [work EXCEPT ![w] = r]
  <2>1. Apart(w) /\ work'[w] = r
    BY <1>5, OneOther
  <2>2. SameTask(w) /\ work'[w].at = "store" /\ work'[w].row = work[w].row
    BY <1>2, <2>1 DEF SameTask
  <2> QED
    BY <2>1, <2>2, SameTaskReq DEF SameTask
<1> QED
  BY <1>3, <1>4, <1>5

\* The next index: all up to this one are done.
LEMMA NextStep ==
  ASSUME CatInv, PatchInvariant, NEW w \in Workers, NextIndex(w)
  PROVE /\ Apart(w) /\ ReqOK(work'[w])
        /\ work'[w].img = work[w].img /\ work'[w].row = work[w].row
        /\ work'[w].at \in {"mark", "hive"}
        /\ Cleaned(work'[w]) = 1 .. work[w].idx
<1> DEFINE r == [work[w] EXCEPT !.at = IF work[w].idx = Count THEN "mark" ELSE "hive",
                                !.idx = IF @ = Count THEN @ ELSE @ + 1, !.on = "gone"]
<1>1. WorkOK(work[w]) /\ ReqOK(work[w])
  BY DEF CatInv, DomainsOK, PatchInvariant, WimTypes
<1>2. work' = [work EXCEPT ![w] = r]
  BY DEF NextIndex
<1>3. /\ r.op = work[w].op /\ r.img = work[w].img /\ r.todo = work[w].todo
      /\ r.data = work[w].data /\ r.row = work[w].row
      /\ r.at = IF work[w].idx = Count THEN "mark" ELSE "hive"
      /\ r.idx = IF work[w].idx = Count THEN Count ELSE work[w].idx + 1
  BY <1>1 DEF WorkOK, WorkFields
<1> HIDE DEF r
<1>4. work[w].idx \in 1 .. Count /\ Count \in Nat \ {0}
  BY <1>1, IndexesAreNumbers DEF ReqOK
<1>5. Cleaned(r) = 1 .. work[w].idx
  BY <1>3, <1>4 DEF Cleaned
<1>6. r.idx \in 1 .. Count /\ r.at # "copy"
  BY <1>3, <1>4
<1>7. ReqOK(r)
  BY <1>1, <1>3, <1>6 DEF ReqOK
<1> QED
  BY <1>2, <1>3, <1>5, <1>7, OneOther

LEMMA StartStep ==
  ASSUME CatInv, NEW w \in Workers, NEW op, NEW at, NEW i, NEW todo, Start(w, op, at, i, todo)
  PROVE /\ work[w].at = "rest" /\ Apart(w)
        /\ work'[w].op = op /\ work'[w].at = at /\ work'[w].img = i /\ work'[w].todo = todo
        /\ work'[w].row = "" /\ work'[w].data = NoWim /\ work'[w].idx = 1 /\ work'[w].on = "gone"
<1> DEFINE r == [Rest EXCEPT !.op = op, !.at = at, !.img = i, !.todo = todo]
<1>1. work' = [work EXCEPT ![w] = r] /\ work[w].at = "rest"
  BY DEF Start, Is
<1>2. /\ r.op = op /\ r.at = at /\ r.img = i /\ r.todo = todo
      /\ r.row = "" /\ r.data = NoWim /\ r.idx = 1 /\ r.on = "gone"
  BY RestReq DEF WorkFields
<1> HIDE DEF r
<1> QED
  BY <1>1, <1>2, OneOther

-----------------------------------------------------------------------------
(* The actions that do not touch boot.wim.                                 *)

\* Together: a step that leaves the files of boot.wim alone.
LEMMA AsideStep ==
  ASSUME PatchInvariant, NEW w \in Workers, NEW j \in Catalogue, StepOf(w, j), Aside(w, j),
         ReqOK(work'[w]), spare'[j] \in Wim
  PROVE PatchInvariant'
<1>1. boot'[j] \in Wim
  BY DEF Aside, PatchInvariant, WimTypes
<1> QED
  BY <1>1, AsideKeeps, StepKeeps

LEMMA StartPatch ==
  ASSUME CatInv, PatchInvariant, NEW w \in Workers, NEW op, NEW at \in {"receive", "fill", "fix", "wipe"},
         NEW i \in Catalogue, NEW todo \in SUBSET Catalogue, Start(w, op, at, i, todo),
         UNCHANGED <<row, boot, spare, mark>>,
         \A k \in Catalogue \ {i} : file'[k] = file[k] /\ fate'[k] = fate[k],
         fate[i] \subseteq fate'[i], at = "wipe" => "doomed" \in fate'[i]
  PROVE PatchInvariant'
<1>1. /\ work[w].at = "rest" /\ Apart(w)
      /\ work'[w].op = op /\ work'[w].at = at /\ work'[w].img = i /\ work'[w].todo = todo
      /\ work'[w].row = "" /\ work'[w].data = NoWim /\ work'[w].idx = 1 /\ work'[w].on = "gone"
  BY StartStep, Zenon
<1>2. StepOf(w, i)
  <2>1. \A k \in Catalogue \ {i} : Same(k)
    BY DEF Same
  <2> QED
    BY <1>1, <2>1, ApartIsOthers DEF StepOf
<1>3. ReqOK(work'[w])
  <2>1. 1 \in 1 .. Count
    BY IndexesAreNumbers
  <2>2. work'[w].at # "copy"
    BY <1>1
  <2> QED
    BY <1>1, <2>1, <2>2, WimsAreWims, Zenon DEF ReqOK
<1>4. Aside(w, i)
  BY <1>1 DEF Aside, WillBe, Apart, At, Fixing, Minding
<1> QED
  BY <1>2, <1>3, <1>4, AsideStep DEF PatchInvariant, WimTypes

LEMMA BeginPatch ==
  ASSUME CatInv, PatchInvariant, NEW w \in Workers,
         \/ \E i \in Catalogue : Upload(w, i) \/ Inspect(w, i) \/ GetBoot(w, i) \/ Delete(w, i)
         \/ List(w)
  PROVE PatchInvariant'
<1>1. ASSUME NEW i \in Catalogue, Upload(w, i) PROVE PatchInvariant'
  <2>1. \A k \in Catalogue \ {i} : file'[k] = file[k]
    BY <1>1 DEF Upload, CatInv, DomainsOK
  <2> QED
    BY <1>1, <2>1, StartPatch DEF Upload
<1>2. ASSUME NEW i \in Catalogue, Inspect(w, i) \/ GetBoot(w, i) PROVE PatchInvariant'
  BY <1>2, StartPatch DEF Inspect, GetBoot
<1>3. ASSUME NEW i \in Catalogue, Delete(w, i) PROVE PatchInvariant'
  <2>1. /\ \A k \in Catalogue \ {i} : file'[k] = file[k] /\ fate'[k] = fate[k]
        /\ fate'[i] = fate[i] \cup ({"doomed"} \cup Shared(w, i))
    BY <1>3 DEF Delete, Note, CatInv, DomainsOK
  <2> QED
    BY <1>3, <2>1, StartPatch DEF Delete
<1>4. CASE List(w)
  BY <1>4, StartPatch DEF List
<1> QED
  BY <1>1, <1>2, <1>3, <1>4


\* Neither patching before nor after, and boot.wim, its marker and its row stay.
LEMMA PlainStep ==
  ASSUME CatInv, PatchInvariant, NEW w \in Workers, work[w].at \notin {"rest"} \cup Minding,
         Others(w, work[w].img), UNCHANGED <<row, boot, mark, fate>>,
         \A v \in Workers \ {w} : work[v].img = work[w].img =>
           work'[v].on = work[v].on \/ (work[v].on # "boot" /\ work'[v].on # "boot"),
         \A k \in Catalogue \ {work[w].img} : file'[k] = file[k] /\ spare'[k] = spare[k],
         spare'[work[w].img] \in Wim,
         ReqOK(work'[w]), work'[w].at \notin Fixing \cup {"wipe", "drop"},
         work'[w].at = "copy" => work'[w].on # "boot",
         \/ work'[w].img = work[w].img /\ (work'[w].row = "here" => work[w].row = "here")
         \/ work'[w].at \in {"fill", "rest"} /\ work'[w].row # "here"
  PROVE PatchInvariant'
<1>1. PICK j \in Catalogue : j = work[w].img
  BY Working
<1>2. \A k \in Catalogue \ {j} : Same(k)
  BY <1>1 DEF Same
<1>3. StepOf(w, j)
  BY <1>1, <1>2 DEF StepOf
<1>4. Aside(w, j)
  BY <1>1 DEF Aside, WillBe, At, Fixing, Minding
<1> QED
  BY <1>1, <1>3, <1>4, AsideStep

LEMMA ReceivedPatch == ASSUME CatInv, PatchInvariant, NEW w \in Workers, Received(w) PROVE PatchInvariant'
<1>1. /\ work[w].at = "receive" /\ UNCHANGED <<row, boot, spare, mark, fate>>
      /\ \A k \in Catalogue \ {work[w].img} : file'[k] = file[k]
      /\ Move(w, "fill") \/ work' = [work EXCEPT ![w] = Rest]
  BY DEF Received, Is, CatInv, DomainsOK
<1>2. /\ Apart(w) /\ ReqOK(work'[w]) /\ work'[w].at \in {"fill", "rest"}
      /\ \/ work'[w].img = work[w].img /\ work'[w].row = work[w].row
         \/ work'[w].at = "rest" /\ work'[w].row # "here"
  <2>1. CASE Move(w, "fill")
    <3>1. Apart(w) /\ SameTask(w) /\ work'[w].at = "fill" /\ work'[w].row = work[w].row
      BY <2>1, AtStep
    <3> QED
      BY <3>1, SameTaskReq DEF SameTask
  <2>2. CASE work' = [work EXCEPT ![w] = Rest]
    BY <2>2, RestStep
  <2> QED
    BY <1>1, <2>1, <2>2
<1>3. spare'[work[w].img] \in Wim
  BY <1>1, Working DEF PatchInvariant, WimTypes
<1> QED
  BY <1>1, <1>2, <1>3, ApartIsOthers, PlainStep DEF Apart, Minding, Fixing

LEMMA FillPatch == ASSUME CatInv, PatchInvariant, NEW w \in Workers, Fill(w) PROVE PatchInvariant'
<1> DEFINE q == work[w]
           at == CASE file[q.img] = "none" -> "store"
                   [] file[q.img] # "none" /\ q.img \in ISOs -> "extract"
                   [] OTHER -> "borrow"
           named == IF file[q.img] # "none" /\ q.img \in ISOs THEN "named" ELSE ""
           r == [q EXCEPT !.row = named, !.at = at]
<1>1. WorkOK(q) /\ q.at = "fill" /\ UNCHANGED <<row, file, boot, spare, mark, fate>>
  BY DEF CatInv, DomainsOK, Fill, Is
<1>2. work' = [work EXCEPT ![w] = r]
  BY DEF Fill, CatInv, DomainsOK
<1>3. at \in {"store", "extract", "borrow"} /\ named # "here"
  OBVIOUS
<1>4. /\ r.op = q.op /\ r.img = q.img /\ r.todo = q.todo /\ r.data = q.data /\ r.idx = q.idx
      /\ r.at = at /\ r.row = named
  BY <1>1 DEF WorkOK, WorkFields
<1> HIDE DEF r, at, named
<1>5. Apart(w) /\ SameTask(w) /\ work'[w].at = at /\ work'[w].row = named
  BY <1>2, <1>4, OneOther DEF SameTask
<1>6. ReqOK(work'[w]) /\ work'[w].img = work[w].img
  BY <1>3, <1>5, SameTaskReq DEF SameTask
<1>7. spare'[work[w].img] \in Wim
  BY <1>1, Working DEF PatchInvariant, WimTypes
<1> QED
  BY <1>1, <1>3, <1>5, <1>6, <1>7, ApartIsOthers, PlainStep DEF Apart, Minding, Fixing

\* What is copied has been a boot.wim.
LEMMA CopyBeginsPatch ==
  ASSUME CatInv, PatchInvariant, NEW w \in Workers, ExtractBoot(w) \/ Borrow(w) PROVE PatchInvariant'
<1>1. /\ work[w].at \in {"extract", "borrow"} /\ UNCHANGED <<row, file, boot, mark, fate>>
      /\ \/ \E data \in Wim : \E from : data.there /\ BeginCopy(w, work[w].img, data, from)
         \/ Move(w, "look") /\ UNCHANGED spare
  <2>1. \A i \in Catalogue : \A j \in Lenders(i) : boot[j] \in Wim /\ boot[j].there
    BY DEF Lenders, PatchInvariant, WimTypes
  <2>2. work[w].at = "borrow" => work[w].img \in Catalogue
    BY Working
  <2> QED
    BY <2>1, <2>2, WimsAreWims DEF ExtractBoot, Borrow, Is
<1>2. CASE Move(w, "look") /\ UNCHANGED spare
  <2>1. Apart(w) /\ SameTask(w) /\ work'[w].at = "look" /\ work'[w].row = work[w].row
    BY <1>2, AtStep
  <2>2. ReqOK(work'[w]) /\ work'[w].img = work[w].img
    BY <2>1, SameTaskReq DEF SameTask
  <2>3. spare'[work[w].img] \in Wim
    BY <1>1, <1>2, Working DEF PatchInvariant, WimTypes
  <2> QED
    BY <1>1, <1>2, <2>1, <2>2, <2>3, ApartIsOthers, PlainStep DEF Apart, Minding, Fixing
<1>3. ASSUME NEW data \in Wim, NEW from, data.there, BeginCopy(w, work[w].img, data, from)
      PROVE PatchInvariant'
  <2> DEFINE r == [work[w] EXCEPT !.at = "copy", !.data = data, !.from = from, !.on = "tmp"]
  <2>1. WorkOK(work[w]) /\ work' = [work EXCEPT ![w] = r]
    BY <1>3 DEF CatInv, DomainsOK, BeginCopy
  <2>2. /\ r.op = work[w].op /\ r.img = work[w].img /\ r.todo = work[w].todo
        /\ r.data = data /\ r.idx = work[w].idx /\ r.row = work[w].row
        /\ r.at = "copy" /\ r.on = "tmp"
    BY <2>1 DEF WorkOK, WorkFields
  <2> HIDE DEF r
  <2>3. Apart(w) /\ work'[w] = r
    BY <2>1, OneOther
  <2>4. ReqOK(work'[w])
    BY <1>1, <1>3, <2>2, <2>3, Working DEF ReqOK
  <2>5. work[w].img \in Catalogue
    BY <1>1, Working
  <2>6. /\ spare'[work[w].img] \in Wim
        /\ \A k \in Catalogue \ {work[w].img} : spare'[k] = spare[k]
    BY <1>3, <2>5, WimsAreWims DEF BeginCopy, CatInv, DomainsOK
  <2> QED
    BY <1>1, <2>2, <2>3, <2>4, <2>6, ApartIsOthers, PlainStep DEF Apart, Minding, Fixing
<1> QED
  BY <1>1, <1>2, <1>3

\* Renamed leaves everything of a request but where its file is.
LEMMA RenamedIsOthers ==
  ASSUME CatInv, NEW w \in Workers, NEW j, NEW names,
         \A v \in Workers \ {w} : work'[v] = Renamed(w, j, names)[v]
  PROVE /\ Others(w, j)
        /\ \A v \in Workers \ {w} :
             \/ work'[v].on = work[v].on
             \/ work[v].on \in DOMAIN names /\ work'[v].on = names[work[v].on]
<1>1. ASSUME NEW v \in Workers \ {w}
      PROVE /\ work'[v].op = work[v].op /\ work'[v].at = work[v].at /\ work'[v].img = work[v].img
            /\ work'[v].todo = work[v].todo /\ work'[v].row = work[v].row
            /\ work'[v].data = work[v].data /\ work'[v].idx = work[v].idx
            /\ \/ work'[v].on = work[v].on
               \/ /\ work[v].img = j /\ work[v].on \in DOMAIN names
                  /\ work'[v].on = names[work[v].on]
  <2> DEFINE q == [work[v] EXCEPT !.on = names[work[v].on]]
             b == work[v].img = j /\ work[v].on \in DOMAIN names
  <2>1. work'[v] = IF b THEN q ELSE work[v]
    BY DEF Renamed
  <2>2. WorkOK(work[v])
    BY DEF CatInv, DomainsOK
  <2>3. /\ q.op = work[v].op /\ q.at = work[v].at /\ q.img = work[v].img
        /\ q.todo = work[v].todo /\ q.row = work[v].row
        /\ q.data = work[v].data /\ q.idx = work[v].idx /\ q.on = names[work[v].on]
    BY <2>2 DEF WorkOK, WorkFields
  <2> HIDE DEF q
  <2> QED
    BY <2>1, <2>3
<1> QED
  BY <1>1 DEF Others

LEMMA CopyFailsPatch == ASSUME CatInv, PatchInvariant, NEW w \in Workers, CopyFails(w) PROVE PatchInvariant'
<1> DEFINE r == [work[w] EXCEPT !.at = "look", !.on = "gone"]
           j == work[w].img
<1>1. WorkOK(work[w]) /\ work[w].at = "copy" /\ UNCHANGED <<row, file, boot, mark, fate>>
  BY DEF CatInv, DomainsOK, CopyFails, Is
<1>2. Renamed(w, j, NoTmp)[w] = work[w] /\ DOMAIN Renamed(w, j, NoTmp) = Workers
  BY DEF Renamed
<1>3. work'[w] = r /\ \A v \in Workers \ {w} : work'[v] = Renamed(w, j, NoTmp)[v]
  BY <1>2 DEF CopyFails
<1>4. /\ r.op = work[w].op /\ r.img = work[w].img /\ r.todo = work[w].todo
      /\ r.data = work[w].data /\ r.idx = work[w].idx /\ r.row = work[w].row
      /\ r.at = "look" /\ r.on = "gone"
  BY <1>1 DEF WorkOK, WorkFields
<1> HIDE DEF r
<1>5. /\ Others(w, j)
      /\ \A v \in Workers \ {w} :
           \/ work'[v].on = work[v].on
           \/ work[v].on \in DOMAIN NoTmp /\ work'[v].on = NoTmp[work[v].on]
  BY <1>3, RenamedIsOthers
<1>6. DOMAIN NoTmp = {"tmp"} /\ NoTmp["tmp"] = "gone"
  BY DEF NoTmp
<1>7. \A v \in Workers \ {w} : work'[v].on = work[v].on \/ (work[v].on # "boot" /\ work'[v].on # "boot")
  BY <1>5, <1>6
<1>8. ReqOK(work'[w])
  BY <1>3, <1>4, SameTaskReq DEF SameTask
<1>9. /\ spare'[j] \in Wim
      /\ \A k \in Catalogue \ {j} : spare'[k] = spare[k]
  BY <1>1, Working, WimsAreWims DEF CopyFails, CatInv, DomainsOK
<1> QED
  BY <1>1, <1>3, <1>4, <1>5, <1>7, <1>8, <1>9, PlainStep DEF Minding, Fixing


\* The row is written: what it says of boot.wim is what the request said.
LEMMA StorePatch == ASSUME CatInv, PatchInvariant, NEW w \in Workers, Store(w) PROVE PatchInvariant'
<1>0. PICK i \in Catalogue : i = work[w].img
  BY Working DEF Store, Is
<1>1. /\ work[w].at = "store" /\ UNCHANGED <<file, boot, spare, mark>>
      /\ row'[i] = work[w].row /\ fate'[i] = fate[i] \cup {"known"}
      /\ \A k \in Catalogue \ {i} : row'[k] = row[k] /\ fate'[k] = fate[k]
  BY <1>0 DEF Store, Is, Note, CatInv, DomainsOK
<1>2. /\ Apart(w) /\ ReqOK(work'[w]) /\ work'[w].at \in {"rest", "fill"}
      /\ work'[w].row = ""
  <2>1. CASE work[w].todo = {}
    BY <2>1, RestStep DEF Store
  <2>2. ASSUME NEW j \in work[w].todo,
               work' = [work EXCEPT ![w] = [Rest EXCEPT !.op = "list", !.at = "fill", !.img = j,
                                                        !.todo = work[w].todo \ {j}]]
        PROVE Apart(w) /\ ReqOK(work'[w]) /\ work'[w].at = "fill" /\ work'[w].row = ""
    <3> DEFINE r == [Rest EXCEPT !.op = "list", !.at = "fill", !.img = j, !.todo = work[w].todo \ {j}]
    <3>1. work' = [work EXCEPT ![w] = r]
      BY <2>2
    <3>2. /\ r.op = "list" /\ r.at = "fill" /\ r.img = j /\ r.todo = work[w].todo \ {j}
          /\ r.row = "" /\ r.data = NoWim /\ r.idx = 1
      BY RestReq DEF WorkFields
    <3> HIDE DEF r
    <3>3. Apart(w) /\ work'[w] = r
      BY <3>1, OneOther
    <3>4. ReqOK(r)
      <4>1. work[w].todo \subseteq Catalogue /\ 1 \in 1 .. Count
        BY <1>1, Working, IndexesAreNumbers
      <4>2. r.at # "copy"
        BY <3>2
      <4> QED
        BY <3>2, <4>1, <4>2, WimsAreWims DEF ReqOK
    <3> QED
      BY <3>2, <3>3, <3>4
  <2> QED
    BY <2>1, <2>2 DEF Store
<1>3. \A k \in Catalogue \ {i} : Same(k)
  BY <1>1 DEF Same
<1>4. StepOf(w, i)
  BY <1>2, <1>3, <1>0, ApartIsOthers DEF StepOf
<1>5. Aside(w, i)
  BY <1>0, <1>1, <1>2 DEF Aside, WillBe, Apart, At, Fixing, Minding
<1> QED
  BY <1>0, <1>1, <1>2, <1>4, <1>5, AsideStep DEF PatchInvariant, WimTypes

LEMMA DropPatch == ASSUME CatInv, PatchInvariant, NEW w \in Workers, Drop(w) PROVE PatchInvariant'
<1>0. PICK i \in Catalogue : i = work[w].img
  BY Working DEF Drop, Is
<1>1. /\ work[w].at = "drop" /\ UNCHANGED <<file, boot, spare, mark>>
      /\ row'[i] = "none" /\ fate'[i] = fate[i] \cup Shared(w, i)
      /\ \A k \in Catalogue \ {i} : row'[k] = row[k] /\ fate'[k] = fate[k]
      /\ work' = [work EXCEPT ![w] = Rest]
  BY <1>0 DEF Drop, Is, Note, CatInv, DomainsOK
<1>2. Apart(w) /\ work'[w].at = "rest" /\ work'[w].row = "" /\ ReqOK(work'[w])
  BY <1>1, RestStep
<1>3. \A k \in Catalogue \ {i} : Same(k)
  BY <1>1 DEF Same
<1>4. StepOf(w, i)
  BY <1>2, <1>3, <1>0, ApartIsOthers DEF StepOf
<1>5. Aside(w, i)
  BY <1>0, <1>1, <1>2 DEF Aside, WillBe, Apart, At, Fixing, Minding
<1> QED
  BY <1>0, <1>1, <1>2, <1>4, <1>5, AsideStep DEF PatchInvariant, WimTypes

\* A request that minds boot.wim, and does not touch it now: it goes on to patch what it
\* may patch, or it leaves a boot.wim that is marked, or not there, or in trouble.
LEMMA TendStep ==
  ASSUME CatInv, PatchInvariant, NEW w \in Workers, work[w].at \in {"look", "fix", "hive", "patch", "mark"},
         Apart(w), ReqOK(work'[w]), UNCHANGED <<row, file, boot, spare, mark>>,
         \A k \in Catalogue \ {work[w].img} : fate'[k] = fate[k],
         fate[work[w].img] \subseteq fate'[work[w].img],
         work'[w].at \in {"rest", "store", "fix", "hive", "patch", "mark"},
         \/ work'[w].img = work[w].img
            /\ (work'[w].row = "here" => boot[work[w].img].there \/ work[w].row = "here")
         \/ work'[w].at = "rest" /\ work'[w].row = "",
         work'[w].at \in Fixing /\ fate'[work[w].img] \cap Dirty = {} =>
           /\ boot[work[w].img].there /\ WholeOrPatched(work[w].img)
           /\ boot[work[w].img].raw \cap Cleaned(work'[w]) = {},
         fate'[work[w].img] \cap (Dirty \cup {"failed"}) = {} /\ boot[work[w].img].there =>
           work'[w].at \in Minding \/ mark[work[w].img] = "fresh"
  PROVE PatchInvariant'
<1>1. PICK j \in Catalogue : j = work[w].img
  BY Working
<1>2. \A k \in Catalogue \ {j} : Same(k)
  BY <1>1 DEF Same
<1>3. StepOf(w, j)
  BY <1>1, <1>2, ApartIsOthers DEF StepOf
<1>4. work'[w].at \in Minding => work'[w].img = j
  BY <1>1 DEF Minding, Fixing
<1>5. Aside(w, j)
  BY <1>1, <1>4 DEF Aside, WillBe, Apart, At
<1>6. spare'[j] \in Wim
  BY <1>1 DEF PatchInvariant, WimTypes
<1> QED
  BY <1>1, <1>3, <1>5, <1>6, AsideStep

LEMMA LookPatch == ASSUME CatInv, PatchInvariant, NEW w \in Workers, Look(w) PROVE PatchInvariant'
<1> DEFINE j == work[w].img
           r == [work[w] EXCEPT !.row = "here", !.at = "fix"]
           q == [work[w] EXCEPT !.at = "store"]
<1>1. WorkOK(work[w]) /\ work[w].at = "look" /\ UNCHANGED <<row, file, boot, spare, mark, fate>>
  BY DEF CatInv, DomainsOK, Look, Is
<1>2. /\ r.op = work[w].op /\ r.img = work[w].img /\ r.todo = work[w].todo
      /\ r.data = work[w].data /\ r.idx = work[w].idx /\ r.at = "fix" /\ r.row = "here"
      /\ q.op = work[w].op /\ q.img = work[w].img /\ q.todo = work[w].todo
      /\ q.data = work[w].data /\ q.idx = work[w].idx /\ q.at = "store" /\ q.row = work[w].row
  BY <1>1 DEF WorkOK, WorkFields
<1>3. work' = IF boot[j].there THEN [work EXCEPT ![w] = r] ELSE [work EXCEPT ![w] = q]
  BY DEF Look, LooksHere, CatInv, DomainsOK
<1> HIDE DEF r, q
<1>4. Apart(w) /\ work'[w] = IF boot[j].there THEN r ELSE q
  BY <1>3, OneOther
<1>5. SameTask(w) /\ work'[w].at = IF boot[j].there THEN "fix" ELSE "store"
  BY <1>2, <1>4 DEF SameTask
<1>6. ReqOK(work'[w]) /\ work'[w].img = work[w].img
  BY <1>5, SameTaskReq DEF SameTask
<1>7. work'[w].row = "here" => boot[j].there \/ work[w].row = "here"
  BY <1>2, <1>4
<1> QED
  BY <1>1, <1>4, <1>5, <1>6, <1>7, TendStep DEF Minding, Fixing

\* Patching ends, without a marker: it failed, or found nothing to do.
LEMMA EndsPatch ==
  ASSUME CatInv, PatchInvariant, NEW w \in Workers, work[w].at \in {"look", "fix", "hive", "patch", "mark"},
         work' = Fixed(w), UNCHANGED <<row, file, boot, spare, mark>>,
         \/ Note(work[w].img, {"failed"})
         \/ UNCHANGED fate /\ mark[work[w].img] = "fresh"
  PROVE PatchInvariant'
<1>1. /\ Apart(w) /\ ReqOK(work'[w])
      /\ \/ work'[w].at = "rest" /\ work'[w].row = ""
         \/ work'[w].at = "store" /\ work'[w].img = work[w].img /\ work'[w].row = work[w].row
  BY FixedStep
<1>2. work[w].img \in Catalogue
  BY Working
<1>3. /\ \A k \in Catalogue \ {work[w].img} : fate'[k] = fate[k]
      /\ fate[work[w].img] \subseteq fate'[work[w].img]
      /\ "failed" \in fate'[work[w].img] \/ mark[work[w].img] = "fresh"
  BY <1>2 DEF Note, CatInv, DomainsOK
<1>4. work'[w].at \notin Fixing
  BY <1>1 DEF Fixing
<1> QED
  BY <1>1, <1>3, <1>4, TendStep

LEMMA FixPatch == ASSUME CatInv, PatchInvariant, NEW w \in Workers, Fix(w) PROVE PatchInvariant'
<1> DEFINE j == work[w].img
<1>1. work[w].at = "fix" /\ UNCHANGED <<row, file, boot, spare, mark>>
  BY DEF Fix, Is
<1>2. \/ mark[j] = "fresh" /\ work' = Fixed(w) /\ UNCHANGED fate
      \/ /\ boot[j].there /\ boot[j].whole
         /\ work' = [work EXCEPT ![w].at = "hive", ![w].idx = 1] /\ UNCHANGED fate
      \/ FixFails(w)
  BY DEF Fix, Patched
<1>3. CASE mark[j] = "fresh" /\ work' = Fixed(w) /\ UNCHANGED fate
  BY <1>1, <1>3, EndsPatch
<1>4. CASE FixFails(w)
  BY <1>1, <1>4, EndsPatch DEF FixFails
<1>5. CASE /\ boot[j].there /\ boot[j].whole
           /\ work' = [work EXCEPT ![w].at = "hive", ![w].idx = 1] /\ UNCHANGED fate
  <2> DEFINE r == [work[w] EXCEPT !.at = "hive", !.idx = 1]
  <2>1. WorkOK(work[w]) /\ ReqOK(work[w]) /\ work' = [work EXCEPT ![w] = r]
    BY <1>5 DEF CatInv, DomainsOK, PatchInvariant, WimTypes
  <2>2. /\ r.op = work[w].op /\ r.img = work[w].img /\ r.todo = work[w].todo
        /\ r.data = work[w].data /\ r.idx = 1 /\ r.at = "hive" /\ r.row = work[w].row
    BY <2>1 DEF WorkOK, WorkFields
  <2> HIDE DEF r
  <2>3. Apart(w) /\ work'[w] = r
    BY <2>1, OneOther
  <2>4. ReqOK(r) /\ Cleaned(r) = {}
    BY <2>1, <2>2, IndexesAreNumbers DEF ReqOK, Cleaned
  <2>5. WholeOrPatched(j)
    BY <1>5 DEF WholeOrPatched
  <2> QED
    BY <1>1, <1>5, <2>2, <2>3, <2>4, <2>5, TendStep DEF Minding, Fixing
<1> QED
  BY <1>2, <1>3, <1>4, <1>5

\* A request that is at an index is right about the ones before.
LEMMA FixerKnows ==
  ASSUME PatchInvariant, NEW w \in Workers, work[w].img \in Catalogue, work[w].at \in Fixing,
         fate[work[w].img] \cap Dirty = {}
  PROVE FixerOK(w, work[w].img) /\ At(w, work[w].img, Fixing)
BY DEF PatchInvariant, ImageOK, At

LEMMA NextPatch ==
  ASSUME CatInv, PatchInvariant, NEW w \in Workers, work[w].at = "hive", NextIndex(w),
         UNCHANGED <<row, file, boot, spare, mark>>,
         \A k \in Catalogue \ {work[w].img} : fate'[k] = fate[k],
         fate[work[w].img] \subseteq fate'[work[w].img],
         work[w].idx \notin boot[work[w].img].raw \/ "skipped" \in fate'[work[w].img]
  PROVE PatchInvariant'
<1> DEFINE j == work[w].img
<1>1. /\ Apart(w) /\ ReqOK(work'[w]) /\ work'[w].img = j /\ work'[w].row = work[w].row
      /\ work'[w].at \in {"mark", "hive"} /\ Cleaned(work'[w]) = 1 .. work[w].idx
  BY NextStep
<1>2. j \in Catalogue /\ work[w].idx \in 1 .. Count
  BY Working DEF ReqOK
<1>3. ASSUME fate'[j] \cap Dirty = {}
      PROVE boot[j].there /\ WholeOrPatched(j) /\ boot[j].raw \cap Cleaned(work'[w]) = {}
  <2>1. FixerOK(w, j) /\ At(w, j, Fixing)
    BY <1>2, <1>3, FixerKnows DEF Fixing
  <2>2. boot[j].raw \cap (1 .. work[w].idx - 1) = {}
    BY <2>1 DEF FixerOK, Cleaned
  <2>3. work[w].idx \notin boot[j].raw
    BY <1>3 DEF Dirty
  <2>4. \A n \in 1 .. work[w].idx : n \in 1 .. work[w].idx - 1 \/ n = work[w].idx
    BY <1>2, IndexesAreNumbers
  <2>5. boot[j].raw \cap (1 .. work[w].idx) = {}
    BY <2>2, <2>3, <2>4
  <2> QED
    BY <1>1, <2>1, <2>5 DEF FixerOK
<1> QED
  BY <1>1, <1>3, TendStep DEF Minding, Fixing

LEMMA HivePatch == ASSUME CatInv, PatchInvariant, NEW w \in Workers, Hive(w) PROVE PatchInvariant'
<1> DEFINE j == work[w].img
<1>1. work[w].at = "hive" /\ UNCHANGED <<row, file, boot, spare, mark, fate>>
  BY DEF Hive, Is
<1>2. CASE work[w].idx \in boot[j].raw
  <2>1. /\ Apart(w) /\ SameTask(w) /\ work'[w].at = "patch" /\ work'[w].row = work[w].row
    BY <1>2, AtStep DEF Hive
  <2>2. ReqOK(work'[w]) /\ work'[w].img = j /\ Cleaned(work'[w]) = Cleaned(work[w])
    BY <1>1, <2>1, SameTaskReq DEF SameTask, Cleaned
  <2>3. j \in Catalogue
    BY <1>1, Working
  <2>4. fate[j] \cap Dirty = {} =>
          boot[j].there /\ WholeOrPatched(j) /\ boot[j].raw \cap Cleaned(work'[w]) = {}
    BY <1>1, <2>2, <2>3, FixerKnows DEF Fixing, FixerOK
  <2> QED
    BY <1>1, <2>1, <2>2, <2>4, TendStep DEF Minding, Fixing
<1>3. CASE work[w].idx \notin boot[j].raw
  BY <1>1, <1>3, NextPatch DEF Hive
<1> QED
  BY <1>2, <1>3

\* An index without a hive is passed over; one that has a hive is skipped.
LEMMA HiveFailsPatch == ASSUME CatInv, PatchInvariant, NEW w \in Workers, HiveFails(w) PROVE PatchInvariant'
<1> DEFINE j == work[w].img  n == work[w].idx
<1>1. work[w].at = "hive" /\ UNCHANGED <<row, file, boot, spare, mark>>
  BY DEF HiveFails, Is
<1>2. FixFails(w) \/ (NextIndex(w) /\ Note(j, IF n \in PE THEN {"skipped"} ELSE {}))
  BY DEF HiveFails
<1>3. CASE FixFails(w)
  BY <1>1, <1>3, EndsPatch DEF FixFails
<1>4. CASE NextIndex(w) /\ Note(j, IF n \in PE THEN {"skipped"} ELSE {})
  <2>1. j \in Catalogue /\ boot[j].raw \subseteq PE
    BY <1>1, Working DEF PatchInvariant, WimTypes, Wim
  <2>2. /\ \A k \in Catalogue \ {j} : fate'[k] = fate[k]
        /\ fate[j] \subseteq fate'[j]
        /\ n \in PE => "skipped" \in fate'[j]
    BY <1>4, <2>1 DEF Note, CatInv, DomainsOK
  <2> QED
    BY <1>1, <1>4, <2>1, <2>2, NextPatch
<1> QED
  BY <1>2, <1>3, <1>4

LEMMA PatchFailsPatch == ASSUME CatInv, PatchInvariant, NEW w \in Workers, PatchFails(w) PROVE PatchInvariant'
BY EndsPatch DEF PatchFails, FixFails, Is


-----------------------------------------------------------------------------
(* The actions that write boot.wim or its marker.                          *)

LEMMA AlikeAt ==
  ASSUME NEW w, NEW j, StepOf(w, j)
  PROVE \A v \in Workers \ {w} :
          /\ work'[v].at = work[v].at /\ work'[v].img = work[v].img
          /\ work'[v].row = work[v].row /\ work'[v].idx = work[v].idx
          /\ \A places : At(v, j, places)' <=> At(v, j, places)
          /\ Cleaned(work'[v]) = Cleaned(work[v])
BY DEF StepOf, Others, At, Cleaned

\* A request that patches changes boot.wim for the better, and stays to mark it.
LEMMA TouchKeeps ==
  ASSUME PatchInvariant, NEW w \in Workers, NEW j \in Catalogue, StepOf(w, j), Apart(w), work[w].img = j,
         row'[j] = row[j], fate'[j] = fate[j],
         boot[j].there => boot'[j].there,
         work'[w].img = j, work'[w].row = work[w].row, work'[w].at \in Fixing,
         fate[j] \cap Dirty = {} =>
           boot'[j].raw \subseteq boot[j].raw /\ mark'[j] # "fresh" /\ WholeOrPatched(j)' /\ FixerOK(w, j)'
  PROVE ImageOK(j)'
<1>1. ImageOK(j)
  BY DEF PatchInvariant
<1>2. \A v \in Workers \ {w} : work'[v] = work[v] /\ Cleaned(work'[v]) = Cleaned(work[v])
  BY DEF Apart
<1>3. "doomed" \notin fate'[j] => HereOK(j)'
  BY <1>1, <1>2 DEF ImageOK, HereOK
<1>4. ASSUME fate'[j] \cap Dirty = {}, NEW v \in Workers PROVE FixerOK(v, j)'
  <2>1. CASE v = w
    BY <1>4, <2>1
  <2>2. CASE v # w
    <3> SUFFICES ASSUME At(v, j, Fixing)' PROVE FixerOK(v, j)'
      BY DEF FixerOK
    <3>1. At(v, j, Fixing) /\ FixerOK(v, j)
      BY <1>1, <1>2, <1>4, <2>2 DEF ImageOK, At
    <3> QED
      BY <1>2, <1>4, <2>2, <3>1 DEF FixerOK
  <2> QED
    BY <2>1, <2>2
<1>5. MindedOK(j)'
  BY DEF MindedOK, At, Minding
<1>6. \A v \in Workers : KnownOK(v, j)'
  BY <1>1, <1>2 DEF ImageOK, KnownOK, At, Fixing
<1> QED
  BY <1>3, <1>4, <1>5, <1>6 DEF ImageOK, MarkedOK

LEMMA PatchPatch == ASSUME CatInv, PatchInvariant, NEW w \in Workers, Patch(w) PROVE PatchInvariant'
<1>0. PICK j \in Catalogue : j = work[w].img
  BY Working DEF Patch, Is
<1> DEFINE r == [work[w] EXCEPT !.at = "patched", !.on = "boot"]
<1>1. /\ work[w].at = "patch" /\ UNCHANGED <<row, file, spare, fate>> /\ WorkOK(work[w])
      /\ boot' = [boot EXCEPT ![j].whole = FALSE]
      /\ mark' = [mark EXCEPT ![j] = Stale(j)]
      /\ work' = [work EXCEPT ![w] = r]
  BY <1>0 DEF Patch, Is, CatInv, DomainsOK
<1>2. /\ r.op = work[w].op /\ r.img = work[w].img /\ r.todo = work[w].todo
      /\ r.data = work[w].data /\ r.idx = work[w].idx /\ r.row = work[w].row
      /\ r.at = "patched" /\ r.on = "boot"
  BY <1>0, <1>1 DEF WorkOK, WorkFields
<1> HIDE DEF r
<1>3. Apart(w) /\ work'[w] = r
  BY <1>0, <1>1, OneOther
<1>4. boot[j] \in Wim /\ spare[j] \in Wim
  BY <1>0, <1>1 DEF PatchInvariant, WimTypes
<1>5. /\ boot'[j] \in Wim /\ boot'[j].there = boot[j].there /\ boot'[j].raw = boot[j].raw
      /\ mark'[j] # "fresh"
      /\ \A k \in Catalogue \ {j} : Same(k)
  BY <1>0, <1>1, <1>4 DEF CatInv, DomainsOK, Wim, Stale, Same
<1>6. StepOf(w, j)
  BY <1>0, <1>2, <1>3, <1>5, ApartIsOthers DEF StepOf
<1>7. WholeOrPatched(j)'
  BY <1>0, <1>2, <1>3 DEF WholeOrPatched, Patching, At
<1>8. ASSUME fate[j] \cap Dirty = {} PROVE FixerOK(w, j)'
  <2>1. FixerOK(w, j) /\ At(w, j, Fixing)
    BY <1>0, <1>1, <1>8, FixerKnows DEF Fixing
  <2>2. Cleaned(work'[w]) = Cleaned(work[w])
    BY <1>0, <1>1, <1>2, <1>3 DEF Cleaned
  <2> QED
    BY <1>0, <1>2, <1>3, <1>5, <1>7, <2>1, <2>2 DEF FixerOK
<1>9. ImageOK(j)'
  <2>1. boot[j].there => boot'[j].there
    BY <1>0, <1>5
  <2>2. work'[w].img = j /\ work'[w].row = work[w].row /\ work'[w].at \in Fixing
    BY <1>0, <1>2, <1>3 DEF Fixing
  <2> QED
    BY <1>0, <1>1, <1>3, <1>5, <1>6, <1>7, <1>8, <2>1, <2>2, TouchKeeps
<1>10. ReqOK(work'[w])
  BY <1>0, <1>2, <1>3, SameTaskReq DEF SameTask
<1> QED
  BY <1>0, <1>1, <1>4, <1>5, <1>6, <1>9, <1>10, StepKeeps

\* The update is done: the index is patched, and boot.wim is whole again.  Only where an
\* extraction met the patching it was done to a file without a name.
LEMMA PatchesPatch == ASSUME CatInv, PatchInvariant, NEW w \in Workers, Patches(w) PROVE PatchInvariant'
<1>0. PICK j \in Catalogue, n \in 1 .. Count : j = work[w].img /\ n = work[w].idx
  BY Working DEF Patches, Is, ReqOK
<1>1. /\ work[w].at = "patched" /\ UNCHANGED <<row, file, spare, fate>>
      /\ NextIndex(w)
  BY DEF Patches, Is
<1>2. /\ Apart(w) /\ ReqOK(work'[w]) /\ work'[w].img = j /\ work'[w].row = work[w].row
      /\ work'[w].at \in {"mark", "hive"} /\ Cleaned(work'[w]) = 1 .. n
  BY <1>0, <1>1, NextStep
<1>3. boot[j] \in Wim /\ spare[j] \in Wim
  BY <1>0, <1>1 DEF PatchInvariant, WimTypes
<1>4. CASE work[w].on = "boot"
  <2>1. /\ boot' = [boot EXCEPT ![j].whole = TRUE, ![j].raw = @ \ {n}]
        /\ mark' = [mark EXCEPT ![j] = Stale(j)]
    BY <1>0, <1>4 DEF Patches
  <2>2. /\ boot'[j] \in Wim /\ boot'[j].there = boot[j].there /\ boot'[j].raw = boot[j].raw \ {n}
        /\ boot'[j].whole /\ mark'[j] # "fresh"
        /\ \A k \in Catalogue \ {j} : Same(k)
    BY <1>0, <1>1, <1>3, <2>1 DEF CatInv, DomainsOK, Wim, Stale, Same
  <2>3. StepOf(w, j)
    BY <1>0, <1>2, <2>2, ApartIsOthers DEF StepOf
  <2>4. WholeOrPatched(j)'
    BY <1>0, <2>2 DEF WholeOrPatched
  <2>5. ASSUME fate[j] \cap Dirty = {} PROVE FixerOK(w, j)'
    <3>1. FixerOK(w, j) /\ At(w, j, Fixing)
      BY <1>0, <1>1, <2>5, FixerKnows DEF Fixing
    <3>2. boot[j].there /\ boot[j].raw \cap (1 .. n - 1) = {}
      BY <1>0, <1>1, <3>1 DEF FixerOK, Cleaned
    <3>3. \A m \in 1 .. n : m \in 1 .. n - 1 \/ m = n
      BY <1>0, <1>1, IndexesAreNumbers
    <3>4. boot'[j].raw \cap (1 .. n) = {}
      BY <1>0, <2>2, <3>2, <3>3
    <3> QED
      BY <1>0, <1>2, <2>2, <2>4, <3>2, <3>4 DEF FixerOK
  <2>6. ImageOK(j)'
    <3>1. boot[j].there => boot'[j].there
      BY <1>0, <2>2
    <3>2. boot'[j].raw \subseteq boot[j].raw /\ work'[w].at \in Fixing
      BY <1>0, <1>2, <2>2 DEF Fixing
    <3> QED
      BY <1>0, <1>1, <1>2, <2>2, <2>3, <2>4, <2>5, <3>1, <3>2, TouchKeeps
  <2> QED
    BY <1>0, <1>1, <1>2, <1>3, <2>2, <2>3, <2>6, StepKeeps
<1>5. CASE work[w].on # "boot"
  <2>1. UNCHANGED <<boot, mark>>
    BY <1>0, <1>5 DEF Patches
  <2>2. \A k \in Catalogue \ {j} : Same(k)
    BY <1>0, <1>1, <2>1 DEF Same
  <2>3. StepOf(w, j)
    BY <1>0, <1>2, <2>2, ApartIsOthers DEF StepOf
  <2>4. fate[j] \cap Dirty # {}
    BY <1>0, <1>1, <1>5, FixerKnows DEF Fixing, FixerOK
  <2>5. ImageOK(j)'
    <3>1. work'[w].at \in Fixing
      BY <1>0, <1>2 DEF Fixing
    <3>2. boot[j].there => boot'[j].there
      BY <1>0, <2>1
    <3> QED
      BY <1>0, <1>1, <1>2, <2>3, <2>4, <3>1, <3>2, TouchKeeps
  <2> QED
    BY <1>0, <1>1, <1>2, <1>3, <2>1, <2>3, <2>5, StepKeeps
<1> QED
  BY <1>0, <1>4, <1>5

\* The marker is written when every index was seen to.
LEMMA MarkPatch == ASSUME CatInv, PatchInvariant, NEW w \in Workers, Mark(w) PROVE PatchInvariant'
<1>0. PICK j \in Catalogue : j = work[w].img
  BY Working DEF Mark, Is
<1>1. /\ work[w].at = "mark" /\ UNCHANGED <<row, file, boot, spare>>
  BY DEF Mark, Is
<1>2. CASE ~(boot[j].there \/ spare[j].there)
  BY <1>0, <1>1, <1>2, EndsPatch DEF Mark, FixFails
<1>3. CASE boot[j].there \/ spare[j].there
  <2>1. /\ mark' = [mark EXCEPT ![j] = "fresh"] /\ work' = Fixed(w)
        /\ fate' = [fate EXCEPT ![j] = @ \ {"failed"}]
    BY <1>0, <1>3 DEF Mark
  <2>2. /\ Apart(w) /\ ReqOK(work'[w])
        /\ \/ work'[w].at = "rest" /\ work'[w].row = ""
           \/ work'[w].at = "store" /\ work'[w].img = work[w].img /\ work'[w].row = work[w].row
    BY <1>0, <2>1, FixedStep
  <2>3. /\ mark'[j] = "fresh" /\ fate'[j] = fate[j] \ {"failed"}
        /\ \A k \in Catalogue \ {j} : Same(k)
    BY <1>0, <1>1, <2>1 DEF CatInv, DomainsOK, Same
  <2>4. StepOf(w, j)
    BY <1>0, <2>2, <2>3, ApartIsOthers DEF StepOf
  <2>5. ImageOK(j) /\ boot[j] \in Wim /\ spare[j] \in Wim
    BY <1>0, <1>1 DEF PatchInvariant, WimTypes
  <2>6. \A v \in Workers : Patching(v, j)' <=> Patching(v, j)
    BY <1>0, <1>1, <2>2 DEF Apart, Patching, At
  <2>7. WholeOrPatched(j)' <=> WholeOrPatched(j)
    BY <1>0, <1>1, <2>6 DEF WholeOrPatched
  <2>8. HereOK(j) => HereOK(j)'
    BY <1>0, <1>1, <2>2 DEF HereOK, Apart
  <2>9. fate'[j] \cap Dirty = {} => fate[j] \cap Dirty = {}
    BY <1>0, <2>3 DEF Dirty
  <2>10. ASSUME fate'[j] \cap Dirty = {} PROVE MarkedOK(j)'
    <3>1. FixerOK(w, j) /\ At(w, j, Fixing)
      BY <1>0, <1>1, <2>9, <2>10, FixerKnows DEF Fixing
    <3>2. boot[j].there /\ WholeOrPatched(j) /\ boot[j].raw \cap (1 .. Count) = {}
      BY <1>0, <1>1, <3>1 DEF FixerOK, Cleaned
    <3>3. boot[j].raw \subseteq 1 .. Count
      BY <1>0, <2>5, IndexesAreNumbers DEF Wim
    <3>4. boot[j].raw = {}
      BY <1>0, <3>2, <3>3
    <3> QED
      BY <1>0, <1>1, <2>7, <3>2, <3>4 DEF MarkedOK
  <2>11. ASSUME fate'[j] \cap Dirty = {}, NEW v \in Workers PROVE FixerOK(v, j)'
    <3> SUFFICES ASSUME At(v, j, Fixing)' PROVE FixerOK(v, j)'
      BY DEF FixerOK
    <3>1. v # w
      BY <1>0, <2>2 DEF At, Fixing
    <3>2. work'[v] = work[v] /\ At(v, j, Fixing)
      BY <1>0, <2>2, <3>1 DEF Apart, At
    <3>3. FixerOK(v, j)
      BY <1>0, <2>5, <2>9, <2>11 DEF ImageOK
    <3> QED
      BY <1>0, <1>1, <2>7, <3>2, <3>3 DEF FixerOK, Cleaned
  <2>12. MindedOK(j)'
    BY <1>0, <2>3 DEF MindedOK
  <2>13. ASSUME NEW v \in Workers PROVE KnownOK(v, j)'
    BY <1>0, <1>1, <2>2, <2>3, <2>5 DEF ImageOK, KnownOK, At, Apart
  <2>14. ImageOK(j)'
    BY <1>0, <2>3, <2>5, <2>8, <2>10, <2>11, <2>12, <2>13 DEF ImageOK
  <2> QED
    BY <1>0, <1>1, <2>2, <2>4, <2>5, <2>14, StepKeeps
<1> QED
  BY <1>0, <1>2, <1>3


-----------------------------------------------------------------------------
(* The actions after which boot.wim is another one, or none.               *)

\* Once an image is out of order only what is known of it, and that it is there, matter.
LEMMA DirtyIsOK ==
  ASSUME NEW j, fate'[j] \cap Dirty # {}, "doomed" \notin fate'[j] => HereOK(j)',
         \A v \in Workers : KnownOK(v, j)'
  PROVE ImageOK(j)'
BY DEF ImageOK, Dirty

LEMMA CopiedIsWim ==
  ASSUME PatchInvariant, NEW w \in Workers, work[w].at = "copy", NEW d \in CopiedWim(w)
  PROVE d \in Wim /\ d.there
BY DEF CopiedWim, PatchInvariant, WimTypes, ReqOK

\* Whoever still copies when its file already has the name of boot.wim writes over it:
\* the rename that met it made a note of that.
LEMMA CopyPatch == ASSUME CatInv, PatchInvariant, NEW w \in Workers, Copy(w) PROVE PatchInvariant'
<1>1. PICK j \in Catalogue : j = work[w].img
  BY Working DEF Copy, Is
<1>2. /\ work[w].at = "copy" /\ UNCHANGED <<row, file, fate>> /\ Move(w, "rename")
  BY DEF Copy, Is
<1>3. Apart(w) /\ SameTask(w) /\ work'[w].at = "rename" /\ work'[w].row = work[w].row
  BY <1>2, AtStep
<1>4. ReqOK(work'[w]) /\ work'[w].img = j
  BY <1>1, <1>3, SameTaskReq DEF SameTask
<1>5. boot[j] \in Wim /\ spare[j] \in Wim
  BY DEF PatchInvariant, WimTypes
<1>6. PICK d \in CopiedWim(w) :
        \/ /\ spare' = [spare EXCEPT ![j] = d] /\ UNCHANGED <<boot, mark>>
        \/ /\ work[w].on = "boot"
           /\ \E raw \in {d.raw, boot[j].raw} : boot' = [boot EXCEPT ![j] = [d EXCEPT !.raw = raw]]
           /\ mark' = [mark EXCEPT ![j] = Stale(j)]
           /\ UNCHANGED spare
        \/ UNCHANGED <<boot, spare, mark>>
  BY <1>1 DEF Copy
<1>7. d \in Wim /\ d.there
  BY <1>2, CopiedIsWim
<1>8. CASE UNCHANGED <<boot, mark>> /\ (spare' = [spare EXCEPT ![j] = d] \/ UNCHANGED spare)
  <2>1. spare'[j] \in Wim /\ \A k \in Catalogue \ {j} : spare'[k] = spare[k]
    BY <1>5, <1>7, <1>8 DEF CatInv, DomainsOK
  <2> QED
    BY <1>1, <1>2, <1>3, <1>4, <1>8, <2>1, ApartIsOthers, PlainStep DEF Apart, Minding, Fixing
<1>9. CASE /\ work[w].on = "boot"
           /\ \E raw \in {d.raw, boot[j].raw} : boot' = [boot EXCEPT ![j] = [d EXCEPT !.raw = raw]]
           /\ mark' = [mark EXCEPT ![j] = Stale(j)]
           /\ UNCHANGED spare
  <2>1. "raced" \in fate[j] /\ ImageOK(j)
    BY <1>1, <1>2, <1>9 DEF PatchInvariant, ImageOK, KnownOK, At
  <2>2. PICK raw \in {d.raw, boot[j].raw} : boot' = [boot EXCEPT ![j] = [d EXCEPT !.raw = raw]]
    BY <1>9
  <2>3. boot'[j] \in Wim /\ boot'[j].there
    <3>1. boot'[j] = [d EXCEPT !.raw = raw]
      BY <2>2 DEF CatInv, DomainsOK
    <3>2. raw \in SUBSET PE
      BY <1>5, <1>7 DEF Wim
    <3> QED
      BY <1>7, <3>1, <3>2 DEF Wim
  <2>4. \A k \in Catalogue \ {j} : Same(k)
    BY <1>2, <1>9, <2>2 DEF Same, CatInv, DomainsOK
  <2>5. StepOf(w, j)
    BY <1>1, <1>3, <1>4, <2>4, ApartIsOthers DEF StepOf
  <2>6. \A v \in Workers : KnownOK(v, j)'
    BY <1>2, <1>3, <2>1 DEF ImageOK, KnownOK, At, Apart
  <2>7. HereOK(j)'
    BY <2>3 DEF HereOK
  <2>8. ImageOK(j)'
    BY <1>2, <2>1, <2>6, <2>7, DirtyIsOK DEF Dirty
  <2> QED
    BY <1>4, <1>5, <1>9, <2>3, <2>5, <2>8, StepKeeps
<1> QED
  BY <1>6, <1>8, <1>9

\* A new boot.wim: nobody was patching the old one, or that is noted; the request that
\* renamed it goes on to see to it.
LEMMA RenamePatch == ASSUME CatInv, PatchInvariant, NEW w \in Workers, Rename(w) PROVE PatchInvariant'
<1>1. PICK j \in Catalogue : j = work[w].img
  BY Working DEF Rename, Is
<1> DEFINE r == [work[w] EXCEPT !.at = "look", !.on = "gone"]
<1>2. WorkOK(work[w]) /\ work[w].at = "rename" /\ UNCHANGED <<row, file>>
  BY DEF CatInv, DomainsOK, Rename, Is
<1>3. /\ r.op = work[w].op /\ r.img = work[w].img /\ r.todo = work[w].todo
      /\ r.data = work[w].data /\ r.idx = work[w].idx /\ r.row = work[w].row
      /\ r.at = "look" /\ r.on = "gone"
  BY <1>2 DEF WorkOK, WorkFields
<1>4. boot[j] \in Wim /\ spare[j] \in Wim /\ ImageOK(j)
  BY DEF PatchInvariant, WimTypes
<1>5. CASE ~spare[j].there
  <2>1. work' = [work EXCEPT ![w] = r] /\ UNCHANGED <<boot, spare, mark, fate>>
    BY <1>1, <1>5 DEF Rename
  <2> HIDE DEF r
  <2>2. Apart(w) /\ work'[w] = r
    BY <2>1, OneOther
  <2>3. ReqOK(work'[w])
    BY <1>3, <2>2, SameTaskReq DEF SameTask
  <2> QED
    BY <1>1, <1>2, <1>3, <1>4, <2>1, <2>2, <2>3, ApartIsOthers, PlainStep DEF Apart, Minding, Fixing
<1>6. CASE spare[j].there
  <2>1. /\ boot' = [boot EXCEPT ![j] = spare[j]] /\ spare' = [spare EXCEPT ![j] = NoWim]
        /\ mark' = [mark EXCEPT ![j] = IF @ # "none" /\ older[j] THEN "fresh" ELSE Stale(j)]
        /\ fate' = [fate EXCEPT ![j] = (@ \ {"raced", "skipped", "failed"})
                                       \cup IF Meets(w, j) \/ older[j] THEN {"raced"} ELSE {}]
        /\ work' = [Renamed(w, j, Moved) EXCEPT ![w].at = "look", ![w].on = "gone"]
    BY <1>1, <1>6 DEF Rename
  <2>2. Renamed(w, j, Moved)[w] = work[w] /\ DOMAIN Renamed(w, j, Moved) = Workers
    BY DEF Renamed
  <2>3. work'[w] = r /\ \A v \in Workers \ {w} : work'[v] = Renamed(w, j, Moved)[v]
    BY <2>1, <2>2
  <2> HIDE DEF r
  <2>4. Others(w, j)
    BY <2>3, RenamedIsOthers
  <2>5. /\ boot'[j] = spare[j] /\ spare'[j] = NoWim
        /\ mark'[j] = "fresh" => older[j]
        /\ \A f \in {"cut", "doomed"} : f \in fate'[j] <=> f \in fate[j]
        /\ "raced" \in fate'[j] <=> Meets(w, j) \/ older[j]
        /\ \A k \in Catalogue \ {j} : Same(k)
    BY <1>2, <2>1 DEF CatInv, DomainsOK, Stale, Same
  <2>6. StepOf(w, j)
    BY <1>1, <1>3, <2>3, <2>4, <2>5 DEF StepOf
  <2>7. ReqOK(work'[w])
    BY <1>3, <2>3, SameTaskReq DEF SameTask
  <2>8. HereOK(j)'
    BY <1>6, <2>5 DEF HereOK
  <2>9. \A v \in Workers \ {w} :
          /\ work'[v].at = work[v].at /\ work'[v].img = work[v].img
          /\ \A places : At(v, j, places)' <=> At(v, j, places)
    BY <2>6, AlikeAt
  <2>10. work'[w].at = "look" /\ work'[w].img = j
    BY <1>1, <1>3, <2>3
  <2>11. \A v \in Workers \ {w} :
           At(v, j, {"hive", "patch", "patched", "mark", "copy", "rename"}) => Meets(w, j)
    BY DEF Meets, At
  <2>12. ASSUME NEW v \in Workers PROVE KnownOK(v, j)'
    <3>1. CASE v = w
      BY <2>10, <3>1 DEF KnownOK, At
    <3>2. CASE v # w
      <4>1. At(v, j, {"copy"})' => "raced" \in fate'[j]
        BY <2>5, <2>9, <2>11, <3>2 DEF At
      <4>2. At(v, j, {"wipe", "drop"})' => "doomed" \in fate'[j]
        BY <1>4, <2>5, <2>9, <3>2 DEF ImageOK, KnownOK
      <4> QED
        BY <4>1, <4>2 DEF KnownOK
    <3> QED
      BY <3>1, <3>2
  <2>13. CASE "raced" \in fate'[j]
    <3>1. ImageOK(j)'
      BY <2>8, <2>12, <2>13, DirtyIsOK DEF Dirty
    <3> QED
      BY <1>4, <2>5, <2>6, <2>7, <3>1, WimsAreWims, StepKeeps
  <2>14. CASE "raced" \notin fate'[j]
    <3>1. ~Meets(w, j) /\ mark'[j] # "fresh"
      BY <2>5, <2>14
    <3>2. \A v \in Workers : ~At(v, j, Fixing)'
      BY <2>9, <2>10, <2>11, <3>1 DEF At, Fixing
    <3>3. MindedOK(j)'
      BY <2>10 DEF MindedOK, At, Minding
    <3>4. ImageOK(j)'
      BY <2>8, <2>12, <3>1, <3>2, <3>3 DEF ImageOK, MarkedOK, FixerOK
    <3> QED
      BY <1>4, <2>5, <2>6, <2>7, <3>4, WimsAreWims, StepKeeps
  <2> QED
    BY <2>13, <2>14
<1> QED
  BY <1>5, <1>6

LEMMA WipePatch == ASSUME CatInv, PatchInvariant, NEW w \in Workers, Wipe(w) PROVE PatchInvariant'
<1>1. PICK j \in Catalogue : j = work[w].img
  BY Working DEF Wipe, Is
<1> DEFINE r == [work[w] EXCEPT !.at = "drop"]
<1>2. /\ WorkOK(work[w]) /\ work[w].at = "wipe" /\ UNCHANGED <<row, file, fate>>
      /\ boot' = [boot EXCEPT ![j] = NoWim] /\ spare' = [spare EXCEPT ![j] = NoWim]
      /\ mark' = [mark EXCEPT ![j] = "none"]
      /\ work' = [Renamed(w, j, Neither) EXCEPT ![w].at = "drop"]
  BY <1>1 DEF CatInv, DomainsOK, Wipe, Is
<1>3. /\ r.op = work[w].op /\ r.img = work[w].img /\ r.todo = work[w].todo
      /\ r.data = work[w].data /\ r.idx = work[w].idx /\ r.row = work[w].row
      /\ r.at = "drop" /\ r.on = work[w].on
  BY <1>2 DEF WorkOK, WorkFields
<1>4. Renamed(w, j, Neither)[w] = work[w] /\ DOMAIN Renamed(w, j, Neither) = Workers
  BY DEF Renamed
<1>5. work'[w] = r /\ \A v \in Workers \ {w} : work'[v] = Renamed(w, j, Neither)[v]
  BY <1>2, <1>4
<1> HIDE DEF r
<1>6. /\ Others(w, j)
      /\ \A v \in Workers \ {w} :
           \/ work'[v].on = work[v].on
           \/ work[v].on \in DOMAIN Neither /\ work'[v].on = Neither[work[v].on]
  BY <1>5, RenamedIsOthers
<1>7. \A n \in DOMAIN Neither : Neither[n] = "gone"
  BY DEF Neither
<1>8. \A v \in Workers \ {w} : work'[v].on = "boot" => work[v].on = "boot"
  BY <1>6, <1>7
<1>9. ImageOK(j) /\ "doomed" \in fate[j]
  BY <1>1, <1>2 DEF PatchInvariant, ImageOK, KnownOK, At
<1>10. /\ boot'[j] = NoWim /\ spare'[j] = NoWim /\ \A k \in Catalogue \ {j} : Same(k)
  BY <1>2 DEF CatInv, DomainsOK, Same
<1>11. StepOf(w, j)
  BY <1>1, <1>3, <1>5, <1>6, <1>10 DEF StepOf
<1>12. ASSUME NEW v \in Workers PROVE KnownOK(v, j)'
  <2>1. CASE v = w
    BY <1>2, <1>3, <1>5, <1>9, <2>1 DEF KnownOK, At
  <2>2. CASE v # w
    <3>1. At(v, j, {"copy"})' => At(v, j, {"copy"})
      BY <1>11, <2>2, AlikeAt
    <3> QED
      BY <1>2, <1>8, <1>9, <2>2, <3>1 DEF ImageOK, KnownOK
  <2> QED
    BY <2>1, <2>2
<1>13. ImageOK(j)'
  BY <1>2, <1>9, <1>12, DirtyIsOK DEF Dirty
<1>14. ReqOK(work'[w])
  BY <1>3, <1>5, SameTaskReq DEF SameTask
<1> QED
  BY <1>10, <1>11, <1>13, <1>14, WimsAreWims, StepKeeps

\* A stop leaves the images nobody worked on as they were, and makes a note of the others.
LEMMA StopPatch == ASSUME CatInv, PatchInvariant, StopServer PROVE PatchInvariant'
<1>1. /\ work' = [w \in Workers |-> Rest] /\ UNCHANGED <<row, file, boot, spare, mark>>
      /\ fate' = [i \in Catalogue |-> IF Quiet(i) THEN fate[i] ELSE fate[i] \cup {"cut"}]
  BY DEF StopServer
<1>2. \A v \in Workers : work'[v] = Rest
  BY <1>1
<1>3. WimTypes'
  BY <1>1, <1>2, RestReq DEF PatchInvariant, WimTypes
<1>4. ASSUME NEW i \in Catalogue PROVE ImageOK(i)'
  <2>1. ImageOK(i)
    BY DEF PatchInvariant
  <2>2. \A v \in Workers : work'[v].at = "rest" /\ work'[v].row = ""
    BY <1>2, RestReq
  <2>3. \A v \in Workers : KnownOK(v, i)' /\ FixerOK(v, i)'
    BY <2>2 DEF KnownOK, FixerOK, At, Fixing
  <2>4. HereOK(i) => HereOK(i)'
    BY <1>1, <2>2 DEF HereOK
  <2>5. CASE Quiet(i)
    <3>1. \A v \in Workers : ~At(v, i, Minding) /\ ~Patching(v, i)
      BY <2>5, Working DEF Quiet, Has, At, Patching, Minding, Fixing, CatInv, DomainsOK, WorkOK
    <3>2. fate'[i] = fate[i]
      BY <1>1, <2>5
    <3>3. MarkedOK(i) => MarkedOK(i)'
      BY <1>1, <3>1 DEF MarkedOK, WholeOrPatched
    <3>4. MindedOK(i) => MindedOK(i)'
      BY <1>1, <3>1 DEF MindedOK
    <3> QED
      BY <2>1, <2>3, <2>4, <3>2, <3>3, <3>4 DEF ImageOK
  <2>6. CASE ~Quiet(i)
    <3>1. fate'[i] = fate[i] \cup {"cut"}
      BY <1>1, <2>6
    <3> QED
      BY <2>1, <2>3, <2>4, <3>1 DEF ImageOK, Dirty
  <2> QED
    BY <2>5, <2>6
<1> QED
  BY <1>3, <1>4 DEF PatchInvariant

-----------------------------------------------------------------------------
(* The theorem.                                                            *)

LEMMA PatchInit == CatalogueInit => PatchInvariant
<1> SUFFICES ASSUME CatalogueInit PROVE PatchInvariant
  OBVIOUS
<1>1. \A v \in Workers : work[v] = Rest
  BY DEF CatalogueInit
<1>2. WimTypes
  BY <1>1, RestReq, WimsAreWims DEF CatalogueInit, WimTypes
<1>3. ASSUME NEW i \in Catalogue PROVE ImageOK(i)
  <2>1. \A v \in Workers : work[v].at = "rest" /\ work[v].row = ""
    BY <1>1, RestReq
  <2>2. row[i] \in {"none", "bare"} /\ mark[i] = "none" /\ ~boot[i].there
    BY DEF CatalogueInit, NoWim
  <2> QED
    BY <2>1, <2>2 DEF ImageOK, HereOK, MarkedOK, FixerOK, MindedOK, KnownOK, At, Fixing
<1> QED
  BY <1>2, <1>3 DEF PatchInvariant

LEMMA PatchStep == CatInv /\ PatchInvariant /\ [CatalogueNext]_catalogueVars => PatchInvariant'
<1> SUFFICES ASSUME CatInv, PatchInvariant, [CatalogueNext]_catalogueVars PROVE PatchInvariant'
  OBVIOUS
<1>1. CASE UNCHANGED catalogueVars
  BY <1>1 DEF catalogueVars, PatchInvariant, WimTypes, ImageOK, HereOK, MarkedOK, FixerOK, MindedOK,
     KnownOK, At, WholeOrPatched, Patching
<1>2. ASSUME NEW w \in Workers, NEW i \in Catalogue,
             Upload(w, i) \/ Inspect(w, i) \/ GetBoot(w, i) \/ Delete(w, i)
      PROVE PatchInvariant'
  BY <1>2, BeginPatch
<1>3. ASSUME NEW w \in Workers,
             \/ List(w) \/ Received(w) \/ Fill(w) \/ Store(w)
             \/ ExtractBoot(w) \/ Borrow(w) \/ Copy(w) \/ CopyFails(w) \/ Rename(w) \/ Look(w)
             \/ Fix(w) \/ Hive(w) \/ HiveFails(w) \/ Patch(w) \/ PatchFails(w) \/ Patches(w) \/ Mark(w)
             \/ Wipe(w) \/ Drop(w)
      PROVE PatchInvariant'
  BY <1>3, BeginPatch, ReceivedPatch, FillPatch, StorePatch, CopyBeginsPatch, CopyPatch, CopyFailsPatch,
     RenamePatch, LookPatch, FixPatch, HivePatch, HiveFailsPatch, PatchPatch, PatchFailsPatch,
     PatchesPatch, MarkPatch, WipePatch, DropPatch
<1>4. CASE StopServer
  BY <1>4, StopPatch
<1> QED
  BY <1>1, <1>2, <1>3, <1>4 DEF CatalogueNext

\* When nobody works on an image and its row says boot.wim is here, it is here, whole and
\* patched in every index with a hive, unless an extraction met a patching, an index was
\* skipped, the last patching failed or was cut off, or a deletion has begun
\* (winpefix: the marker next to boot.wim is believed if it is not older).
THEOREM AlwaysReadyIsPatched == CatalogueSpec => []ReadyIsPatched
<1>1. CatInv /\ PatchInvariant => ReadyIsPatched
  <2> SUFFICES ASSUME CatInv, PatchInvariant, NEW i \in Catalogue, row[i] = "here", Quiet(i),
                      fate[i] \cap {"raced", "skipped", "failed", "cut", "doomed"} = {}
               PROVE  boot[i].there /\ boot[i].whole /\ boot[i].raw = {}
    BY DEF ReadyIsPatched
  <2>1. \A v \in Workers : ~At(v, i, Minding) /\ ~Patching(v, i)
    BY DEF Quiet, Has, At, Patching, Minding, Fixing, CatInv, DomainsOK, WorkOK
  <2>2. "doomed" \notin fate[i] /\ fate[i] \cap Dirty = {} /\ fate[i] \cap (Dirty \cup {"failed"}) = {}
    BY DEF Dirty
  <2>3. HereOK(i) /\ MarkedOK(i) /\ MindedOK(i)
    BY <2>2 DEF PatchInvariant, ImageOK
  <2>4. boot[i].there
    BY <2>3 DEF HereOK
  <2>5. mark[i] = "fresh"
    BY <2>1, <2>3, <2>4 DEF MindedOK
  <2> QED
    BY <2>1, <2>3, <2>5 DEF MarkedOK, WholeOrPatched
<1> QED
  BY <1>1, CatInit, PatchInit, CatStep, PatchStep, PTL DEF CatalogueSpec
===============================================================================
