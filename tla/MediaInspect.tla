------------------------------ MODULE MediaInspect ------------------------------
(***************************************************************************)
(* How a Windows medium is looked through (internal/imageinspect): an ISO  *)
(* is read in chunks that overlap, the places of the WIM magic are         *)
(* collected, those inside a WIM found before are dropped, and of the rest *)
(* one is taken for WinPE and one for the installation.  A medium is its   *)
(* size and what bears the magic; places and lengths are small numbers.    *)
(***************************************************************************)
EXTENDS Integers, SequencesExt, FiniteSetsExt

CONSTANTS
  Magic,   \* length of the magic: 8
  Chunk,   \* bytes read at a time: 1 MB
  Media    \* the media there are

ASSUME MagicIsShort == Magic \in Nat \ {0} /\ Chunk \in Nat /\ Chunk > Magic

\* A magic on the medium: where it is, whether a WIM header follows, where the WIM
\* ends by its header and by its table of resources (0: compressed or not readable),
\* and what its editions say it is: "boot" (WinPE or Setup), "server", "windows",
\* or "other".
Wim(at, valid, header, table, holds) ==
  [at |-> at, valid |-> valid, header |-> header, table |-> table, holds |-> holds]

\* Two magics are not at one place.
ASSUME MediaAreMedia ==
  \A m \in Media :
    /\ m.size \in Nat
    /\ \A w \in m.wims : w.at \in Nat /\ w.header \in Nat /\ w.table \in Nat
    /\ \A v, w \in m.wims : v.at = w.at => v = w

VARIABLES
  medium,  \* size, whether it is ISO 9660, and the magics on it
  off,     \* where the chunk begins
  start,   \* where the search in the chunk goes on
  hits,    \* places of the magic, in the order found
  exts,    \* the WIMs taken, in the order found
  pick,    \* what the inspection says: format, boot and install
  scan     \* "open", "chunks", "extents" or "done"

inspectVars == <<medium, off, start, hits, exts, pick, scan>>

NoPick == [format |-> "none", boot |-> {}, install |-> {}]

InspectInit ==
  /\ medium \in Media
  /\ off = 0 /\ start = 0 /\ hits = <<>> /\ exts = <<>>
  /\ pick = NoPick
  /\ scan = "open"

Complete(w) == w.at + Magic <= medium.size

-----------------------------------------------------------------------------
(* A WIM.                                                                  *)

\* onDiskSize, resourceSpan and the limit readWIMExtent is given.
Span(w) == Min({Max({Magic, w.header, w.table}), medium.size - w.at})

\* readWIMExtent.
Extent(w) == [offset |-> w.at, size |-> Span(w), holds |-> w.holds]

\* File: one that begins with the magic is a WIM itself; what is not ISO 9660 is
\* looked at as a disk.
Open ==
  LET first == {w \in medium.wims : w.at = 0 /\ Complete(w)}
  IN
  /\ scan = "open"
  /\ IF first # {}
     THEN /\ pick' = [format |-> "wim", boot |-> {},
                      install |-> {Extent(w) : w \in {v \in first : v.valid}}]
          /\ scan' = "done"
     ELSE IF medium.iso THEN scan' = "chunks" /\ UNCHANGED pick
     ELSE pick' = [NoPick EXCEPT !.format = "disk"] /\ scan' = "done"
  /\ UNCHANGED <<medium, off, start, hits, exts>>

-----------------------------------------------------------------------------
(* FindWIMExtents.                                                         *)

\* Faulty: a magic that crosses the end of a chunk is missed.
StepWide == Chunk - Magic + 2
Step == Chunk - (Magic - 1)

\* The magics that lie in the chunk as a whole, where it was not searched.
InChunk ==
  LET end == Min({off + Chunk, medium.size})
  IN  {w.at : w \in {v \in medium.wims : v.at >= start /\ v.at + Magic <= end}}

\* The search finds the first of them, and goes on behind its first byte.
FindHit ==
  /\ scan = "chunks" /\ off < medium.size /\ InChunk # {}
  /\ LET pos == Min(InChunk) IN
     /\ hits' = IF hits = <<>> \/ Last(hits) # pos THEN Append(hits, pos) ELSE hits
     /\ start' = pos + 1
  /\ UNCHANGED <<medium, off, exts, pick, scan>>

\* The next chunk begins before the end of this one.
NextChunk ==
  /\ scan = "chunks" /\ off < medium.size /\ InChunk = {}
  /\ off' = off + Step
  /\ start' = off'
  /\ UNCHANGED <<medium, hits, exts, pick, scan>>

ChunksEnd ==
  /\ scan = "chunks" /\ off >= medium.size
  /\ scan' = "extents"
  /\ UNCHANGED <<medium, off, start, hits, exts, pick>>

\* wimHitCovered.
Covered(pos) == \E i \in DOMAIN exts : exts[i].offset < pos /\ pos < exts[i].offset + exts[i].size

TakeHit ==
  LET pos == Head(hits)
      w == CHOOSE v \in medium.wims : v.at = pos
  IN
  /\ scan = "extents" /\ hits # <<>>
  /\ exts' = IF ~Covered(pos) /\ w.valid THEN Append(exts, Extent(w)) ELSE exts
  /\ hits' = Tail(hits)
  /\ UNCHANGED <<medium, off, start, pick, scan>>

-----------------------------------------------------------------------------
(* inspectWindowsISO.                                                      *)

IsBootWIM(e) == e.holds = "boot"
Places(P(_)) == {i \in DOMAIN exts : P(exts[i])}

\* The first that holds WinPE.
Boot == LET B == Places(IsBootWIM) IN IF B = {} THEN {} ELSE {Min(B)}

\* The first of the largest among the rest; the last of all if there is no rest, but
\* another one than WinPE if there is another.
Install ==
  LET rest == DOMAIN exts \ Boot
      largest == {i \in rest : \A j \in rest : exts[j].size <= exts[i].size}
  IN  IF rest = {} THEN {Len(exts)} ELSE {Min(largest)}

\* A lone WIM that is not WinPE must speak of Windows.
Windows ==
  exts # <<>> /\ (Boot # {} \/ Len(exts) > 1 \/ exts[1].holds \in {"server", "windows"})

Judge ==
  /\ scan = "extents" /\ hits = <<>>
  /\ pick' = IF Windows
             THEN [format |-> "iso", boot |-> {exts[i] : i \in Boot}, install |-> {exts[i] : i \in Install}]
             ELSE [NoPick EXCEPT !.format = "disk"]
  /\ scan' = "done"
  /\ UNCHANGED <<medium, off, start, hits, exts>>

InspectNext == Open \/ FindHit \/ NextChunk \/ ChunksEnd \/ TakeHit \/ Judge

InspectSpec == InspectInit /\ [][InspectNext]_inspectVars

-----------------------------------------------------------------------------
\* Wherever the chunks cut the medium, and whatever bears the magic without being a
\* WIM or lies inside of one, an ISO's WIMs are found once each, in their order, and
\* all but those inside of one that is found; the one to install is none smaller than
\* any other but WinPE, and is WinPE only if there is nothing else.
MediumIsRead ==
  (scan = "done" /\ medium.iso /\ pick.format # "wim") =>
    /\ \A i, j \in DOMAIN exts : i < j => exts[i].offset < exts[j].offset
    /\ ToSet(exts) = {Extent(w) : w \in {v \in medium.wims : v.valid /\ Complete(v) /\ ~Covered(v.at)}}
    /\ \A e \in pick.install :
         /\ e \in pick.boot => Len(exts) = 1
         /\ \A i \in DOMAIN exts : exts[i] \in pick.boot \/ exts[i].size <= e.size
===============================================================================
