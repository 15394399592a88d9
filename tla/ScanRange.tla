------------------------------ MODULE ScanRange ------------------------------
(***************************************************************************)
(* What mining one range of cells of a plane finds.  A cell is a match, a  *)
(* candidate skipped because its count is saturated, nothing, or one whose *)
(* evaluation throws; an unreadable cell fails the read of its whole chunk. *)
(* Source: Tablebase::mine_range in src/core/probe/tablebase.cpp.          *)
(***************************************************************************)
EXTENDS Integers, Sequences, FiniteSets, FiniteSetsExt

CONSTANTS
  PlaneCells,  \* cells of the plane
  ScanChunk,   \* kScanChunk: cells per read (65536 in the code)
  Planes       \* the planes under consideration

Cells == 0 .. PlaneCells - 1
Kinds == {"hit", "skip", "miss", "throws", "unreadable"}

ASSUME RangeAssumption ==
  /\ PlaneCells \in Nat \ {0}
  /\ ScanChunk \in Nat \ {0}
  /\ Planes \subseteq [Cells -> Kinds]

Least(S, otherwise) == IF S = {} THEN otherwise ELSE Min(S)

\* The scan of begin .. end-1 throws on reaching c: a chunk starts there that
\* cannot be read, or evaluating c throws.
Raises(p, c, begin, end) ==
  \/ p[c] = "throws"
  \/ /\ (c - begin) % ScanChunk = 0
     /\ \E x \in c .. c + ScanChunk - 1 : x < end /\ p[x] = "unreadable"

FaultAt(p, begin, end) == Least({c \in begin .. end - 1 : Raises(p, c, begin, end)}, end)

\* The matches in cell order: the i-th has i matches up to it.
HitsIn(p, lo, hi) ==
  LET hits == {c \in lo .. hi - 1 : p[c] = "hit"}
  IN  [i \in 1 .. Cardinality(hits) |->
         CHOOSE c \in hits : Cardinality({h \in hits : h <= c}) = i]

SkipsIn(p, lo, hi) == Cardinality({c \in lo .. hi - 1 : p[c] = "skip"})

=============================================================================
