------------------------------ MODULE MineSeq ------------------------------
(***************************************************************************)
(* What Tablebase::mine promises whatever the number of threads: the scan  *)
(* of one thread.  Matches reach the callback in cell order, each with the *)
(* tally of saturated candidates before it, until the callback stops the   *)
(* scan or something throws.  (src/core/probe/tablebase.h:130-147)         *)
(***************************************************************************)
EXTENDS ScanRange

VARIABLES
  plane,    \* the plane being mined
  at,       \* the first cell not scanned yet
  out,      \* the cells given to the callback
  skipped,  \* *skipped_saturated
  outcome   \* "running", then how the call ends

vars == <<plane, at, out, skipped, outcome>>

Init ==
  /\ plane \in Planes
  /\ at = 0
  /\ out = <<>>
  /\ skipped = 0
  /\ outcome = "running"

Raising(c) == Raises(plane, c, 0, PlaneCells)
Blank(lo, hi) == \A c \in lo .. hi - 1 : plane[c] # "hit" /\ ~ Raising(c)

\* Cells with nothing to report are passed over, any number at a time.
Pass ==
  /\ outcome = "running"
  /\ \E to \in at + 1 .. PlaneCells :
       /\ Blank(at, to)
       /\ at' = to
       /\ skipped' = skipped + SkipsIn(plane, at, to)
  /\ UNCHANGED <<plane, out, outcome>>

\* The callback asks for more, says stop, or throws.
Deliver ==
  /\ outcome = "running"
  /\ \E h \in at .. PlaneCells - 1 :
       /\ Blank(at, h)
       /\ plane[h] = "hit" /\ ~ Raising(h)
       /\ out' = Append(out, h)
       /\ skipped' = skipped + SkipsIn(plane, at, h)
       /\ at' = h + 1
  /\ outcome' \in {"running", "stopped", "thrown"}
  /\ UNCHANGED plane

Fail ==
  /\ outcome = "running"
  /\ \E h \in at .. PlaneCells - 1 :
       /\ Blank(at, h)
       /\ Raising(h)
       /\ skipped' = skipped + SkipsIn(plane, at, h)
  /\ outcome' = "fault"
  /\ UNCHANGED <<plane, at, out>>

Finish ==
  /\ outcome = "running"
  /\ at = PlaneCells
  /\ outcome' = "done"
  /\ UNCHANGED <<plane, at, out, skipped>>

\* The threads of a parallel scan cannot be started.
Unable ==
  /\ outcome = "running" /\ at = 0 /\ out = <<>>
  /\ outcome' = "unable"
  /\ UNCHANGED <<plane, at, out, skipped>>

Next == Pass \/ Deliver \/ Fail \/ Finish \/ Unable

Spec == Init /\ [][Next]_vars /\ WF_vars(Next)
=============================================================================
