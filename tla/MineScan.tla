------------------------------ MODULE MineScan ------------------------------
(***************************************************************************)
(* Tablebase::mine on several threads: workers claim segments of the plane *)
(* in order, scan them, and park the results in a ring that the calling    *)
(* thread empties in order.  One mutex and one condition variable guard    *)
(* the claim counter and the ring; every step below that touches them is   *)
(* one critical section, and a notification is a step of its own because   *)
(* the code notifies after it has released the mutex.                      *)
(* Source: src/core/probe/tablebase.cpp:334-444.                           *)
(***************************************************************************)
EXTENDS ScanRange

CONSTANTS
  Threads,          \* the `threads` argument
  SegmentCells,     \* kSegment
  WindowPerWorker   \* 4 in the code

Segments == (PlaneCells + SegmentCells - 1) \div SegmentCells

ASSUME PoolAssumption ==
  /\ SegmentCells \in Nat \ {0}
  /\ WindowPerWorker \in Nat \ {0}
  /\ Threads \in Nat \ {0, 1}
  /\ Segments > 1

VARIABLES
  plane, out, skipped, outcome,  \* as in MineSeq
  next,     \* first unclaimed segment
  emitted,  \* segments taken out of the ring
  stop,
  ring,     \* one parked Segment per slot
  wpc,      \* where each worker is
  seg,      \* the segment it claimed
  res,      \* what it found there
  cpc,      \* where the calling thread is
  taken,    \* the Segment it took last, and how many of its hits it delivered
  hit,
  tally     \* skips in the segments handed out so far

callerVars == <<cpc, taken, hit, tally, out, skipped, outcome>>
vars == <<plane, next, emitted, stop, ring, wpc, seg, res, callerVars>>

NumWorkers == IF Threads <= Segments THEN Threads ELSE Segments
Workers    == 1 .. NumWorkers
Window     == WindowPerWorker * NumWorkers
Slots      == 0 .. Window - 1
SlotOf(k)  == k % Window

Begin(k) == k * SegmentCells
End(k)   == IF Begin(k + 1) <= PlaneCells THEN Begin(k + 1) ELSE PlaneCells

Segment(hits, skips, error) ==
  [done |-> TRUE, hits |-> hits, skipped |-> skips, error |-> error]
Empty == [done |-> FALSE, hits |-> <<>>, skipped |-> 0, error |-> FALSE]

\* The hits of segment k before cell upto, each with the skips before it.
HitsUpTo(k, upto) ==
  LET cells == HitsIn(plane, Begin(k), upto)
  IN  [i \in DOMAIN cells |-> [cell |-> cells[i], before |-> SkipsIn(plane, Begin(k), cells[i])]]

Found(k) ==
  LET f == FaultAt(plane, Begin(k), End(k))
  IN  Segment(HitsUpTo(k, f), SkipsIn(plane, Begin(k), f), f < End(k))

\* A scan that sees `stop` ends at the hit it has just recorded.
CutShort(k) ==
  {Segment(HitsUpTo(k, c + 1), SkipsIn(plane, Begin(k), c), FALSE) :
     c \in {x \in Begin(k) .. FaultAt(plane, Begin(k), End(k)) - 1 : plane[x] = "hit"}}

Init ==
  /\ plane \in Planes
  /\ out = <<>> /\ skipped = 0 /\ outcome = "running"
  /\ next = 0 /\ emitted = 0 /\ stop = FALSE
  /\ ring = [s \in Slots |-> Empty]
  /\ wpc = [w \in Workers |-> "unborn"]
  /\ seg = [w \in Workers |-> 0]
  /\ res = [w \in Workers |-> Empty]
  /\ cpc = "spawn"
  /\ taken = Empty /\ hit = 0 /\ tally = 0

-----------------------------------------------------------------------------
(* The workers *)

AllClaimed == next >= Segments

MayClaimTooFar == next <= emitted + Window
MayClaim == next < emitted + Window

Exit(w) ==
  /\ wpc[w] = "claim"
  /\ stop \/ AllClaimed
  /\ wpc' = [wpc EXCEPT ![w] = "exited"]
  /\ UNCHANGED <<plane, next, emitted, stop, ring, seg, res, callerVars>>

Claim(w) ==
  /\ wpc[w] = "claim"
  /\ ~ stop /\ ~ AllClaimed /\ MayClaim
  /\ seg' = [seg EXCEPT ![w] = next]
  /\ next' = next + 1
  /\ wpc' = [wpc EXCEPT ![w] = "scan"]
  /\ UNCHANGED <<plane, emitted, stop, ring, res, callerVars>>

WaitForRoom(w) ==
  /\ wpc[w] = "claim"
  /\ ~ stop /\ ~ AllClaimed /\ ~ MayClaim
  /\ wpc' = [wpc EXCEPT ![w] = "asleep"]
  /\ UNCHANGED <<plane, next, emitted, stop, ring, seg, res, callerVars>>

Scan(w) ==
  /\ wpc[w] = "scan"
  /\ \E r \in {Found(seg[w])} \cup (IF stop THEN CutShort(seg[w]) ELSE {}) :
       res' = [res EXCEPT ![w] = r]
  /\ wpc' = [wpc EXCEPT ![w] = "park"]
  /\ UNCHANGED <<plane, next, emitted, stop, ring, seg, callerVars>>

Park(w) ==
  /\ wpc[w] = "park"
  /\ ring' = [ring EXCEPT ![SlotOf(seg[w])] = res[w]]
  /\ res' = [res EXCEPT ![w] = Empty]
  /\ wpc' = [wpc EXCEPT ![w] = "notify"]
  /\ UNCHANGED <<plane, next, emitted, stop, seg, callerVars>>

\* cv.notify_all(): everyone asleep is to look at its condition again.
Woken(pcs) == [w \in Workers |-> IF pcs[w] = "asleep" THEN "claim" ELSE pcs[w]]

CallerAfterNotifyForgotten == cpc
CallerAfterNotify == IF cpc = "asleep" THEN "take" ELSE cpc

Notify(w) ==
  /\ wpc[w] = "notify"
  /\ wpc' = Woken([wpc EXCEPT ![w] = "claim"])
  /\ cpc' = CallerAfterNotify
  /\ UNCHANGED <<plane, next, emitted, stop, ring, seg, res, taken, hit, tally,
                 out, skipped, outcome>>

\* A condition variable may wake a waiter for no reason.
WorkerWakesUp(w) ==
  /\ wpc[w] = "asleep"
  /\ wpc' = [wpc EXCEPT ![w] = "claim"]
  /\ UNCHANGED <<plane, next, emitted, stop, ring, seg, res, callerVars>>

-----------------------------------------------------------------------------
(* The calling thread *)

Started == {w \in Workers : wpc[w] # "unborn"}

Spawn ==
  /\ cpc = "spawn"
  /\ \E w \in Workers \ Started :
       /\ \A v \in Workers \ Started : w <= v
       /\ wpc' = [wpc EXCEPT ![w] = "claim"]
  /\ UNCHANGED <<plane, next, emitted, stop, ring, seg, res, callerVars>>

AllSpawned ==
  /\ cpc = "spawn"
  /\ Started = Workers
  /\ cpc' = "take"
  /\ UNCHANGED <<plane, next, emitted, stop, ring, wpc, seg, res, taken, hit, tally,
                 out, skipped, outcome>>

SpawnFails ==
  /\ cpc = "spawn"
  /\ Started # Workers
  /\ outcome' = "unable"
  /\ cpc' = "finish"
  /\ UNCHANGED <<plane, next, emitted, stop, ring, wpc, seg, res, taken, hit, tally,
                 out, skipped>>

RingAfterTakeKept == ring
RingAfterTake == [ring EXCEPT ![SlotOf(emitted)] = Empty]

Take ==
  /\ cpc = "take"
  /\ emitted < Segments
  /\ ring[SlotOf(emitted)].done
  /\ taken' = ring[SlotOf(emitted)]
  /\ ring' = RingAfterTake
  /\ emitted' = emitted + 1
  /\ hit' = 0
  /\ cpc' = "announce"
  /\ UNCHANGED <<plane, next, stop, wpc, seg, res, tally, out, skipped, outcome>>

WaitForSegment ==
  /\ cpc = "take"
  /\ emitted < Segments
  /\ ~ ring[SlotOf(emitted)].done
  /\ cpc' = "asleep"
  /\ UNCHANGED <<plane, next, emitted, stop, ring, wpc, seg, res, taken, hit, tally,
                 out, skipped, outcome>>

CallerWakesUp ==
  /\ cpc = "asleep"
  /\ cpc' = "take"
  /\ UNCHANGED <<plane, next, emitted, stop, ring, wpc, seg, res, taken, hit, tally,
                 out, skipped, outcome>>

\* The slot is free again: workers may claim one segment further.
WokenByTakeForgotten == wpc
WokenByTake == Woken(wpc)

Announce ==
  /\ cpc = "announce"
  /\ wpc' = WokenByTake
  /\ cpc' = "deliver"
  /\ UNCHANGED <<plane, next, emitted, stop, ring, seg, res, taken, hit, tally,
                 out, skipped, outcome>>

TallyAtHitWhole == tally + taken.skipped
TallyAtHit == tally + taken.hits[hit + 1].before

Deliver ==
  /\ cpc = "deliver"
  /\ hit < Len(taken.hits)
  /\ skipped' = TallyAtHit
  /\ out' = Append(out, taken.hits[hit + 1].cell)
  /\ hit' = hit + 1
  /\ outcome' \in {"running", "stopped", "thrown"}
  /\ cpc' = IF outcome' = "running" THEN "deliver" ELSE "finish"
  /\ UNCHANGED <<plane, next, emitted, stop, ring, wpc, seg, res, taken, tally>>

EndSegment ==
  /\ cpc = "deliver"
  /\ hit = Len(taken.hits)
  /\ tally' = tally + taken.skipped
  /\ skipped' = tally'
  /\ outcome' = IF taken.error THEN "fault" ELSE "running"
  /\ cpc' = IF taken.error THEN "finish" ELSE "take"
  /\ UNCHANGED <<plane, next, emitted, stop, ring, wpc, seg, res, taken, hit, out>>

Exhausted ==
  /\ cpc = "take"
  /\ emitted = Segments
  /\ outcome' = "done"
  /\ cpc' = "finish"
  /\ UNCHANGED <<plane, next, emitted, stop, ring, wpc, seg, res, taken, hit, tally,
                 out, skipped>>

\* finish(): set stop, wake everyone, join.
SetStop ==
  /\ cpc = "finish"
  /\ stop' = TRUE
  /\ cpc' = "wake"
  /\ UNCHANGED <<plane, next, emitted, ring, wpc, seg, res, taken, hit, tally,
                 out, skipped, outcome>>

WakeAll ==
  /\ cpc = "wake"
  /\ wpc' = Woken(wpc)
  /\ cpc' = "join"
  /\ UNCHANGED <<plane, next, emitted, stop, ring, seg, res, taken, hit, tally,
                 out, skipped, outcome>>

Join ==
  /\ cpc = "join"
  /\ \A w \in Started : wpc[w] = "exited"
  /\ cpc' = "returned"
  /\ UNCHANGED <<plane, next, emitted, stop, ring, wpc, seg, res, taken, hit, tally,
                 out, skipped, outcome>>

Returned == cpc = "returned" /\ UNCHANGED vars

Worker(w) == Exit(w) \/ Claim(w) \/ WaitForRoom(w) \/ Scan(w) \/ Park(w) \/ Notify(w)

Caller ==
  \/ Spawn \/ AllSpawned \/ SpawnFails
  \/ Take \/ WaitForSegment \/ Announce \/ Deliver \/ EndSegment \/ Exhausted
  \/ SetStop \/ WakeAll \/ Join

Next ==
  \/ Caller
  \/ \E w \in Workers : Worker(w) \/ WorkerWakesUp(w)
  \/ CallerWakesUp
  \/ Returned

\* Every thread that can run does: the mutex is held for a bounded time and
\* the callback returns.  Nobody may count on waking up for no reason.
Spec == Init /\ [][Next]_vars /\ WF_vars(Caller) /\ \A w \in Workers : WF_vars(Worker(w))
-----------------------------------------------------------------------------
Hit == [cell : Cells, before : 0 .. PlaneCells]
Parcel == [done : BOOLEAN, hits : Seq(Hit), skipped : 0 .. PlaneCells, error : BOOLEAN]

TypeOK ==
  /\ plane \in [Cells -> Kinds]
  /\ out \in Seq(Cells)
  /\ skipped \in 0 .. PlaneCells
  /\ outcome \in {"running", "done", "stopped", "thrown", "fault", "unable"}
  /\ next \in 0 .. Segments
  /\ emitted \in 0 .. Segments
  /\ stop \in BOOLEAN
  /\ ring \in [Slots -> Parcel]
  /\ wpc \in [Workers -> {"unborn", "claim", "asleep", "scan", "park", "notify", "exited"}]
  /\ seg \in [Workers -> 0 .. Segments]
  /\ res \in [Workers -> Parcel]
  /\ cpc \in {"spawn", "take", "asleep", "announce", "deliver",
              "finish", "wake", "join", "returned"}
  /\ taken \in Parcel
  /\ hit \in Nat
  /\ tally \in 0 .. PlaneCells

(* A worker never parks over a result that has not been taken: the slots of
   the claimed segments are empty and different. *)
InFlight == {w \in Workers : wpc[w] \in {"scan", "park"}}

RingSafe ==
  \A v, w \in InFlight :
    /\ ~ ring[SlotOf(seg[w])].done
    /\ SlotOf(seg[v]) = SlotOf(seg[w]) => v = w

(* As long as the scan is not being stopped, what lies in the slot of a segment
   is that segment's whole result, never a neighbour's or a shortened one. *)
SlotsHoldTheirSegment ==
  ~ stop =>
    \A k \in emitted .. emitted + Window - 1 :
      ring[SlotOf(k)].done => k < next /\ ring[SlotOf(k)] = Found(k)

(* Nobody sleeps through what it waits for: if a sleeper's condition holds,
   someone is on the way to wake it. *)
NoLostWakeup ==
  LET notifying == \E w \in Workers : wpc[w] = "notify"
  IN  /\ cpc = "asleep" /\ ring[SlotOf(emitted)].done => notifying
      /\ \A w \in Workers :
           wpc[w] = "asleep" /\ (stop \/ AllClaimed \/ MayClaim)
             => notifying \/ cpc \in {"announce", "wake"}

(* The caller sees what one thread would give it (tablebase.h:134-136). *)
ScannedTo ==
  IF emitted = 0 THEN 0
  ELSE IF cpc \in {"take", "asleep"} \/ outcome = "done" THEN End(emitted - 1)
  ELSE IF hit = 0 THEN Begin(emitted - 1)
  ELSE taken.hits[hit].cell + 1

OneThread == INSTANCE MineSeq WITH at <- ScannedTo

ImplementsOneThread == OneThread!Spec

(* The call always returns. *)
Returns == <>(cpc = "returned")
=============================================================================
