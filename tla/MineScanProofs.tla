--------------------------- MODULE MineScanProofs ---------------------------
(***************************************************************************)
(* Proofs about MineScan for every number of threads, segment size, window *)
(* and plane.  The inductive invariant ties the ring to the two counters:  *)
(* claimed segments lie in emitted .. emitted + Window - 1, no two of      *)
(* which share a slot.                                                     *)
(*                                                                         *)
(* The last part proves the refinement of MineSeq: what the workers and    *)
(* the calling thread do is a scan by one thread (ScansAsOneThread).  The  *)
(* caller stands at the cell after the last hit it handed out; between two *)
(* hits of a segment lies nothing to report (SegmentStory).                *)
(***************************************************************************)
EXTENDS MineScan, FiniteSetTheorems, TLAPS
WF == INSTANCE WellFoundedInduction

-----------------------------------------------------------------------------
(* Arithmetic of the ring: two segments less than a window apart use
   different slots, and a whole window apart the same one. *)

(* A number is quotient times divisor plus remainder. *)
LEMMA DivMod ==
  ASSUME NEW W \in Nat \ {0}, NEW a \in Nat
  PROVE  /\ a % W \in 0 .. W - 1
         /\ a \div W \in Nat
         /\ a = (W * (a \div W)) + (a % W)
BY SMT

(* Two multiples are at least the divisor apart. *)
LEMMA NextMultiple ==
  ASSUME NEW W \in Nat \ {0}, NEW q \in Int, NEW r \in Int, r > q
  PROVE  W * r >= (W * q) + W
BY SMT

(* A number has one remainder. *)
LEMMA UniqueRemainder ==
  ASSUME NEW W \in Nat \ {0}, NEW q \in Int, NEW r \in Int,
         NEW x \in 0 .. W - 1, NEW y \in 0 .. W - 1,
         (W * q) + x = (W * r) + y
  PROVE  x = y
<1> DEFINE wq == W * q
           wr == W * r
<1>0. wq \in Int /\ wr \in Int
  OBVIOUS
<1>1. CASE q < r
  <2>1. wr >= wq + W
    BY <1>1, NextMultiple
  <2> QED
    BY <2>1, <1>0
<1>2. CASE r < q
  <2>1. wq >= wr + W
    BY <1>2, NextMultiple
  <2> QED
    BY <2>1, <1>0
<1>3. CASE q = r
  BY <1>3, <1>0
<1> QED
  BY <1>1, <1>2, <1>3

(* Two numbers with the same remainder are at least the divisor apart. *)
LEMMA SameRemainderFarApart ==
  ASSUME NEW W \in Nat \ {0}, NEW a \in Nat, NEW b \in Nat, a % W = b % W, a < b
  PROVE  b >= a + W
<1> DEFINE wa == W * (a \div W)
           wb == W * (b \div W)
<1>0. a \div W \in Int /\ b \div W \in Int /\ a % W \in 0 .. W - 1
  BY DivMod
<1>1. a = wa + (a % W) /\ b = wb + (a % W)
  BY DivMod
<1>2. wa \in Int /\ wb \in Int
  BY <1>0
<1>3. wa < wb
  BY <1>0, <1>1, <1>2
<1>4. a \div W < b \div W
  <2> SUFFICES ASSUME a \div W >= b \div W
               PROVE  FALSE
    BY <1>0
  <2>1. CASE a \div W = b \div W
    BY <2>1, <1>3, <1>2
  <2>2. CASE a \div W > b \div W
    <3>1. wa >= wb + W
      BY <2>2, <1>0, NextMultiple
    <3> QED
      BY <3>1, <1>3, <1>2
  <2> QED
    BY <2>1, <2>2, <1>0
<1>5. wb >= wa + W
  BY <1>4, <1>0, NextMultiple
<1> QED
  BY <1>5, <1>1, <1>2, <1>0

(* Adding the divisor keeps the remainder. *)
LEMMA WholeWindow ==
  ASSUME NEW W \in Nat \ {0}, NEW a \in Nat
  PROVE  (a + W) % W = a % W
<1> DEFINE b == a + W
           q == a \div W
           p == b \div W
<1>1. q \in Nat /\ a % W \in 0 .. W - 1 /\ a = (W * q) + (a % W)
  BY DivMod
<1>2. b \in Nat
  OBVIOUS
<1>3. p \in Nat /\ b % W \in 0 .. W - 1 /\ b = (W * p) + (b % W)
  BY <1>2, DivMod
<1>4. W * (q + 1) = (W * q) + W
  BY <1>1
<1>5. (W * (q + 1)) + (a % W) = (W * p) + (b % W)
  BY <1>1, <1>3, <1>4
<1>6. q + 1 \in Int /\ p \in Int
  BY <1>1, <1>3
<1> HIDE DEF p, q, b
<1>7. a % W = b % W
  BY <1>1, <1>3, <1>5, <1>6, UniqueRemainder
<1> QED
  BY <1>7 DEF b

-----------------------------------------------------------------------------
(* The constants. *)

(* There is a worker, and the window holds at least one segment. *)
LEMMA Constants ==
  /\ Segments \in Nat
  /\ NumWorkers \in Nat \ {0}
  /\ Window \in Nat \ {0}
<1>1. Segments \in Nat
  BY PoolAssumption, RangeAssumption DEF Segments
<1>2. NumWorkers \in Nat \ {0}
  BY <1>1, PoolAssumption DEF NumWorkers
<1>3. Window \in Nat \ {0}
  BY <1>2, PoolAssumption DEF Window
<1> QED
  BY <1>1, <1>2, <1>3

\* Within one window a slot belongs to one segment.
LEMMA OneSlotEach ==
  ASSUME NEW e \in Nat,
         NEW j \in e .. e + Window - 1, NEW k \in e .. e + Window - 1,
         SlotOf(j) = SlotOf(k)
  PROVE  j = k
<1>1. Window \in Nat \ {0} /\ j \in Nat /\ k \in Nat
  BY Constants
<1>2. CASE j < k
  <2>1. k >= j + Window
    BY <1>1, <1>2, SameRemainderFarApart DEF SlotOf
  <2> QED
    BY <2>1, <1>1
<1>3. CASE k < j
  <2>1. j >= k + Window
    BY <1>1, <1>3, SameRemainderFarApart DEF SlotOf
  <2> QED
    BY <2>1, <1>1
<1> QED
  BY <1>1, <1>2, <1>3

(* Every segment has a slot in the ring. *)
LEMMA SlotInRing ==
  ASSUME NEW k \in Nat
  PROVE  SlotOf(k) \in Slots
BY Constants, DivMod DEF SlotOf, Slots

(* The slot of a segment is free again a window later. *)
LEMMA SlotAgain ==
  ASSUME NEW k \in Nat
  PROVE  SlotOf(k + Window) = SlotOf(k)
BY Constants, WholeWindow DEF SlotOf

-----------------------------------------------------------------------------
(* The inductive invariant. *)

IsFunctionOn(f, S) == f = [x \in S |-> f[x]]

PCs == {"unborn", "claim", "asleep", "scan", "park", "notify", "exited"}

Shape ==
  /\ next \in 0 .. Segments
  /\ emitted \in Nat
  /\ wpc \in [Workers -> PCs]
  /\ seg \in [Workers -> Nat]
  /\ IsFunctionOn(ring, Slots)
  /\ IsFunctionOn(res, Workers)

Counters == emitted <= next /\ next <= emitted + Window

Claimed ==
  \A w \in InFlight :
    /\ seg[w] \in emitted .. next - 1
    /\ \A v \in InFlight : seg[v] = seg[w] => v = w

Vacant == \A w \in InFlight : ~ ring[SlotOf(seg[w])].done

Parked == \A k \in emitted .. emitted + Window - 1 : ring[SlotOf(k)].done => k < next

InPlace ==
  ~ stop => \A k \in emitted .. emitted + Window - 1 :
              ring[SlotOf(k)].done => ring[SlotOf(k)] = Found(k)

Scanned == ~ stop => \A w \in Workers : wpc[w] = "park" => res[w] = Found(seg[w])

IInv == Shape /\ Counters /\ Claimed /\ Vacant /\ Parked /\ InPlace /\ Scanned

(* A scan starts in the invariant. *)
LEMMA InitIInv == Init => IInv
<1> SUFFICES ASSUME Init
             PROVE  IInv
  OBVIOUS
<1>0. Segments \in Nat /\ Window \in Nat \ {0}
  BY Constants
<1>1. InFlight = {}
  BY DEF Init, InFlight
<1>2. Shape
  BY <1>0 DEF Init, Shape, PCs, IsFunctionOn
<1>3. \A k \in emitted .. emitted + Window - 1 : ~ ring[SlotOf(k)].done
  BY <1>0, SlotInRing DEF Init, Empty
<1>4. Counters
  BY <1>0 DEF Init, Counters
<1>5. Scanned
  BY DEF Init, Scanned
<1> QED
  BY <1>1, <1>2, <1>3, <1>4, <1>5 DEF IInv, Claimed, Vacant, Parked, InPlace

\* A segment's result depends on the plane alone.
LEMMA FoundStable ==
  ASSUME plane' = plane, NEW k
  PROVE  Found(k)' = Found(k)
BY DEF Found, HitsUpTo

\* A step that leaves ring and counters alone, and sends no worker to scan or park.
LEMMA QuietStep ==
  ASSUME IInv,
         UNCHANGED <<plane, next, emitted, stop, ring, seg, res>>,
         wpc' \in [Workers -> PCs],
         \A w \in Workers : wpc'[w] \in {"scan", "park"} => wpc'[w] = wpc[w]
  PROVE  IInv'
<1>1. InFlight' \subseteq InFlight
  BY DEF InFlight
<1>2. Shape'
  BY DEF IInv, Shape, IsFunctionOn
<1>3. Counters'
  BY DEF IInv, Counters
<1>4. Claimed'
  BY <1>1 DEF IInv, Claimed
<1>5. Vacant'
  BY <1>1 DEF IInv, Vacant
<1>6. Parked'
  BY DEF IInv, Parked
<1>7. InPlace'
  BY FoundStable DEF IInv, InPlace
<1>8. Scanned'
  BY FoundStable DEF IInv, Scanned
<1> QED
  BY <1>2, <1>3, <1>4, <1>5, <1>6, <1>7, <1>8 DEF IInv

(* A worker claims the next segment, inside the window, so its slot is vacant. *)
LEMMA ClaimStep ==
  ASSUME IInv, NEW w \in Workers, Claim(w)
  PROVE  IInv'
<1>0. /\ Segments \in Nat /\ Window \in Nat \ {0}
      /\ next \in Nat /\ emitted \in Nat /\ seg \in [Workers -> Nat]
      /\ next' = next + 1 /\ seg' = [seg EXCEPT ![w] = next]
      /\ wpc' = [wpc EXCEPT ![w] = "scan"] /\ wpc \in [Workers -> PCs]
      /\ next < Segments /\ emitted <= next /\ next < emitted + Window
      /\ UNCHANGED <<plane, emitted, stop, ring, res>>
  BY Constants DEF IInv, Shape, Counters, Claim, AllClaimed, MayClaim
<1>1. /\ InFlight' = InFlight \cup {w}
      /\ w \notin InFlight
      /\ \A v \in InFlight : seg'[v] = seg[v]
      /\ seg'[w] = next
  BY <1>0 DEF InFlight, Claim
<1>2. \A v \in InFlight : seg[v] \in emitted .. next - 1
  BY DEF IInv, Claimed
<1>3. Shape'
  BY <1>0 DEF IInv, Shape, IsFunctionOn, PCs
<1>4. Counters'
  BY <1>0 DEF Counters
<1>5. Claimed'
  <2>1. \A v \in InFlight' : seg'[v] \in emitted .. next
    BY <1>0, <1>1, <1>2
  <2>2. \A u, v \in InFlight' : seg'[u] = seg'[v] => u = v
    BY <1>0, <1>1, <1>2 DEF IInv, Claimed
  <2> QED
    BY <2>1, <2>2, <1>0 DEF Claimed
<1>6. Vacant'
  <2>1. ~ ring[SlotOf(next)].done
    BY <1>0 DEF IInv, Parked
  <2> QED
    BY <2>1, <1>0, <1>1 DEF IInv, Vacant
<1>7. Parked'
  BY <1>0 DEF IInv, Parked
<1>8. InPlace'
  BY <1>0, FoundStable DEF IInv, InPlace
<1>9. Scanned'
  BY <1>0, FoundStable DEF IInv, Scanned
<1> QED
  BY <1>3, <1>4, <1>5, <1>6, <1>7, <1>8, <1>9 DEF IInv

(* What a worker scans is what its segment holds, unless it is told to stop. *)
LEMMA ScanStep ==
  ASSUME IInv, NEW w \in Workers, Scan(w)
  PROVE  IInv'
<1>0. /\ wpc' = [wpc EXCEPT ![w] = "park"] /\ wpc \in [Workers -> PCs] /\ wpc[w] = "scan"
      /\ UNCHANGED <<plane, next, emitted, stop, ring, seg>>
      /\ IsFunctionOn(res, Workers)
  BY DEF IInv, Shape, Scan
<1>1. PICK r \in {Found(seg[w])} \cup (IF stop THEN CutShort(seg[w]) ELSE {}) :
        res' = [res EXCEPT ![w] = r]
  BY DEF Scan
<1>2. InFlight' = InFlight
  BY <1>0 DEF InFlight
<1>3. Shape'
  <2>1. IsFunctionOn(res', Workers)
    BY <1>0, <1>1 DEF IsFunctionOn
  <2>2. wpc' \in [Workers -> PCs]
    BY <1>0 DEF PCs
  <2> QED
    BY <2>1, <2>2, <1>0 DEF IInv, Shape, IsFunctionOn
<1>4. Counters' /\ Parked'
  BY <1>0 DEF IInv, Counters, Parked
<1>5. Claimed' /\ Vacant'
  BY <1>0, <1>2 DEF IInv, Claimed, Vacant
<1>6. InPlace'
  BY <1>0, FoundStable DEF IInv, InPlace
<1>7. Scanned'
  <2> SUFFICES ASSUME ~ stop, NEW v \in Workers, wpc'[v] = "park"
               PROVE  res'[v] = Found(seg[v])
    BY <1>0, FoundStable DEF Scanned
  <2>1. CASE v = w
    BY <2>1, <1>0, <1>1 DEF IsFunctionOn
  <2>2. CASE v # w
    <3>1. wpc[v] = "park" /\ res'[v] = res[v]
      BY <2>2, <1>0, <1>1 DEF IsFunctionOn
    <3> QED
      BY <3>1 DEF IInv, Scanned
  <2> QED
    BY <2>1, <2>2
<1> QED
  BY <1>3, <1>4, <1>5, <1>6, <1>7 DEF IInv

(* A worker parks its own segment in a slot nobody else has. *)
LEMMA ParkStep ==
  ASSUME IInv, NEW w \in Workers, Park(w)
  PROVE  IInv'
<1>0. /\ wpc' = [wpc EXCEPT ![w] = "notify"] /\ wpc \in [Workers -> PCs] /\ wpc[w] = "park"
      /\ ring' = [ring EXCEPT ![SlotOf(seg[w])] = res[w]] /\ IsFunctionOn(ring, Slots)
      /\ res' = [res EXCEPT ![w] = Empty] /\ IsFunctionOn(res, Workers)
      /\ UNCHANGED <<plane, next, emitted, stop, seg>>
      /\ next \in Nat /\ emitted \in Nat /\ next <= emitted + Window /\ Window \in Nat
      /\ seg \in [Workers -> Nat] /\ seg[w] \in Nat
  BY Constants DEF IInv, Shape, Counters, Park
<1>1. /\ InFlight' = InFlight \ {w}
      /\ w \in InFlight
  BY <1>0 DEF InFlight
<1>2. /\ seg[w] \in emitted .. next - 1
      /\ seg[w] \in emitted .. emitted + Window - 1
  BY <1>0, <1>1 DEF IInv, Claimed
<1>3. /\ SlotOf(seg[w]) \in Slots
      /\ ring'[SlotOf(seg[w])] = res[w]
      /\ \A k \in Nat : SlotOf(k) # SlotOf(seg[w]) => ring'[SlotOf(k)] = ring[SlotOf(k)]
  BY <1>0, SlotInRing DEF IsFunctionOn
<1>4. \A k \in emitted .. emitted + Window - 1 :
        SlotOf(k) = SlotOf(seg[w]) => k = seg[w]
  BY <1>0, <1>2, OneSlotEach
<1>5. Shape'
  <2>1. IsFunctionOn(ring', Slots)
    BY <1>0 DEF IsFunctionOn
  <2>2. IsFunctionOn(res', Workers)
    BY <1>0 DEF IsFunctionOn
  <2>3. wpc' \in [Workers -> PCs]
    BY <1>0 DEF PCs
  <2> QED
    BY <2>1, <2>2, <2>3, <1>0 DEF IInv, Shape
<1>6. Counters'
  BY <1>0 DEF IInv, Counters
<1>7. Claimed'
  BY <1>0, <1>1 DEF IInv, Claimed
<1>8. Vacant'
  <2> SUFFICES ASSUME NEW v \in InFlight, v # w
               PROVE  ~ ring'[SlotOf(seg[v])].done
    BY <1>0, <1>1 DEF Vacant
  <2>1. seg[v] # seg[w] /\ seg[v] \in emitted .. emitted + Window - 1
    BY <1>0, <1>1 DEF IInv, Claimed
  <2>2. SlotOf(seg[v]) # SlotOf(seg[w])
    BY <2>1, <1>4
  <2>3. ring'[SlotOf(seg[v])] = ring[SlotOf(seg[v])]
    BY <2>1, <2>2, <1>0, <1>3
  <2> QED
    BY <2>3 DEF IInv, Vacant
<1>9. Parked'
  <2> SUFFICES ASSUME NEW k \in emitted .. emitted + Window - 1, ring'[SlotOf(k)].done
               PROVE  k < next
    BY <1>0 DEF Parked
  <2>1. CASE SlotOf(k) = SlotOf(seg[w])
    BY <2>1, <1>0, <1>2, <1>4
  <2>2. CASE SlotOf(k) # SlotOf(seg[w])
    <3>1. ring'[SlotOf(k)] = ring[SlotOf(k)]
      BY <2>2, <1>0, <1>3
    <3> QED
      BY <3>1 DEF IInv, Parked
  <2> QED
    BY <2>1, <2>2
<1>10. InPlace'
  <2> SUFFICES ASSUME ~ stop, NEW k \in emitted .. emitted + Window - 1, ring'[SlotOf(k)].done
               PROVE  ring'[SlotOf(k)] = Found(k)
    BY <1>0, FoundStable DEF InPlace
  <2>1. CASE SlotOf(k) = SlotOf(seg[w])
    <3>1. k = seg[w] /\ ring'[SlotOf(k)] = res[w]
      BY <2>1, <1>3, <1>4
    <3> QED
      BY <3>1, <1>0 DEF IInv, Scanned
  <2>2. CASE SlotOf(k) # SlotOf(seg[w])
    <3>1. ring'[SlotOf(k)] = ring[SlotOf(k)]
      BY <2>2, <1>0, <1>3
    <3> QED
      BY <3>1 DEF IInv, InPlace
  <2> QED
    BY <2>1, <2>2
<1>11. Scanned'
  <2> SUFFICES ASSUME ~ stop, NEW v \in Workers, wpc'[v] = "park"
               PROVE  res'[v] = Found(seg[v])
    BY <1>0, FoundStable DEF Scanned
  <2>1. v # w /\ wpc[v] = "park"
    BY <1>0
  <2>2. res'[v] = res[v]
    BY <2>1, <1>0 DEF IsFunctionOn
  <2> QED
    BY <2>1, <2>2 DEF IInv, Scanned
<1> QED
  BY <1>5, <1>6, <1>7, <1>8, <1>9, <1>10, <1>11 DEF IInv

(* The consumer frees the slot of the segment it emits, which is the oldest. *)
LEMMA TakeStep ==
  ASSUME IInv, Take
  PROVE  IInv'
<1>0. /\ ring' = [ring EXCEPT ![SlotOf(emitted)] = Empty] /\ IsFunctionOn(ring, Slots)
      /\ emitted' = emitted + 1
      /\ UNCHANGED <<plane, next, stop, wpc, seg, res>>
      /\ next \in Nat /\ emitted \in Nat /\ Window \in Nat \ {0}
      /\ emitted <= next /\ next <= emitted + Window
      /\ ring[SlotOf(emitted)].done
  BY Constants DEF IInv, Shape, Counters, Take, RingAfterTake
<1>1. emitted < next
  BY <1>0 DEF IInv, Parked
<1>2. InFlight' = InFlight
  BY <1>0 DEF InFlight
<1>3. /\ SlotOf(emitted) \in Slots
      /\ ring'[SlotOf(emitted)] = Empty
      /\ \A k \in Nat : SlotOf(k) # SlotOf(emitted) => ring'[SlotOf(k)] = ring[SlotOf(k)]
  BY <1>0, SlotInRing DEF IsFunctionOn
<1>4. ~ Empty.done
  BY DEF Empty
<1>5. \A k \in Nat : ring'[SlotOf(k)].done => ring'[SlotOf(k)] = ring[SlotOf(k)]
                                            /\ SlotOf(k) # SlotOf(emitted)
  BY <1>3, <1>4
<1>6. ASSUME NEW k \in emitted + 1 .. emitted + Window, ring'[SlotOf(k)].done
      PROVE  k \in emitted .. emitted + Window - 1 /\ k \in Nat
  <2>1. k # emitted + Window
    BY <1>0, <1>5, <1>6, SlotAgain
  <2> QED
    BY <2>1, <1>0
<1>7. Shape'
  <2>1. IsFunctionOn(ring', Slots)
    BY <1>0 DEF IsFunctionOn
  <2> QED
    BY <2>1, <1>0 DEF IInv, Shape
<1>8. Counters'
  BY <1>0, <1>1 DEF Counters
<1>9. Claimed'
  <2>1. \A w \in InFlight : seg[w] \in emitted .. next - 1 /\ seg[w] # emitted
    BY <1>0 DEF IInv, Claimed, Vacant
  <2> QED
    BY <2>1, <1>0, <1>2 DEF IInv, Claimed
<1>10. Vacant'
  <2>1. \A w \in InFlight : seg[w] \in Nat
    BY DEF IInv, Shape, InFlight
  <2> QED
    BY <2>1, <1>0, <1>2, <1>5 DEF IInv, Vacant
<1>11. Parked'
  <2> SUFFICES ASSUME NEW k \in emitted + 1 .. emitted + Window, ring'[SlotOf(k)].done
               PROVE  k < next
    BY <1>0 DEF Parked
  <2> QED
    BY <1>5, <1>6 DEF IInv, Parked
<1>12. InPlace'
  <2> SUFFICES ASSUME ~ stop, NEW k \in emitted + 1 .. emitted + Window, ring'[SlotOf(k)].done
               PROVE  ring'[SlotOf(k)] = Found(k)
    BY <1>0, FoundStable DEF InPlace
  <2> QED
    BY <1>5, <1>6 DEF IInv, InPlace
<1>13. Scanned'
  BY <1>0, FoundStable DEF IInv, Scanned
<1> QED
  BY <1>7, <1>8, <1>9, <1>10, <1>11, <1>12, <1>13 DEF IInv

(* After the stop nothing is promised of what is parked. *)
LEMMA SetStopStep ==
  ASSUME IInv, SetStop
  PROVE  IInv'
<1>0. stop' = TRUE /\ UNCHANGED <<plane, next, emitted, ring, wpc, seg, res>>
  BY DEF SetStop
<1>1. InFlight' = InFlight
  BY <1>0 DEF InFlight
<1>2. Shape' /\ Counters' /\ Parked'
  BY <1>0 DEF IInv, Shape, Counters, Parked, IsFunctionOn
<1>3. Claimed' /\ Vacant'
  BY <1>0, <1>1 DEF IInv, Claimed, Vacant
<1>4. InPlace' /\ Scanned'
  BY <1>0 DEF InPlace, Scanned
<1> QED
  BY <1>2, <1>3, <1>4 DEF IInv

\* Every other step only moves threads between their control points.
LEMMA ControlStep ==
  ASSUME IInv,
         \/ \E w \in Workers : Exit(w) \/ WaitForRoom(w) \/ Notify(w) \/ WorkerWakesUp(w)
         \/ Spawn \/ AllSpawned \/ SpawnFails \/ WaitForSegment \/ Announce \/ CallerWakesUp
         \/ Deliver \/ EndSegment \/ Exhausted \/ WakeAll \/ Join
         \/ UNCHANGED vars
  PROVE  IInv'
<1>1. UNCHANGED <<plane, next, emitted, stop, ring, seg, res>>
  BY DEF Exit, WaitForRoom, Notify, WorkerWakesUp, Spawn, AllSpawned, SpawnFails,
         WaitForSegment, Announce, CallerWakesUp, Deliver, EndSegment, Exhausted,
         WakeAll, Join, vars
<1>2. /\ wpc' \in [Workers -> PCs]
      /\ \A v \in Workers : wpc'[v] \in {"scan", "park"} => wpc'[v] = wpc[v]
  <2>0. wpc \in [Workers -> PCs]
    BY DEF IInv, Shape
  <2>1. CASE \E w \in Workers : Exit(w) \/ WaitForRoom(w) \/ WorkerWakesUp(w)
    BY <2>0, <2>1 DEF Exit, WaitForRoom, WorkerWakesUp, PCs
  <2>2. CASE \E w \in Workers : Notify(w)
    BY <2>0, <2>2 DEF Notify, Woken, PCs
  <2>3. CASE Spawn
    BY <2>0, <2>3 DEF Spawn, PCs
  <2>4. CASE Announce \/ WakeAll
    BY <2>0, <2>4 DEF Announce, WakeAll, WokenByTake, Woken, PCs
  <2>5. CASE \/ AllSpawned \/ SpawnFails \/ WaitForSegment \/ CallerWakesUp
             \/ Deliver \/ EndSegment \/ Exhausted \/ Join \/ UNCHANGED vars
    BY <2>0, <2>5 DEF AllSpawned, SpawnFails, WaitForSegment, CallerWakesUp, Deliver,
                      EndSegment, Exhausted, Join, vars
  <2> QED
    BY <2>1, <2>2, <2>3, <2>4, <2>5
<1> QED
  BY <1>1, <1>2, QuietStep

(* Every step keeps the invariant. *)
LEMMA NextIInv == IInv /\ [Next]_vars => IInv'
<1> SUFFICES ASSUME IInv, [Next]_vars
             PROVE  IInv'
  OBVIOUS
<1>1. CASE \E w \in Workers : Claim(w)
  BY <1>1, ClaimStep
<1>2. CASE \E w \in Workers : Scan(w)
  BY <1>2, ScanStep
<1>3. CASE \E w \in Workers : Park(w)
  BY <1>3, ParkStep
<1>4. CASE Take
  BY <1>4, TakeStep
<1>5. CASE SetStop
  BY <1>5, SetStopStep
<1>6. CASE ~ (\/ \E w \in Workers : Claim(w) \/ Scan(w) \/ Park(w)
              \/ Take \/ SetStop)
  BY <1>6, ControlStep DEF Next, Caller, Worker, Returned
<1> QED
  BY <1>1, <1>2, <1>3, <1>4, <1>5, <1>6

(* However many workers race for however small a ring, a worker never parks
   its result over one that the calling thread has not taken yet. *)
THEOREM RingIsSafe == Spec => []RingSafe
<1>1. IInv => RingSafe
  <2> SUFFICES ASSUME IInv, NEW v \in InFlight, NEW w \in InFlight,
                      SlotOf(seg[w]) = SlotOf(seg[v])
               PROVE  v = w
    BY DEF RingSafe, IInv, Vacant
  <2>1. /\ emitted \in Nat /\ next \in Nat /\ Window \in Nat /\ next <= emitted + Window
        /\ seg[v] \in emitted .. next - 1 /\ seg[w] \in emitted .. next - 1
    BY Constants DEF IInv, Shape, Counters, Claimed
  <2>2. seg[v] = seg[w]
    BY <2>1, OneSlotEach
  <2> QED
    BY <2>2 DEF IInv, Claimed
<1> QED
  BY <1>1, InitIInv, NextIInv, PTL DEF Spec

(* What the calling thread finds in a slot is the whole result of the segment
   it expects there, so results reach the callback in the plane's order. *)
THEOREM ResultsInOrder == Spec => []SlotsHoldTheirSegment
<1>1. IInv => SlotsHoldTheirSegment
  BY DEF IInv, Parked, InPlace, SlotsHoldTheirSegment
<1> QED
  BY <1>1, InitIInv, NextIInv, PTL DEF Spec

-----------------------------------------------------------------------------
(* Wakeups. *)

Notifying == \E w \in Workers : wpc[w] = "notify"

(* No step loses a wake-up. *)
LEMMA WakeupStep ==
  ASSUME IInv, NoLostWakeup, [Next]_vars
  PROVE  NoLostWakeup'
<1>0. /\ wpc \in [Workers -> PCs] /\ Window \in Nat
      /\ next \in Nat /\ emitted \in Nat /\ Segments \in Nat
      /\ seg \in [Workers -> Nat] /\ IsFunctionOn(ring, Slots)
  BY Constants DEF IInv, Shape
<1> DEFINE CallerSide == cpc = "asleep" /\ ring[SlotOf(emitted)].done => Notifying
           Ready == stop \/ next >= Segments \/ next < emitted + Window
           WorkerSide == \A w \in Workers :
                           wpc[w] = "asleep" /\ Ready => Notifying \/ cpc \in {"announce", "wake"}
<1>1. NoLostWakeup <=> CallerSide /\ WorkerSide
  BY DEF NoLostWakeup, Notifying, AllClaimed, MayClaim
<1>2. NoLostWakeup' <=> CallerSide' /\ WorkerSide'
  BY DEF NoLostWakeup, Notifying, AllClaimed, MayClaim
<1>3. SUFFICES CallerSide' /\ WorkerSide'
  BY <1>2
<1>4. CallerSide /\ WorkerSide
  BY <1>1
<1> USE DEF PCs
<1>5. CASE \E w \in Workers : Notify(w)
  <2>1. /\ \A v \in Workers : wpc'[v] # "asleep"
        /\ cpc' # "asleep"
    BY <1>0, <1>5 DEF Notify, Woken, CallerAfterNotify
  <2> QED
    BY <2>1
<1>6. CASE Announce \/ WakeAll
  <2>1. /\ \A v \in Workers : wpc'[v] # "asleep"
        /\ cpc' # "asleep"
    BY <1>0, <1>6 DEF Announce, WakeAll, WokenByTake, Woken
  <2> QED
    BY <2>1
<1>7. CASE \E w \in Workers : Park(w)
  <2>1. Notifying'
    BY <1>0, <1>7 DEF Park, Notifying
  <2> QED
    BY <2>1
<1>8. CASE \E w \in Workers : Claim(w)
  <2> PICK w \in Workers : Claim(w)
    BY <1>8
  <2>1. /\ wpc' = [wpc EXCEPT ![w] = "scan"] /\ wpc[w] = "claim" /\ next' = next + 1
        /\ next < emitted + Window
        /\ UNCHANGED <<emitted, stop, ring, cpc>>
    BY DEF Claim, MayClaim, callerVars
  <2>2. Notifying <=> Notifying'
    BY <2>1, <1>0 DEF Notifying
  <2>3. CallerSide'
    BY <2>1, <2>2, <1>4
  <2>4. WorkerSide'
    BY <2>1, <2>2, <1>0, <1>4
  <2> QED
    BY <2>3, <2>4
<1>9. CASE \E w \in Workers : Exit(w) \/ WaitForRoom(w) \/ Scan(w) \/ WorkerWakesUp(w)
  <2> PICK w \in Workers : Exit(w) \/ WaitForRoom(w) \/ Scan(w) \/ WorkerWakesUp(w)
    BY <1>9
  <2>1. /\ UNCHANGED <<next, emitted, stop, ring, cpc>>
        /\ \A v \in Workers \ {w} : wpc'[v] = wpc[v]
        /\ wpc[w] # "notify" /\ wpc'[w] # "notify"
        /\ wpc'[w] = "asleep" => ~ Ready
    BY <1>0 DEF Exit, WaitForRoom, Scan, WorkerWakesUp, callerVars, AllClaimed, MayClaim
  <2>2. Notifying <=> Notifying'
    BY <2>1, <1>0 DEF Notifying
  <2>3. CallerSide'
    BY <2>1, <2>2, <1>4
  <2>4. WorkerSide'
    BY <2>1, <2>2, <1>0, <1>4
  <2> QED
    BY <2>3, <2>4
<1>10. CASE Spawn
  <2>1. /\ UNCHANGED <<next, emitted, stop, ring, cpc>>
        /\ cpc = "spawn"
        /\ \A v \in Workers : wpc'[v] = wpc[v] \/ (wpc[v] = "unborn" /\ wpc'[v] = "claim")
    BY <1>0, <1>10 DEF Spawn, callerVars, Started
  <2>2. Notifying <=> Notifying'
    BY <2>1, <1>0 DEF Notifying
  <2>3. CallerSide'
    BY <2>1
  <2>4. WorkerSide'
    BY <2>1, <2>2, <1>0, <1>4
  <2> QED
    BY <2>3, <2>4
<1>11. CASE Take
  BY <1>11 DEF Take
<1>12. CASE SetStop
  BY <1>12 DEF SetStop
<1>13. CASE WaitForSegment
  <2>1. /\ UNCHANGED <<next, emitted, stop, ring, wpc>>
        /\ ~ ring[SlotOf(emitted)].done /\ cpc = "take"
    BY <1>13 DEF WaitForSegment
  <2>2. Notifying <=> Notifying'
    BY <2>1 DEF Notifying
  <2> QED
    BY <2>1, <2>2, <1>4
<1>14. CASE \/ AllSpawned \/ SpawnFails \/ CallerWakesUp \/ Deliver \/ EndSegment
            \/ Exhausted \/ Join
  <2>1. /\ UNCHANGED <<next, emitted, stop, ring, wpc>>
        /\ cpc \notin {"announce", "wake"} /\ cpc' # "asleep"
    BY <1>14 DEF AllSpawned, SpawnFails, CallerWakesUp, Deliver, EndSegment, Exhausted, Join
  <2>2. Notifying <=> Notifying'
    BY <2>1 DEF Notifying
  <2> QED
    BY <2>1, <2>2, <1>4
<1>15. CASE UNCHANGED vars
  <2>1. UNCHANGED <<next, emitted, stop, ring, wpc, cpc>>
    BY <1>15 DEF vars, callerVars
  <2>2. Notifying <=> Notifying'
    BY <2>1 DEF Notifying
  <2> QED
    BY <2>1, <2>2, <1>4
<1> QED
  BY <1>5, <1>6, <1>7, <1>8, <1>9, <1>10, <1>11, <1>12, <1>13, <1>14, <1>15
  DEF Next, Caller, Worker, Returned

(* No thread is left asleep on a condition that holds unless somebody is about
   to wake it: the notifications after each critical section are enough, for
   any number of workers. *)
THEOREM WakeupsAreNotLost == Spec => []NoLostWakeup
<1>1. Init => NoLostWakeup
  BY DEF Init, NoLostWakeup
<1> QED
  BY <1>1, WakeupStep, InitIInv, NextIInv, PTL DEF Spec
-----------------------------------------------------------------------------
(* What a range of cells holds. *)

HitSet(p, lo, hi) == {c \in lo .. hi - 1 : p[c] = "hit"}
RankIn(S, c) == Cardinality({h \in S : h <= c})

(* A nonempty set of numbers has a least one. *)
LEMMA LeastNat ==
  ASSUME NEW T \in SUBSET Nat, T # {}
  PROVE  \E m \in T : \A n \in T : m <= n
<1>1. WF!IsWellFoundedOn(WF!OpToRel(<, Nat), Nat)
  BY WF!NatLessThanWellFounded
<1>2. PICK m \in T : \A n \in T : ~ (<<n, m>> \in WF!OpToRel(<, Nat))
  BY <1>1, WF!WFMin
<1>3. \A n \in T : ~ (n < m)
  BY <1>2 DEF WF!OpToRel
<1> QED
  BY <1>3

(* Ranks grow with the cells. *)
LEMMA RanksGrow ==
  ASSUME NEW S, IsFiniteSet(S), \A x \in S : x \in Int, NEW a \in S, NEW b \in S, a < b
  PROVE  RankIn(S, a) < RankIn(S, b)
<1> DEFINE A == {h \in S : h <= a}
           B == {h \in S : h <= b}
<1>0. a \in Int /\ b \in Int
  OBVIOUS
<1>1. A \subseteq B /\ B \subseteq S /\ b \in B /\ b \notin A
  <2>1. ASSUME NEW h \in S, h <= a
        PROVE  h <= b
    <3>1. h \in Int
      OBVIOUS
    <3> QED
      BY <1>0, <2>1, <3>1
  <2>2. b <= b /\ ~ (b <= a)
    BY <1>0
  <2> QED
    BY <2>1, <2>2
<1>2. IsFiniteSet(B) /\ IsFiniteSet(A)
  BY <1>1, FS_Subset
<1>3. Cardinality(A) \in Nat /\ Cardinality(B) \in Nat
  BY <1>2, FS_CardinalityType
<1>4. Cardinality(A) <= Cardinality(B) /\ Cardinality(A) # Cardinality(B)
  BY <1>1, <1>2, FS_Subset
<1> QED
  BY <1>3, <1>4 DEF RankIn

(* Every rank up to the number of cells is taken. *)
LEMMA RanksTaken ==
  ASSUME NEW S, IsFiniteSet(S), \A x \in S : x \in Int
  PROVE  /\ Cardinality(S) \in Nat
         /\ \A c \in S : RankIn(S, c) \in 1 .. Cardinality(S)
         /\ \A i \in 1 .. Cardinality(S) : \E c \in S : RankIn(S, c) = i
<1> DEFINE n == Cardinality(S)
           f == [c \in S |-> RankIn(S, c)]
<1>1. n \in Nat
  BY FS_CardinalityType
<1>2. ASSUME NEW c \in S
      PROVE  RankIn(S, c) \in 1 .. n
  <2> DEFINE C == {h \in S : h <= c}
  <2>1. C \subseteq S /\ c \in C
    OBVIOUS
  <2>2. IsFiniteSet(C) /\ Cardinality(C) <= n
    BY <2>1, FS_Subset
  <2>3. Cardinality(C) \in Nat /\ Cardinality(C) # 0
    BY <2>1, <2>2, FS_CardinalityType, FS_EmptySet
  <2> QED
    BY <1>1, <2>2, <2>3 DEF RankIn
<1>3. f \in [S -> 1 .. n]
  BY <1>2
<1>4. ASSUME NEW a \in S, NEW b \in S, f[a] = f[b]
      PROVE  a = b
  <2>1. a \in Int /\ b \in Int /\ RankIn(S, a) = RankIn(S, b) /\ RankIn(S, a) \in Int
    BY <1>2, <1>4
  <2>2. a < b => RankIn(S, a) < RankIn(S, b)
    BY RanksGrow
  <2>3. b < a => RankIn(S, b) < RankIn(S, a)
    BY RanksGrow
  <2> QED
    BY <2>1, <2>2, <2>3
<1>5. f \in Injection(S, 1 .. n)
  BY <1>3, <1>4 DEF Injection, IsInjective
<1>6. IsFiniteSet(1 .. n) /\ Cardinality(1 .. n) = n
  BY <1>1, FS_Interval
<1>7. f \in Surjection(S, 1 .. n)
  BY <1>5, <1>6, FS_Injection
<1>8. \A i \in 1 .. n : \E c \in S : f[c] = i
  BY <1>7 DEF Surjection
<1> QED
  BY <1>1, <1>2, <1>8

(* The matches of a range are listed in cell order, each once. *)
LEMMA HitsListed ==
  ASSUME NEW p, NEW lo \in Int, NEW hi \in Int
  PROVE  LET hits == HitsIn(p, lo, hi)
         IN  /\ \E n \in Nat : DOMAIN hits = 1 .. n
             /\ \A i \in DOMAIN hits : hits[i] \in HitSet(p, lo, hi)
             /\ \A i, j \in DOMAIN hits : i < j => hits[i] < hits[j]
             /\ \A c \in HitSet(p, lo, hi) : \E i \in DOMAIN hits : hits[i] = c
<1> DEFINE S == HitSet(p, lo, hi)
           hits == HitsIn(p, lo, hi)
<1>1. S \subseteq lo .. hi - 1 /\ \A c \in S : c \in Int
  BY DEF HitSet
<1>2. IsFiniteSet(S)
  <2>1. IsFiniteSet(lo .. hi - 1)
    BY FS_Interval
  <2> QED
    BY <1>1, <2>1, FS_Subset
<1>3. hits = [i \in 1 .. Cardinality(S) |-> CHOOSE c \in S : RankIn(S, c) = i]
  BY DEF HitsIn, HitSet, RankIn
<1> HIDE DEF S, hits
<1>4. /\ Cardinality(S) \in Nat
      /\ \A c \in S : RankIn(S, c) \in 1 .. Cardinality(S)
      /\ \A i \in 1 .. Cardinality(S) : \E c \in S : RankIn(S, c) = i
  BY <1>1, <1>2, RanksTaken
<1>5. \A i \in 1 .. Cardinality(S) : hits[i] \in S /\ RankIn(S, hits[i]) = i
  BY <1>3, <1>4
<1>6. ASSUME NEW i \in 1 .. Cardinality(S), NEW j \in 1 .. Cardinality(S), i < j
      PROVE  hits[i] < hits[j]
  <2>0. i \in Int /\ j \in Int /\ hits[i] \in Int /\ hits[j] \in Int
    <3>1. i \in Int /\ j \in Int
      BY <1>4
    <3>2. hits[i] \in S /\ hits[j] \in S
      BY <1>5
    <3>3. hits[i] \in Int /\ hits[j] \in Int
      BY <1>1, <3>2
    <3> QED
      BY <3>1, <3>3
  <2>1. ~ (hits[j] < hits[i]) /\ hits[i] # hits[j]
    <3>1. RankIn(S, hits[i]) = i /\ RankIn(S, hits[j]) = j /\ hits[i] \in S /\ hits[j] \in S
      BY <1>5
    <3>2. hits[j] < hits[i] => RankIn(S, hits[j]) < RankIn(S, hits[i])
      BY <1>1, <1>2, <3>1, RanksGrow
    <3> QED
      BY <1>6, <2>0, <3>1, <3>2
  <2> QED
    BY <2>0, <2>1
<1>7. ASSUME NEW c \in S
      PROVE  \E i \in 1 .. Cardinality(S) : hits[i] = c
  <2>1. hits[RankIn(S, c)] \in S /\ RankIn(S, hits[RankIn(S, c)]) = RankIn(S, c)
    BY <1>4, <1>5
  <2> DEFINE r == RankIn(S, c)
             h == hits[r]
  <2>2. r \in 1 .. Cardinality(S) /\ h \in S /\ RankIn(S, h) = r
    BY <1>4, <2>1
  <2> HIDE DEF r, h
  <2>3. r \in Int /\ h \in Int /\ c \in Int
    BY <1>1, <1>4, <2>2
  <2>4. h < c => RankIn(S, h) < RankIn(S, c)
    BY <1>1, <1>2, <2>2, RanksGrow
  <2>5. c < h => RankIn(S, c) < RankIn(S, h)
    BY <1>1, <1>2, <2>2, RanksGrow
  <2>6. h = c
    BY <2>2, <2>4, <2>5, <2>3 DEF r
  <2> QED
    BY <2>2, <2>6 DEF h
<1> QED
  BY <1>3, <1>4, <1>5, <1>6, <1>7 DEF S, hits

(* Skips add up over neighbouring ranges. *)
LEMMA SkipsSplit ==
  ASSUME NEW p, NEW lo \in Int, NEW mid \in Int, NEW hi \in Int, lo <= mid, mid <= hi
  PROVE  /\ SkipsIn(p, lo, mid) \in Nat
         /\ SkipsIn(p, lo, hi) = SkipsIn(p, lo, mid) + SkipsIn(p, mid, hi)
<1> DEFINE A == {c \in lo .. mid - 1 : p[c] = "skip"}
           B == {c \in mid .. hi - 1 : p[c] = "skip"}
           C == {c \in lo .. hi - 1 : p[c] = "skip"}
<1>1. C = A \cup B /\ A \cap B = {}
  OBVIOUS
<1>2. IsFiniteSet(lo .. mid - 1) /\ IsFiniteSet(mid .. hi - 1)
  BY FS_Interval
<1>3. IsFiniteSet(A) /\ IsFiniteSet(B)
  BY <1>2, FS_Subset
<1>4. Cardinality(A) \in Nat /\ Cardinality(B) \in Nat
  BY <1>3, FS_CardinalityType
<1> HIDE DEF A, B, C
<1>5. Cardinality(A \cup B) = Cardinality(A) + Cardinality(B) - 0
  BY <1>1, <1>3, FS_Union, FS_EmptySet
<1> QED
  BY <1>1, <1>4, <1>5 DEF SkipsIn, A, B, C

(* A range without skips adds none. *)
LEMMA NoSkips ==
  ASSUME NEW p, NEW c \in Int, p[c] # "skip"
  PROVE  SkipsIn(p, c, c) = 0 /\ SkipsIn(p, c, c + 1) = 0
<1>1. {x \in c .. c - 1 : p[x] = "skip"} = {} /\ {x \in c .. (c + 1) - 1 : p[x] = "skip"} = {}
  OBVIOUS
<1> QED
  BY <1>1, FS_EmptySet DEF SkipsIn

(* The fault of a range is its first cell that raises, or its end. *)
LEMMA FaultFirst ==
  ASSUME NEW p, NEW lo \in Nat, NEW hi \in Nat, lo <= hi
  PROVE  LET f == FaultAt(p, lo, hi)
         IN  /\ f \in lo .. hi
             /\ \A c \in lo .. f - 1 : ~ Raises(p, c, lo, hi)
             /\ f < hi => Raises(p, f, lo, hi)
<1> DEFINE T == {c \in lo .. hi - 1 : Raises(p, c, lo, hi)}
           f == FaultAt(p, lo, hi)
<1>1. f = IF T = {} THEN hi ELSE CHOOSE x \in T : \A y \in T : x <= y
  BY DEF FaultAt, Least, Min
<1>2. CASE T = {}
  BY <1>1, <1>2
<1>3. CASE T # {}
  <2>1. T \in SUBSET Nat
    OBVIOUS
  <2>2. \E m \in T : \A n \in T : m <= n
    BY <2>1, <1>3, LeastNat
  <2> HIDE DEF T
  <2>3. f \in T /\ \A y \in T : f <= y
    BY <1>1, <1>3, <2>2
  <2> QED
    BY <2>3 DEF T
<1> QED
  BY <1>2, <1>3

-----------------------------------------------------------------------------
(* What a segment holds. *)

(* Every segment has cells of the plane, and the next one starts where it ends. *)
LEMMA SegmentBounds ==
  ASSUME NEW k \in 0 .. Segments - 1
  PROVE  /\ Begin(k) \in Nat /\ End(k) \in Nat
         /\ Begin(k) < End(k) /\ End(k) <= PlaneCells
         /\ k + 1 < Segments => End(k) = Begin(k + 1)
         /\ k + 1 = Segments => End(k) = PlaneCells
         /\ End(k) = Begin(k + 1) \/ End(k) = PlaneCells
<1> DEFINE S == SegmentCells
           q == (PlaneCells + S - 1) \div S
           r == (PlaneCells + S - 1) % S
<1>1. S \in Nat \ {0} /\ PlaneCells \in Nat \ {0}
  BY PoolAssumption, RangeAssumption
<1>2. PlaneCells + S - 1 \in Nat
  BY <1>1
<1>3. q \in Nat /\ r \in 0 .. S - 1 /\ PlaneCells + S - 1 = (S * q) + r
  BY <1>1, <1>2, DivMod
<1>4. Segments = q
  BY DEF Segments
<1>5. Begin(k) = S * k /\ Begin(k + 1) = (S * k) + S /\ k \in Nat /\ k < q
  BY <1>1, <1>3, <1>4 DEF Begin
<1>6. S * k \in Nat /\ S * q \in Nat
  BY <1>1, <1>3, <1>5
<1> HIDE DEF S, q, r
<1>7. S * q >= (S * k) + S
  BY <1>1, <1>3, <1>5, NextMultiple
<1>8. Begin(k) < PlaneCells /\ Begin(k) \in Nat /\ Begin(k) < Begin(k + 1)
  BY <1>1, <1>3, <1>5, <1>6, <1>7
<1>9. /\ k + 1 < q => Begin(k + 1) < PlaneCells
      /\ k + 1 = q => Begin(k + 1) >= PlaneCells
  <2>1. CASE k + 1 < q
    <3>1. S * q >= (S * (k + 1)) + S /\ S * (k + 1) = (S * k) + S
      BY <1>1, <1>3, <1>5, <2>1, NextMultiple
    <3> QED
      BY <2>1, <3>1, <1>1, <1>3, <1>5, <1>6
  <2>2. CASE k + 1 = q
    <3>1. S * q = (S * k) + S
      BY <1>1, <1>5, <2>2
    <3> QED
      BY <2>2, <3>1, <1>1, <1>3, <1>5, <1>6
  <2> QED
    BY <2>1, <2>2
<1> QED
  BY <1>1, <1>4, <1>5, <1>6, <1>8, <1>9 DEF End

(* Where the chunks of a segment start: either at the chunks of one thread, or
   there is nothing unreadable that would make the difference visible. *)
ChunksFit ==
  \/ SegmentCells % ScanChunk = 0
  \/ \A p \in Planes, c \in Cells : p[c] # "unreadable"

(* Multiples keep their remainder. *)
LEMMA ShiftedRemainder ==
  ASSUME NEW W \in Nat \ {0}, NEW q \in Int, NEW a \in Nat, NEW b \in Nat, a = (W * q) + b
  PROVE  a % W = b % W
<1>1. /\ a \div W \in Nat /\ a % W \in 0 .. W - 1 /\ a = (W * (a \div W)) + (a % W)
      /\ b \div W \in Nat /\ b % W \in 0 .. W - 1 /\ b = (W * (b \div W)) + (b % W)
  BY DivMod
<1> DEFINE m == a \div W
           n == b \div W
           x == a % W
           y == b % W
<1>2. /\ m \in Int /\ n \in Int /\ x \in 0 .. W - 1 /\ y \in 0 .. W - 1
      /\ a = (W * m) + x /\ b = (W * n) + y
  BY <1>1
<1> HIDE DEF m, n, x, y
<1>3. W * (q + n) = (W * q) + (W * n)
  BY <1>2
<1> DEFINE s == q + n
<1>4. s \in Int /\ (W * m) + x = (W * s) + y
  BY <1>2, <1>3
<1> HIDE DEF s
<1>5. x = y
  BY <1>2, <1>4, UniqueRemainder
<1> QED
  BY <1>5 DEF x, y

(* A segment raises where the plane does. *)
LEMMA RaisesAlike ==
  ASSUME ChunksFit, NEW p \in Planes, NEW k \in 0 .. Segments - 1,
         NEW c \in Begin(k) .. End(k) - 1
  PROVE  Raises(p, c, Begin(k), End(k)) <=> Raises(p, c, 0, PlaneCells)
<1>1. /\ SegmentCells \in Nat \ {0} /\ PlaneCells \in Nat \ {0} /\ ScanChunk \in Nat \ {0}
      /\ k \in Nat
  BY PoolAssumption, RangeAssumption
<1>2. /\ Begin(k) \in Nat /\ End(k) \in Nat /\ c \in Nat
      /\ Begin(k) <= c /\ c < End(k) /\ End(k) <= PlaneCells
      /\ End(k) = Begin(k + 1) \/ End(k) = PlaneCells
  BY SegmentBounds
<1>3. CASE \A x \in Cells : p[x] # "unreadable"
  <2>1. \A x \in c .. c + ScanChunk - 1 : x < PlaneCells => p[x] # "unreadable"
    BY <1>1, <1>2, <1>3 DEF Cells
  <2>2. \A x \in c .. c + ScanChunk - 1 : x < End(k) => p[x] # "unreadable"
    BY <1>1, <1>2, <2>1
  <2> QED
    BY <2>1, <2>2 DEF Raises
<1>4. CASE SegmentCells % ScanChunk = 0
  <2> DEFINE q == SegmentCells \div ScanChunk
  <2>1. q \in Nat /\ SegmentCells = ScanChunk * q
    <3>1. q \in Nat /\ SegmentCells = (ScanChunk * q) + (SegmentCells % ScanChunk)
      BY <1>1, DivMod
    <3> QED
      BY <1>1, <1>4, <3>1
  <2> HIDE DEF q
  <2>2. /\ Begin(k) = ScanChunk * (q * k) /\ q * k \in Int
        /\ Begin(k + 1) = ScanChunk * (q * (k + 1)) /\ q * (k + 1) \in Int
    BY <1>1, <2>1 DEF Begin
  <2>3. c - Begin(k) \in Nat /\ c = (ScanChunk * (q * k)) + (c - Begin(k))
    BY <1>2, <2>2
  <2>4. c % ScanChunk = (c - Begin(k)) % ScanChunk
    BY <1>1, <1>2, <2>2, <2>3, ShiftedRemainder
  <2>5. ASSUME c % ScanChunk = 0, End(k) = Begin(k + 1)
        PROVE  c + ScanChunk <= End(k)
    <3> DEFINE j == c \div ScanChunk
    <3>1. j \in Nat /\ c = ScanChunk * j
      <4>1. j \in Nat /\ c = (ScanChunk * j) + (c % ScanChunk)
        BY <1>1, <1>2, DivMod
      <4> QED
        BY <1>1, <2>5, <4>1
    <3> DEFINE e == q * (k + 1)
    <3>2. e \in Int /\ End(k) = ScanChunk * e
      BY <2>2, <2>5
    <3> HIDE DEF j, e
    <3>3. j < e
      <4> SUFFICES ASSUME j >= e PROVE FALSE
        BY <3>1, <3>2
      <4>1. CASE j = e
        BY <4>1, <3>1, <3>2, <1>2
      <4>2. CASE j > e
        <5>1. ScanChunk * j >= (ScanChunk * e) + ScanChunk
          BY <4>2, <3>1, <3>2, <1>1, NextMultiple
        <5> QED
          BY <5>1, <3>1, <3>2, <1>1, <1>2
      <4> QED
        BY <4>1, <4>2, <3>1, <3>2
    <3>4. ScanChunk * e >= (ScanChunk * j) + ScanChunk
      BY <3>1, <3>2, <3>3, <1>1, NextMultiple
    <3> QED
      BY <3>1, <3>2, <3>4
  <2>6. ASSUME c % ScanChunk = 0
        PROVE  \A x \in c .. c + ScanChunk - 1 : x < End(k) <=> x < PlaneCells
    <3>1. CASE End(k) = PlaneCells
      BY <3>1
    <3>2. CASE End(k) = Begin(k + 1)
      BY <3>2, <2>5, <2>6, <1>1, <1>2
    <3> QED
      BY <3>1, <3>2, <1>2
  <2>7. c - 0 = c
    BY <1>2
  <2> QED
    BY <2>4, <2>6, <2>7 DEF Raises
<1> QED
  BY <1>3, <1>4 DEF ChunksFit

-----------------------------------------------------------------------------
(* One thread looks at cells the way a worker does. *)
LEMMA AsScanned ==
  /\ \A p, lo, hi : OneThread!SkipsIn(p, lo, hi) = SkipsIn(p, lo, hi)
  /\ \A p, c, lo, hi : OneThread!Raises(p, c, lo, hi) <=> Raises(p, c, lo, hi)
<1>1. \A p, lo, hi : OneThread!SkipsIn(p, lo, hi) = SkipsIn(p, lo, hi)
  BY DEF OneThread!SkipsIn, SkipsIn, OneThread!Cardinality, Cardinality
<1>2. \A p, c, lo, hi : OneThread!Raises(p, c, lo, hi) <=> Raises(p, c, lo, hi)
  BY DEF OneThread!Raises, Raises
<1> QED
  BY <1>1, <1>2

\* Where the scan of a segment stands once i of its hits have been delivered.
Reached(k, i) == IF i = 0 THEN Begin(k) ELSE Found(k).hits[i].cell + 1
Delivered(k, i) == IF i = 0 THEN 0 ELSE Found(k).hits[i].before
NextStop(k, i) ==
  IF i = Len(Found(k).hits) THEN FaultAt(plane, Begin(k), End(k)) ELSE Found(k).hits[i + 1].cell

(* The result of a segment tells one thread's story of it: from one hit to the next, and
   from the last to the end or to the fault, there is nothing to report but skips. *)
LEMMA SegmentStory ==
  ASSUME ChunksFit, plane \in Planes, NEW k \in 0 .. Segments - 1
  PROVE  /\ Len(Found(k).hits) \in Nat
         /\ FaultAt(plane, Begin(k), End(k)) \in Begin(k) .. End(k)
         /\ Found(k).error <=> FaultAt(plane, Begin(k), End(k)) < End(k)
         /\ Found(k).error => OneThread!Raising(FaultAt(plane, Begin(k), End(k)))
         /\ Found(k).skipped = SkipsIn(plane, Begin(k), FaultAt(plane, Begin(k), End(k)))
         /\ Found(k).skipped \in Nat
         /\ \A i \in 1 .. Len(Found(k).hits) :
              /\ Found(k).hits[i].cell \in Begin(k) .. End(k) - 1
              /\ plane[Found(k).hits[i].cell] = "hit"
              /\ ~ OneThread!Raising(Found(k).hits[i].cell)
              /\ Found(k).hits[i].before = SkipsIn(plane, Begin(k), Found(k).hits[i].cell)
         /\ \A i \in 0 .. Len(Found(k).hits) :
              /\ Reached(k, i) \in Begin(k) .. End(k)
              /\ NextStop(k, i) \in Reached(k, i) .. End(k)
              /\ OneThread!Blank(Reached(k, i), NextStop(k, i))
              /\ Delivered(k, i) \in Nat
              /\ SkipsIn(plane, Reached(k, i), NextStop(k, i)) \in Nat
              /\ SkipsIn(plane, Begin(k), NextStop(k, i))
                   = Delivered(k, i) + SkipsIn(plane, Reached(k, i), NextStop(k, i))
<1> DEFINE B == Begin(k)
           E == End(k)
           f == FaultAt(plane, B, E)
           cells == HitsIn(plane, B, f)
           hits == Found(k).hits
<1>1. B \in Nat /\ E \in Nat /\ B < E /\ E <= PlaneCells
  BY SegmentBounds
<1>2. /\ f \in B .. E
      /\ \A c \in B .. f - 1 : ~ Raises(plane, c, B, E)
      /\ f < E => Raises(plane, f, B, E)
  BY <1>1, FaultFirst
<1>3. \A c \in B .. E - 1 : OneThread!Raising(c) <=> Raises(plane, c, B, E)
  BY RaisesAlike, AsScanned DEF OneThread!Raising
<1>4. /\ Found(k) = Segment(HitsUpTo(k, f), SkipsIn(plane, B, f), f < E)
      /\ hits = HitsUpTo(k, f)
      /\ Found(k).error = (f < E) /\ Found(k).skipped = SkipsIn(plane, B, f)
  BY DEF Found, Segment
<1>5. hits = [i \in DOMAIN cells |-> [cell |-> cells[i], before |-> SkipsIn(plane, B, cells[i])]]
  BY <1>4 DEF HitsUpTo
<1>6. B \in Int /\ f \in Int /\ f \in Nat
  BY <1>1, <1>2
<1> HIDE DEF B, E, f, cells, hits
<1>7. PICK n \in Nat : DOMAIN cells = 1 .. n
  BY <1>6, HitsListed DEF cells
<1>8. Len(hits) = n /\ DOMAIN hits = 1 .. n
  BY <1>5, <1>7
<1>9. \A i \in 1 .. n : hits[i].cell = cells[i] /\ hits[i].before = SkipsIn(plane, B, cells[i])
  BY <1>5, <1>7
<1>10. /\ \A i \in 1 .. n : cells[i] \in HitSet(plane, B, f)
       /\ \A i, j \in 1 .. n : i < j => cells[i] < cells[j]
       /\ \A c \in HitSet(plane, B, f) : \E i \in 1 .. n : cells[i] = c
  BY <1>6, <1>7, HitsListed DEF cells
<1>11. \A i \in 1 .. n : cells[i] \in B .. f - 1 /\ plane[cells[i]] = "hit" /\ cells[i] \in Nat
  BY <1>1, <1>2, <1>6, <1>10 DEF HitSet
<1>12. ASSUME NEW i \in 1 .. n
       PROVE  /\ hits[i].cell \in B .. E - 1 /\ plane[hits[i].cell] = "hit"
              /\ ~ OneThread!Raising(hits[i].cell)
              /\ hits[i].before = SkipsIn(plane, B, hits[i].cell)
  <2>1. cells[i] \in B .. f - 1 /\ cells[i] \in B .. E - 1 /\ plane[cells[i]] = "hit"
    BY <1>1, <1>2, <1>6, <1>11
  <2> QED
    BY <1>2, <1>3, <1>9, <2>1
<1>13. ASSUME NEW i \in 0 .. n
       PROVE  /\ Reached(k, i) \in B .. E
              /\ NextStop(k, i) \in Reached(k, i) .. E
              /\ OneThread!Blank(Reached(k, i), NextStop(k, i))
              /\ Delivered(k, i) \in Nat
              /\ SkipsIn(plane, Reached(k, i), NextStop(k, i)) \in Nat
              /\ SkipsIn(plane, B, NextStop(k, i))
                   = Delivered(k, i) + SkipsIn(plane, Reached(k, i), NextStop(k, i))
  <2> DEFINE a == Reached(k, i)
             z == NextStop(k, i)
  <2>1. a = (IF i = 0 THEN B ELSE cells[i] + 1) /\ z = (IF i = n THEN f ELSE cells[i + 1])
    <3>1. i # 0 => i \in 1 .. n
      OBVIOUS
    <3>2. i # n => i + 1 \in 1 .. n
      BY <1>7
    <3> QED
      BY <3>1, <3>2, <1>8, <1>9 DEF Reached, NextStop, B, E, f, hits
  <2> HIDE DEF a, z
  <2>2. a \in Int /\ z \in Int /\ B <= a /\ a <= z /\ z <= f
    <3>1. CASE i = 0
      BY <3>1, <2>1, <1>1, <1>2, <1>7, <1>11
    <3>2. CASE i # 0 /\ i = n
      <4>1. cells[n] \in B .. f - 1
        BY <3>2, <1>7, <1>11
      <4> QED
        BY <3>2, <4>1, <2>1, <1>1, <1>2, <1>6
    <3>3. CASE i # 0 /\ i # n
      <4>1. i \in 1 .. n /\ i + 1 \in 1 .. n /\ i < i + 1
        BY <3>3, <1>7
      <4>2. cells[i] \in B .. f - 1 /\ cells[i + 1] \in B .. f - 1 /\ cells[i] < cells[i + 1]
        BY <4>1, <1>10, <1>11
      <4> QED
        BY <3>3, <4>2, <2>1, <1>1, <1>2, <1>6
    <3> QED
      BY <3>1, <3>2, <3>3
  <2>3. ASSUME NEW c \in a .. z - 1
        PROVE  plane[c] # "hit" /\ ~ OneThread!Raising(c)
    <3>1. c \in B .. f - 1 /\ c \in B .. E - 1
      BY <1>1, <1>2, <1>6, <2>2
    <3>2. ~ OneThread!Raising(c)
      BY <3>1, <1>2, <1>3
    <3>3. ASSUME plane[c] = "hit"
          PROVE  FALSE
      <4>1. PICK j \in 1 .. n : cells[j] = c
        BY <3>1, <3>3, <1>10 DEF HitSet
      <4>2. CASE j <= i
        <5>1. i \in 1 .. n /\ (j < i => cells[j] < cells[i]) /\ cells[i] \in Nat /\ cells[j] \in Nat
          BY <4>2, <1>7, <1>10, <1>11
        <5>2. cells[j] <= cells[i]
          BY <4>2, <5>1, <1>7
        <5> QED
          BY <4>1, <5>1, <5>2, <2>1, <2>2
      <4>3. CASE j > i
        <5>1. i + 1 \in 1 .. n /\ i # n /\ (i + 1 < j => cells[i + 1] < cells[j])
          BY <4>3, <1>7, <1>10
        <5>2. cells[i + 1] \in Nat /\ cells[j] \in Nat
          BY <5>1, <1>11
        <5>3. cells[i + 1] <= cells[j]
          BY <4>3, <5>1, <5>2, <1>7
        <5> QED
          BY <4>1, <5>1, <5>2, <5>3, <2>1, <2>2
      <4> QED
        BY <4>2, <4>3, <1>7
    <3> QED
      BY <3>2, <3>3
  <2>4. OneThread!Blank(a, z)
    BY <2>3 DEF OneThread!Blank
  <2>5. /\ SkipsIn(plane, B, a) \in Nat
        /\ SkipsIn(plane, B, z) = SkipsIn(plane, B, a) + SkipsIn(plane, a, z)
    BY <1>6, <2>2, SkipsSplit
  <2>6. SkipsIn(plane, a, z) \in Nat
    <3>1. z <= z
      BY <2>2
    <3> QED
      BY <3>1, <2>2, SkipsSplit
  <2>7. Delivered(k, i) = SkipsIn(plane, B, a)
    <3>1. CASE i = 0
      <4>1. SkipsIn(plane, B, B) = 0
        <5>1. {x \in B .. B - 1 : plane[x] = "skip"} = {}
          BY <1>6
        <5> QED
          BY <5>1, FS_EmptySet DEF SkipsIn
      <4> QED
        BY <3>1, <4>1, <2>1 DEF Delivered
    <3>2. CASE i # 0
      <4>1. i \in 1 .. n
        BY <3>2
      <4> DEFINE c == cells[i]
      <4>2. c \in Int /\ B <= c /\ plane[c] # "skip" /\ a = c + 1
        BY <4>1, <3>2, <1>6, <1>11, <2>1
      <4>3. Delivered(k, i) = SkipsIn(plane, B, c)
        BY <4>1, <3>2, <1>9 DEF Delivered, hits
      <4> HIDE DEF c
      <4>4. c <= c + 1 /\ c + 1 \in Int
        BY <4>2
      <4>5. /\ SkipsIn(plane, B, c) \in Nat
            /\ SkipsIn(plane, B, c + 1) = SkipsIn(plane, B, c) + SkipsIn(plane, c, c + 1)
        BY <1>6, <4>2, <4>4, SkipsSplit
      <4>6. SkipsIn(plane, c, c + 1) = 0
        BY <4>2, NoSkips
      <4> QED
        BY <4>2, <4>3, <4>5, <4>6
    <3> QED
      BY <3>1, <3>2
  <2>8. a \in B .. E /\ z \in a .. E
    BY <1>1, <1>2, <1>6, <2>2
  <2> QED
    BY <2>4, <2>5, <2>6, <2>7, <2>8 DEF a, z
<1>14. Found(k).error => OneThread!Raising(f)
  <2>1. Found(k).error => f < E
    BY <1>4
  <2>2. f < E => f \in B .. E - 1
    BY <1>1, <1>2, <1>6
  <2> QED
    BY <2>1, <2>2, <1>2, <1>3
<1>15. Found(k).skipped \in Nat
  <2>1. B <= f /\ f <= f
    BY <1>1, <1>2, <1>6
  <2> QED
    BY <1>4, <1>6, <2>1, SkipsSplit
<1> QED
  BY <1>2, <1>4, <1>7, <1>8, <1>12, <1>13, <1>14, <1>15 DEF B, E, f, hits

-----------------------------------------------------------------------------
(* The calling thread. *)

\* What it has taken and handed out so far.
Handing ==
  /\ plane \in Planes /\ tally \in Nat
  /\ cpc \in {"spawn", "take", "asleep", "announce", "deliver"} => outcome = "running" /\ ~ stop
  /\ cpc = "spawn" => emitted = 0 /\ out = <<>>
  /\ cpc \in {"spawn", "take", "asleep"} => skipped = tally
  /\ cpc \in {"announce", "deliver"} =>
       /\ emitted \in 1 .. Segments /\ taken = Found(emitted - 1)
       /\ hit \in 0 .. Len(taken.hits)
       /\ skipped = tally + Delivered(emitted - 1, hit)

(* What a segment holds depends on the plane alone. *)
LEMMA FoundKept ==
  ASSUME UNCHANGED plane
  PROVE  \A k, i : Found(k)' = Found(k) /\ Delivered(k, i)' = Delivered(k, i)
BY DEF Found, HitsUpTo, Delivered

(* A segment is taken whole, and handed out hit by hit with the tally up to it. *)
LEMMA HandingStep ==
  ASSUME ChunksFit, IInv, Handing, [Next]_vars
  PROVE  Handing'
<1>1. CASE UNCHANGED <<plane, emitted, stop, cpc, taken, hit, tally, out, skipped, outcome>>
  BY <1>1, FoundKept DEF Handing
<1>2. ASSUME NEW w \in Workers, Worker(w) \/ WorkerWakesUp(w), ~ Notify(w)
      PROVE  UNCHANGED <<plane, emitted, stop, cpc, taken, hit, tally, out, skipped, outcome>>
  BY <1>2 DEF Worker, Exit, Claim, WaitForRoom, Scan, Park, WorkerWakesUp, callerVars
<1>3. ASSUME NEW w \in Workers, Notify(w)
      PROVE  Handing'
  BY <1>3, FoundKept DEF Notify, CallerAfterNotify, Handing
<1>4. CASE Spawn
  BY <1>1, <1>4 DEF Spawn, callerVars
<1>5. CASE AllSpawned \/ WaitForSegment \/ CallerWakesUp
  BY <1>5, FoundKept DEF AllSpawned, WaitForSegment, CallerWakesUp, Handing
<1>6. CASE SpawnFails \/ Exhausted \/ SetStop \/ WakeAll \/ Join
  BY <1>6, FoundKept DEF SpawnFails, Exhausted, SetStop, WakeAll, Join, Handing
<1>7. CASE Take
  <2>1. /\ emitted \in Nat /\ Window \in Nat \ {0} /\ emitted < Segments /\ Segments \in Nat
        /\ ring[SlotOf(emitted)].done /\ ~ stop /\ plane \in Planes
    BY <1>7, Constants DEF Take, Handing, IInv, Shape
  <2>2. emitted \in emitted .. emitted + Window - 1
    BY <2>1
  <2>3. ring[SlotOf(emitted)] = Found(emitted)
    BY <2>1, <2>2 DEF IInv, InPlace
  <2>4. /\ taken' = Found(emitted) /\ emitted' = emitted + 1 /\ hit' = 0 /\ cpc' = "announce"
        /\ UNCHANGED <<plane, stop, tally, out, skipped, outcome>> /\ cpc = "take"
    BY <1>7, <2>3 DEF Take
  <2>5. emitted' \in 1 .. Segments /\ emitted' - 1 = emitted /\ emitted \in 0 .. Segments - 1
    BY <2>1, <2>4
  <2>6. Len(Found(emitted).hits) \in Nat
    BY <2>1, <2>5, SegmentStory
  <2>7. Found(emitted - 1)' = Found(emitted)
    BY <2>4, <2>5, FoundKept
  <2>8. (taken = Found(emitted - 1))' /\ (hit \in 0 .. Len(taken.hits))'
    BY <2>4, <2>6, <2>7
  <2>9. Delivered(emitted - 1, hit)' = 0
    BY <2>4 DEF Delivered
  <2> QED
    BY <2>4, <2>5, <2>8, <2>9 DEF Handing
<1>8. CASE Announce
  BY <1>8, FoundKept DEF Announce, Handing
<1>9. CASE Deliver
  BY <1>9, FoundKept DEF Deliver, TallyAtHit, Handing, Delivered
<1>10. CASE EndSegment
  <2>1. emitted - 1 \in 0 .. Segments - 1 /\ taken = Found(emitted - 1) /\ plane \in Planes
    BY <1>10, Constants DEF EndSegment, Handing
  <2>2. taken.skipped \in Nat
    BY <2>1, SegmentStory
  <2> QED
    BY <1>10, <2>2, FoundKept DEF EndSegment, Handing
<1>11. CASE UNCHANGED vars
  BY <1>1, <1>11 DEF vars, callerVars
<1> QED
  BY <1>1, <1>2, <1>3, <1>4, <1>5, <1>6, <1>7, <1>8, <1>9, <1>10, <1>11 DEF Next, Caller, Returned

-----------------------------------------------------------------------------
(* The scan one thread would make. *)

(* Where the caller stands in the segment it is handing out. *)
LEMMA WhereItStands ==
  ASSUME Handing, cpc \in {"announce", "deliver"}
  PROVE  ScannedTo = Reached(emitted - 1, hit)
BY DEF Handing, ScannedTo, Reached

(* Between two segments it stands where the next one begins, at the end of the plane after
   the last. *)
LEMMA BetweenSegments ==
  ASSUME IInv, Handing, cpc \in {"take", "asleep"}
  PROVE  /\ emitted < Segments => ScannedTo = Begin(emitted)
         /\ emitted = Segments => ScannedTo = PlaneCells
<1>1. emitted \in Nat /\ Segments \in Nat \ {0, 1} /\ SegmentCells \in Nat
  BY Constants, PoolAssumption DEF IInv, Shape
<1>2. CASE emitted = 0
  BY <1>1, <1>2 DEF ScannedTo, Begin
<1>3. CASE emitted # 0 /\ emitted <= Segments
  <2>1. emitted - 1 \in 0 .. Segments - 1 /\ (emitted - 1) + 1 = emitted
    BY <1>1, <1>3
  <2>2. /\ emitted < Segments => End(emitted - 1) = Begin(emitted)
        /\ emitted = Segments => End(emitted - 1) = PlaneCells
    BY <1>1, <2>1, SegmentBounds
  <2> QED
    BY <1>3, <2>2 DEF ScannedTo
<1> QED
  BY <1>1, <1>2, <1>3

(* Handing a hit to the callback is what one thread does on reaching it. *)
LEMMA DeliverShows ==
  ASSUME ChunksFit, IInv, Handing, Deliver
  PROVE  OneThread!Deliver
<1> DEFINE k == emitted - 1
           a == Reached(k, hit)
           h == NextStop(k, hit)
<1>1. /\ outcome = "running" /\ k \in 0 .. Segments - 1 /\ taken = Found(k) /\ emitted \in 1 .. Segments
      /\ hit \in 0 .. Len(taken.hits) /\ hit < Len(taken.hits) /\ plane \in Planes
      /\ skipped = tally + Delivered(k, hit) /\ tally \in Nat
  BY Constants DEF Deliver, Handing
<1>2. Len(Found(k).hits) \in Nat
  BY <1>1, SegmentStory
<1>3. hit + 1 \in 1 .. Len(taken.hits) /\ hit \in 0 .. Len(taken.hits) /\ hit # Len(taken.hits) /\ hit \in Nat
  BY <1>1, <1>2
<1>4. h = taken.hits[hit + 1].cell
  BY <1>1, <1>3 DEF NextStop
<1>5. /\ h \in Begin(k) .. End(k) - 1 /\ plane[h] = "hit" /\ ~ OneThread!Raising(h)
      /\ taken.hits[hit + 1].before = SkipsIn(plane, Begin(k), h)
  BY <1>1, <1>3, <1>4, SegmentStory
<1>6. /\ a \in Begin(k) .. End(k) /\ h \in a .. End(k) /\ OneThread!Blank(a, h)
      /\ Delivered(k, hit) \in Nat /\ SkipsIn(plane, a, h) \in Nat
      /\ SkipsIn(plane, Begin(k), h) = Delivered(k, hit) + SkipsIn(plane, a, h)
  BY <1>1, <1>3, SegmentStory
<1>7. Begin(k) \in Nat /\ End(k) \in Nat /\ End(k) <= PlaneCells /\ PlaneCells \in Nat
  BY <1>1, SegmentBounds, RangeAssumption
<1>8. ScannedTo = a
  BY WhereItStands DEF Deliver
<1> HIDE DEF a, h
<1>9. h \in ScannedTo .. PlaneCells - 1
  BY <1>5, <1>6, <1>7, <1>8
<1>10. skipped' = skipped + OneThread!SkipsIn(plane, ScannedTo, h)
  <2>1. skipped' = tally + SkipsIn(plane, Begin(k), h)
    BY <1>5 DEF Deliver, TallyAtHit
  <2> QED
    BY <2>1, <1>1, <1>6, <1>8, AsScanned
<1>11. ScannedTo' = h + 1
  <2>1. /\ emitted' = emitted /\ taken' = taken /\ hit' = hit + 1 /\ hit' # 0 /\ emitted' # 0
        /\ cpc' \in {"deliver", "finish"} /\ outcome' # "done"
    BY <1>1, <1>3 DEF Deliver
  <2> QED
    BY <2>1, <1>4 DEF ScannedTo
<1>12. out' = Append(out, h) /\ outcome' \in {"running", "stopped", "thrown"} /\ plane' = plane
  BY <1>4 DEF Deliver
<1> QED
  BY <1>1, <1>5, <1>6, <1>8, <1>9, <1>10, <1>11, <1>12 DEF OneThread!Deliver

(* The rest of a segment is passed over, or ends in the fault one thread would meet. *)
LEMMA EndSegmentShows ==
  ASSUME ChunksFit, IInv, Handing, EndSegment
  PROVE  [OneThread!Next]_(OneThread!vars)
<1> DEFINE k == emitted - 1
           a == Reached(k, hit)
           f == FaultAt(plane, Begin(k), End(k))
<1>1. /\ outcome = "running" /\ k \in 0 .. Segments - 1 /\ taken = Found(k) /\ emitted \in 1 .. Segments
      /\ hit = Len(taken.hits) /\ plane \in Planes
      /\ skipped = tally + Delivered(k, hit) /\ tally \in Nat
  BY Constants DEF EndSegment, Handing
<1>2. Len(Found(k).hits) \in Nat
  BY <1>1, SegmentStory
<1>3. hit \in 0 .. Len(Found(k).hits) /\ NextStop(k, hit) = f
  BY <1>1, <1>2 DEF NextStop
<1>4. /\ a \in Begin(k) .. End(k) /\ f \in a .. End(k) /\ OneThread!Blank(a, f)
      /\ Delivered(k, hit) \in Nat /\ SkipsIn(plane, a, f) \in Nat
      /\ SkipsIn(plane, Begin(k), f) = Delivered(k, hit) + SkipsIn(plane, a, f)
  BY <1>1, <1>3, SegmentStory
<1>5. /\ taken.skipped = SkipsIn(plane, Begin(k), f)
      /\ taken.error <=> f < End(k)
      /\ taken.error => OneThread!Raising(f)
  BY <1>1, SegmentStory
<1>6. /\ Begin(k) \in Nat /\ End(k) \in Nat /\ End(k) <= PlaneCells /\ PlaneCells \in Nat
  BY <1>1, SegmentBounds, RangeAssumption
<1>7. ScannedTo = a
  BY WhereItStands DEF EndSegment
<1> HIDE DEF a, f
<1>8. skipped' = skipped + OneThread!SkipsIn(plane, a, f)
  <2>1. skipped' = tally + SkipsIn(plane, Begin(k), f)
    BY <1>5 DEF EndSegment
  <2> QED
    BY <2>1, <1>1, <1>4, AsScanned
<1>9. CASE taken.error
  <2>1. outcome' = "fault" /\ cpc' = "finish" /\ UNCHANGED <<plane, out, emitted, taken, hit>> /\ cpc = "deliver"
    BY <1>9 DEF EndSegment
  <2>2. ScannedTo' = ScannedTo
    BY <2>1, <1>1 DEF ScannedTo
  <2>3. f \in ScannedTo .. PlaneCells - 1
    BY <1>4, <1>5, <1>6, <1>7, <1>9
  <2> QED
    BY <2>1, <2>2, <2>3, <1>1, <1>4, <1>5, <1>7, <1>8, <1>9 DEF OneThread!Fail, OneThread!Next
<1>10. CASE ~ taken.error
  <2>1. outcome' = "running" /\ cpc' = "take" /\ UNCHANGED <<plane, out, emitted>>
    BY <1>10 DEF EndSegment
  <2>2. f = End(k)
    BY <1>4, <1>5, <1>6, <1>10
  <2>3. ScannedTo' = f
    BY <2>1, <2>2, <1>1 DEF ScannedTo, End, Begin
  <2>4. CASE a = f
    <3>1. SkipsIn(plane, a, f) = 0
      <4>1. a \in Int
        BY <1>4, <1>6
      <4>2. {x \in a .. a - 1 : plane[x] = "skip"} = {}
        BY <4>1
      <4> QED
        BY <2>4, <4>2, FS_EmptySet DEF SkipsIn
    <3>2. skipped' = skipped
      BY <3>1, <1>1, <1>4, <1>8, AsScanned
    <3> QED
      BY <3>2, <2>1, <2>3, <2>4, <1>1, <1>7 DEF OneThread!vars
  <2>5. CASE a # f
    <3>1. f \in a + 1 .. PlaneCells
      BY <2>5, <1>4, <1>6
    <3> QED
      BY <3>1, <2>1, <2>3, <1>1, <1>4, <1>7, <1>8 DEF OneThread!Pass, OneThread!Next
  <2> QED
    BY <2>4, <2>5
<1> QED
  BY <1>9, <1>10

(* Taking a segment out of the ring moves nothing the callback sees. *)
LEMMA TakeShows ==
  ASSUME IInv, Handing, Take
  PROVE  UNCHANGED OneThread!vars
<1>1. /\ emitted < Segments /\ emitted \in Nat /\ cpc = "take"
      /\ emitted' = emitted + 1 /\ hit' = 0 /\ cpc' = "announce"
      /\ UNCHANGED <<plane, out, skipped, outcome>> /\ outcome = "running"
  BY DEF Take, Handing, IInv, Shape
<1>2. ScannedTo = Begin(emitted)
  BY <1>1, BetweenSegments
<1>3. ScannedTo' = Begin(emitted)
  BY <1>1 DEF ScannedTo, Begin
<1> QED
  BY <1>1, <1>2, <1>3 DEF OneThread!vars

(* Every step of the pool is a step of one thread, or none of it. *)
LEMMA StepShows ==
  ASSUME ChunksFit, IInv, Handing, [Next]_vars
  PROVE  [OneThread!Next]_(OneThread!vars)
<1>1. CASE /\ UNCHANGED <<plane, emitted, taken, hit, out, skipped, outcome>>
           /\ cpc' \in {"take", "asleep"} <=> cpc \in {"take", "asleep"}
  BY <1>1 DEF OneThread!vars, ScannedTo
<1>2. ASSUME NEW w \in Workers, Worker(w) \/ WorkerWakesUp(w)
      PROVE  [OneThread!Next]_(OneThread!vars)
  BY <1>1, <1>2 DEF Worker, Exit, Claim, WaitForRoom, Scan, Park, Notify, CallerAfterNotify,
                    WorkerWakesUp, callerVars
<1>3. CASE Spawn \/ WaitForSegment \/ CallerWakesUp \/ Announce \/ SetStop \/ WakeAll \/ Join
  BY <1>1, <1>3 DEF Spawn, WaitForSegment, CallerWakesUp, Announce, SetStop, WakeAll, Join, callerVars
<1>4. CASE AllSpawned
  BY <1>4 DEF AllSpawned, Handing, OneThread!vars, ScannedTo
<1>5. CASE SpawnFails
  BY <1>5 DEF SpawnFails, Handing, OneThread!Unable, OneThread!Next, ScannedTo
<1>6. CASE Exhausted
  <2>1. ScannedTo = PlaneCells
    BY <1>6, BetweenSegments DEF Exhausted
  <2>2. ScannedTo' = ScannedTo
    BY <1>6 DEF Exhausted, ScannedTo, End, Begin
  <2> QED
    BY <1>6, <2>1, <2>2 DEF Exhausted, Handing, OneThread!Finish, OneThread!Next
<1>7. CASE Take \/ Deliver
  BY <1>7, TakeShows, DeliverShows DEF OneThread!Next
<1>8. CASE EndSegment
  BY <1>8, EndSegmentShows
<1>9. CASE UNCHANGED vars
  BY <1>1, <1>9 DEF vars, callerVars
<1> QED
  BY <1>2, <1>3, <1>4, <1>5, <1>6, <1>7, <1>8, <1>9 DEF Next, Caller, Returned

(* "cb ... sees exactly the FENs -- and skipped_saturated exactly the tally -- that one thread
   would give it" (tablebase.h): whatever the threads, segments and window, each step of the
   pool is a step of the single-threaded scan or a stutter of it.  It rests on ChunksFit:
   with an unreadable chunk and segments that are not made of whole chunks it is false. *)
THEOREM ScansAsOneThread ==
  ASSUME ChunksFit
  PROVE  Spec => OneThread!Init /\ [][OneThread!Next]_(OneThread!vars)
<1>1. Init => OneThread!Init /\ Handing
  BY DEF Init, OneThread!Init, Handing, ScannedTo
<1>2. IInv /\ Handing /\ [Next]_vars => Handing'
  BY HandingStep
<1>3. IInv /\ Handing /\ [Next]_vars => [OneThread!Next]_(OneThread!vars)
  BY StepShows
<1> QED
  BY <1>1, <1>2, <1>3, InitIInv, NextIInv, PTL DEF Spec
=============================================================================
