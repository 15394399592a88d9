----------------------------- MODULE VerifyTable -----------------------------
(***************************************************************************)
(* What `helpmate-tables verify` concludes of one delivered table.  The    *)
(* game says what is true of the material; Retrograde generates its table; *)
(* a contributor delivers that table or another one; verify_table runs its *)
(* checks V2 to V8 on the delivery, cheapest first.  A position of the     *)
(* slice is a side and a cell.                                             *)
(* Source: src/packages/api/helpmate_server/contrib/{verify,checks,        *)
(* tablefile,consistency,oracle}.py.                                       *)
(***************************************************************************)
EXTENDS Retrograde, FiniteSets

CONSTANTS
  OraclePlies,   \* --oracle-plies
  Forged(_),     \* planes <<dtm, cnt>> delivered for a game besides its own
  Faulty         \* what else may be wrong with a file: subsets of FaultNames

VARIABLES
  file,      \* the delivered table and sidecar
  published, \* the payload a duplicate is compared with, or NoPayload
  sample,    \* the positions V6 draws
  checks     \* the report: <<check, status>> in the order they ran

delivery == <<file, published, sample, checks>>
allVars  == <<vars, delivery>>

None       == <<>>
NoPayload  == [marker |-> FALSE, of |-> None]
FaultNames == {"absent", "header", "block", "sidecar"}

ASSUME PliesAssumption == OraclePlies \in 0 .. DtmMax
ASSUME FaultAssumption == Faulty \subseteq SUBSET FaultNames

Planes    == <<dtm, cnt>>
Valid     == {p \in Sides \X Cells : p[2] \notin game.invalid[p[1]]}
\* The max_dtm byte that finalize_and_write puts in the header.
HeaderByte == IF maxDtm = -1 THEN Unsolvable ELSE maxDtm

(***************************************************************************)
(* The statistics of two planes, as the generator writes them to the       *)
(* sidecar and as V4 recomputes them from the payload.                     *)
(***************************************************************************)
With(planes, s, n, counts) ==
  Cardinality({c \in Cells : planes[1][s][c] = n /\ planes[2][s][c] \in counts})

AllCounts == 0 .. CountSat

RecomputeStats(planes) ==
  [dtm_histogram |-> [s \in Sides |-> [n \in 0 .. DtmMax |-> With(planes, s, n, AllCounts)]],
   uniqueness |-> [s \in Sides |-> [n \in 0 .. DtmMax |-> [k \in AllCounts |-> With(planes, s, n, {k})]]],
   cells |-> [s \in Sides |-> [n \in {Invalid, Unsolvable} |-> With(planes, s, n, AllCounts)]],
   unset |-> \E s \in Sides : With(planes, s, Unset, AllCounts) > 0]

DeepestIn(planes) ==
  LET values == {planes[1][s][c] : s \in Sides, c \in Cells} \cap (0 .. DtmMax)
  IN  IF values = {} THEN Unsolvable ELSE CHOOSE n \in values : \A k \in values : k <= n

\* The recorded positions: the deepest, or the deepest with a single line.
Recorded(planes, counts) ==
  LET those == {p \in Sides \X Cells : /\ planes[1][p[1]][p[2]] <= DtmMax
                                      /\ planes[2][p[1]][p[2]] \in counts}
  IN  {p \in those : \A q \in those : planes[1][q[1]][q[2]] <= planes[1][p[1]][p[2]]}

\* `told` are the planes the sidecar was made for.
File(planes, told, header, marker, faults) ==
  [planes |-> planes, told |-> told, header |-> header, marker |-> marker, faults |-> faults]

(***************************************************************************)
(* The checks.  A marker has no payload: every cell reads as unsolvable.   *)
(***************************************************************************)
Dead == <<[s \in Sides |-> [c \in Cells |-> Unsolvable]], [s \in Sides |-> [c \in Cells |-> 0]]>>

Read(f)  == IF f.marker THEN Dead ELSE f.planes
Probe(f, p) ==
  LET n == Read(f)[1][p[1]][p[2]]
  IN  IF n <= DtmMax THEN <<n, Read(f)[2][p[1]][p[2]]>> ELSE None

Verdict(ok) == IF ok THEN "pass" ELSE "fail"

CheckHeader(f) == Verdict(f.faults \cap {"header", "sidecar"} = {})

CheckBlockIntegrity(f) == IF f.marker THEN "skip" ELSE Verdict("block" \notin f.faults)

CheckSidecar(f) ==
  IF f.marker THEN "skip"
  ELSE Verdict(/\ RecomputeStats(f.planes) = RecomputeStats(f.told)
               /\ ~ RecomputeStats(f.planes).unset
               /\ DeepestIn(f.planes) = DeepestIn(f.told)
               /\ DeepestIn(f.planes) = f.header)

CheckDeepest(f) ==
  LET unique == Recorded(f.told, {1})
  IN  IF DeepestIn(f.told) = Unsolvable THEN "skip"
      ELSE Verdict(
        /\ \A p \in Recorded(f.told, AllCounts) : Probe(f, p) # None /\ Probe(f, p)[1] = DeepestIn(f.told)
        /\ \A p \in unique :
             /\ Probe(f, p) # None /\ Probe(f, p)[2] = 1
             /\ \A q \in unique : Probe(f, q) # None /\ Probe(f, q)[1] = Probe(f, p)[1]
             /\ \A s \in Sides : \A n \in 0 .. DtmMax :
                  n > Probe(f, p)[1] => With(f.told, s, n, {1}) = 0)

\* The identity of a table's content, whatever its header says: the planes, a marker's cell counts.
Payload(f) ==
  IF f.marker THEN [marker |-> TRUE, of |-> RecomputeStats(f.told).cells]
  ELSE [marker |-> FALSE, of |-> f.planes]

CheckIdentical(f) == Verdict(Payload(f) = published)

(* check_position: what the stored values of the successors imply for a position,
   as Tablebase.moves lists them. *)
SuccessorsImply(f, s, c) ==
  LET moves  == game.moves[s][c]
      theirs == Read(f)[1][Opp(s)]
      values == {n \in 0 .. DtmMax : Found(moves, theirs, n)}
      best   == CHOOSE n \in values : \A k \in values : n <= k
  IN  IF moves = <<>> THEN IF s = "black" /\ c \in game.mates THEN <<0, 1>> ELSE None
      ELSE IF values = {} THEN None
      ELSE <<best + 1, Total(moves, theirs, Read(f)[2][Opp(s)], best)>>

CheckPositionSolvable(f, p) == Probe(f, p) # None => Probe(f, p) = SuccessorsImply(f, p[1], p[2])
CheckPosition(f, p) == Probe(f, p) = SuccessorsImply(f, p[1], p[2])

CheckConsistency(f) ==
  LET drawn == sample \cup ((Recorded(f.told, AllCounts) \cup Recorded(f.told, {1})) \cap Valid)
  IN  IF \E p \in drawn : Throws(game.moves[p[1]][p[2]]) THEN "missing"
      ELSE Verdict(\A p \in drawn : CheckPosition(f, p))

\* The solver counts the lines of exactly n plies, for the n of the side's parity.
Solve(p) ==
  LET paths == AllPaths[game]
      found == {n \in 0 .. OraclePlies : Mover(n) = p[1] /\ paths[n + 1][p[1]][p[2]] > 0}
      least == CHOOSE n \in found : \A k \in found : n <= k
  IN  IF found = {} THEN None ELSE <<least, paths[least + 1][p[1]][p[2]]>>

CheckOracle(f) ==
  LET within(p) == Probe(f, p) # None /\ Probe(f, p)[1] <= OraclePlies
      mined     == {p \in Sides \X Cells : within(p)}
  IN  Verdict(\A p \in mined \cup sample :
                Solve(p) = IF within(p) THEN Probe(f, p) ELSE None)

Failed(list)        == \E i \in DOMAIN list : list[i][2] = "fail"
Skipped(ids)        == [i \in DOMAIN ids |-> <<ids[i], "skip">>]

\* verify_table, with `again` for probe_deepest.
Report(f, again) ==
  LET v2 == <<<<"V2", CheckHeader(f)>>>>
      v3 == Append(v2, <<"V3", CheckBlockIntegrity(f)>>)
      v4 == Append(v3, <<"V4", CheckSidecar(f)>>)
      v8 == Append(v4, <<"V8", CheckIdentical(f)>>)
      v5 == Append(v4, <<"V5", CheckDeepest(f)>>)
      v6 == Append(v5, <<"V6", CheckConsistency(f)>>)
  IN  IF "absent" \in f.faults THEN <<<<"V2", "fail">>>>
      ELSE IF Failed(v2) THEN v2
      ELSE IF Failed(v3) THEN v3
      ELSE IF published # NoPayload THEN
        IF again /\ ~ Failed(v8) THEN Append(v8, <<"V5", CheckDeepest(f)>>) \o Skipped(<<"V6", "V7">>)
        ELSE v8 \o Skipped(<<"V5", "V6", "V7">>)
      ELSE IF f.marker \/ Failed(v5) THEN v5 \o Skipped(<<"V6", "V7">>)
      ELSE IF v6[5][2] = "missing" THEN v6
      ELSE Append(v6, <<"V7", CheckOracle(f)>>)

(***************************************************************************)
(* The delivery.                                                           *)
(***************************************************************************)
VInit == Init /\ file = None /\ published = NoPayload /\ sample = {} /\ checks = <<>>

Generate == Next /\ UNCHANGED delivery

\* The planes of a slice without a solution.
Unsolved(planes) ==
  <<[s \in Sides |-> [c \in Cells |-> IF planes[1][s][c] = Invalid THEN Invalid ELSE Unsolvable]],
    [s \in Sides |-> [c \in Cells |-> 0]]>>

\* What is published is the table, or the marker it may be compacted to.
Published == {Payload(File(Planes, Planes, HeaderByte, marker, {})) :
                marker \in {m \in BOOLEAN : m => maxDtm = -1}}

\* The table comes from the generator, whole or damaged, or is made up; what is made
\* up comes with its own sidecar, or with the right one.  A made-up marker has no planes:
\* its sidecar says that nothing is solvable.
Deliver ==
  /\ stage = "done" /\ file = None
  /\ \/ \E marker \in BOOLEAN, faults \in Faulty :
          file' = File(Planes, Planes, HeaderByte, marker, faults)
     \/ \E planes \in Forged(game) : \E told \in {planes, Planes} :
          file' = File(planes, told, DeepestIn(told), FALSE, {})
     \/ file' = File(Planes, Unsolved(Planes), Unsolvable, TRUE, {})
  /\ published' \in {NoPayload} \cup Published
  /\ sample' \in IF file'.planes = Planes THEN {{}, Valid} ELSE {Valid}
  /\ UNCHANGED <<vars, checks>>

VerifyTable ==
  /\ file # None /\ checks = <<>>
  /\ \E again \in BOOLEAN : checks' = Report(file, again)
  /\ UNCHANGED <<vars, file, published, sample>>

VNext == Generate \/ Deliver \/ VerifyTable

VSpec == VInit /\ [][VNext]_allVars /\ WF_vars(Generate)
-----------------------------------------------------------------------------
Passed == checks # <<>> /\ \A i \in DOMAIN checks : checks[i][2] \notin {"fail", "missing"}

Exact(planes) ==
  \A p \in Valid :
    LET n == OracleDtm(game, p[1], p[2])
    IN  /\ planes[1][p[1]][p[2]] = n
        /\ n <= DtmMax => planes[2][p[1]][p[2]] = OracleCnt(game, p[1], p[2])

LostDepth == \E n \in Depths(game) : ~ Reached(game, n)

(* "a wrong table has to be wrong consistently with its neighbours AND with
   independently published tables to pass" (consistency.py:4): where V6 draws
   every position, no wrong table with planes passes, however its values and its
   sidecar are made up to agree with each other; and no duplicate that is not one.
   A marker is believed: V4, V6 and V7 skip it (checks.py:187, verify.py:149), V5
   does when its sidecar knows no solution (checks.py:214), so all that is known of
   one that passes is that its sidecar says so. *)
PassIsExact ==
  Passed =>
    IF published # NoPayload THEN published = Payload(file)
    ELSE IF file.marker THEN DeepestIn(file.told) = Unsolvable
    ELSE sample = Valid => Exact(file.planes)

(* The generator and the verifier share no code: what the one writes the other
   passes, whatever it draws, in full or as a duplicate of the same table, and a
   header that does not name the deepest value would fail.  Only of a published
   marker it is no duplicate: V8 compares a marker's cell counts with planes. *)
HonestPasses ==
  /\ checks # <<>> /\ file.planes = Planes /\ file.faults = {} /\ ~ file.marker
  /\ ~ published.marker /\ ~ LostDepth
  => Passed
=============================================================================
