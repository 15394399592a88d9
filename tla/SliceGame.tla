----------------------------- MODULE SliceGame -----------------------------
(***************************************************************************)
(* One material slice as the generator sees it: two planes of cells (one   *)
(* per side to move), the legal moves of every cell, and the values the    *)
(* finished sub-tables give the moves that leave the slice.  Chess itself  *)
(* (move generation, encoding a position as a cell) is abstracted to the   *)
(* record `game`; what a move is worth and how counts are summed is        *)
(* translated from src/core/generator/{generator.cpp,eval.h}.              *)
(***************************************************************************)
EXTENDS Integers, Sequences, SequencesExt

CONSTANTS
  PlaneSize,  \* ps_: cells per plane
  DtmMax,     \* DTM_MAX (252 in the code)
  CountSat,   \* COUNT_SAT (255 in the code)
  Games       \* the slices under consideration

Unset      == DtmMax + 1
Invalid    == DtmMax + 2
Unsolvable == DtmMax + 3

Sides  == {"white", "black"}
Opp(s) == IF s = "white" THEN "black" ELSE "white"

\* The side to move of the plane that pass d fills.
Mover(d) == IF d % 2 = 1 THEN "white" ELSE "black"

Cells   == 0 .. PlaneSize - 1
NoIndex == -1

ValuePair == [dtm : 0 .. Unsolvable, count : 0 .. CountSat]

\* `to` is the successor's cell when the move stays in the slice, NoIndex when
\* a finished sub-table holds it (then `base` is the value stored there).  `ep`
\* lists the sub-table values behind the en-passant captures that a double push
\* allows.  ~ok: the successor cannot be looked up.
Move == [to : Cells \cup {NoIndex}, base : ValuePair, ep : Seq(ValuePair), ok : BOOLEAN]

Game == [invalid : [Sides -> SUBSET Cells],
         mates   : SUBSET Cells,
         moves   : [Sides -> [Cells -> Seq(Move)]],
         loadable : BOOLEAN]

ASSUME SizeAssumption ==
  /\ PlaneSize \in Nat \ {0}
  /\ DtmMax \in Nat \ {0}
  /\ CountSat \in Nat \ {0}

ASSUME GamesAssumption ==
  \A g \in Games :
    /\ g \in Game
    /\ g.mates \cap g.invalid["black"] = {}

-----------------------------------------------------------------------------
\* Saturating counts: what does not fit is CountSat.
Cap(n) == IF n \in 0 .. CountSat THEN n ELSE CountSat

SumSeq(s) == FoldSeq(+, 0, s)

(* eval_board: the least of the en-passant-free value and one more than each
   en-passant capture's value; dt and ct are the opposite side's planes. *)
BaseDtm(m, dt)   == IF m.to = NoIndex THEN m.base.dtm ELSE dt[m.to]
BaseCount(m, ct) == IF m.to = NoIndex THEN m.base.count ELSE ct[m.to]
Via(v)           == IF v.dtm <= DtmMax THEN v.dtm + 1 ELSE Unsolvable

EvalsTo(m, dt, n) ==
  /\ BaseDtm(m, dt) = n \/ \E i \in DOMAIN m.ep : Via(m.ep[i]) = n
  /\ BaseDtm(m, dt) >= n
  /\ \A i \in DOMAIN m.ep : Via(m.ep[i]) >= n

EvalCount(m, dt, ct, n) ==
  Cap((IF BaseDtm(m, dt) = n THEN BaseCount(m, ct) ELSE 0)
      + SumSeq([i \in DOMAIN m.ep |-> IF Via(m.ep[i]) = n THEN m.ep[i].count ELSE 0]))

\* The inner loop of scan_pass: some move is worth n, and the moves worth n
\* have this many optimal lines between them.
Found(moves, dt, n) == \E i \in DOMAIN moves : EvalsTo(moves[i], dt, n)

Total(moves, dt, ct, n) ==
  Cap(SumSeq([i \in DOMAIN moves |->
                IF EvalsTo(moves[i], dt, n) THEN EvalCount(moves[i], dt, ct, n) ELSE 0]))

Throws(moves) == \E i \in DOMAIN moves : ~ moves[i].ok

\* run_all_passes: max_dtm_ before the first pass, and whether there is a next one.
InitMaxForgotten(plane) == -1
InitMax(plane) == IF \E c \in Cells : plane[c] = 0 THEN 0 ELSE -1

GoOnOneMiss(d, m) == d <= DtmMax /\ m < 1
GoOn(d, m) == d <= DtmMax /\ m < 2

\* init_pass on one cell.
InitDtm(g, s, c) ==
  IF c \in g.invalid[s] THEN Invalid
  ELSE IF s = "black" /\ c \in g.mates THEN 0 ELSE Unset

InitCnt(g, s, c) == IF InitDtm(g, s, c) = 0 THEN 1 ELSE 0

-----------------------------------------------------------------------------
(***************************************************************************)
(* The reference the planes are compared with, which knows nothing of      *)
(* passes: oracle.cpp counts the move sequences of exactly n plies that    *)
(* end in mate.  A line into a sub-table counts as that table's value says *)
(***************************************************************************)
PathsVia(m, below, n) ==
  (IF m.to = NoIndex
     THEN IF m.base.dtm = n THEN m.base.count ELSE 0
     ELSE below[m.to])
  + SumSeq([i \in DOMAIN m.ep |-> IF Via(m.ep[i]) = n THEN m.ep[i].count ELSE 0])

Paths(g) ==
  LET Mates == [s \in Sides |-> [c \in Cells |-> InitCnt(g, s, c)]]
      Longer(layer, n) ==
        [s \in Sides |-> [c \in Cells |->
           IF c \in g.invalid[s] THEN 0
           ELSE Cap(SumSeq([i \in DOMAIN g.moves[s][c] |->
                              PathsVia(g.moves[s][c][i], layer[Opp(s)], n - 1)]))]]
  IN  FoldLeft(LAMBDA layers, n : Append(layers, Longer(Last(layers), n)),
               <<Mates>>, [n \in 1 .. DtmMax |-> n])

\* AllPaths[g][n + 1][s][c]; evaluated once per game.
AllPaths == [g \in Games |-> Paths(g)]

\* The least target of the side's parity that some sequence reaches.
OracleDtm(g, s, c) ==
  LET paths   == AllPaths[g]
      targets == {n \in 0 .. DtmMax : Mover(n) = s /\ paths[n + 1][s][c] > 0}
  IN  IF c \in g.invalid[s] THEN Invalid
      ELSE IF targets = {} THEN Unsolvable
      ELSE CHOOSE n \in targets : \A k \in targets : n <= k

OracleCnt(g, s, c) ==
  LET n == OracleDtm(g, s, c)
  IN  IF n <= DtmMax THEN AllPaths[g][n + 1][s][c] ELSE 0

(* The passes stop after two that assign nothing.  Within a slice that is
   enough, because a value needs a successor one less; a successor in a
   sub-table may however be deeper than anything in the slice.  Depth n is
   reached when no two consecutive depths below it are empty. *)
Depths(g) == {OracleDtm(g, s, c) : s \in Sides, c \in Cells} \cap (0 .. DtmMax)
Reached(g, n) == \A k \in 1 .. n - 2 : k \in Depths(g) \/ k + 1 \in Depths(g)
=============================================================================
