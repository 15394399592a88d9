----------------------------- MODULE MCSliceGen -----------------------------
(* A handful of slices of a few cells per plane on which the workers' orders
   matter: shared successors, chains across tiles, depths that only a
   sub-table explains, and lookups that fail half way through a pass. *)
EXTENDS SliceGen

MCNone       == [dtm |-> Unsolvable, count |-> 0]
MCVal(n, k)  == [dtm |-> n, count |-> k]
MCQuiet(c)   == [to |-> c, base |-> MCNone, ep |-> <<>>, ok |-> TRUE]
MCCapture(v) == [to |-> NoIndex, base |-> v, ep |-> <<>>, ok |-> TRUE]
MCPush(c, v) == [to |-> c, base |-> MCNone, ep |-> <<v>>, ok |-> TRUE]
MCBad        == [to |-> NoIndex, base |-> MCNone, ep |-> <<>>, ok |-> FALSE]

\* Moves of the cells from 0 on, none for the rest.
MCPlane(ms) == [c \in Cells |-> IF c < Len(ms) THEN ms[c + 1] ELSE <<>>]

MCGame(mates, w, b) ==
  [mates |-> mates, loadable |-> TRUE, invalid |-> [s \in Sides |-> {}],
   moves |-> [s \in Sides |-> MCPlane(IF s = "white" THEN w ELSE b)]]

\* Every white cell mates, every black cell then has two of them to go to.
MCWide == MCGame({0},
  << <<MCQuiet(0)>>, <<MCQuiet(0), MCCapture(MCVal(0, 2))>>, <<MCQuiet(1), MCQuiet(0)>> >>,
  << <<>>, <<MCQuiet(0), MCQuiet(1)>>, <<MCQuiet(2), MCQuiet(1), MCQuiet(0)>> >>)

\* One cell per pass, in the order opposite to the tiles'.
MCChain == MCGame({2},
  << <<MCQuiet(1)>>, <<MCQuiet(2)>>, <<MCPush(0, MCVal(5, 1))>> >>,
  << <<MCQuiet(0)>>, <<MCQuiet(1), MCQuiet(0)>>, <<>> >>)

\* Nothing at depth 1; depths 2 and 4 come from sub-tables.
MCDeep == MCGame({},
  << <<>>, <<MCCapture(MCVal(2, 1))>>, <<MCCapture(MCNone)>> >>,
  << <<MCPush(0, MCVal(0, 1))>>, <<MCQuiet(1), MCCapture(MCVal(3, 2))>>, <<MCQuiet(2)>> >>)

\* The black plane has a lookup that fails, in pass 2.
MCBroken == MCGame({0},
  << <<MCQuiet(0)>>, <<MCQuiet(0)>>, <<>> >>,
  << <<>>, <<MCQuiet(0), MCBad>>, <<MCQuiet(1)>> >>)

\* The mates are reached from the plane's last cell, in a tile of its own.
MCLate == [MCWide EXCEPT
  !.moves = [s \in Sides |-> [c \in Cells |->
     IF c = PlaneSize - 1 THEN <<MCQuiet(IF s = "white" THEN 0 ELSE c)>> ELSE <<>>]]]

MCInvalid == [MCWide EXCEPT !.invalid = [s \in Sides |-> {PlaneSize - 1}]]
MCUnloadable == [MCWide EXCEPT !.loadable = FALSE]

MCGames == {MCWide, MCChain, MCDeep, MCBroken, MCLate, MCInvalid, MCUnloadable}
=============================================================================
