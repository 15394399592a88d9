---------------------------- MODULE MCRetrograde ----------------------------
(* Every slice of two cells per plane whose cells take their moves from a
   menu: in-slice moves, captures into sub-tables, double pushes with an
   en-passant reply, moves that cannot be looked up. *)
EXTENDS VerifyTable

MCNone       == [dtm |-> Unsolvable, count |-> 0]
MCVal(n, k)  == [dtm |-> n, count |-> k]
MCQuiet(c)   == [to |-> c, base |-> MCNone, ep |-> <<>>, ok |-> TRUE]
MCCapture(v) == [to |-> NoIndex, base |-> v, ep |-> <<>>, ok |-> TRUE]
MCPush(c, v) == [to |-> c, base |-> MCNone, ep |-> <<v>>, ok |-> TRUE]
MCBad        == [to |-> NoIndex, base |-> MCNone, ep |-> <<>>, ok |-> FALSE]

\* White's successors are Black's to move, so their sub-table values are even.
MCWhiteMenu ==
  { <<>>,
    <<MCQuiet(0)>>,
    <<MCQuiet(1), MCQuiet(0)>>,
    <<MCPush(0, MCVal(1, 2)), MCCapture(MCVal(2, 2))>>,
    <<MCCapture(MCVal(4, 1))>>,
    <<MCCapture(MCNone), MCBad>> }

MCBlackMenu ==
  { <<>>,
    <<MCQuiet(0), MCQuiet(0)>>,
    <<MCQuiet(1)>>,
    <<MCPush(1, MCVal(2, 2)), MCQuiet(0)>>,
    <<MCPush(1, MCVal(0, 1))>>,
    <<MCCapture(MCVal(1, 3)), MCCapture(MCVal(3, 1))>> }

\* A checkmated or invalid cell has no moves, an invalid one no predecessors.
MCLegal(g) ==
  /\ \A c \in g.mates : g.moves["black"][c] = <<>>
  /\ \A s \in Sides : \A c \in g.invalid[s] :
       /\ g.moves[s][c] = <<>>
       /\ \A p \in Cells : \A i \in DOMAIN g.moves[Opp(s)][p] : g.moves[Opp(s)][p][i].to # c

MCGame(m, x, w, b) ==
  [mates |-> m, loadable |-> TRUE,
   invalid |-> [s \in Sides |-> IF s = "black" THEN x ELSE {}],
   moves |-> [s \in Sides |-> IF s = "white" THEN w ELSE b]]

MCUnloadable == [MCGame({0}, {}, [c \in Cells |-> <<>>], [c \in Cells |-> <<>>])
                   EXCEPT !.loadable = FALSE]

MCGames ==
  {g \in {MCGame(m, x, w, b) : m \in {{}, {0}}, x \in {{}, {1}},
             w \in [Cells -> MCWhiteMenu], b \in [Cells -> MCBlackMenu]} : MCLegal(g)}
  \cup {MCUnloadable}

\* Made-up planes for some of the games: any value and count on every cell.
MCPairs  == {<<0, 1>>, <<1, 1>>, <<1, 2>>, <<2, 1>>, <<2, 2>>, <<3, 2>>, <<Unsolvable, 0>>}
MCMadeUp ==
  {<<[s \in Sides |-> [c \in Cells |-> v[s][c][1]]], [s \in Sides |-> [c \in Cells |-> v[s][c][2]]]>>
     : v \in [Sides -> [Cells -> MCPairs]]}

MCForged(g) ==
  IF /\ g.mates = {0} /\ g.invalid["black"] = {}
     /\ g.moves["white"] = [c \in Cells |-> IF c = 0 THEN <<MCQuiet(1), MCQuiet(0)>> ELSE <<>>]
     /\ g.moves["black"][1] \in {<<MCQuiet(1)>>, <<MCQuiet(0), MCQuiet(0)>>}
    THEN MCMadeUp ELSE {}
=============================================================================
