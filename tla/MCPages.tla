------------------------------ MODULE MCPages ------------------------------
(* Five materials: 1 with four unique positions (two of one idea, two of one board) and duals that
   are strict one depth down only (on a board that is also there with the other side to move), 2 a
   marker, 3 with two, 4 with duals only and 5 with one that
   probe contradicts, neither of which can be built. *)
EXTENDS Pages

MCMen(q, f, r) == {<<"K", 3, 3>>, <<"k", 6, 6>>, <<q, f, r>>}
MCCell(m, d, n, strict, men, white, rank) ==
  [material |-> m, dtm |-> d, count |-> n,
   starts |-> IF strict THEN n ELSE 1, ends |-> n, men |-> men, white |-> white,
   themes |-> IF m = 1 THEN {"t1", "t2"} ELSE {"t2"},
   probe |-> IF m = 5 THEN <<d, n + 1>> ELSE <<d, n>>,
   lines |-> [i \in 1..n |-> <<IF strict THEN i ELSE 1, i>>],
   capture |-> rank \in {2, 3}, check |-> rank \in {1, 3}, legal |-> rank # 4]

MCCells == <<
  MCCell(1, 4, 1, TRUE, MCMen("Q", 1, 1), <<"a", "b">>, 3),
  MCCell(1, 4, 1, TRUE, MCMen("Q", 1, 2), <<"a", "b">>, 1),
  MCCell(1, 4, 1, TRUE, MCMen("Q", 8, 1), <<"a", "c">>, 0),
  MCCell(1, 4, 1, TRUE, {<<"K", 6, 3>>, <<"k", 3, 6>>, <<"Q", 1, 1>>}, <<"c", "b">>, 0),
  MCCell(1, 5, 2, FALSE, MCMen("Q", 2, 5), <<"a", "b", "d">>, 0),
  MCCell(1, 3, 2, TRUE, MCMen("Q", 1, 2), <<"a", "d">>, 0),
  MCCell(3, 2, 1, TRUE, MCMen("P", 2, 4), <<"a">>, 2),
  MCCell(3, 2, 1, TRUE, MCMen("P", 7, 4), <<"b">>, 4),
  MCCell(4, 2, 2, TRUE, MCMen("N", 2, 4), <<"a">>, 0),
  MCCell(5, 2, 1, TRUE, MCMen("B", 2, 4), <<"a">>, 0)>>

MCOld(cs) == [built |-> TRUE, unique |-> cs, duals |-> <<>>, depth |-> 2]
MCPagesOld(ms) == [m \in 1..5 |-> IF m \notin ms THEN NoPage
                                  ELSE IF m = 2 THEN Marker
                                  ELSE MCOld(IF m = 1 THEN <<2>> ELSE <<8>>)]
MCWorld(old, missing, named, jobs, allow, tools, n) ==
  [old |-> MCPagesOld(old), missing |-> missing, named |-> named, jobs |-> jobs, allow |-> allow,
   docs |-> tools, faults |-> n]
MCWorlds == {MCWorld({1, 4, 5}, FALSE, {1, 2, 3}, 2, FALSE, FALSE, 1),
             MCWorld({2, 4, 5}, TRUE, {}, 2, FALSE, FALSE, 1),
             MCWorld({2, 3, 4, 5}, TRUE, {}, 1, FALSE, FALSE, 2),
             MCWorld({1, 2}, TRUE, {}, 2, TRUE, FALSE, 1),
             MCWorld({1, 2, 3, 4}, FALSE, {1}, 1, FALSE, TRUE, 1)}
MCPublishable == {{}, {3}, {2, 3}, {1, 3, 7}}
=============================================================================
