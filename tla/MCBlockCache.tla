---------------------------- MODULE MCBlockCache ----------------------------
(* Two tables of two default blocks each, one of them with a corrupt block, and
   one with larger blocks, its last one short, which cannot share. *)
EXTENDS BlockCache, TLC

MCTables == {[bytes |-> 4, block |-> 2, bad |-> {}],
             [bytes |-> 4, block |-> 2, bad |-> {1}],
             [bytes |-> 4, block |-> 3, bad |-> {}]}
MCSpans == {<<0, 1>>, <<2, 3>>, <<3, 4>>, <<1, 4>>}
MCSymmetry == Permutations(Threads)
=============================================================================
