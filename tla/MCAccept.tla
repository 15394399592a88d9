------------------------------ MODULE MCAccept ------------------------------
(* Material 1 is published.  PR 1 brings material 3, which its author claimed,
   and may get worse; PR 2 brings it too, the published material 1 and material
   2, which somebody else claimed, and may come to differ. *)
EXTENDS Accept

MCLower == [n \in {"ada", "bob", "hfa", "hfb", "cyd", None} |-> n]
Pr(n, hf, login) == [num |-> n, author |-> hf, claim |-> NoNumber, login |-> login, materials |-> {}]
ClaimOf(i, a, ms) == [NoClaim EXCEPT !.issue = i, !.author = a, !.materials = ms, !.explicit = ms]
Good(f) == [files |-> f, good |-> TRUE]
Bad(f) == [files |-> f, good |-> FALSE]
One(m, c) == [k \in {m} |-> c]
Three(a, b, c) == <<a, b, c>>
World(runs, c, d) ==
  [heads |-> <<<<Good(One(3, "w")), Bad(One(3, "v"))>>,
               <<Good(Three("x", "z", "w")), Good(Three("y", "z", "w"))>>>>,
   pr |-> <<Pr(1, "hfa", "ada"), Pr(2, "hfb", "bob")>>, old |-> {},
   claims |-> {ClaimOf(3, "cyd", {2}), ClaimOf(4, "ada", {3})},
   published |-> One(1, "x"), people |-> {},
   runs |-> runs, maxCrashes |-> c, maxChanges |-> d, overlap |-> FALSE, busy |-> TRUE]
\* Two runs at a time; both PRs wait, PR 2 also has what is published.
MCOverlap ==
  [World({{1, 2}, {2}}, 1, 0) EXCEPT !.heads = <<<<Good(One(2, "z"))>>, <<Good(<<"x", "z">>)>>>>,
                                     !.claims = {ClaimOf(3, "cyd", {2})}, !.overlap = TRUE, !.busy = FALSE]
\* A PR that has nothing new at all.
MCAgain == [World({{2}}, 0, 0) EXCEPT !.heads[2] = <<Good(One(1, "x"))>>, !.claims = {}]
Quiet(w) == [w EXCEPT !.busy = FALSE]
\* A PR that lands in part, and again when the rest is free.
MCPart == Quiet([World({{2}}, 0, 1) EXCEPT !.claims = {ClaimOf(3, "cyd", {2})}])
MCWorlds == {Quiet(World({{1, 2}}, 1, 1)), World({{1, 2}}, 1, 0), World({{1}, {2}}, 0, 0),
             Quiet(World({{1, 2}, {2}}, 0, 0)), MCOverlap, MCAgain,
             MCPart}
MCRuns == {{1, 2}, {1}, {2}}

\* PR 1 waits with material 2 for its claim; PR 2 is another delivery.
MCHeldWorlds ==
  {[heads |-> <<<<Good(<<"x", "z">>)>>, <<Good(One(3, "w")), Good(One(3, "v"))>>>>,
    pr |-> <<Pr(1, "hfa", "ada"), Pr(2, "hfb", "bob")>>, old |-> {},
    claims |-> {ClaimOf(3, "cyd", {2})}, published |-> One(4, "u"), people |-> {},
    runs |-> {{1, 2}}, maxCrashes |-> 0, maxChanges |-> 1, overlap |-> FALSE, busy |-> TRUE]}
=============================================================================
