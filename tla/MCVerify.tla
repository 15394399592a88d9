------------------------------ MODULE MCVerify ------------------------------
EXTENDS Verify, TLC

\* m2 needs m1, which it captures into.
MCMaterials == [m1 |-> [pawns |-> 0, pieces |-> 3, subs |-> {}],
                m2 |-> [pawns |-> 0, pieces |-> 4, subs |-> {"m1"}]]

\* right: a and b; a2 is consistent with nothing, b2 was computed from it.
MCBuilt == "a" :> <<>> @@ "b" :> [m1 |-> "a"] @@ "b2" :> [m1 |-> "a2"]
MCRight == [m1 |-> "a", m2 |-> "b"]

LOCAL Of(payload) == [payload |-> payload, sidecar |-> "ok"]
LOCAL Push1(files) == [files |-> files, tidy |-> TRUE]

A  == "m1" :> Of("a")
A2 == "m1" :> Of("a2")
As == "m1" :> [payload |-> "a", sidecar |-> "deepest"]
B  == "m2" :> Of("b")
B2 == "m2" :> Of("b2")

MCWorlds == {
  \* a table before the sub-table it was wrongly computed from
  [published |-> <<>>, trees |-> <<<<Push1(B2), Push1(B)>>, <<Push1(A), Push1(A2)>>>>,
   settings |-> {"many"}, full |-> {FALSE}],
  [published |-> <<>>, trees |-> <<<<Push1(A2), Push1(A)>>, <<Push1(B2)>>>>,
   settings |-> {"many"}, full |-> {FALSE}],
  \* beside the published one
  [published |-> A, trees |-> <<<<Push1(A2), Push1(A)>>, <<Push1(B2), Push1(B)>>>>,
   settings |-> {"many"}, full |-> {FALSE}],
  \* the same table twice, once with a made-up sidecar; one push is untidy
  [published |-> <<>>, trees |-> <<<<Push1(A), [files |-> A @@ B, tidy |-> FALSE]>>, <<Push1(As), Push1(A)>>>>,
   settings |-> {"few", "many"}, full |-> BOOLEAN]}

\* A table together with the sub-table it was computed from.
MCPairWorlds == {
  [published |-> <<>>, trees |-> <<<<Push1(A2 @@ B2), Push1(A @@ B2)>>>>,
   settings |-> {"many"}, full |-> {FALSE}],
  [published |-> A, trees |-> <<<<Push1(A2 @@ B2), Push1(B2)>>>>,
   settings |-> {"many"}, full |-> {FALSE}]}

\* What the proofs assume of the worlds, and where the last of it fails.
ASSUME MCHypotheses ==
  /\ NeverBack /\ StartsRight /\ ComputedRight
  /\ NoWrongPair <=> Worlds # MCPairWorlds
=============================================================================
