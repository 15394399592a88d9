------------------------------ MODULE Problems ------------------------------
(***************************************************************************)
(* What a material page shows and what docs/DEEPEST.json offers: which     *)
(* positions of a table are chosen, checked, ranked and listed.  A cell is *)
(* one position of a table as `mine` reports it, together with what        *)
(* `probe` and `line --all` say of it.                                     *)
(* Source: tools/{build_problems,problem_picker,published_problems,        *)
(* deepest_showcase}.py.                                                   *)
(***************************************************************************)
EXTENDS Integers, FiniteSets, Sequences, SequencesExt, FiniteSetsExt

CONSTANT
  Cells   \* in the order of a scan: [material, dtm, count, starts, ends, men, white, themes,
          \*   probe, lines, capture, check, legal]; men: set of <<piece, file, rank>>, white: the
          \*   moves White plays, lines: <<first, last>> of every optimal line

None == 0
Ids == DOMAIN Cells
Of(m) == {c \in Ids : Cells[c].material = m}

-----------------------------------------------------------------------------
\* The depths of the sidecar's uniqueness map.
DepthsWith(m, n) == {Cells[c].dtm : c \in {x \in Of(m) : Cells[x].count = n}}
Deepest(ds) == IF ds = {} THEN None ELSE Max(ds)
DeepestDepth(m, n) == LET ds == DepthsWith(m, n) IN IF ds = {} THEN None ELSE Max(ds)

\* `mine` in scan order (its --max is above every table here): the i-th has i of them up to it.
Matching(m, depth, n, strict) ==
  {c \in Of(m) : /\ Cells[c].dtm = depth /\ Cells[c].count = n
                 /\ strict => Cells[c].starts = 2 /\ Cells[c].ends = 2}
Ranked(matches) ==
  [i \in 1..Cardinality(matches) |->
     CHOOSE c \in matches : Cardinality({d \in matches : d <= c}) = i]
Mine(m, depth, n, strict) == Ranked(Matching(m, depth, n, strict))

StrictDualDepth(m) ==
  Deepest({d \in DepthsWith(m, 2) : Mine(m, d, 2, TRUE) # <<>>})

-----------------------------------------------------------------------------
\* tools/problem_picker.py
SanEdits(a, b) ==
  LET edits[p \in (0..Len(a)) \X (0..Len(b))] ==
        IF p[1] = 0 \/ p[2] = 0 THEN p[1] + p[2]
        ELSE LET same == IF a[p[1]] = b[p[2]] THEN 0 ELSE 1
             IN Min({edits[<<p[1] - 1, p[2]>>] + 1, edits[<<p[1], p[2] - 1>>] + 1,
                     edits[<<p[1] - 1, p[2] - 1>>] + same})
  IN edits[<<Len(a), Len(b)>>]

MenApart(c, d) ==
  Cardinality((Cells[c].men \ Cells[d].men) \cup (Cells[d].men \ Cells[c].men)) \div 2

SameIdea(c, d) == Cells[c].white = Cells[d].white /\ MenApart(c, d) <= 1

\* A fraction <<numerator, denominator>>.
Less(f, g) == f[1] * g[2] < g[1] * f[2]
Larger(f, g) == IF Less(f, g) THEN g ELSE f
Distance(c, d) ==
  Larger(<<SanEdits(Cells[c].white, Cells[d].white),
           Max({1, Len(Cells[c].white), Len(Cells[d].white)})>>,
         <<MenApart(c, d), Cardinality(Cells[c].men)>>)

Distances == [c, d \in Ids |-> Distance(c, d)]

\* c is at least as far from everything chosen as d.
AsFar(c, d, chosen) ==
  \E k \in chosen : \A j \in chosen : ~ Less(Distances[c, j], Distances[d, k])

Limit == 3

\* One more of the candidates: not a twin of one chosen, the first in scan order of the farthest.
PickNext(cands, chosen) ==
  LET fresh == {i \in DOMAIN cands :
                  \A k \in ToSet(chosen) : cands[i] # k /\ ~ SameIdea(cands[i], k)}
      farthest == {i \in fresh : \A j \in fresh : AsFar(cands[i], cands[j], ToSet(chosen))}
  IN IF fresh = {} THEN chosen ELSE Append(chosen, cands[Min(farthest)])

\* Greedy max-min, from the seed or the first candidate.
Pick(cands, seed) ==
  LET first == IF seed \in ToSet(cands) THEN seed ELSE cands[1]
      More(chosen, n) == PickNext(cands, chosen)
  IN IF cands = <<>> THEN <<>> ELSE FoldLeft(More, <<first>>, [n \in 1..Limit - 1 |-> n])

-----------------------------------------------------------------------------
\* What `probe` and `line --all` say of a chosen position bears out what `mine` said.
Reprobed(c) == Cells[c].probe = <<Cells[c].dtm, Cells[c].count>>
LinesAgree(c) ==
  LET ls == Cells[c].lines
  IN /\ Len(ls) = Cells[c].count
     /\ Cardinality({ls[i][1] : i \in DOMAIN ls}) = Cells[c].starts
     /\ Cardinality({ls[i][2] : i \in DOMAIN ls}) = Cells[c].ends

NoPage == [built |-> FALSE]
Marker == [built |-> TRUE, unique |-> <<>>, duals |-> <<>>, depth |-> None]

Problem(c) == Reprobed(c) /\ LinesAgree(c)
Checked(doc) == IF \A c \in ToSet(doc.unique \o doc.duals) : Problem(c) THEN doc ELSE NoPage

\* The page of a material, NoPage where build_material raises: nothing to mine at (`--dtm None`),
\* or a chosen position the other commands do not bear out.  `seed`: DEEPEST.json's position.
BuildMaterial(m, seed) ==
  IF Of(m) = {} THEN Marker
  ELSE IF DepthsWith(m, 1) = {} THEN NoPage
  ELSE Checked([built |-> TRUE, depth |-> DeepestDepth(m, 1),
                unique |-> Pick(Mine(m, DeepestDepth(m, 1), 1, FALSE), seed),
                duals |-> Pick(Mine(m, StrictDualDepth(m), 2, TRUE), None)])

\* What a run adds to index.json and themes.json for one page.
RowsOf(m, doc) ==
  {[material |-> m, unique |-> Len(doc.unique), duals |-> Len(doc.duals), depth |-> doc.depth]}
EntriesOf(m, doc) ==
  LET shown(cs, kind) ==
        UNION {{[material |-> m, fen |-> c, kind |-> kind, theme |-> t] : t \in Cells[c].themes} :
               c \in ToSet(cs)}
  IN shown(doc.unique, "unique") \cup shown(doc.duals, "dual")

\* The rows or entries of materials a run did not process pass through untouched.
MergeIndex(existing, new, processed) == {r \in existing : r.material \notin processed} \cup new
MergeThemes(existing, new, processed) == {e \in existing : e.material \notin processed} \cup new

-----------------------------------------------------------------------------
\* tools/published_problems.py.  The boards a position can be shown as: with a pawn the left-right
\* mirror only, without one the eight symmetries of the square.
Turned(s, t) ==
  LET file == IF t.h THEN 9 - s[2] ELSE s[2]
      rank == IF t.v THEN 9 - s[3] ELSE s[3]
  IN IF t.transpose THEN <<s[1], rank, file>> ELSE <<s[1], file, rank>>
Mirrorings(men) ==
  LET sides == IF \E s \in men : s[1] \in {"P", "p"} THEN {FALSE} ELSE BOOLEAN
  IN {{Turned(s, t) : s \in men} : t \in [h : BOOLEAN, v : sides, transpose : sides]}

\* The same canonical key; whether the file of published problems has the position.
SameKey(c, d) == Cells[c].men \in Mirrorings(Cells[d].men)
Lookup(known, c) == {k \in known : SameKey(k, c)}

\* 0 best: check is the milder weakness, a first-move capture the more dramatic one, an illegal
\* diagram the worst.
Rank(c) ==
  CASE ~ Cells[c].legal -> 4
    [] Cells[c].legal /\ Cells[c].capture -> IF Cells[c].check THEN 3 ELSE 2
    [] OTHER -> IF Cells[c].check THEN 1 ELSE 0

\* A table lists a board with one side to move in one orientation only (generator.cpp:134, 166);
\* who moves is in the depth, since every mate has Black to move (generator.cpp:135).  So a scan of
\* one depth never meets a board twice with different weaknesses; two depths may.
ASSUME CellsAssumption ==
  /\ Len(Cells) \in Nat /\ Ids = 1 .. Len(Cells)
  /\ \A c \in Ids : /\ Cells[c].dtm \in Nat
                   /\ {Cells[c].legal, Cells[c].capture, Cells[c].check} \subseteq BOOLEAN
  /\ \A c, d \in Ids :
       SameKey(c, d) /\ Cells[c].material = Cells[d].material /\ Cells[c].dtm = Cells[d].dtm
         => Rank(c) = Rank(d)

\* What the FEN alone tells of the rank.
Floor(c) == IF ~ Cells[c].legal THEN 4 ELSE IF Cells[c].check THEN 1 ELSE 0

Scan(fen) == Mine(Cells[fen].material, Cells[fen].dtm, 1, FALSE)

\* One more of the scan: cheap checks first, nothing any more once a flawless one is found.
TakeSameBoard(best, c, fen, known) ==
  IF \/ best.rank = 0
     \/ SameKey(c, fen) \/ c \in known
     \/ Floor(c) >= best.rank
     \/ Rank(c) >= best.rank
  THEN best ELSE [fen |-> c, rank |-> Rank(c)]
Take(best, c, fen, known) ==
  IF \/ best.rank = 0
     \/ SameKey(c, fen) \/ Lookup(known, c) # {}
     \/ Floor(c) >= best.rank
     \/ Rank(c) >= best.rank
  THEN best ELSE [fen |-> c, rank |-> Rank(c)]

\* The best of the scan that ranks below `than`, None where there is none.
BestCandidate(fen, known, than) ==
  LET scan == Scan(fen)
      best[i \in 0..Len(scan)] ==
        IF i = 0 THEN [fen |-> None, rank |-> Min({than, 4})]
        ELSE Take(best[i - 1], scan[i], fen, known)
  IN best[Len(scan)].fen

\* An entry of DEEPEST.json; `from`: the position it replaced.
Entry(fen) == [fen |-> fen, published |-> {}, alternative |-> None, from |-> None]

AnnotateEntry(e, known) ==
  LET hits == Lookup(known, e.fen)
      better == BestCandidate(e.fen, known, Rank(e.fen))
  IN IF hits # {}
     THEN [e EXCEPT !.published = hits, !.alternative = BestCandidate(e.fen, known, 5)]
     ELSE IF Rank(e.fen) > 0 /\ better # None
     THEN [fen |-> better, published |-> {}, alternative |-> None,
           from |-> IF e.from = None THEN e.fen ELSE e.from]
     ELSE [e EXCEPT !.published = {}, !.alternative = None]

Annotate(entries, known) == [m \in DOMAIN entries |-> AnnotateEntry(entries[m], known)]

\* deepest_showcase: the sidecar's sample of the deepest unique positions, for every table that has
\* one and whose sample `probe` bears out; what an annotation said before is gone.
Sampled == {m \in {Cells[c].material : c \in Ids} :
              DeepestDepth(m, 1) # None /\ Reprobed(Mine(m, DeepestDepth(m, 1), 1, FALSE)[1])}
Showcase == [m \in Sampled |-> Entry(Mine(m, DeepestDepth(m, 1), 1, FALSE)[1])]
=============================================================================
