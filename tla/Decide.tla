------------------------------- MODULE Decide -------------------------------
(***************************************************************************)
(* What accept does with every material its PRs deliver: which PR's file   *)
(* is published, who is credited, what waits for a claim, what happens to  *)
(* each PR, and how the credits enter the registry.  Pure operators.       *)
(* A PR is its number; mats[n] are its materials, pays[n][m] the payload   *)
(* hash of its delivery (None in an older report).                         *)
(* Source: contrib/{accept,registry}.py.                                   *)
(***************************************************************************)
EXTENDS Claims

NoPr == 0
Maintainer == "maintainer"

-----------------------------------------------------------------------------
\* One decision per delivered material.

Decision(kind, from, producers, heldFor) ==
  [kind |-> kind, from |-> from, producers |-> producers, heldFor |-> heldFor]
Conflict == Decision("conflict", NoPr, {}, NoNumber)

Delivered(mats) == UNION {mats[n] : n \in DOMAIN mats}
DeliveriesOf(mats, m) == {n \in DOMAIN mats : m \in mats[n]}

\* Deliveries whose payload is needed for a comparison and missing.
Incomparable(ns, m, pays, published) ==
  /\ m \in published \/ \E n, k \in ns : n # k
  /\ \E n \in ns : pays[n][m] = None

ByHolder(ns, claim, logins) ==
  {n \in ns : claim # NoClaim /\ logins[n] # None /\ Same(logins[n], claim.author)}

DecideUnpublishedFree(ns, claim, logins, released) == Decision("new", MinOf(ns), ns, NoNumber)
\* A material nobody has published and whose deliveries agree.
DecideUnpublished(ns, claim, logins, released) ==
  LET holders == ByHolder(ns, claim, logins) IN
  IF claim # NoClaim /\ holders = {} /\ ~ released
    THEN Decision("held", NoPr, {}, claim.issue)
    ELSE Decision("new", MinOf(IF holders # {} THEN holders ELSE ns), ns, NoNumber)

\* Without looking at what is published.
DecideOneAfresh(ns, m, pays, published, hashes, index, logins, release) ==
  DecideUnpublished(ns, ClaimFor(index, m), logins, m \in release)
DecideOne(ns, m, pays, published, hashes, index, logins, release) ==
  CASE Incomparable(ns, m, pays, published) -> Conflict
    [] m \in published /\ ~ Incomparable(ns, m, pays, published) ->
         IF \A n \in ns : pays[n][m] = hashes[m]
           THEN Decision("reproduction", NoPr, ns, NoNumber) ELSE Conflict
    [] OTHER ->
         IF \E n, k \in ns : pays[n][m] # pays[k][m] THEN Conflict
         ELSE DecideUnpublished(ns, ClaimFor(index, m), logins, m \in release)

DecideAll(mats, pays, published, hashes, index, logins, release) ==
  [m \in Delivered(mats) |->
     DecideOne(DeliveriesOf(mats, m), m, pays, published, hashes, index, logins, release)]

-----------------------------------------------------------------------------
\* One PR under the decisions; own: materials an earlier run credited to it.

Pub(n, ms, decided) == {m \in ms : decided[m].from = n}
Held(ms, decided) == {m \in ms : decided[m].kind = "held"}
Credited(n, ms, decided, own) == ms \ (Pub(n, ms, decided) \cup Held(ms, decided) \cup own)

Action(n, ms, decided, own) ==
  LET pub == Pub(n, ms, decided)  held == Held(ms, decided) IN
  CASE pub # {} /\ held \cup Credited(n, ms, decided, own) \cup own = {} -> "merge"
    [] pub # {} /\ held # {} -> "copy_open"
    [] pub # {} /\ held = {} /\ Credited(n, ms, decided, own) \cup own # {} -> "copy_close"
    [] pub = {} /\ held # {} -> "comment"
    [] OTHER -> "close"

RecordedAll(ms, decided, own) == {m \in ms : m \notin own}
\* What the run records for the PR (_outcome).
Recorded(ms, decided, own) ==
  {m \in ms : decided[m].kind \in {"new", "reproduction"} /\ m \notin own}

-----------------------------------------------------------------------------
(* The registry: people (records of contributors), from (<<material, PR>>,
   the published file's delivery) and by (<<material, key, PR>>, a producer);
   an entry written before producers had a list has exactly the one. *)

EmptyRegistry == [people |-> {}, from |-> {}, by |-> {}]
Tables(reg) == {f[1] : f \in reg.from}
ProducersOf(reg, m) == {f \in reg.by : f[1] = m}

\* reg credits m to PR n already (_own_deliveries).
OwnDeliveries(regs, n, ms) ==
  {m \in ms : \E reg \in regs : \/ <<m, n>> \in reg.from
                                \/ \E f \in reg.by : f[1] = m /\ f[3] = n}

(* Crediting a run (_credit): who[n] is the person behind PR n, published[n]
   and recorded[n] what is published from it and credited to it. *)
Credits(prs, recorded) == {n \in prs : recorded[n] # {}}

\* Anonymity is for good: one wish hides the person from now on.
WithPeople(reg, prs, who, recorded) ==
  LET keys == {who[n].key : n \in Credits(prs, recorded)}
      Of(k) == {n \in Credits(prs, recorded) : who[n].key = k}
      Entry(k) ==
        LET known == {p \in reg.people : p.key = k}
            first == who[MinOf(Of(k))]
            p     == IF known # {} THEN CHOOSE q \in known : TRUE
                     ELSE [key |-> k, github |-> first.github, hf |-> first.hf, anonymous |-> FALSE]
        IN [p EXCEPT !.anonymous = @ \/ \E n \in Of(k) : who[n].anonymous]
  IN {p \in reg.people : p.key \notin keys} \cup {Entry(k) : k \in keys}

FilesOf(prs, published) == UNION {published[n] \X {n} : n \in prs}
CreditsOf(prs, who, recorded) ==
  UNION {{<<m, who[n].key, n>> : m \in recorded[n]} : n \in prs}

\* A published table the registry does not know is taken for the maintainer's own.
Unknown(reg, prs, published, recorded) ==
  (UNION {recorded[n] \ published[n] : n \in prs}) \ (Tables(reg) \cup UNION {published[n] : n \in prs})

Credit(reg, prs, who, published, recorded) ==
  LET files  == FilesOf(prs, published)
      theirs == Unknown(reg, prs, published, recorded)
  IN [people |-> WithPeople(reg, prs, who, recorded),
      from |-> {f \in reg.from : \A g \in files : f[1] # g[1]} \cup files \cup theirs \X {NoPr},
      by |-> reg.by \cup CreditsOf(prs, who, recorded)
                    \cup {<<m, Maintainer, NoPr>> : m \in theirs}]

\* Does the run have a line for CHANGELOG.md, that is, anything to commit?
HasLines(before, after, prs, published, recorded) ==
  \/ \E n \in prs : published[n] # {}
  \/ \E m \in UNION {recorded[n] : n \in prs} :
       /\ Cardinality(ProducersOf(after, m)) >= 2
       /\ ProducersOf(after, m) # ProducersOf(before, m)

\* What git makes of base, main moved on since, and the branch made from base.
ThreeWay(base, main, branch) ==
  [f \in {"people", "from", "by"} |->
     (main[f] \ (base[f] \ branch[f])) \cup (branch[f] \ base[f])]
=============================================================================
