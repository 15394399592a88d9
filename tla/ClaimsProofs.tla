---------------------------- MODULE ClaimsProofs ----------------------------
(***************************************************************************)
(* Proofs about the claims bot and about the identity of a PR, for any     *)
(* claims, people, PRs, and any number of days and changes of the world.   *)
(* Two invariants of the bot: IInv is about what it has said and listed,   *)
(* MInv about what its comments and labels show of the world.              *)
(***************************************************************************)
EXTENDS Identity, WellFoundedInduction, FiniteSetTheorems, TLAPS

-----------------------------------------------------------------------------
\* First entries and earliest claims.

(* A set of numbers that is not empty has a least one, which is what `next` over a
   sorted list and `setdefault` return (claims.py:99-109). *)
LEMMA Least ==
  ASSUME NEW T \in SUBSET Nat, T # {}
  PROVE  \E m \in T : \A n \in T : m <= n
<1>1. IsWellFoundedOn(OpToRel(<, Nat), Nat)
  BY NatLessThanWellFounded
<1>2. PICK m \in T : \A n \in T : ~ (<<n, m>> \in OpToRel(<, Nat))
  BY <1>1, WFMin
<1>3. \A n \in T : ~ (n < m)
  BY <1>2 DEF OpToRel
<1> QED  BY <1>3

(* MinOf returns the least number of a set that is not empty. *)
LEMMA MinOfIs ==
  ASSUME NEW T \in SUBSET Nat, T # {}
  PROVE  MinOf(T) \in T /\ \A n \in T : MinOf(T) <= n
BY Least DEF MinOf

(* The first person at some places of a registry stands at one of them. *)
LEMMA FirstAtIs ==
  ASSUME NEW people, NEW places \in SUBSET Nat
  PROVE  /\ places = {} => FirstAt(people, places) = NoPerson
         /\ places # {} => \E i \in places : FirstAt(people, places) = people[i]
BY MinOfIs DEF FirstAt

(* The earliest of some claims is one of them, when there are any. *)
LEMMA EarliestIs ==
  ASSUME NEW claims, \A c \in claims : c.issue \in Nat
  PROVE  /\ claims = {} => Earliest(claims) = NoClaim
         /\ claims # {} => Earliest(claims) \in claims
<1>1. CASE claims = {}
  BY <1>1 DEF Earliest
<1>2. CASE claims # {}
  <2> DEFINE T == {c.issue : c \in claims}
  <2>1. T \in SUBSET Nat /\ T # {}
    BY <1>2
  <2>2. PICK m \in T : \A n \in T : m <= n
    BY <2>1, Least
  <2>3. \E c \in claims : \A d \in claims : c.issue <= d.issue
    BY <2>2
  <2> QED  BY <1>2, <2>3 DEF Earliest
<1> QED  BY <1>1, <1>2

-----------------------------------------------------------------------------
\* Whose PR it is, over any index and any registry.

\* The claims the programs hold: numbered, by someone, one for an issue.
IsIndex(index) ==
  /\ \A c \in index : c.issue \in Nat \ {NoNumber} /\ c.author # None
  /\ \A c, d \in index : c.issue = d.issue => c = d

\* The registry is a list.
IsRegistry(people) == DOMAIN people \subseteq Nat
OneEntryEach(people) ==
  \A i, j \in DOMAIN people :
    people[i].github # None /\ Same(people[i].github, people[j].github) =>
      people[j].github # None /\ people[i].key = people[j].key

(* by_github finds nobody, or someone registered under that login, in whatever
   spelling; nobody only when no one is (registry.py:41). *)
LEMMA ByGithubIs ==
  ASSUME NEW people, IsRegistry(people), NEW login
  PROVE  \/ /\ ByGithub(people, login) = NoPerson
            /\ \A i \in DOMAIN people :
                 people[i].github # None => ~ Same(people[i].github, login)
         \/ \E i \in DOMAIN people :
              /\ ByGithub(people, login) = people[i]
              /\ people[i].github # None /\ Same(people[i].github, login)
<1> DEFINE P == {i \in DOMAIN people : people[i].github # None /\ Same(people[i].github, login)}
<1>1. P \in SUBSET Nat
  BY DEF IsRegistry
<1>2. ByGithub(people, login) = FirstAt(people, P)
  BY DEF ByGithub
<1>3. /\ P = {} => FirstAt(people, P) = NoPerson
      /\ P # {} => \E i \in P : FirstAt(people, P) = people[i]
  BY <1>1, FirstAtIs
<1> QED  BY <1>2, <1>3

(* by_hf finds nobody or someone registered (registry.py:45). *)
LEMMA ByHfIs ==
  ASSUME NEW people, IsRegistry(people), NEW user
  PROVE  \/ ByHf(people, user) = NoPerson
         \/ \E i \in DOMAIN people : ByHf(people, user) = people[i] /\ people[i].hf # None
<1> DEFINE P == {i \in DOMAIN people : people[i].hf # None /\ Same(people[i].hf, user)}
<1>1. P \in SUBSET Nat
  BY DEF IsRegistry
<1>2. ByHf(people, user) = FirstAt(people, P)
  BY DEF ByHf
<1>3. /\ P = {} => FirstAt(people, P) = NoPerson
      /\ P # {} => \E i \in P : FirstAt(people, P) = people[i]
  BY <1>1, FirstAtIs
<1> QED  BY <1>2, <1>3

(* The earliest of some of an index's claims is one of them. *)
LEMMA EarliestOf ==
  ASSUME NEW index, IsIndex(index), NEW some \in SUBSET index
  PROVE  /\ some = {} => Earliest(some) = NoClaim
         /\ some # {} => Earliest(some) \in some
<1>1. \A c \in some : c.issue \in Nat
  BY DEF IsIndex
<1> QED  BY <1>1, EarliestIs

(* The claim that holds a material is an unconfirmed claim of it, and there is one
   when any claim holds it (claims.py:99-112). *)
LEMMA ClaimForIs ==
  ASSUME NEW index, IsIndex(index), NEW m
  PROVE  \/ ClaimFor(index, m) = NoClaim
         \/ ClaimFor(index, m) \in index /\ m \in ClaimFor(index, m).materials
BY EarliestOf DEF ClaimFor, Holders

(* The claim that speaks for a PR's identity is one of the index; the one it names, when it
   names one; by its login, when that is known; and there is one when a claim by that login
   has one of its materials (identity_claim, claims.py:205-225). *)
LEMMA IdentityClaimIs ==
  ASSUME NEW index, IsIndex(index), NEW people, NEW pr, NEW claim,
         claim = IdentityClaim(pr, index, people)
  PROVE  /\ claim = NoClaim \/ claim \in index
         /\ pr.claim # NoNumber /\ claim # NoClaim => claim.issue = pr.claim
         /\ pr.claim = NoNumber /\ LoginKnown(pr, people) # None =>
              /\ claim # NoClaim => Same(claim.author, LoginKnown(pr, people))
              /\ claim = NoClaim =>
                   \A c \in index : Same(c.author, LoginKnown(pr, people)) =>
                                      c.materials \cap pr.materials = {}
<1> DEFINE login == LoginKnown(pr, people)
           named == {c \in index : c.issue = pr.claim}
           own == {c \in index : Same(c.author, login) /\ c.materials \cap pr.materials # {}}
<1>0. /\ \A c \in index : c # NoClaim
      /\ named \in SUBSET index /\ own \in SUBSET index
  BY DEF IsIndex, NoClaim
<1>1. CASE pr.claim # NoNumber
  <2>1. claim = Earliest(named)
    BY <1>1 DEF IdentityClaim, NamedClaim
  <2>2. named = {} => claim = NoClaim
    BY <2>1, <1>0, EarliestOf
  <2>3. named # {} => claim \in named
    BY <2>1, <1>0, EarliestOf
  <2> QED  BY <1>1, <2>2, <2>3
<1>2. CASE pr.claim = NoNumber /\ login # None
  <2>1. claim = Earliest(own)
    BY <1>2 DEF IdentityClaim, OwnClaim
  <2>2. own = {} => claim = NoClaim
    BY <2>1, <1>0, EarliestOf
  <2>3. own # {} => claim \in own
    BY <2>1, <1>0, EarliestOf
  <2>4. claim = NoClaim => own = {}
    BY <2>3, <1>0
  <2>5. claim # NoClaim => claim \in own
    BY <2>2, <2>3
  <2> QED  BY <1>2, <2>4, <2>5
<1>3. CASE pr.claim = NoNumber /\ login = None
  <2>1. claim = UndeniedClaim(pr, index)
    BY <1>3 DEF IdentityClaim
  <2>2. \A m : ClaimFor(index, m) = NoClaim \/ ClaimFor(index, m) \in index
    BY ClaimForIs
  <2>3. claim = NoClaim \/ claim \in index
    BY <2>1, <2>2 DEF UndeniedClaim
  <2> QED  BY <1>3, <2>3
<1> QED  BY <1>1, <1>2, <1>3

\* The login resolve_contributor looks up.
LoginOf(pr, claim, override) ==
  IF override # None THEN override ELSE IF pr.login # None THEN pr.login ELSE claim.author

(* resolve_contributor credits someone with the login it looked up, in some spelling, or,
   without a login, whom the registry has for the Hugging Face user (registry.py:104). *)
LEMMA ResolvedIs ==
  ASSUME NEW people, IsRegistry(people), NEW pr, NEW claim, NEW override,
         NEW who, who = ResolveContributor(people, pr, claim, override)
  PROVE  /\ LoginOf(pr, claim, override) # None =>
              who.github # None /\ Same(who.github, LoginOf(pr, claim, override))
         /\ LoginOf(pr, claim, override) = None => who = ByHf(people, pr.author)
<1> DEFINE login == LoginOf(pr, claim, override)
           known == ByGithub(people, login)
<1>1. CASE login = None
  BY <1>1 DEF ResolveContributor, LoginOf
<1>2. CASE login # None /\ known # NoPerson
  <2>1. who = known
    BY <1>2 DEF ResolveContributor, LoginOf
  <2>2. known.github # None /\ Same(known.github, login)
    BY <1>2, ByGithubIs
  <2> QED  BY <1>2, <2>1, <2>2
<1>3. CASE login # None /\ known = NoPerson
  <2>1. who.github = login
    BY <1>3 DEF ResolveContributor, LoginOf
  <2> QED  BY <1>3, <2>1 DEF Same
<1> QED  BY <1>1, <1>2, <1>3

(* Whoever is registered under the credited login, in any spelling, is the one credited. *)
LEMMA ResolvedKey ==
  ASSUME NEW people, IsRegistry(people), OneEntryEach(people),
         NEW pr, NEW claim, NEW override,
         NEW who, who = ResolveContributor(people, pr, claim, override),
         NEW i \in DOMAIN people, people[i].github # None, Same(people[i].github, who.github),
         Lower[None] # Lower[people[i].github]
  PROVE  who.key = people[i].key
<1> DEFINE login == LoginOf(pr, claim, override)
           known == ByGithub(people, login)
           user == ByHf(people, pr.author)
<1>1. CASE login = None
  <2>1. who = user
    BY <1>1 DEF ResolveContributor, LoginOf
  <2>2. CASE user = NoPerson
    BY <2>1, <2>2 DEF NoPerson, Same
  <2>3. CASE \E j \in DOMAIN people : user = people[j]
    BY <2>1, <2>3 DEF OneEntryEach, Same
  <2> QED  BY <2>2, <2>3, ByHfIs
<1>2. CASE login # None /\ known # NoPerson
  <2>1. who = known
    BY <1>2 DEF ResolveContributor, LoginOf
  <2>2. PICK j \in DOMAIN people : known = people[j]
    BY <1>2, ByGithubIs
  <2> QED  BY <2>1, <2>2 DEF OneEntryEach
<1>3. CASE login # None /\ known = NoPerson
  <2>1. who.github = login
    BY <1>3 DEF ResolveContributor, LoginOf
  <2>2. known = people[i] \/ ~ Same(people[i].github, login) \/ \E j \in DOMAIN people :
             known = people[j] /\ people[j].github # None
    BY ByGithubIs
  <2>3. ~ \E j \in DOMAIN people : known = people[j] /\ people[j].github # None
    BY <1>3 DEF NoPerson
  <2> QED  BY <2>1, <2>2, <2>3, <1>3 DEF NoPerson
<1> QED  BY <1>1, <1>2, <1>3

(* What is found out about a PR that is not refused: whom it is credited to, and that no
   clue speaks against the claim it is recorded with (accept.py:483). *)
LEMMA IdentifiedIs ==
  ASSUME NEW pr, NEW index, NEW people, NEW override, NEW seen,
         ~ Identified(pr, index, people, override, seen).refused
  PROVE  LET who == Identified(pr, index, people, override, seen)
             claim == IdentityClaim(pr, index, people)
             credited == ResolveContributor(people, pr, claim, override)
         IN /\ who.key = credited.key /\ who.github = credited.github /\ who.claim = claim.issue
            /\ credited # NoPerson
            /\ claim # NoClaim /\ override = None => ~ OwnershipConflict(pr, claim, people)
<1> DEFINE who == Identified(pr, index, people, override, seen)
           claim == IdentityClaim(pr, index, people)
           credited == ResolveContributor(people, pr, claim, override)
           no == \/ claim # NoClaim /\ override = None /\ OwnershipConflict(pr, claim, people)
                 \/ credited = NoPerson
                 \/ KeyTaken(people, credited, seen)
           asks == /\ claim.anonymous /\ credited.github # None
                   /\ Same(claim.author, credited.github)
           found == [key |-> credited.key, github |-> credited.github, hf |-> credited.hf,
                     anonymous |-> credited.anonymous \/ asks,
                     claim |-> claim.issue, refused |-> FALSE]
<1>1. who = IF no THEN Refused ELSE found
  BY DEF Identified
<1>2. ~ no
  BY <1>1 DEF Refused
<1>3. who = found
  BY <1>1, <1>2
<1>4. who.key = credited.key /\ who.github = credited.github /\ who.claim = claim.issue
  BY <1>3
<1>5. /\ credited # NoPerson
      /\ claim # NoClaim /\ override = None => ~ OwnershipConflict(pr, claim, people)
  BY <1>2
<1> QED  BY <1>4, <1>5

(* A wish in the claim not to be named counts when the claim is by the credited login. *)
LEMMA AnonymousIs ==
  ASSUME NEW pr, NEW index, NEW people, NEW override, NEW seen,
         NEW who, who = Identified(pr, index, people, override, seen), ~ who.refused,
         NEW claim, claim = IdentityClaim(pr, index, people),
         NEW credited, credited = ResolveContributor(people, pr, claim, override),
         claim.anonymous, credited.github # None, Same(claim.author, credited.github)
  PROVE  who.anonymous
<1> DEFINE no == \/ claim # NoClaim /\ override = None /\ OwnershipConflict(pr, claim, people)
                 \/ credited = NoPerson
                 \/ KeyTaken(people, credited, seen)
           asks == /\ claim.anonymous /\ credited.github # None
                   /\ Same(claim.author, credited.github)
           found == [key |-> credited.key, github |-> credited.github, hf |-> credited.hf,
                     anonymous |-> credited.anonymous \/ asks,
                     claim |-> claim.issue, refused |-> FALSE]
<1>1. who = IF no THEN Refused ELSE found
  BY DEF Identified
<1>2. ~ no
  BY <1>1 DEF Refused
<1>3. who = found
  BY <1>1, <1>2
<1>4. who.anonymous = (credited.anonymous \/ asks)
  BY <1>3
<1> QED  BY <1>4, Zenon

(* Two logins that are one make the same of a claim. *)
LEMMA SameIsEquivalence ==
  ASSUME NEW a, NEW b, NEW c, Same(a, b)
  PROVE  Same(b, a) /\ (Same(a, c) <=> Same(b, c)) /\ (Same(c, a) <=> Same(c, b))
BY DEF Same

(* verify's pr_login is the login accept credits, or neither has one (verify.py:220). *)
LEMMA LoginsAgree ==
  ASSUME NEW pr, NEW index, IsIndex(index), NEW people, IsRegistry(people),
         NEW who, who = Identified(pr, index, people, None, NoKeys), ~ who.refused
  PROVE  /\ Same(PrLogin(pr, index, people), who.github)
         /\ PrLogin(pr, index, people) = None <=> who.github = None
<1> DEFINE claim == IdentityClaim(pr, index, people)
           credited == ResolveContributor(people, pr, claim, None)
           known == ByHf(people, pr.author)
           login == PrLogin(pr, index, people)
<1>1. /\ who.github = credited.github
      /\ claim # NoClaim => ~ OwnershipConflict(pr, claim, people)
  BY IdentifiedIs
<1>2. /\ LoginOf(pr, claim, None) # None =>
           credited.github # None /\ Same(credited.github, LoginOf(pr, claim, None))
      /\ LoginOf(pr, claim, None) = None => credited = known
  BY ResolvedIs
<1>3. claim = NoClaim \/ claim.author # None
  BY IdentityClaimIs DEF IsIndex
<1>4. CASE pr.login # None
  <2>1. login = pr.login /\ LoginOf(pr, claim, None) = pr.login
    BY <1>4 DEF PrLogin, LoginOf
  <2> QED  BY <1>1, <1>2, <1>4, <2>1 DEF Same
<1>5. CASE pr.login = None /\ claim = NoClaim
  <2>1. LoginOf(pr, claim, None) = None
    BY <1>5 DEF LoginOf, NoClaim
  <2>2. credited = known
    BY <1>2, <2>1
  <2>3. login = known.github
    BY <1>5 DEF PrLogin, NoClaim
  <2> QED  BY <1>1, <2>2, <2>3 DEF Same
<1>6. CASE pr.login = None /\ claim # NoClaim
  <2>1. LoginOf(pr, claim, None) = claim.author /\ claim.author # None
    BY <1>3, <1>6 DEF LoginOf
  <2>2. credited.github # None /\ Same(credited.github, claim.author)
    BY <1>2, <2>1
  <2>3. known.github # None => Same(known.github, claim.author)
    BY <1>1, <1>6 DEF OwnershipConflict
  <2>4. login = IF known.github # None THEN known.github ELSE claim.author
    BY <1>6 DEF PrLogin
  <2> QED  BY <1>1, <2>1, <2>2, <2>3, <2>4 DEF Same
<1> QED  BY <1>4, <1>5, <1>6

(* What verify reports as held and what the claims bot shows as held, for a PR whose login is
   known without a claim, is what accept will hold (verify.py:220, claims.py:230). *)
LEMMA Agreement ==
  ASSUME NEW pr, NEW index, IsIndex(index), NEW people, IsRegistry(people),
         NEW who, who = Identified(pr, index, people, None, NoKeys), ~ who.refused,
         NEW m \in pr.materials
  PROVE  /\ HeldByVerify(m, index, PrLogin(pr, index, people)) <=> HeldByAccept(m, index, who)
         /\ pr.claim = NoNumber /\ LoginKnown(pr, people) # None =>
              (HeldByBot(pr, m, index, people) <=> HeldByAccept(m, index, who))
<1> DEFINE first == ClaimFor(index, m)
           claim == IdentityClaim(pr, index, people)
           credited == ResolveContributor(people, pr, claim, None)
           known == ByHf(people, pr.author)
           login == LoginKnown(pr, people)
<1>1. HeldByVerify(m, index, PrLogin(pr, index, people)) <=> HeldByAccept(m, index, who)
  BY LoginsAgree DEF HeldByVerify, HeldByAccept, Same
<1>2. ASSUME pr.claim = NoNumber, login # None
      PROVE  HeldByBot(pr, m, index, people) <=> HeldByAccept(m, index, who)
  <2>1. PrLogin(pr, index, people) = login
    BY <1>2 DEF PrLogin, LoginKnown
  <2>2. Same(login, who.github) /\ who.github # None
    BY <1>2, <2>1, LoginsAgree
  <2>3. /\ claim # NoClaim => Same(claim.author, login)
        /\ claim = NoClaim =>
             \A c \in index : Same(c.author, login) => c.materials \cap pr.materials = {}
    BY <1>2, IdentityClaimIs
  <2>4. claim # NoClaim => ~ OwnershipConflict(pr, claim, people)
    BY IdentifiedIs
  <2>5. CASE first = NoClaim
    BY <2>5 DEF HeldByBot, HeldByAccept
  <2>6. CASE first # NoClaim
    <3>1. first \in index /\ m \in first.materials
      BY <2>6, ClaimForIs
    <3>2. HeldByAccept(m, index, who) <=> ~ Same(first.author, login)
      BY <2>2, <2>6 DEF HeldByAccept, Same
    <3>3. HeldByBot(pr, m, index, people) <=>
            \/ pr.login # None /\ ~ Same(pr.login, first.author)
            \/ known.github # None /\ ~ Same(known.github, first.author)
      BY <1>2, <2>6 DEF HeldByBot, OwnershipConflict
    <3>4. CASE pr.login = None
      BY <3>2, <3>3, <3>4, <1>2 DEF LoginKnown, Same
    <3>5. CASE pr.login # None
      <4>1. login = pr.login
        BY <3>5 DEF LoginKnown
      <4>2. CASE claim = NoClaim
        <5>1. ~ Same(first.author, login)
          BY <2>3, <3>1, <4>2
        <5> QED  BY <3>2, <3>3, <3>5, <4>1, <5>1 DEF Same
      <4>3. CASE claim # NoClaim
        <5>1. known.github # None => Same(known.github, claim.author)
          BY <2>4, <4>3 DEF OwnershipConflict
        <5>2. Same(claim.author, login)
          BY <2>3, <4>3
        <5> QED  BY <3>2, <3>3, <3>5, <4>1, <5>1, <5>2 DEF Same
      <4> QED  BY <4>2, <4>3
    <3> QED  BY <3>4, <3>5
  <2> QED  BY <2>5, <2>6
<1> QED  BY <1>1, <1>2

(* A claim recorded with a PR is the credited person's, and a wish in it not to be named is
   kept (claims.py:205, accept.py:504). *)
LEMMA TheirClaim ==
  ASSUME NEW pr, NEW index, IsIndex(index), NEW people, IsRegistry(people),
         NEW who, who = Identified(pr, index, people, None, NoKeys), ~ who.refused,
         who.claim # NoNumber
  PROVE  /\ \E c \in index : c.issue = who.claim /\ Same(c.author, who.github)
         /\ \A c \in index : c.issue = who.claim /\ c.anonymous => who.anonymous
<1> DEFINE claim == IdentityClaim(pr, index, people)
           credited == ResolveContributor(people, pr, claim, None)
<1>1. /\ who.github = credited.github /\ who.claim = claim.issue
      /\ claim # NoClaim => ~ OwnershipConflict(pr, claim, people)
  <2>1. who.github = credited.github
    BY IdentifiedIs
  <2>2. who.claim = claim.issue
    BY IdentifiedIs
  <2>3. claim # NoClaim => ~ OwnershipConflict(pr, claim, people)
    BY IdentifiedIs
  <2> QED  BY <2>1, <2>2, <2>3
<1>2. claim # NoClaim
  BY <1>1 DEF NoClaim
<1>3. claim \in index /\ claim.author # None
  BY <1>2, IdentityClaimIs DEF IsIndex
<1>4. LoginOf(pr, claim, None) # None /\ Same(claim.author, LoginOf(pr, claim, None))
  BY <1>1, <1>2, <1>3 DEF LoginOf, OwnershipConflict, Same
<1>5. who.github # None /\ Same(claim.author, who.github)
  <2>1. credited.github # None /\ Same(credited.github, LoginOf(pr, claim, None))
    BY <1>4, ResolvedIs
  <2> QED  BY <1>1, <1>4, <2>1 DEF Same
<1>6. \A c \in index : c.issue = who.claim => c = claim
  BY <1>1, <1>3 DEF IsIndex
<1>7. claim.anonymous => who.anonymous
  <2> SUFFICES ASSUME claim.anonymous PROVE who.anonymous
    OBVIOUS
  <2>1. credited.github = who.github
    BY <1>1
  <2> QED  BY <1>5, <2>1, AnonymousIs
<1> QED  BY <1>1, <1>3, <1>5, <1>6, <1>7

-----------------------------------------------------------------------------
\* The inductive invariant.

Fields == {"number", "author", "plain", "wild", "title", "struck", "hf", "anonymous", "confirm",
           "created", "spoke", "touched"}
Issue(i) == i = [f \in Fields |-> i[f]]

\* Open issues are numbered as they are filed, each by someone.
Filed(is, on) ==
  /\ DOMAIN is = Numbers /\ on \subseteq Numbers
  /\ \A n \in Numbers : Issue(is[n])
  /\ \A n \in on : is[n].number = n /\ is[n].author # None

Issues == setting \in Settings /\ Filed(issues, open)

SnapFields == {"day", "issues", "open", "done", "inReview"}
Snapped ==
  /\ snap = [f \in SnapFields |-> snap[f]]
  /\ Filed(snap.issues, snap.open)

One(s) == s = <<>> \/ s = <<s[1]>>
NoRepeat(s) == \A i, j \in DOMAIN s : s[i] = s[j] => i = j
Named(s) == {s[i] : i \in DOMAIN s}

\* What the bot has said of each issue.
Said ==
  /\ status = [n \in Numbers |-> status[n]] /\ \A n \in Numbers : One(status[n])
  /\ notices \in [Numbers -> Seq(Nat)] /\ \A n \in Numbers : NoRepeat(notices[n])

\* What it has listed of the claim in hand is what there is: nobody else writes it.
ReadFields == {"status", "notices", "told", "spoke"}
Listed(n) ==
  /\ read = [f \in ReadFields |-> read[f]]
  /\ at = "status" => read.status = status[n]
  /\ at \in {"status", "overlap"} => Named(notices[n]) = read.notices \cup read.told
InHand == at \in {"status", "overlap"} /\ Here \in Numbers => Listed(Here)

IInv == Issues /\ Snapped /\ Said /\ InHand

-----------------------------------------------------------------------------
\* Lemmas about the pieces.

(* The numbers issues may have are numbers, and none is NoNumber. *)
LEMMA NumbersAreNat == Numbers \subseteq Nat \ {NoNumber}
BY BotAssumption DEF Numbers

(* A first comment, or the one there is edited, is the only one. *)
LEMMA OnlyOne ==
  ASSUME NEW s, One(s), NEW t
  PROVE  (IF s = <<>> THEN Append(s, t) ELSE [s EXCEPT ![1] = t]) = <<t>>
<1>1. CASE s = <<>>
  BY <1>1
<1>2. CASE s # <<>>
  <2> DEFINE x == s[1]
  <2>1. s = <<x>>
    BY <1>2 DEF One
  <2> HIDE DEF x
  <2> QED  BY <2>1
<1> QED  BY <1>1, <1>2

(* A list of at most one comment stays one when the bot posts or edits its own. *)
LEMMA OneKept ==
  ASSUME NEW s, One(s), NEW t
  PROVE  One(IF s = <<>> THEN Append(s, t) ELSE [s EXCEPT ![1] = t])
BY OnlyOne DEF One

(* A notice not yet there is no repetition, and it is then among those named. *)
LEMMA NoticeAdded ==
  ASSUME NEW s \in Seq(Nat), NoRepeat(s), NEW e \in Nat, e \notin Named(s)
  PROVE  /\ Append(s, e) \in Seq(Nat) /\ NoRepeat(Append(s, e))
         /\ Named(Append(s, e)) = Named(s) \cup {e}
<1> DEFINE t == Append(s, e)
<1>1. /\ t \in Seq(Nat) /\ Len(t) = Len(s) + 1
      /\ DOMAIN s = 1 .. Len(s) /\ DOMAIN t = 1 .. (Len(s) + 1) /\ Len(s) \in Nat
      /\ \A i \in 1 .. Len(s) : t[i] = s[i]
      /\ t[Len(s) + 1] = e
  OBVIOUS
<1> HIDE DEF t
<1>2. NoRepeat(t)
  BY <1>1 DEF NoRepeat, Named
<1>3. Named(t) = Named(s) \cup {e}
  BY <1>1 DEF Named
<1> QED  BY <1>1, <1>2, <1>3 DEF t

(* The claims read from filed issues make an index. *)
LEMMA FiledIndex ==
  ASSUME NEW is, NEW on, Filed(is, on)
  PROVE  IsIndex({Parsed(is[n]) : n \in on})
<1>1. \A n \in on : /\ Parsed(is[n]).issue = n /\ Parsed(is[n]).author # None
                    /\ n \in Nat \ {NoNumber}
  BY NumbersAreNat DEF Filed, Parsed
<1> QED  BY <1>1 DEF IsIndex

(* The world's changes leave what the run keeps and the bot said alone. *)
LEMMA WorldKeeps ==
  ASSUME UNCHANGED <<github, run>>, Said, InHand, Snapped
  PROVE  Said' /\ InHand' /\ Snapped'
BY DEF github, run, Said, InHand, Snapped, Listed, Here

(* A step of the run leaves the issues alone. *)
LEMMA IssuesKept ==
  ASSUME UNCHANGED <<setting, world>>, Issues
  PROVE  Issues'
BY DEF world, Issues

-----------------------------------------------------------------------------
\* The steps of the world.

Struck(i, s, d) == [i EXCEPT !.struck = s, !.touched = d]
Spoken(i, d) == [i EXCEPT !.spoke = d, !.touched = d]

(* An issue keeps its number and its author whatever is edited in it. *)
LEMMA EditedIs ==
  ASSUME NEW i, Issue(i), NEW s, NEW d
  PROVE  /\ Issue(Struck(i, s, d)) /\ Struck(i, s, d).number = i.number
         /\ Struck(i, s, d).author = i.author
BY DEF Issue, Fields, Struck

(* And whatever its author adds. *)
LEMMA CommentedIs ==
  ASSUME NEW i, Issue(i), NEW d
  PROVE  /\ Issue(Spoken(i, d)) /\ Spoken(i, d).number = i.number
         /\ Spoken(i, d).author = i.author
BY DEF Issue, Fields, Spoken

(* Issues that change in what is not their number or author stay filed. *)
LEMMA FiledKept ==
  ASSUME NEW is, NEW on, Filed(is, on), NEW n \in on, NEW i,
         Issue(i), i.number = is[n].number, i.author = is[n].author
  PROVE  Filed([is EXCEPT ![n] = i], on)
BY DEF Filed

\* Before the first run nothing has been said, and the open issues are filed.
LEMMA InitInvariant == ASSUME Init PROVE IInv
<1>1. setting \in Settings /\ setting.opened \subseteq Numbers
  BY BotAssumption DEF Init, Numbers
<1>2. PICK b \in [setting.opened -> UNION {setting.drafts[n] : n \in setting.opened}] :
        /\ \A n \in setting.opened : b[n] \in setting.drafts[n]
        /\ issues = [n \in Numbers |-> IF n \in setting.opened THEN Written(n, b[n], 0)
                                                                ELSE Unopened]
  BY DEF Init
<1>3. \A n \in Numbers : Issue(issues[n])
  <2>1. \A n, c : Issue(Written(n, c, 0))
    BY DEF Issue, Fields, Written
  <2>2. Issue(Unopened)
    BY DEF Issue, Fields, Unopened
  <2> QED  BY <1>2, <2>1, <2>2
<1>4. \A n \in setting.opened : issues[n].number = n /\ issues[n].author # None
  <2>1. \A n, c : Written(n, c, 0).number = n /\ Written(n, c, 0).author = c.author
    BY DEF Written
  <2>2. \A n \in setting.opened : b[n].author # None
    BY <1>1, <1>2, BotAssumption
  <2>3. \A n \in setting.opened : issues[n] = Written(n, b[n], 0)
    BY <1>1, <1>2
  <2> QED  BY <2>1, <2>2, <2>3
<1>5. Filed(issues, setting.opened) /\ Filed(issues, {})
  BY <1>1, <1>2, <1>3, <1>4 DEF Filed
<1>6. Issues
  BY <1>1, <1>5 DEF Issues, Init
<1>7. Snapped
  BY <1>5 DEF Snapped, SnapFields, Init
<1>8. Said
  <2>1. status = [n \in Numbers |-> <<>>] /\ notices = [n \in Numbers |-> <<>>]
    BY DEF Init
  <2> QED  BY <2>1 DEF Said, One, NoRepeat
<1>9. InHand
  BY DEF Init, InHand
<1> QED  BY <1>6, <1>7, <1>8, <1>9 DEF IInv

\* A new claim is filed under its number; the run in progress does not see it.
LEMMA OpenIssueStep == ASSUME IInv, NEW n \in Numbers, OpenIssue(n) PROVE IInv'
<1>1. UNCHANGED <<setting, github, run>>
  BY DEF OpenIssue, Change
<1>2. Said' /\ InHand' /\ Snapped'
  BY <1>1, WorldKeeps DEF IInv
<1>3. PICK b \in setting.drafts[n] : issues' = [issues EXCEPT ![n] = Written(n, b, day)]
  BY DEF OpenIssue
<1>4. open' = open \cup {n} /\ n \in DOMAIN setting.drafts
  BY DEF OpenIssue
<1> DEFINE w == Written(n, b, day)
<1>5. Issue(w) /\ w.number = n /\ w.author = b.author
  BY DEF Written, Issue, Fields
<1>6. b.author # None
  BY <1>4, BotAssumption DEF IInv, Issues
<1> HIDE DEF w
<1>7. Filed(issues', open')
  BY <1>3, <1>4, <1>5, <1>6 DEF IInv, Issues, Filed, w
<1> QED  BY <1>1, <1>2, <1>7 DEF IInv, Issues

\* Releasing a material changes neither number nor author.
LEMMA StrikeStep ==
  ASSUME IInv, NEW n \in Numbers, NEW m \in Materials, Strike(n, m) PROVE IInv'
<1>1. UNCHANGED <<setting, github, run, open>> /\ n \in open
  BY DEF Strike, Change
<1>2. Said' /\ InHand' /\ Snapped'
  BY <1>1, WorldKeeps DEF IInv
<1> DEFINE i == issues[n]
           j == Struck(i, i.struck \cup {m}, IF m \in i.title THEN i.touched ELSE day)
<1>3. issues' = [issues EXCEPT ![n] = j]
  BY DEF Strike, Struck
<1>4. Filed(issues, open) /\ Issue(i)
  BY <1>1 DEF IInv, Issues, Filed
<1> HIDE DEF i
<1>5. Issue(j) /\ j.number = i.number /\ j.author = i.author
  BY <1>4, EditedIs
<1> HIDE DEF j
<1>6. Filed(issues', open')
  BY <1>1, <1>3, <1>4, <1>5, FiledKept DEF i
<1> QED  BY <1>1, <1>2, <1>6 DEF IInv, Issues

\* Nor does a comment.
LEMMA CommentStep == ASSUME IInv, NEW n \in Numbers, AuthorComments(n) PROVE IInv'
<1>1. UNCHANGED <<setting, github, run, open>> /\ n \in open
  BY DEF AuthorComments, Change
<1>2. Said' /\ InHand' /\ Snapped'
  BY <1>1, WorldKeeps DEF IInv
<1> DEFINE i == issues[n]
           j == Spoken(i, day)
<1>3. issues' = [issues EXCEPT ![n] = j]
  BY DEF AuthorComments, Spoken
<1>4. Filed(issues, open) /\ Issue(i)
  BY <1>1 DEF IInv, Issues, Filed
<1> HIDE DEF i
<1>5. Issue(j) /\ j.number = i.number /\ j.author = i.author
  BY <1>4, CommentedIs
<1> HIDE DEF j
<1>6. Filed(issues', open')
  BY <1>1, <1>3, <1>4, <1>5, FiledKept DEF i
<1> QED  BY <1>1, <1>2, <1>6 DEF IInv, Issues

\* A closed issue is no longer among the open ones; the rest is as it was.
LEMMA CloseStep == ASSUME IInv, NEW n \in Numbers, CloseFinished(n) PROVE IInv'
<1>1. UNCHANGED <<setting, github, run, issues>> /\ open' = open \ {n}
  BY DEF CloseFinished, Change
<1>2. Said' /\ InHand' /\ Snapped'
  BY <1>1, WorldKeeps DEF IInv
<1> QED  BY <1>1, <1>2 DEF IInv, Issues, Filed

(* The other steps that are not the run's leave issues, run and bot alone. *)
LEMMA OtherStep ==
  ASSUME IInv, \/ NextDay
               \/ \E p \in setting.prs : OpenPr(p)
               \/ \E m \in Materials, logins \in Producers : Publish(m, logins)
  PROVE  IInv'
<1>1. UNCHANGED <<setting, github, run, issues, open>>
  BY DEF NextDay, OpenPr, Publish, Change, world
<1>2. Said' /\ InHand' /\ Snapped'
  BY <1>1, WorldKeeps DEF IInv
<1> QED  BY <1>1, <1>2 DEF IInv, Issues

-----------------------------------------------------------------------------
\* The steps of a run.

(* Between claims nothing of the next one has been listed. *)
LEMMA NextClaimInHand == ASSUME NextClaim PROVE InHand'
BY DEF NextClaim, InHand

\* The run's snapshot holds the issues as they are filed now.
LEMMA StartStep == ASSUME IInv, StartRun PROVE IInv'
<1>1. UNCHANGED <<setting, world, github>> /\ at' = "manifest"
  BY DEF StartRun
<1>2. snap' = [snap EXCEPT !.day = day, !.issues = issues, !.open = open]
  BY DEF StartRun
<1>3. Issues' /\ InHand'
  BY <1>1, IssuesKept DEF IInv, InHand
<1>4. Said'
  BY <1>1 DEF github, IInv, Said
<1>5. Snapped'
  BY <1>2 DEF IInv, Issues, Snapped, SnapFields
<1> QED  BY <1>3, <1>4, <1>5 DEF IInv

\* The manifest goes into the snapshot.
LEMMA ReadManifestStep == ASSUME IInv, ReadManifest PROVE IInv'
<1>1. UNCHANGED <<setting, world, github>> /\ at' = "prs" /\ snap' = [snap EXCEPT !.done = done]
  BY DEF ReadManifest, Proceed
<1>2. Issues' /\ InHand'
  BY <1>1, IssuesKept DEF IInv, InHand
<1>3. Said'
  BY <1>1 DEF github, IInv, Said
<1>4. Snapped'
  BY <1>1 DEF IInv, Snapped, SnapFields
<1> QED  BY <1>2, <1>3, <1>4 DEF IInv

\* So do the open PRs.
LEMMA ReadPrsStep == ASSUME IInv, ReadPrs PROVE IInv'
<1>1. /\ UNCHANGED <<setting, world, github>> /\ at' \in {"idle", "comments"}
      /\ snap' = [snap EXCEPT !.inReview = inReview]
  BY DEF ReadPrs, Proceed
<1>2. Issues' /\ InHand'
  BY <1>1, IssuesKept DEF IInv, InHand
<1>3. Said'
  BY <1>1 DEF github, IInv, Said
<1>4. Snapped'
  BY <1>1 DEF IInv, Snapped, SnapFields
<1> QED  BY <1>2, <1>3, <1>4 DEF IInv

\* What is listed is what there is on the claim in hand.
LEMMA ReadCommentsStep == ASSUME IInv, ReadComments PROVE IInv'
<1>1. UNCHANGED <<setting, world, github, snap, todo>> /\ at' = "status"
  BY DEF ReadComments
<1>2. read' = [status |-> status[Here],
               notices |-> {notices[Here][i] : i \in DOMAIN notices[Here]},
               told |-> {}, spoke |-> issues[Here].spoke]
  BY DEF ReadComments
<1>3. Issues' /\ Said' /\ Snapped'
  BY <1>1, IssuesKept DEF github, IInv, Said, Snapped
<1>4. InHand'
  <2>1. Here' = Here /\ status' = status /\ notices' = notices
    BY <1>1 DEF Here, github
  <2>2. read' = [f \in ReadFields |-> read'[f]]
    BY <1>2 DEF ReadFields
  <2>3. read'.status = status[Here]
    BY <1>2
  <2>4. Named(notices[Here]) = read'.notices \cup read'.told
    BY <1>2 DEF Named
  <2> QED  BY <1>1, <2>1, <2>2, <2>3, <2>4 DEF InHand, Listed
<1> QED  BY <1>3, <1>4 DEF IInv

\* The bot posts a first comment or edits the one listed (claims.py:305).
LEMMA WriteStatusStep == ASSUME IInv, WriteStatus PROVE IInv'
<1>1. UNCHANGED <<setting, world, notices, snap, todo, read>> /\ at = "status" /\ at' = "overlap"
  BY DEF WriteStatus, Proceed
<1> DEFINE new == IF Mine = <<>> THEN Append(status[Here], Text)
                                 ELSE [status[Here] EXCEPT ![1] = Text]
<1>2. status' = [status EXCEPT ![Here] = new]
  BY DEF WriteStatus
<1>3. Issues' /\ Snapped'
  BY <1>1, IssuesKept DEF IInv, Snapped
<1>4. InHand'
  <2>1. Here' = Here
    BY <1>1 DEF Here
  <2> QED  BY <1>1, <2>1 DEF IInv, InHand, Listed
<1>5. Said'
  <2>1. CASE Here \notin Numbers
    <3>1. status' = status
      BY <1>2, <2>1 DEF IInv, Said
    <3> QED  BY <1>1, <3>1 DEF IInv, Said
  <2>2. CASE Here \in Numbers
    <3>1. Mine = status[Here] /\ One(status[Here])
      BY <1>1, <2>2 DEF IInv, InHand, Listed, Mine, Said
    <3>2. new = IF status[Here] = <<>> THEN Append(status[Here], Text)
                                       ELSE [status[Here] EXCEPT ![1] = Text]
      BY <3>1
    <3> HIDE DEF new
    <3>3. One(new)
      BY <3>1, <3>2, OneKept
    <3> QED  BY <1>1, <1>2, <2>2, <3>3 DEF IInv, Said
  <2> QED  BY <2>1, <2>2
<1> QED  BY <1>3, <1>4, <1>5 DEF IInv

\* A notice goes to an earlier claim that has none, and the loop goes on (claims.py:324).
LEMMA WriteNoticeStep == ASSUME IInv, WriteNotice PROVE IInv'
<1>1. UNCHANGED <<setting, world, status, snap, todo>> /\ at = "overlap"
  BY DEF WriteNotice, Proceed
<1>2. Issues' /\ Snapped'
  BY <1>1, IssuesKept DEF IInv, Snapped
<1>3. Here' = Here
  BY <1>1 DEF Here
<1>4. CASE Overlaps = {}
  <2>1. at' = "claim" /\ notices' = notices
    BY <1>4 DEF WriteNotice, Proceed
  <2> QED  BY <1>1, <1>2, <2>1 DEF IInv, Said, InHand
<1>5. CASE Overlaps # {}
  <2> DEFINE e == Earliest(Overlaps)
  <2>1. /\ notices' = [notices EXCEPT ![Here] = Append(notices[Here], e.issue)]
        /\ read' = [read EXCEPT !.told = read.told \cup {e.issue}]
        /\ at' = at
    BY <1>5 DEF WriteNotice
  <2>2. e \in Overlaps /\ e.issue \in Nat
    <3>1. IsIndex(Index) /\ Overlaps \in SUBSET Index
      BY FiledIndex DEF IInv, Snapped, Index, Overlaps, Overlapping
    <3>2. e \in Overlaps
      BY <1>5, <3>1, EarliestOf
    <3> QED  BY <3>1, <3>2 DEF IsIndex
  <2>3. e.issue \notin read.notices \cup read.told
    BY <2>2 DEF Overlaps
  <2> HIDE DEF e
  <2>4. CASE Here \notin Numbers
    <3>1. notices' = notices
      BY <2>1, <2>4 DEF IInv, Said
    <3> QED  BY <1>1, <1>2, <1>3, <2>4, <3>1 DEF IInv, Said, InHand
  <2>5. CASE Here \in Numbers
    <3> DEFINE s == notices[Here]
               t == Append(s, e.issue)
    <3>1. s \in Seq(Nat) /\ NoRepeat(s) /\ Listed(Here)
      BY <1>1, <2>5 DEF IInv, Said, InHand
    <3>2. Named(s) = read.notices \cup read.told
      BY <1>1, <3>1 DEF Listed
    <3>3. t \in Seq(Nat) /\ NoRepeat(t) /\ Named(t) = Named(s) \cup {e.issue}
      BY <2>2, <2>3, <3>1, <3>2, NoticeAdded
    <3>4. notices' = [notices EXCEPT ![Here] = t]
      BY <2>1
    <3> HIDE DEF s, t
    <3>5. Said'
      BY <1>1, <2>5, <3>3, <3>4 DEF IInv, Said
    <3>6. Listed(Here)'
      <4>1. read' = [f \in ReadFields |-> read'[f]]
        BY <2>1, <3>1 DEF Listed, ReadFields
      <4>2. read'.notices = read.notices /\ read'.told = read.told \cup {e.issue}
        BY <2>1, <3>1 DEF Listed, ReadFields
      <4>3. notices'[Here] = t
        BY <2>5, <3>4 DEF IInv, Said
      <4> QED  BY <1>1, <1>3, <2>1, <3>2, <3>3, <4>1, <4>2, <4>3 DEF Listed
    <3> QED  BY <1>2, <3>5, <3>6 DEF IInv, InHand
  <2> QED  BY <2>4, <2>5
<1> QED  BY <1>4, <1>5

\* Labels are no comments.
LEMMA WriteLabelStep == ASSUME IInv, WriteLabel PROVE IInv'
<1>1. UNCHANGED <<setting, world, status, notices, snap>>
  BY DEF WriteLabel
<1>2. at' \notin {"status", "overlap"}
  BY DEF WriteLabel, Proceed, NextClaim
<1> QED  BY <1>1, <1>2, IssuesKept DEF IInv, Said, InHand, Snapped

(* A call that fails, or a run that dies, leaves what the bot said before. *)
LEMMA FailureStep == ASSUME IInv, CallFails \/ RunnerDies PROVE IInv'
<1>1. UNCHANGED <<setting, world, github, snap>>
  BY DEF CallFails, RunnerDies
<1>2. at' \notin {"status", "overlap"}
  BY DEF CallFails, RunnerDies, NextClaim
<1> QED  BY <1>1, <1>2, IssuesKept DEF github, IInv, Said, InHand, Snapped

(* What the bot has said and listed, over filed issues, is inductive. *)
THEOREM Invariant == Spec => []IInv
<1>1. Init => IInv
  BY InitInvariant
<1>2. IInv /\ [Next]_vars => IInv'
  <2> SUFFICES ASSUME IInv, [Next]_vars PROVE IInv'
    OBVIOUS
  <2>1. CASE UNCHANGED vars
    <3>1. UNCHANGED <<setting, world, github, run>>
      BY <2>1 DEF vars
    <3> QED  BY <3>1, IssuesKept, WorldKeeps DEF IInv
  <2>2. CASE Authors
    BY <2>2, OpenIssueStep, CommentStep, CloseStep, StrikeStep, OtherStep DEF Authors
  <2>3. CASE NextDay
    BY <2>3, OtherStep
  <2>4. CASE StartRun
    BY <2>4, StartStep
  <2>5. CASE BotStep
    BY <2>5, ReadManifestStep, ReadPrsStep, ReadCommentsStep, WriteStatusStep, WriteNoticeStep,
       WriteLabelStep DEF BotStep
  <2>6. CASE CallFails \/ RunnerDies
    BY <2>6, FailureStep
  <2> QED  BY <2>1, <2>2, <2>3, <2>4, <2>5, <2>6 DEF Next
<1> QED  BY <1>1, <1>2, PTL DEF Spec

-----------------------------------------------------------------------------
\* The theorems.

(* There is one status comment on each claim and one notice for each earlier claim
   (claims.py:1, 319), however many runs die after posting. *)
THEOREM SaysOnce == Spec => []SaidOnce
<1>1. ASSUME NEW s, One(s) PROVE Len(s) <= 1
  <2> DEFINE x == s[1]
  <2>1. s = <<>> \/ s = <<x>>
    BY <1>1 DEF One
  <2> HIDE DEF x
  <2>2. Len(<<x>>) = 1 /\ Len(<<>>) = 0
    OBVIOUS
  <2>3. CASE s = <<>>
    BY <2>2, <2>3
  <2>4. CASE s = <<x>>
    BY <2>2, <2>4
  <2> QED  BY <2>1, <2>3, <2>4
<1>2. IInv => SaidOnce
  BY <1>1 DEF IInv, Said, NoRepeat, SaidOnce
<1> QED  BY <1>2, Invariant, PTL

(* verify, accept and the claims bot agree on whose PR it is, for every index the claims can
   make, every registry and every PR that accept does not refuse. *)
THEOREM Agreeing == Spec => []TheyAgree
<1>1. IInv => TheyAgree
  <2> SUFFICES ASSUME IInv, NEW pr \in setting.prs, ~ Who(pr, NowIndex, None).refused
               PROVE  Agree(pr, NowIndex, Who(pr, NowIndex, None))
    BY DEF TheyAgree, ForEveryPr
  <2> DEFINE who == Who(pr, NowIndex, None)
             people == setting.people
  <2>1. IsIndex(NowIndex)
    BY FiledIndex DEF IInv, Issues, NowIndex
  <2>2. IsRegistry(people)
    BY IdentityAssumption DEF IInv, Issues, IsRegistry
  <2>3. who = Identified(pr, NowIndex, people, None, NoKeys)
    BY DEF Who
  <2> QED  BY <2>1, <2>2, <2>3, LoginsAgree, Agreement DEF Agree
<1> QED  BY <1>1, Invariant, PTL

(* A claim accept records with a PR is the credited person's, and the wish in it not to be
   named is kept. *)
THEOREM NobodyElsesClaim == Spec => []ClaimIsTheirs
<1>1. IInv => ClaimIsTheirs
  <2> SUFFICES ASSUME IInv, NEW pr \in setting.prs, ~ Who(pr, NowIndex, None).refused
               PROVE  Theirs(pr, NowIndex, Who(pr, NowIndex, None))
    BY DEF ClaimIsTheirs, ForEveryPr
  <2> DEFINE who == Who(pr, NowIndex, None)
             people == setting.people
  <2>1. IsIndex(NowIndex)
    BY FiledIndex DEF IInv, Issues, NowIndex
  <2>2. IsRegistry(people)
    BY IdentityAssumption DEF IInv, Issues, IsRegistry
  <2>3. who = Identified(pr, NowIndex, people, None, NoKeys)
    BY DEF Who
  <2> QED  BY <2>1, <2>2, <2>3, TheirClaim DEF Theirs
<1> QED  BY <1>1, Invariant, PTL

(* Nobody registered gets a second key, whoever the maintainer names with --contributor. *)
THEOREM OneKeyEach == Spec => []NoSecondKey
<1>1. IInv => NoSecondKey
  <2> SUFFICES ASSUME IInv, NEW o, NEW pr \in setting.prs, ~ Who(pr, NowIndex, o).refused
               PROVE  OneKey(pr, NowIndex, Who(pr, NowIndex, o))
    BY DEF NoSecondKey, ForEveryPr
  <2> DEFINE who == Who(pr, NowIndex, o)
             people == setting.people
             claim == IdentityClaim(pr, NowIndex, people)
             credited == ResolveContributor(people, pr, claim, o)
  <2>1. IsRegistry(people) /\ OneEntryEach(people)
    BY IdentityAssumption DEF IInv, Issues, IsRegistry, OneEntryEach
  <2>2. \A i \in DOMAIN people : people[i].github # None => Lower[None] # Lower[people[i].github]
    BY IdentityAssumption DEF IInv, Issues, Same
  <2>3. who.key = credited.key /\ who.github = credited.github
    BY IdentifiedIs DEF Who
  <2> HIDE DEF who, credited
  <2>4. ASSUME NEW i \in DOMAIN people, people[i].github # None,
               Lower[people[i].github] = Lower[who.github]
        PROVE  who.key = people[i].key
    <3>1. Same(people[i].github, credited.github)
      BY <2>3, <2>4 DEF Same
    <3> QED  BY <2>1, <2>2, <2>3, <2>4, <3>1, ResolvedKey DEF credited
  <2> QED  BY <2>4 DEF OneKey, who
<1> QED  BY <1>1, Invariant, PTL

-----------------------------------------------------------------------------
\* What the comments and labels show: the invariant behind Mirrors and Quiet.

\* The issue as it is now, as the run would say it if it read it now.
NowBody(n) == BodyOf(issues[n])
NowClaim(n) == Parsed(issues[n])
NowOther(n, m) == LET c == ClaimFor(NowIndex, m) IN c # NoClaim /\ c.issue # n
NowConflicts(n) ==
  {m \in NowClaim(n).explicit :
     /\ ~ NowClaim(n).confirm
     /\ \/ NowOther(n, m)
        \/ m \in DOMAIN done /\ \A p \in done[m] : ~ Same(p, NowClaim(n).author)}
NowExcluded(n) ==
  {m \in NowClaim(n).materials \ NowClaim(n).explicit : ~ NowClaim(n).confirm /\ NowOther(n, m)}
NowHeldFor(m) ==
  IF NowState(m) = "in review" /\ HeldByBot(inReview[m], m, NowIndex, setting.people)
    THEN ClaimFor(NowIndex, m).issue ELSE NoNumber
NowRows(n) ==
  [m \in NowClaim(n).materials |->
     IF m \in NowExcluded(n) THEN <<"excluded", ClaimFor(NowIndex, m).issue, NowState(m) = "done">>
     ELSE <<NowState(m), NowHeldFor(m)>>]
Note(n, seen, stale) ==
  [sha |-> NowBody(n), seen |-> seen, stale |-> stale, conflicts |-> NowConflicts(n),
   rows |-> NowRows(n)]

\* Days: those of an issue, of the snapshot and of what a comment was made for have passed.
Passed(d) == d \in Nat /\ d <= day
Dated ==
  /\ day \in Nat /\ Passed(snap.day)
  /\ \A n \in Numbers :
       /\ Passed(issues[n].created) /\ Passed(issues[n].spoke) /\ Passed(issues[n].touched)
       /\ status[n] # <<>> => Shown(n).seen \in Nat

\* Its author has not been active since d but in a way the bot can tell from a comment.
Accounted(n, d) == issues[n].touched <= d \/ issues[n].touched \in {issues[n].created, issues[n].spoke}

\* A snapshot and a comment are of an issue as it was, and names are only ever struck.
Snapshot(n) ==
  /\ issues[n].number = n
  /\ snap.issues[n].created = issues[n].created
  /\ Body(n)[3] \subseteq NowBody(n)[3]
  /\ Body(n) = NowBody(n) => Accounted(n, snap.day)
Commented(n) ==
  /\ issues[n].number = n
  /\ Shown(n).sha[3] \subseteq NowBody(n)[3]
  /\ Shown(n).sha = NowBody(n) => Accounted(n, Shown(n).seen)
Grown ==
  /\ \A n \in snap.open : Snapshot(n)
  /\ \A n \in Numbers : status[n] # <<>> => Commented(n)

\* The run goes through the claims of its snapshot.
Calls == {"comments", "status", "overlap", "claim", "claim-conflict", "claim-stale"}
Order ==
  /\ at \in {"idle", "manifest", "prs"} \cup Calls
  /\ IsFiniteSet(open) /\ todo \in Seq(snap.open)
  /\ at = "idle" => todo = <<>>
  /\ at \in Calls => todo # <<>>
  /\ labels = [n \in Numbers |-> labels[n]]
  /\ settled \in 0 .. 2

\* What holds since the world stands still and no call fails (settled > 0).
Still ==
  /\ snap.issues = issues /\ snap.open = open
  /\ at # "manifest" => snap.done = done
  /\ at \notin {"manifest", "prs"} => snap.inReview = inReview

\* The comment is up to date, but perhaps for the lapse, which a run of today decides.
Faithful(n) == \E seen \in Nat, stale \in BOOLEAN : status[n] = <<Note(n, seen, stale)>>
Lapsed(n) == snap.day - issues[n].touched >= StaleDays
Labelled(n) == "claim" \in labels[n]
Warned(n) == "claim-conflict" \in labels[n] <=> NowConflicts(n) # {}
Handled(n) ==
  /\ Faithful(n) /\ Labelled(n) /\ Warned(n)
  /\ "claim-stale" \in labels[n] <=> Shown(n).stale
  /\ Shown(n).stale => Lapsed(n)

\* The claims the run has finished with, and how far it is with the one in hand.
Finished == \A n \in snap.open \ Named(todo) : Handled(n)
Working ==
  /\ at \in Calls \ {"comments"} => read.spoke = issues[Here].spoke
  /\ at \in Calls \ {"comments", "status"} =>
       Faithful(Here) /\ Shown(Here).stale = Stale /\ (Stale => Lapsed(Here))
  /\ at \in {"claim-conflict", "claim-stale"} => Labelled(Here)
  /\ at = "claim-stale" => Warned(Here)

Seconded == settled = 2 => \A n \in open : Faithful(n)
Settled == settled > 0 => Still /\ Finished /\ Working /\ Seconded

MInv == Dated /\ Grown /\ Order /\ Settled

-----------------------------------------------------------------------------
\* The order of a run's claims.

RankOf(S, c) == Cardinality({h \in S : h <= c})

(* Of two numbers of a finite set the greater has the greater rank. *)
LEMMA GreaterRank ==
  ASSUME NEW S \in SUBSET Nat, IsFiniteSet(S), NEW a \in S, NEW b \in S, a < b
  PROVE  RankOf(S, a) < RankOf(S, b)
<1> DEFINE A == {h \in S : h <= a}
           B == {h \in S : h <= b}
<1>1. A \subseteq B /\ B \subseteq S /\ b \in B /\ b \notin A
  <2>1. \A h \in S : h \in Int
    OBVIOUS
  <2>2. b <= b /\ ~ (b <= a)
    BY <2>1
  <2>3. \A h \in S : h <= a => h <= b
    BY <2>1
  <2> QED  BY <2>2, <2>3
<1>2. IsFiniteSet(B) /\ IsFiniteSet(A)
  BY <1>1, FS_Subset
<1>3. Cardinality(A) \in Nat /\ Cardinality(B) \in Nat
  BY <1>2, FS_CardinalityType
<1>4. Cardinality(A) <= Cardinality(B) /\ Cardinality(A) # Cardinality(B)
  BY <1>1, <1>2, FS_Subset
<1> QED  BY <1>3, <1>4 DEF RankOf

(* The ranks of a finite set's numbers are 1, 2, ... up to how many there are. *)
LEMMA EveryRank ==
  ASSUME NEW S \in SUBSET Nat, IsFiniteSet(S)
  PROVE  /\ \A c \in S : RankOf(S, c) \in 1 .. Cardinality(S)
         /\ \A i \in 1 .. Cardinality(S) : \E c \in S : RankOf(S, c) = i
<1> DEFINE n == Cardinality(S)
           f == [c \in S |-> RankOf(S, c)]
<1>1. n \in Nat
  BY FS_CardinalityType
<1>2. ASSUME NEW c \in S
      PROVE  RankOf(S, c) \in 1 .. n
  <2> DEFINE C == {h \in S : h <= c}
  <2>1. C \subseteq S /\ c \in C
    OBVIOUS
  <2>2. IsFiniteSet(C) /\ Cardinality(C) <= n
    BY <2>1, FS_Subset
  <2>3. Cardinality(C) \in Nat /\ Cardinality(C) # 0
    BY <2>1, <2>2, FS_CardinalityType, FS_EmptySet
  <2> QED  BY <1>1, <2>2, <2>3 DEF RankOf
<1>3. ASSUME NEW a \in S, NEW b \in S, f[a] = f[b]
      PROVE  a = b
  <2>1. a \in Int /\ b \in Int /\ RankOf(S, a) = RankOf(S, b) /\ RankOf(S, a) \in Int
    BY <1>2, <1>3
  <2>2. (a < b => RankOf(S, a) < RankOf(S, b)) /\ (b < a => RankOf(S, b) < RankOf(S, a))
    BY GreaterRank
  <2> QED  BY <2>1, <2>2
<1>4. f \in Injection(S, 1 .. n)
  BY <1>2, <1>3 DEF Injection, IsInjective
<1>5. f \in Surjection(S, 1 .. n)
  BY <1>1, <1>4, FS_Interval, FS_Injection
<1>6. \A i \in 1 .. n : \E c \in S : f[c] = i
  BY <1>5 DEF Surjection
<1> QED  BY <1>2, <1>6

(* A run takes every open claim, in the order of the issues (claims.py:102). *)
LEMMA SortedIs ==
  ASSUME NEW S \in SUBSET Nat, IsFiniteSet(S)
  PROVE  Sorted(S) \in Seq(S) /\ S \subseteq Named(Sorted(S))
<1> DEFINE n == Cardinality(S)
           Ascends(s) == \A i, j \in DOMAIN s : i < j => s[i] < s[j]
           r == [i \in 1 .. n |-> CHOOSE c \in S : RankOf(S, c) = i]
<1>1. n \in Nat
  BY FS_CardinalityType
<1>2. \A i \in 1 .. n : r[i] \in S /\ RankOf(S, r[i]) = i
  BY EveryRank
<1> HIDE DEF r
<1>3. r \in [1 .. n -> S]
  BY <1>2 DEF r
<1>4. ASSUME NEW i \in 1 .. n, NEW j \in 1 .. n, i < j
      PROVE  r[i] < r[j]
  <2>1. r[i] \in S /\ r[j] \in S /\ RankOf(S, r[i]) = i /\ RankOf(S, r[j]) = j
    BY <1>2
  <2>2. r[j] < r[i] => j < i
    BY <2>1, GreaterRank
  <2>3. r[i] \in Int /\ r[j] \in Int
    <3>1. \A h \in S : h \in Int
      OBVIOUS
    <3> QED  BY <2>1, <3>1
  <2>4. r[i] # r[j]
    <3>1. i # j
      BY <1>1, <1>4
    <3> QED  BY <2>1, <3>1
  <2> QED  BY <1>1, <1>4, <2>2, <2>3, <2>4
<1>5. Ascends(r)
  BY <1>3, <1>4
<1> DEFINE s == Sorted(S)
<1>6. s \in [1 .. n -> S] /\ Ascends(s)
  BY <1>3, <1>5 DEF Sorted
<1> HIDE DEF s
<1>7. s \in Injection(1 .. n, S)
  <2>1. ASSUME NEW i \in 1 .. n, NEW j \in 1 .. n, s[i] = s[j]
        PROVE  i = j
    <3>1. i < j => s[i] < s[j]
      BY <1>6
    <3>2. j < i => s[j] < s[i]
      BY <1>6
    <3>3. s[i] \in S /\ i \in Int /\ j \in Int
      BY <1>1, <1>6
    <3>4. s[i] \in Nat
      BY <3>3
    <3> QED  BY <2>1, <3>1, <3>2, <3>3, <3>4
  <2> QED  BY <1>6, <2>1 DEF Injection, IsInjective
<1>8. s \in Surjection(1 .. n, S)
  BY <1>1, <1>7, FS_Interval, FS_Injection
<1>9. \A c \in S : \E i \in DOMAIN s : s[i] = c
  BY <1>6, <1>8 DEF Surjection
<1> QED  BY <1>1, <1>6, <1>9 DEF s, Named

-----------------------------------------------------------------------------
\* The steps of the world, and of the calendar.

(* An issue as its author edits or comments on it. *)
LEMMA EditedFields ==
  ASSUME NEW i, Issue(i), NEW s, NEW d
  PROVE  LET j == Struck(i, s, d) k == Spoken(i, d) IN
         /\ j.struck = s /\ j.touched = d /\ k.spoke = d /\ k.touched = d
         /\ j.spoke = i.spoke /\ k.struck = i.struck
         /\ \A e \in {j, k} : /\ e.number = i.number /\ e.created = i.created
                              /\ e.plain = i.plain /\ e.wild = i.wild /\ e.title = i.title
BY DEF Issue, Fields, Struck, Spoken

\* Before the first run nothing is shown and nothing was read.
LEMMA InitShown == ASSUME Init PROVE MInv
<1>1. setting \in Settings /\ setting.opened \subseteq Numbers /\ IsFiniteSet(setting.opened)
  BY BotAssumption DEF Init, Numbers
<1>2. PICK b \in [setting.opened -> UNION {setting.drafts[n] : n \in setting.opened}] :
        issues = [n \in Numbers |-> IF n \in setting.opened THEN Written(n, b[n], 0)
                                                            ELSE Unopened]
  BY DEF Init
<1>3. Dated
  <2>1. \A n, c : /\ Written(n, c, 0).created = 0 /\ Written(n, c, 0).spoke = 0
                  /\ Written(n, c, 0).touched = 0
    BY DEF Written
  <2>2. Unopened.created = 0 /\ Unopened.spoke = 0 /\ Unopened.touched = 0
    BY DEF Unopened
  <2>3. \A n \in Numbers : issues[n].created = 0 /\ issues[n].spoke = 0 /\ issues[n].touched = 0
    BY <1>2, <2>1, <2>2
  <2>4. day = 0 /\ snap.day = 0 /\ \A n \in Numbers : status[n] = <<>>
    BY DEF Init
  <2> QED  BY <2>3, <2>4 DEF Dated, Passed
<1>4. Grown
  BY DEF Init, Grown
<1>5. Order
  BY <1>1 DEF Init, Order, Calls
<1>6. Settled
  BY DEF Init, Settled
<1> QED  BY <1>3, <1>4, <1>5, <1>6 DEF MInv

\* A change of the world unsettles it.
LEMMA ChangeUnsettles == ASSUME Change PROVE Settled'
BY DEF Change, Settled

\* A new claim is none that the run or a comment is about.
LEMMA OpenIssueShown == ASSUME IInv, MInv, NEW n \in Numbers, OpenIssue(n) PROVE MInv'
<1>1. UNCHANGED <<setting, day, github, run>> /\ Settled'
  BY ChangeUnsettles DEF OpenIssue, Change
<1>2. PICK b \in setting.drafts[n] : issues' = [issues EXCEPT ![n] = Written(n, b, day)]
  BY DEF OpenIssue
<1> DEFINE w == Written(n, b, day)
<1>3. w.created = day /\ w.touched = day /\ w.spoke = 0
  BY DEF Written
<1>4. issues[n].number = NoNumber /\ n # NoNumber
  BY NumbersAreNat DEF OpenIssue, Unopened
<1> HIDE DEF w
<1>5. issues'[n] = w /\ \A k \in Numbers \ {n} : issues'[k] = issues[k]
  BY <1>2 DEF IInv, Issues, Filed, w
<1>6. Dated'
  <2>1. \A k \in Numbers : /\ Passed(issues'[k].created) /\ Passed(issues'[k].spoke)
                           /\ Passed(issues'[k].touched)
    BY <1>3, <1>5 DEF MInv, Dated, Passed
  <2> QED  BY <1>1, <2>1 DEF MInv, Dated, Passed, Shown, run, github
<1>7. Grown'
  <2>1. ASSUME NEW k \in snap.open
        PROVE  Snapshot(k)'
    <3>1. Snapshot(k) /\ k \in Numbers
      BY <2>1 DEF MInv, Grown, IInv, Snapped, Filed
    <3>2. issues'[k] = issues[k]
      BY <1>4, <1>5, <3>1 DEF Snapshot
    <3> QED  BY <1>1, <3>1, <3>2 DEF Snapshot, Accounted, Body, NowBody, run
  <2>2. ASSUME NEW k \in Numbers, status[k] # <<>>
        PROVE  Commented(k)'
    <3>1. Commented(k)
      BY <2>2 DEF MInv, Grown
    <3>2. issues'[k] = issues[k]
      BY <1>4, <1>5, <2>2, <3>1 DEF Commented
    <3> QED  BY <1>1, <3>1, <3>2 DEF Commented, Accounted, NowBody, Shown, github
  <2> QED  BY <1>1, <2>1, <2>2 DEF Grown, run, github
<1>8. Order'
  <2>1. IsFiniteSet(open')
    BY FS_AddElement DEF OpenIssue, MInv, Order
  <2>2. settled' = 0
    BY DEF OpenIssue, Change
  <2> QED  BY <1>1, <2>1, <2>2 DEF MInv, Order, run, github
<1> QED  BY <1>1, <1>6, <1>7, <1>8 DEF MInv

(* What of a body's names is struck grows by those struck in the body, not in the title. *)
LEMMA StruckBody ==
  ASSUME NEW i, Issue(i), NEW m, m \notin i.struck, NEW d
  PROVE  LET b == BodyOf(Struck(i, i.struck \cup {m}, d)) IN
         IF m \in i.title THEN b = BodyOf(i)
         ELSE m \notin BodyOf(i)[3] /\ b[3] = BodyOf(i)[3] \cup {m}
<1> DEFINE j == Struck(i, i.struck \cup {m}, d)
<1>1. j.struck = i.struck \cup {m} /\ j.plain = i.plain /\ j.wild = i.wild /\ j.title = i.title
  BY EditedFields
<1> HIDE DEF j
<1>2. m \in i.title => j.struck \ j.title = i.struck \ i.title
  BY <1>1
<1>3. m \notin i.title => j.struck \ j.title = (i.struck \ i.title) \cup {m}
  BY <1>1
<1> QED  BY <1>1, <1>2, <1>3 DEF BodyOf, j

(* An author's edit: what the bot has of the issue is then of another body, or is
   excused by the comment, or the edit is of the title alone. *)
LEMMA EditShown ==
  ASSUME IInv, MInv, NEW n \in open, NEW j, Settled', settled' = 0, Passed(j.created),
         UNCHANGED <<setting, day, open, github, run>>, issues' = [issues EXCEPT ![n] = j],
         j.number = issues[n].number, j.created = issues[n].created,
         \/ j.touched = day /\ j.spoke = day /\ BodyOf(j) = BodyOf(issues[n])
         \/ /\ j.touched = day /\ j.spoke = issues[n].spoke
            /\ \E m : /\ m \notin BodyOf(issues[n])[3]
                     /\ BodyOf(j)[3] = BodyOf(issues[n])[3] \cup {m}
         \/ /\ j.touched = issues[n].touched /\ j.spoke = issues[n].spoke
            /\ BodyOf(j) = BodyOf(issues[n])
  PROVE  MInv'
<1>1. n \in Numbers /\ issues'[n] = j /\ \A k \in Numbers \ {n} : issues'[k] = issues[k]
  BY DEF IInv, Issues, Filed
<1>2. Dated'
  <2>1. Passed(j.spoke) /\ Passed(j.touched)
    BY <1>1 DEF MInv, Dated, Passed
  <2>2. \A k \in Numbers : /\ Passed(issues'[k].created) /\ Passed(issues'[k].spoke)
                           /\ Passed(issues'[k].touched)
    BY <1>1, <2>1 DEF MInv, Dated
  <2> QED  BY <2>2 DEF MInv, Dated, Passed, Shown, run, github
<1>3. NowBody(n)' = BodyOf(j) /\ NowBody(n) = BodyOf(issues[n])
  BY <1>1 DEF NowBody
<1>4. NowBody(n)[3] \subseteq NowBody(n)'[3]
  BY <1>3
<1>5. ASSUME NEW b, b[3] \subseteq NowBody(n)[3], b = NowBody(n)', NEW d,
             b = NowBody(n) => Accounted(n, d)
      PROVE  Accounted(n, d)'
  <2>1. CASE j.touched = day /\ j.spoke = day
    BY <1>1, <2>1 DEF Accounted
  <2>2. CASE \E m : m \notin NowBody(n)[3] /\ BodyOf(j)[3] = NowBody(n)[3] \cup {m}
    BY <1>3, <1>5, <2>2
  <2>3. CASE /\ j.touched = issues[n].touched /\ j.spoke = issues[n].spoke
             /\ BodyOf(j) = BodyOf(issues[n])
    <3>1. Accounted(n, d)
      BY <1>3, <1>5, <2>3
    <3> QED  BY <1>1, <2>3, <3>1 DEF Accounted
  <2> QED  BY <1>3, <2>1, <2>2, <2>3
<1>6. Grown'
  <2>1. ASSUME NEW k \in snap.open
        PROVE  Snapshot(k)'
    <3>1. Snapshot(k) /\ k \in Numbers
      BY <2>1 DEF MInv, Grown, IInv, Snapped, Filed
    <3>2. Body(k)' = Body(k) /\ snap' = snap
      BY DEF Body, run
    <3>3. CASE k # n
      BY <1>1, <3>1, <3>2, <3>3 DEF Snapshot, Accounted, NowBody
    <3>4. CASE k = n
      <4>1. Body(n)[3] \subseteq NowBody(n)[3] /\ (Body(n) = NowBody(n) => Accounted(n, snap.day))
        BY <3>1, <3>4 DEF Snapshot
      <4>2. Body(n) = NowBody(n)' => Accounted(n, snap.day)'
        BY <1>5, <3>2, <4>1
      <4>3. Body(n)[3] \subseteq NowBody(n)'[3]
        BY <1>4, <4>1
      <4>4. issues'[n].number = n /\ snap.issues[n].created = issues'[n].created
        BY <1>1, <3>1, <3>4 DEF Snapshot
      <4> QED  BY <3>2, <3>4, <4>2, <4>3, <4>4 DEF Snapshot
    <3> QED  BY <3>3, <3>4
  <2>2. ASSUME NEW k \in Numbers, status[k] # <<>>
        PROVE  Commented(k)'
    <3>1. Commented(k) /\ Shown(k)' = Shown(k)
      BY <2>2 DEF MInv, Grown, Shown, github
    <3>2. CASE k # n
      BY <1>1, <3>1, <3>2 DEF Commented, Accounted, NowBody
    <3>3. CASE k = n
      <4> DEFINE b == Shown(n).sha
                 d == Shown(n).seen
      <4>1. b[3] \subseteq NowBody(n)[3] /\ (b = NowBody(n) => Accounted(n, d))
        BY <3>1, <3>3 DEF Commented
      <4>2. b' = b /\ d' = d
        BY <3>1, <3>3
      <4> HIDE DEF b, d
      <4>3. b = NowBody(n)' => Accounted(n, d)'
        BY <1>5, <4>1, <4>2
      <4>4. b[3] \subseteq NowBody(n)'[3]
        BY <1>4, <4>1
      <4>5. issues'[n].number = n
        BY <1>1, <3>1, <3>3 DEF Commented
      <4> QED  BY <3>3, <4>2, <4>3, <4>4, <4>5 DEF Commented, b, d
    <3> QED  BY <3>2, <3>3
  <2> QED  BY <2>1, <2>2 DEF Grown, run, github
<1>7. Order'
  BY DEF MInv, Order, run, github
<1> QED  BY <1>2, <1>6, <1>7 DEF MInv

\* Releasing a material makes another body of the issue, or another title.
LEMMA StrikeShown ==
  ASSUME IInv, MInv, NEW n \in Numbers, NEW m \in Materials, Strike(n, m) PROVE MInv'
<1>1. /\ UNCHANGED <<setting, day, open, github, run>> /\ settled' = 0 /\ Settled' /\ n \in open
      /\ m \notin issues[n].struck
  BY ChangeUnsettles DEF Strike, Change
<1> DEFINE i == issues[n]
           d == IF m \in i.title THEN i.touched ELSE day
           j == Struck(i, i.struck \cup {m}, d)
<1>2. issues' = [issues EXCEPT ![n] = j]
  BY DEF Strike, Struck
<1>3. Issue(i) /\ Passed(i.created)
  BY DEF IInv, Issues, Filed, MInv, Dated
<1>4. /\ j.touched = d /\ j.spoke = i.spoke /\ j.number = i.number /\ j.created = i.created
  BY <1>3, EditedFields
<1>5. IF m \in i.title THEN BodyOf(j) = BodyOf(i)
      ELSE m \notin BodyOf(i)[3] /\ BodyOf(j)[3] = BodyOf(i)[3] \cup {m}
  BY <1>1, <1>3, StruckBody
<1> HIDE DEF j
<1>6. m \in i.title => j.touched = i.touched /\ BodyOf(j) = BodyOf(i)
  BY <1>4, <1>5
<1>7. m \notin i.title => j.touched = day /\ m \notin BodyOf(i)[3]
                          /\ BodyOf(j)[3] = BodyOf(i)[3] \cup {m}
  BY <1>4, <1>5
<1> HIDE DEF i, d
<1> QED  BY <1>1, <1>2, <1>3, <1>4, <1>6, <1>7, EditShown DEF i

\* A comment is one the next run reads.
LEMMA CommentShown ==
  ASSUME IInv, MInv, NEW n \in Numbers, AuthorComments(n) PROVE MInv'
<1>1. UNCHANGED <<setting, day, open, github, run>> /\ settled' = 0 /\ Settled' /\ n \in open
  BY ChangeUnsettles DEF AuthorComments, Change
<1> DEFINE i == issues[n]
           j == Spoken(i, day)
<1>2. issues' = [issues EXCEPT ![n] = j]
  BY DEF AuthorComments, Spoken
<1>3. Issue(i) /\ Passed(i.created)
  BY DEF IInv, Issues, Filed, MInv, Dated
<1> HIDE DEF i
<1>4. /\ j.struck = i.struck /\ j.touched = day /\ j.spoke = day /\ j.number = i.number
      /\ j.plain = i.plain /\ j.wild = i.wild /\ j.title = i.title /\ j.created = i.created
  BY <1>3, EditedFields
<1>5. BodyOf(j) = BodyOf(i)
  BY <1>4 DEF BodyOf
<1> HIDE DEF j
<1> QED  BY <1>1, <1>2, <1>3, <1>4, <1>5, EditShown DEF i

(* What else may change in the world changes no issue. *)
LEMMA ElseShown ==
  ASSUME IInv, MInv, \/ \E n \in Numbers : CloseFinished(n)
                     \/ \E p \in setting.prs : OpenPr(p)
                     \/ \E m \in Materials, logins \in Producers : Publish(m, logins)
  PROVE  MInv'
<1>1. /\ UNCHANGED <<setting, day, issues, github, run>> /\ settled' = 0 /\ Settled'
      /\ open' \subseteq open
  BY ChangeUnsettles DEF CloseFinished, OpenPr, Publish, Change
<1>2. Dated' /\ Grown'
  BY <1>1 DEF MInv, Dated, Grown, Passed, Shown, Snapshot, Commented, Accounted, Body, NowBody, run,
               github
<1>3. Order'
  BY <1>1, FS_Subset DEF MInv, Order, run, github
<1> QED  BY <1>1, <1>2, <1>3 DEF MInv

(* What is up to date in a world that stands still stays so. *)
LEMMA FaithfulKept ==
  ASSUME NEW n, UNCHANGED <<setting, world>>, status'[n] = status[n]
  PROVE  Faithful(n)' <=> Faithful(n)
<1>1. UNCHANGED <<setting, issues, open, done, inReview>>
  BY DEF world
<1>2. Note(n, 0, TRUE)' = Note(n, 0, TRUE)
  BY <1>1 DEF Note, NowBody, NowConflicts, NowRows, NowClaim, NowOther, NowExcluded, NowState,
              NowHeldFor, NowIndex
<1> QED  BY <1>1
     DEF Faithful, Note, NowBody, NowConflicts, NowRows, NowClaim, NowOther, NowExcluded, NowState,
         NowHeldFor, NowIndex

(* And what a claim shows besides. *)
LEMMA HandledKept ==
  ASSUME NEW n, UNCHANGED <<setting, world>>, snap'.day = snap.day, status'[n] = status[n],
         labels'[n] = labels[n]
  PROVE  Handled(n)' <=> Handled(n)
<1>1. UNCHANGED <<setting, issues, open, done, inReview>>
  BY DEF world
<1>2. NowConflicts(n)' = NowConflicts(n)
  BY <1>1 DEF NowConflicts, NowClaim, NowOther, NowIndex
<1>3. Faithful(n)' <=> Faithful(n)
  BY FaithfulKept
<1> QED  BY <1>1, <1>2, <1>3 DEF Handled, Labelled, Warned, Lapsed, Shown

\* Another day lets nothing lapse that a run in progress has looked at.
LEMMA NextDayShown == ASSUME IInv, MInv, NextDay PROVE MInv'
<1>1. UNCHANGED <<setting, world, github, run, settled>> /\ day' = day + 1
  BY DEF NextDay
<1>2. Dated'
  BY <1>1 DEF MInv, Dated, Passed, Shown, world, run, github
<1>3. Grown'
  BY <1>1 DEF MInv, Grown, Shown, Snapshot, Commented, Accounted, Body, NowBody, world, run,
               github
<1>4. Order'
  BY <1>1 DEF MInv, Order, world, run, github
<1>5. Settled'
  <2> SUFFICES ASSUME settled > 0 PROVE (Still /\ Finished /\ Working /\ Seconded)'
    BY <1>1 DEF Settled
  <2>1. Still /\ Finished /\ Working /\ Seconded
    BY DEF MInv, Settled
  <2>2. Still'
    BY <1>1, <2>1 DEF Still, world, run
  <2>3. Finished'
    BY <1>1, <2>1, HandledKept DEF Finished, Named, run, github
  <2>4. Working'
    <3>1. Here' = Here /\ Stale' = Stale /\ Lapsed(Here)' = Lapsed(Here) /\ Shown(Here)' = Shown(Here)
      BY <1>1 DEF Here, Stale, Seen, Mine, Body, Lapsed, Shown, world, run, github
    <3>2. /\ Faithful(Here)' <=> Faithful(Here)
          /\ Labelled(Here)' <=> Labelled(Here)
          /\ NowConflicts(Here)' = NowConflicts(Here)
      BY <1>1, <3>1, FaithfulKept
         DEF Labelled, NowConflicts, NowClaim, NowOther, NowIndex, world, github
    <3> QED  BY <1>1, <2>1, <3>1, <3>2 DEF Working, Warned, world, run, github
  <2>5. Seconded'
    BY <1>1, <2>1, FaithfulKept DEF Seconded, world, github
  <2> QED  BY <2>2, <2>3, <2>4, <2>5
<1> QED  BY <1>2, <1>3, <1>4, <1>5 DEF MInv

-----------------------------------------------------------------------------
\* The steps of a run.

(* A claim in hand is one of the snapshot. *)
LEMMA HereIs ==
  ASSUME IInv, MInv, at \in Calls
  PROVE  /\ Here \in snap.open /\ Here \in Numbers /\ Tail(todo) \in Seq(snap.open)
         /\ Named(todo) = {Here} \cup Named(Tail(todo))
<1>1. todo \in Seq(snap.open) /\ todo # <<>>
  BY DEF MInv, Order
<1> DEFINE t == Tail(todo)
<1>2. /\ Len(todo) \in Nat \ {0} /\ DOMAIN todo = 1 .. Len(todo)
      /\ t \in Seq(snap.open) /\ DOMAIN t = 1 .. Len(todo) - 1
      /\ \A i \in DOMAIN t : t[i] = todo[i + 1]
      /\ Head(todo) = todo[1] /\ todo[1] \in snap.open
  BY <1>1
<1> HIDE DEF t
<1>3. ASSUME NEW i \in DOMAIN todo, i # 1
      PROVE  \E j \in DOMAIN t : todo[i] = t[j]
  <2>1. i - 1 \in DOMAIN t /\ t[i - 1] = todo[i]
    BY <1>2, <1>3
  <2> QED  BY <2>1
<1>4. \A j \in DOMAIN t : \E i \in DOMAIN todo : todo[i] = t[j]
  <2>1. \A j \in DOMAIN t : j + 1 \in DOMAIN todo /\ todo[j + 1] = t[j]
    BY <1>2
  <2> QED  BY <2>1
<1>5. Named(todo) = {todo[1]} \cup Named(t)
  BY <1>2, <1>3, <1>4 DEF Named
<1> QED  BY <1>2, <1>5 DEF t, Here, IInv, Snapped, Filed

(* A step that writes no comment and changes no issue keeps days and bodies. *)
LEMMA ReadingKeeps ==
  ASSUME MInv, UNCHANGED <<day, issues, status>>, snap'.day = snap.day, snap'.issues = snap.issues,
         snap'.open = snap.open
  PROVE  Dated' /\ Grown'
<1>1. Dated'
  BY DEF MInv, Dated, Passed, Shown
<1>2. \A n : Snapshot(n)' <=> Snapshot(n)
  BY DEF Snapshot, Accounted, Body, NowBody
<1>3. \A n : Commented(n)' <=> Commented(n)
  BY DEF Commented, Accounted, NowBody, Shown
<1> QED  BY <1>1, <1>2, <1>3 DEF MInv, Grown

\* A run that starts sees the issues as they are and has finished with none; what the last one
\* finished with, while nothing changed, is up to date.
LEMMA StartShown == ASSUME IInv, MInv, StartRun PROVE MInv'
<1>1. /\ UNCHANGED <<setting, day, world, github>> /\ at = "idle" /\ at' = "manifest"
      /\ todo' = Sorted(open) /\ settled' = IF settled = 2 THEN 2 ELSE settled + 1
  BY DEF StartRun
<1>2. snap'.day = day /\ snap'.issues = issues /\ snap'.open = open
  BY DEF StartRun, IInv, Snapped, SnapFields
<1>3. /\ open \subseteq Numbers /\ Numbers \subseteq Nat /\ IsFiniteSet(open)
      /\ \A n \in open : issues[n].number = n
  BY NumbersAreNat DEF IInv, Issues, Filed, MInv, Order
<1>4. todo' \in Seq(open) /\ open \subseteq Named(todo')
  BY <1>1, <1>3, SortedIs
<1>5. Dated'
  BY <1>1, <1>2 DEF MInv, Dated, Passed, Shown, world, github
<1>6. Grown'
  <2>1. \A n \in open : Snapshot(n)'
    <3>1. \A n \in open : issues[n].touched <= day
      BY <1>3 DEF MInv, Dated, Passed
    <3> QED  BY <1>1, <1>2, <1>3, <3>1 DEF Snapshot, Accounted, Body, NowBody, world
  <2>2. \A n : Commented(n)' <=> Commented(n)
    BY <1>1 DEF Commented, Accounted, NowBody, Shown, world, github
  <2> QED  BY <1>1, <1>2, <2>1, <2>2 DEF MInv, Grown, github
<1>7. Order'
  BY <1>1, <1>2, <1>3, <1>4 DEF MInv, Order, Calls, world, github
<1>8. Settled'
  <2>1. Still' /\ Working'
    BY <1>1, <1>2 DEF Still, Working, Calls, world
  <2>2. Finished'
    BY <1>2, <1>4 DEF Finished
  <2>3. Seconded'
    <3> SUFFICES ASSUME settled' = 2, NEW n \in open PROVE Faithful(n)'
      BY <1>1 DEF Seconded, world
    <3>1. settled > 0
      BY <1>1 DEF MInv, Order
    <3>2. Still /\ Finished /\ Named(todo) = {}
      BY <1>1, <3>1 DEF MInv, Settled, Order, Named
    <3>3. Handled(n)
      BY <3>2 DEF Still, Finished
    <3>4. Faithful(n)
      BY <3>3 DEF Handled
    <3> QED  BY <1>1, <3>4, FaithfulKept DEF github
  <2> QED  BY <2>1, <2>2, <2>3 DEF Settled
<1> QED  BY <1>5, <1>6, <1>7, <1>8 DEF MInv

\* What the run reads of the dataset is what there is while the world stands still.
LEMMA ReadDatasetShown == ASSUME IInv, MInv, ReadManifest \/ ReadPrs PROVE MInv'
<1>1. /\ UNCHANGED <<setting, day, world, github, todo, read, settled>>
      /\ at \in {"manifest", "prs"}
  BY DEF ReadManifest, ReadPrs, Proceed
<1>2. snap'.day = snap.day /\ snap'.issues = snap.issues /\ snap'.open = snap.open
  BY DEF ReadManifest, ReadPrs, IInv, Snapped, SnapFields
<1>3. \/ at = "manifest" /\ at' = "prs" /\ snap'.done = done
      \/ /\ at = "prs" /\ at' = (IF todo = <<>> THEN "idle" ELSE "comments")
         /\ snap'.done = snap.done /\ snap'.inReview = inReview
  BY DEF ReadManifest, ReadPrs, Proceed, IInv, Snapped, SnapFields
<1>4. Dated' /\ Grown'
  BY <1>1, <1>2, ReadingKeeps DEF world, github
<1>5. Order'
  BY <1>1, <1>2, <1>3 DEF MInv, Order, Calls, world, github
<1>6. Settled'
  <2> SUFFICES ASSUME settled > 0 PROVE (Still /\ Finished /\ Working /\ Seconded)'
    BY <1>1 DEF Settled
  <2>1. Still /\ Finished /\ Working /\ Seconded
    BY DEF MInv, Settled
  <2>2. Still'
    BY <1>1, <1>2, <1>3, <2>1 DEF Still, world
  <2>3. Finished'
    BY <1>1, <1>2, <2>1, HandledKept DEF Finished, Named, github
  <2>4. Working'
    BY <1>3 DEF Working, Calls
  <2>5. Seconded'
    BY <1>1, <2>1, FaithfulKept DEF Seconded, world, github
  <2> QED  BY <2>2, <2>3, <2>4, <2>5
<1> QED  BY <1>4, <1>5, <1>6 DEF MInv

\* The claim in hand is listed once, with its author's last comment.
LEMMA ReadCommentsShown == ASSUME IInv, MInv, ReadComments PROVE MInv'
<1>1. /\ UNCHANGED <<setting, day, world, github, snap, todo, settled>>
      /\ at = "comments" /\ at' = "status" /\ read'.spoke = issues[Here].spoke
  BY DEF ReadComments
<1>2. Dated' /\ Grown'
  BY <1>1, ReadingKeeps DEF world, github
<1>3. Order'
  BY <1>1 DEF MInv, Order, Calls, world, github
<1>4. Settled'
  <2> SUFFICES ASSUME settled > 0 PROVE (Still /\ Finished /\ Working /\ Seconded)'
    BY <1>1 DEF Settled
  <2>1. Still /\ Finished /\ Working /\ Seconded
    BY DEF MInv, Settled
  <2>2. Still'
    BY <1>1, <2>1 DEF Still, world
  <2>3. Finished'
    BY <1>1, <2>1, HandledKept DEF Finished, Named, github
  <2>4. Working'
    BY <1>1 DEF Working, Calls, Here, world
  <2>5. Seconded'
    BY <1>1, <2>1, FaithfulKept DEF Seconded, world, github
  <2> QED  BY <2>2, <2>3, <2>4, <2>5
<1> QED  BY <1>2, <1>3, <1>4 DEF MInv

(* A failed call, or the runner's end, unsettles everything but what is shown. *)
LEMMA FailureShown == ASSUME IInv, MInv, CallFails \/ RunnerDies PROVE MInv'
<1>1. UNCHANGED <<setting, day, world, github, snap>> /\ settled' = 0
  BY DEF CallFails, RunnerDies
<1>2. \/ todo' = Tail(todo) /\ at' = (IF Tail(todo) = <<>> THEN "idle" ELSE "comments") /\ at \in Calls
      \/ todo' = <<>> /\ at' = "idle"
  BY DEF CallFails, RunnerDies, NextClaim, MInv, Order
<1>3. Dated' /\ Grown'
  BY <1>1, ReadingKeeps DEF world, github
<1>4. todo' \in Seq(snap.open)
  <2>1. todo \in Seq(snap.open) /\ (at \in Calls => todo # <<>>)
    BY DEF MInv, Order
  <2>2. CASE todo' = Tail(todo) /\ todo # <<>>
    BY <2>1, <2>2
  <2>3. CASE todo' = <<>>
    BY <2>3
  <2> QED  BY <1>2, <2>1, <2>2, <2>3
<1>5. Order'
  BY <1>1, <1>2, <1>4 DEF MInv, Order, Calls, world, github
<1>6. Settled'
  BY <1>1 DEF Settled
<1> QED  BY <1>3, <1>5, <1>6 DEF MInv

(* While the world stands still the run writes what there is to say now. *)
LEMMA TextNow ==
  ASSUME Still, at \notin {"manifest", "prs"}
  PROVE  Text = Note(Here, Seen, Stale) /\ (Conflicts # {} <=> NowConflicts(Here) # {})
<1>1. snap.issues = issues /\ snap.open = open /\ snap.done = done /\ snap.inReview = inReview
  BY DEF Still
<1>2. Index = NowIndex /\ Claim = NowClaim(Here) /\ Body(Here) = NowBody(Here)
  BY <1>1 DEF Index, NowIndex, Claim, NowClaim, Body, NowBody
<1>3. \A m : (Other(m) <=> NowOther(Here, m)) /\ StateOf(m) = NowState(m)
  BY <1>1, <1>2 DEF Other, NowOther, StateOf, NowState
<1>4. Conflicts = NowConflicts(Here)
  BY <1>1, <1>2, <1>3 DEF Conflicts, NowConflicts
<1>5. Excluded = NowExcluded(Here) /\ \A m : HeldFor(m) = NowHeldFor(m)
  BY <1>1, <1>2, <1>3 DEF Excluded, NowExcluded, HeldFor, NowHeldFor
<1>6. [m \in Claim.materials |->
         IF m \in Excluded THEN <<"excluded", ClaimFor(Index, m).issue, StateOf(m) = "done">>
         ELSE <<StateOf(m), HeldFor(m)>>] = NowRows(Here)
  BY <1>2, <1>3, <1>5 DEF NowRows
<1> QED  BY <1>2, <1>4, <1>6 DEF Text, Note

(* The day that counts is the last of an issue's own, of the body's and of its comments. *)
LEMMA LatestIs ==
  ASSUME NEW a \in Nat, NEW b \in Nat, NEW c \in Nat
  PROVE  Latest({a, b, c}) \in Nat /\ \A e \in {a, b, c} : e <= Latest({a, b, c})
<1>1. \E d \in {a, b, c} : \A e \in {a, b, c} : e <= d
  <2>1. CASE b <= a /\ c <= a
    BY <2>1
  <2>2. CASE a <= b /\ c <= b
    BY <2>2
  <2>3. CASE a <= c /\ b <= c
    BY <2>3
  <2> QED  BY <2>1, <2>2, <2>3
<1>2. /\ Latest({a, b, c}) \in {a, b, c}
      /\ \A e \in {a, b, c} : e <= Latest({a, b, c})
  BY <1>1 DEF Latest
<1> QED  BY <1>2

(* What was seen of the body the run has accounts for all its author did. *)
LEMMA SeenAccounts ==
  ASSUME IInv, MInv, at = "status"
  PROVE  /\ Seen \in Nat
         /\ Body(Here) = NowBody(Here) => Accounted(Here, Seen)
<1>1. Here \in snap.open /\ Here \in Numbers
  BY HereIs DEF Calls
<1>2. Mine = status[Here] /\ One(status[Here])
  BY <1>1 DEF IInv, InHand, Listed, Mine, Said
<1>3. Snapshot(Here) /\ snap.day \in Nat
  BY <1>1 DEF MInv, Grown, Dated, Passed
<1>4. CASE Mine # <<>> /\ Head(Mine).sha = Body(Here)
  <2>1. Head(Mine) = Shown(Here)
    <3> DEFINE x == status[Here][1]
    <3>1. status[Here] = <<x>>
      BY <1>2, <1>4 DEF One
    <3> HIDE DEF x
    <3> QED  BY <1>2, <3>1 DEF Shown
  <2>2. Commented(Here) /\ Shown(Here).seen \in Nat
    BY <1>1, <1>2, <1>4 DEF MInv, Grown, Dated
  <2> QED  BY <1>4, <2>1, <2>2 DEF Seen, Commented
<1>5. CASE ~ (Mine # <<>> /\ Head(Mine).sha = Body(Here))
  <2>1. Seen = snap.day
    BY <1>5 DEF Seen
  <2> QED  BY <1>3, <2>1 DEF Snapshot
<1> QED  BY <1>4, <1>5

(* A claim the run calls stale has lapsed: its author neither commented nor
   edited the body for that long. *)
LEMMA StaleIsLapsed ==
  ASSUME IInv, MInv, Still, at = "status", read.spoke = issues[Here].spoke, Stale
  PROVE  Lapsed(Here)
<1>1. Here \in Numbers /\ StaleDays \in Nat /\ snap.day \in Nat
  BY HereIs, BotAssumption DEF Calls, MInv, Dated, Passed
<1> DEFINE a == snap.issues[Here].created
           b == Seen
           c == read.spoke
           t == issues[Here].touched
           last == Latest({a, b, c})
<1>2. a = issues[Here].created /\ c = issues[Here].spoke /\ a \in Nat /\ c \in Nat /\ t \in Nat
  BY <1>1 DEF Still, MInv, Dated, Passed
<1>3. b \in Nat /\ (t <= b \/ t \in {a, c})
  <2>1. Body(Here) = NowBody(Here)
    BY DEF Still, Body, NowBody
  <2> QED  BY <1>2, <2>1, SeenAccounts DEF Accounted
<1>4. snap.day - last >= StaleDays
  BY DEF Stale
<1> HIDE DEF a, b, c, t
<1>5. last \in Nat /\ a <= last /\ b <= last /\ c <= last
  BY <1>2, <1>3, LatestIs
<1> HIDE DEF last
<1>6. t <= last
  BY <1>2, <1>3, <1>5
<1>7. snap.day - t >= StaleDays
  BY <1>1, <1>2, <1>4, <1>5, <1>6
<1> QED  BY <1>7 DEF Lapsed, t

\* The claim in hand then has the run's text as its only comment; no other claim's changes.
LEMMA StatusWritten ==
  ASSUME IInv, MInv, WriteStatus
  PROVE  /\ status'[Here] = <<Text>>
         /\ \A n \in Numbers \ {Here} : status'[n] = status[n]
<1>0. at = "status" /\ Here \in Numbers
  BY HereIs DEF WriteStatus, Calls
<1>1. Mine = status[Here] /\ One(status[Here]) /\ status = [n \in Numbers |-> status[n]]
  BY <1>0 DEF IInv, InHand, Listed, Mine, Said
<1>2. status' = [status EXCEPT ![Here] = IF status[Here] = <<>> THEN Append(status[Here], Text)
                                             ELSE [status[Here] EXCEPT ![1] = Text]]
  BY <1>1 DEF WriteStatus
<1>3. status'[Here] = IF status[Here] = <<>> THEN Append(status[Here], Text)
                      ELSE [status[Here] EXCEPT ![1] = Text]
  BY <1>0, <1>1, <1>2
<1>4. \A n \in Numbers \ {Here} : status'[n] = status[n]
  BY <1>1, <1>2
<1> QED  BY <1>1, <1>3, <1>4, OnlyOne

\* The status comment is posted or edited (claims.py:305).
LEMMA WriteStatusShown == ASSUME IInv, MInv, WriteStatus PROVE MInv'
<1>1. /\ UNCHANGED <<setting, day, world, notices, labels, snap, todo, read, settled>>
      /\ at = "status" /\ at' = "overlap"
  BY DEF WriteStatus, Proceed
<1>2. Here \in snap.open /\ Here \in Numbers /\ Here \in Named(todo) /\ Here' = Here
  BY <1>1, HereIs DEF Calls, Here
<1>3. /\ status'[Here] = <<Text>>
      /\ \A n \in Numbers \ {Here} : status'[n] = status[n]
  BY StatusWritten
<1>4. Text.sha = Body(Here) /\ Text.seen = Seen /\ Text.stale = Stale
  BY DEF Text
<1>5. /\ Seen \in Nat /\ (Body(Here) = NowBody(Here) => Accounted(Here, Seen))
  BY <1>1, SeenAccounts
<1> HIDE DEF Text
<1>6. Shown(Here)' = Text
  BY <1>2, <1>3 DEF Shown
<1>7. Dated'
  <2>1. \A n \in Numbers : status'[n] # <<>> => Shown(n)'.seen \in Nat
    <3>1. \A n \in Numbers \ {Here} : status'[n] # <<>> => Shown(n)'.seen \in Nat
      BY <1>3 DEF MInv, Dated, Shown
    <3>2. Shown(Here)'.seen \in Nat
      BY <1>4, <1>5, <1>6
    <3> QED  BY <1>2, <3>1, <3>2
  <2> QED  BY <1>1, <2>1 DEF MInv, Dated, Passed, world
<1>8. Grown'
  <2>1. \A n : Snapshot(n)' <=> Snapshot(n)
    BY <1>1 DEF Snapshot, Accounted, Body, NowBody, world
  <2>2. ASSUME NEW n \in Numbers \ {Here}, status'[n] # <<>>
        PROVE  Commented(n)'
    <3>1. status[n] # <<>> /\ Shown(n)' = Shown(n)
      BY <1>3, <2>2 DEF Shown
    <3> QED  BY <1>1, <3>1 DEF MInv, Grown, Commented, Accounted, NowBody, world
  <2>3. Commented(Here)'
    <3>1. Snapshot(Here)
      BY <1>2 DEF MInv, Grown
    <3>2. /\ issues[Here].number = Here /\ Text.sha[3] \subseteq NowBody(Here)[3]
          /\ Text.sha = NowBody(Here) => Accounted(Here, Text.seen)
      BY <1>4, <1>5, <3>1 DEF Snapshot
    <3> QED  BY <1>1, <1>2, <1>6, <3>2 DEF Commented, Accounted, NowBody, world
  <2> QED  BY <1>1, <1>2, <2>1, <2>2, <2>3 DEF MInv, Grown
<1>9. Order'
  BY <1>1 DEF MInv, Order, Calls, world
<1>10. Settled'
  <2> SUFFICES ASSUME settled > 0 PROVE (Still /\ Finished /\ Working /\ Seconded)'
    BY <1>1 DEF Settled
  <2>1. Still /\ Finished /\ Working /\ Seconded
    BY DEF MInv, Settled
  <2>2. Still'
    BY <1>1, <2>1 DEF Still, world
  <2>3. ASSUME NEW n \in Numbers \ {Here}
        PROVE  (Faithful(n)' <=> Faithful(n)) /\ (Handled(n)' <=> Handled(n))
    BY <1>1, <1>3, <2>3, FaithfulKept, HandledKept
  <2>4. Finished'
    <3>1. snap.open \ Named(todo) \subseteq Numbers \ {Here}
      BY <1>2 DEF IInv, Snapped, Filed
    <3> QED  BY <1>1, <2>1, <2>3, <3>1 DEF Finished, Named
  <2>5. Text = Note(Here, Seen, Stale)
    BY <1>1, <2>1, TextNow
  <2>6. Faithful(Here)'
    <3>1. Note(Here, Seen, Stale)' = Note(Here, Seen, Stale)
      <4>1. Seen' = Seen /\ Stale' = Stale
        BY <1>1, <1>2 DEF Seen, Stale, Mine, Body
      <4> QED  BY <1>1, <1>2, <4>1
          DEF Note, NowBody, NowConflicts, NowRows, NowClaim, NowOther, NowExcluded, NowState,
              NowHeldFor, NowIndex, world
    <3>2. Stale' \in BOOLEAN /\ Seen' = Seen
      BY <1>1, <1>2 DEF Seen, Stale, Mine, Body
    <3>3. status'[Here'] = <<Note(Here, Seen, Stale)'>>
      BY <1>2, <1>3, <2>5, <3>1
    <3> QED  BY <1>5, <3>2, <3>3 DEF Faithful
  <2>7. Working'
    <3>1. Stale' = Stale
      BY <1>1, <1>2 DEF Seen, Stale, Mine, Body
    <3>2. read.spoke = issues[Here].spoke
      BY <1>1, <2>1 DEF Working, Calls
    <3>3. Stale => Lapsed(Here)'
      BY <1>1, <1>2, <2>1, <3>2, StaleIsLapsed DEF Lapsed, world
    <3>4. Shown(Here)'.stale = Stale'
      BY <1>4, <1>6, <3>1
    <3> QED  BY <1>1, <1>2, <2>6, <3>1, <3>2, <3>3, <3>4 DEF Working, world
  <2>8. Seconded'
    <3>1. open \subseteq Numbers
      BY DEF IInv, Issues, Filed
    <3> QED  BY <1>1, <1>2, <2>1, <2>3, <2>6, <3>1 DEF Seconded, world
  <2> QED  BY <2>2, <2>4, <2>7, <2>8
<1> QED  BY <1>7, <1>8, <1>9, <1>10 DEF MInv

\* A notice leaves the comment and what it was written from alone.
LEMMA WriteNoticeShown == ASSUME IInv, MInv, WriteNotice PROVE MInv'
<1>1. /\ UNCHANGED <<setting, day, world, status, labels, snap, todo, settled>>
      /\ at = "overlap" /\ at' \in {"overlap", "claim"}
  BY DEF WriteNotice, Proceed
<1>2. Here \in Numbers /\ Here' = Here
  BY <1>1, HereIs DEF Calls, Here
<1>3. read'.status = read.status /\ read'.spoke = read.spoke
  <2>1. read = [f \in ReadFields |-> read[f]]
    BY <1>1, <1>2 DEF IInv, InHand, Listed
  <2>2. read' = read \/ \E e : read' = [read EXCEPT !.told = e]
    BY DEF WriteNotice, Proceed
  <2> QED  BY <2>1, <2>2 DEF ReadFields
<1>4. Dated' /\ Grown'
  BY <1>1, ReadingKeeps DEF world
<1>5. Order'
  BY <1>1 DEF MInv, Order, Calls, world
<1>6. Settled'
  <2> SUFFICES ASSUME settled > 0 PROVE (Still /\ Finished /\ Working /\ Seconded)'
    BY <1>1 DEF Settled
  <2>1. Still /\ Finished /\ Working /\ Seconded
    BY DEF MInv, Settled
  <2>2. Still'
    BY <1>1, <2>1 DEF Still, world
  <2>3. Finished'
    BY <1>1, <2>1, HandledKept DEF Finished, Named
  <2>4. Working'
    <3>1. Stale' = Stale /\ Lapsed(Here)' = Lapsed(Here) /\ Shown(Here)' = Shown(Here)
      BY <1>1, <1>2, <1>3 DEF Stale, Seen, Mine, Body, Lapsed, Shown, world
    <3>2. Faithful(Here)' <=> Faithful(Here)
      BY <1>1, <1>2, FaithfulKept
    <3> QED  BY <1>1, <1>2, <1>3, <2>1, <3>1, <3>2 DEF Working, Calls, world
  <2>5. Seconded'
    BY <1>1, <2>1, FaithfulKept DEF Seconded, world
  <2> QED  BY <2>2, <2>3, <2>4, <2>5
<1> QED  BY <1>4, <1>5, <1>6 DEF MInv

\* Each label is set from what the comment says; with the last the claim is done.
LEMMA WriteLabelShown == ASSUME IInv, MInv, WriteLabel PROVE MInv'
<1>1. /\ UNCHANGED <<setting, day, world, status, notices, snap, settled>>
      /\ at \in {"claim", "claim-conflict", "claim-stale"}
  BY DEF WriteLabel
<1>2. /\ Here \in snap.open /\ Here \in Numbers /\ Tail(todo) \in Seq(snap.open)
      /\ Named(todo) = {Here} \cup Named(Tail(todo))
  BY <1>1, HereIs DEF Calls
<1>3. \/ /\ at = "claim" /\ at' = "claim-conflict" /\ UNCHANGED <<todo, read>>
         /\ labels' = [labels EXCEPT ![Here] = labels[Here] \cup {"claim"}]
      \/ /\ at = "claim-conflict" /\ at' = "claim-stale" /\ UNCHANGED <<todo, read>>
         /\ labels' = [labels EXCEPT ![Here] = IF Conflicts # {} THEN labels[Here] \cup {"claim-conflict"}
                                               ELSE labels[Here] \ {"claim-conflict"}]
      \/ /\ at = "claim-stale" /\ todo' = Tail(todo)
         /\ at' = (IF Tail(todo) = <<>> THEN "idle" ELSE "comments")
         /\ labels' = [labels EXCEPT ![Here] = IF Stale THEN labels[Here] \cup {"claim-stale"}
                                               ELSE labels[Here] \ {"claim-stale"}]
  BY <1>1 DEF WriteLabel, SetLabel, Proceed, NextClaim
<1>4. /\ labels = [n \in Numbers |-> labels[n]] /\ labels' = [n \in Numbers |-> labels'[n]]
      /\ \A n \in Numbers \ {Here} : labels'[n] = labels[n]
      /\ at = "claim" => labels'[Here] = labels[Here] \cup {"claim"}
      /\ at = "claim-conflict" => labels'[Here] = IF Conflicts # {} THEN labels[Here] \cup {"claim-conflict"}
                                                  ELSE labels[Here] \ {"claim-conflict"}
      /\ at = "claim-stale" => labels'[Here] = IF Stale THEN labels[Here] \cup {"claim-stale"}
                                               ELSE labels[Here] \ {"claim-stale"}
  <2>1. labels = [n \in Numbers |-> labels[n]]
    BY DEF MInv, Order
  <2> HIDE DEF Conflicts, Stale
  <2> QED  BY <1>2, <1>3, <2>1
<1>5. Dated' /\ Grown'
  BY <1>1, ReadingKeeps DEF world
<1>6. Order'
  <2>1. todo' \in Seq(snap.open)
    BY <1>2, <1>3 DEF MInv, Order
  <2>2. /\ at' \in {"idle"} \cup Calls /\ (at' = "idle" => todo' = <<>>)
        /\ (at' \in Calls => todo' # <<>>)
    BY <1>1, <1>3 DEF MInv, Order, Calls
  <2> QED  BY <1>1, <1>4, <2>1, <2>2 DEF MInv, Order, Calls, world
<1>7. Settled'
  <2> SUFFICES ASSUME settled > 0 PROVE (Still /\ Finished /\ Working /\ Seconded)'
    BY <1>1 DEF Settled
  <2>1. Still /\ Finished /\ Working /\ Seconded
    BY DEF MInv, Settled
  <2>2. Still'
    <3>1. at' \notin {"manifest", "prs"}
      BY <1>3
    <3> QED  BY <1>1, <2>1, <3>1 DEF Still, world
  <2>3. \A n \in Numbers \ {Here} : Handled(n)' <=> Handled(n)
    BY <1>1, <1>4, HandledKept
  <2>4. /\ Faithful(Here) /\ Shown(Here).stale = Stale /\ (Stale => Lapsed(Here))
        /\ at # "claim" => Labelled(Here)
        /\ at = "claim-stale" => Warned(Here)
    BY <1>1, <2>1 DEF Working, Calls
  <2>5. Conflicts # {} <=> NowConflicts(Here) # {}
    BY <1>1, <2>1, TextNow
  <2>6. NowConflicts(Here)' = NowConflicts(Here')
    BY <1>1 DEF NowConflicts, NowClaim, NowOther, NowIndex, world
  <2>7. Seconded'
    BY <1>1, <2>1, FaithfulKept DEF Seconded, world
  <2>8. CASE at # "claim-stale"
    <3>1. UNCHANGED <<todo, read>> /\ at' \in {"claim-conflict", "claim-stale"} /\ Here' = Here
      BY <1>3, <2>8 DEF Here
    <3>2. Finished'
      <4>1. snap.open \ Named(todo) \subseteq Numbers \ {Here}
        BY <1>2 DEF IInv, Snapped, Filed
      <4> QED  BY <1>1, <2>1, <2>3, <3>1, <4>1 DEF Finished, Named
    <3>3. Stale' = Stale /\ Lapsed(Here)' = Lapsed(Here) /\ Shown(Here)' = Shown(Here)
      BY <1>1, <3>1 DEF Stale, Seen, Mine, Body, Lapsed, Shown, world
    <3>4. Faithful(Here)'
      BY <1>1, <2>4, <3>1, FaithfulKept
    <3>5. Labelled(Here)' /\ (at' = "claim-stale" => Warned(Here)')
      <4> HIDE DEF Conflicts
      <4>1. CASE at = "claim"
        BY <1>3, <1>4, <3>1, <4>1 DEF Labelled
      <4>2. CASE at = "claim-conflict"
        BY <1>3, <1>4, <2>4, <2>5, <2>6, <3>1, <4>2 DEF Labelled, Warned
      <4> QED  BY <1>1, <2>8, <4>1, <4>2
    <3>6. read'.spoke = issues'[Here'].spoke
      BY <1>1, <2>1, <3>1 DEF Working, Calls, world
    <3>7. Working'
      BY <1>1, <2>4, <3>1, <3>3, <3>4, <3>5, <3>6 DEF Working, Calls
    <3> QED  BY <2>2, <2>7, <3>2, <3>7
  <2>9. CASE at = "claim-stale"
    <3>1. todo' = Tail(todo) /\ at' \in {"idle", "comments"}
      BY <1>3, <2>9
    <3>2. Working'
      BY <3>1 DEF Working, Calls
    <3> DEFINE h == Here
    <3>3. /\ h \in Numbers /\ labels'[h] = IF Stale THEN labels[h] \cup {"claim-stale"}
                                           ELSE labels[h] \ {"claim-stale"}
      BY <1>2, <1>4, <2>9
    <3>4. PICK k \in Numbers : k = h
      BY <3>3
    <3>5. Handled(k)'
      <4>1. Faithful(k)' /\ Shown(k)' = Shown(k) /\ Lapsed(k)' = Lapsed(k)
        BY <1>1, <2>4, <3>4, FaithfulKept DEF Shown, Lapsed, world
      <4>2. NowConflicts(k)' = NowConflicts(k)
        BY <1>1 DEF NowConflicts, NowClaim, NowOther, NowIndex, world
      <4>3. Labelled(k)' /\ Warned(k)' /\ ("claim-stale" \in labels'[k] <=> Stale)
        BY <2>4, <2>9, <3>3, <3>4, <4>2 DEF Labelled, Warned
      <4> QED  BY <2>4, <3>4, <4>1, <4>3 DEF Handled
    <3>6. Finished'
      <4>1. ASSUME NEW n \in snap.open, n \notin Named(Tail(todo))
            PROVE  Handled(n)'
        <5>1. CASE n = k
          BY <3>5, <5>1
        <5>2. CASE n # k
          BY <1>2, <2>1, <2>3, <3>4, <4>1, <5>2 DEF Finished, IInv, Snapped, Filed
        <5> QED  BY <5>1, <5>2
      <4>2. Named(todo)' = Named(Tail(todo))
        BY <3>1 DEF Named
      <4> QED  BY <1>1, <4>1, <4>2 DEF Finished
    <3> QED  BY <2>2, <2>7, <3>2, <3>6
  <2> QED  BY <2>8, <2>9
<1> QED  BY <1>5, <1>6, <1>7 DEF MInv

(* What the bot shows of the world, and how far it is, is inductive with what it said. *)
THEOREM MirrorInvariant == Spec => []MInv
<1>1. Init => MInv
  BY InitShown
<1>2. IInv /\ MInv /\ [Next]_vars => MInv'
  <2> SUFFICES ASSUME IInv, MInv, [Next]_vars PROVE MInv'
    OBVIOUS
  <2>1. CASE UNCHANGED vars
    <3>1. UNCHANGED <<setting, day, issues, open, done, inReview, status, notices, labels, snap, todo,
                      at, read, settled>>
      BY <2>1 DEF vars, world, github, run
    <3>2. Dated' /\ Grown'
      BY <3>1, ReadingKeeps
    <3>3. Order'
      BY <3>1 DEF MInv, Order
    <3>4. Settled'
      <4>1. /\ UNCHANGED <<setting, world>>
            /\ \A n : Handled(n)' <=> Handled(n)
            /\ \A n : Faithful(n)' <=> Faithful(n)
        BY <3>1, HandledKept, FaithfulKept DEF world
      <4>2. /\ Stale' = Stale /\ Lapsed(Here)' = Lapsed(Here) /\ Shown(Here)' = Shown(Here)
            /\ Here' = Here /\ (Labelled(Here)' <=> Labelled(Here))
            /\ NowConflicts(Here)' = NowConflicts(Here)
        BY <3>1 DEF Stale, Seen, Mine, Body, Lapsed, Shown, Here, Labelled, NowConflicts, NowClaim,
                    NowOther, NowIndex
      <4>3. Still' <=> Still
        BY <3>1 DEF Still
      <4> QED  BY <3>1, <4>1, <4>2, <4>3
          DEF MInv, Settled, Finished, Working, Seconded, Warned, Named
    <3> QED  BY <3>2, <3>3, <3>4 DEF MInv
  <2>2. CASE Authors
    BY <2>2, OpenIssueShown, CommentShown, StrikeShown, ElseShown DEF Authors
  <2>3. CASE NextDay
    BY <2>3, NextDayShown
  <2>4. CASE StartRun
    BY <2>4, StartShown
  <2>5. CASE BotStep
    BY <2>5, ReadDatasetShown, ReadCommentsShown, WriteStatusShown, WriteNoticeShown,
       WriteLabelShown DEF BotStep
  <2>6. CASE CallFails \/ RunnerDies
    BY <2>6, FailureShown
  <2> QED  BY <2>1, <2>2, <2>3, <2>4, <2>5, <2>6 DEF Next
<1> QED  BY <1>1, <1>2, Invariant, PTL DEF Spec

(* A material's state is one of five words, and none of them is the row of an excluded one. *)
LEMMA StateIs ==
  ASSUME NEW m
  PROVE  NowState(m) # "excluded" /\ (NowState(m) = "done" <=> m \in DOMAIN done)
BY DEF NowState, Status

(* A run without a failed call over a world that stood still leaves every open claim's
   comment and labels true, and calls no claim stale whose author commented or edited its
   body within the three weeks (claims.py:201, 302), for any claims, PRs, days and earlier
   failures; an edit of the title alone it does not see (claims.py:295). *)
THEOREM ShowsWhatIs == Spec => []Mirrors
<1>1. ASSUME MInv, AtRest, NEW n \in open
      PROVE  ShownRight(n) /\ ("claim-stale" \in labels[n] => snap.day - issues[n].touched >= StaleDays)
  <2>1. Handled(n)
    <3>1. settled > 0 /\ at = "idle"
      BY <1>1 DEF AtRest
    <3>2. Still /\ Finished
      BY <1>1, <3>1 DEF MInv, Settled
    <3>3. snap.open = open /\ Named(todo) = {}
      BY <1>1, <3>1, <3>2 DEF Still, MInv, Order, Named
    <3> QED  BY <3>2, <3>3 DEF Finished
  <2>2. PICK seen \in Nat, stale \in BOOLEAN : status[n] = <<Note(n, seen, stale)>>
    BY <2>1 DEF Handled, Faithful
  <2>3. status[n] # <<>> /\ Shown(n) = Note(n, seen, stale)
    BY <2>2 DEF Shown
  <2>4. Shown(n).rows = NowRows(n) /\ Shown(n).stale = stale
    BY <2>3 DEF Note
  <2>5. DOMAIN NowRows(n) = Parsed(issues[n]).materials
    BY DEF NowRows, NowClaim
  <2>6. ASSUME NEW m \in DOMAIN NowRows(n)
        PROVE  LET row == NowRows(n)[m] IN
               IF row[1] = "excluded"
                 THEN row[2] = ClaimFor(NowIndex, m).issue /\ row[3] = (m \in DOMAIN done)
                 ELSE row[1] = NowState(m)
    <3>1. CASE m \in NowExcluded(n)
      <4>1. NowRows(n)[m] = <<"excluded", ClaimFor(NowIndex, m).issue, NowState(m) = "done">>
        BY <2>5, <2>6, <3>1 DEF NowRows, NowClaim
      <4> QED  BY <4>1, StateIs
    <3>2. CASE m \notin NowExcluded(n)
      <4>1. NowRows(n)[m] = <<NowState(m), NowHeldFor(m)>>
        BY <2>5, <2>6, <3>2 DEF NowRows, NowClaim
      <4> QED  BY <4>1, StateIs
    <3> QED  BY <3>1, <3>2
  <2>7. Contested(n) <=> NowConflicts(n) # {}
    <3>1. \A m \in NowClaim(n).explicit :
            (\A p \in done[m] : ~ Same(p, NowClaim(n).author))
              <=> ~ \E p \in done[m] : Same(p, NowClaim(n).author)
      OBVIOUS
    <3> QED  BY <3>1 DEF Contested, NowConflicts, NowClaim, NowOther
  <2>8. "claim" \in labels[n] /\ ("claim-conflict" \in labels[n] <=> Contested(n))
    BY <2>1, <2>7 DEF Handled, Labelled, Warned
  <2>9. ("claim-stale" \in labels[n] <=> Shown(n).stale) /\ (Shown(n).stale => Lapsed(n))
    BY <2>1 DEF Handled
  <2> QED  BY <2>3, <2>4, <2>5, <2>6, <2>8, <2>9 DEF ShownRight, Lapsed
<1>2. MInv => Mirrors
  BY <1>1 DEF Mirrors
<1> QED  BY <1>2, MirrorInvariant, PTL

(* From the second run over an unchanged world on, no comment is edited but for a claim that
   lapses: the seen day in the marker does not move (claims.py:295-301). *)
THEOREM EditsOnlyLapses == Spec => Quiet
<1>1. ASSUME IInv, MInv, [Next]_vars, NEW n \in Numbers, settled = 2, status[n] # status'[n]
      PROVE  status'[n] = [status[n] EXCEPT ![1].stale = ~ @]
  <2>1. WriteStatus
    BY <1>1 DEF Next, Authors, OpenIssue, AuthorComments, CloseFinished, Strike, OpenPr, Publish, Change,
        NextDay, StartRun, BotStep, ReadManifest, ReadPrs, ReadComments, WriteNotice, WriteLabel,
        CallFails, RunnerDies, github, vars
  <2>2. n = Here /\ status'[n] = <<Text>> /\ at = "status"
    BY <1>1, <2>1, StatusWritten DEF WriteStatus
  <2>3. Still /\ Faithful(n)
    <3>1. Here \in snap.open
      BY <1>1, <2>2, HereIs DEF Calls
    <3> QED  BY <1>1, <2>2, <3>1 DEF MInv, Settled, Seconded, Still
  <2>4. PICK seen \in Nat, stale \in BOOLEAN : status[n] = <<Note(n, seen, stale)>>
    BY <2>3 DEF Faithful
  <2>5. Seen = seen
    <3>1. Mine = <<Note(n, seen, stale)>>
      BY <1>1, <2>2, <2>4 DEF IInv, InHand, Listed, Mine
    <3>2. Note(n, seen, stale).sha = Body(Here) /\ Note(n, seen, stale).seen = seen
      BY <2>2, <2>3 DEF Note, NowBody, Body, Still
    <3> HIDE DEF Note
    <3>3. Mine # <<>> /\ Head(Mine) = Note(n, seen, stale)
      BY <3>1
    <3> QED  BY <3>2, <3>3 DEF Seen
  <2>6. status'[n] = <<Note(n, seen, Stale)>>
    BY <2>2, <2>3, <2>5, TextNow
  <2>7. Stale \in BOOLEAN
    BY DEF Stale
  <2> DEFINE x == Note(n, seen, stale)
  <2>8. Stale = ~ stale
    BY <1>1, <2>4, <2>6, <2>7
  <2>9. [x EXCEPT !.stale = ~ stale] = Note(n, seen, ~ stale) /\ x.stale = stale
    BY DEF Note
  <2> HIDE DEF x
  <2>10. [<<x>> EXCEPT ![1] = [x EXCEPT !.stale = ~ x.stale]] = <<[x EXCEPT !.stale = ~ x.stale]>>
    OBVIOUS
  <2>11. [<<x>> EXCEPT ![1].stale = ~ @] = <<[x EXCEPT !.stale = ~ x.stale]>>
    BY <2>10
  <2> QED  BY <2>4, <2>6, <2>8, <2>9, <2>11 DEF x
<1>2. IInv /\ MInv /\ [Next]_vars
        => [\A n \in Numbers :
              settled = 2 /\ status[n] # status'[n]
                => status'[n] = [status[n] EXCEPT ![1].stale = ~ @]]_vars
  BY <1>1
<1> QED  BY <1>2, Invariant, MirrorInvariant, PTL DEF Spec, Quiet
=============================================================================
