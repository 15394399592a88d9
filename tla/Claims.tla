------------------------------- MODULE Claims -------------------------------
(***************************************************************************)
(* Who owns what: claim issues and the index over them, the registry of    *)
(* contributors, and whom a dataset PR belongs to.  Pure operators, used   *)
(* by the claims bot, by verify and by accept.                             *)
(* A name, a login and a material are values; Lower is a login or Hugging  *)
(* Face user as the code compares it.  Materials are numbers, in the order *)
(* PullRequest.materials sorts their names.                                *)
(* Source: contrib/{claims,registry,links,verify,hf}.py.                   *)
(***************************************************************************)
EXTENDS Naturals, FiniteSets, Sequences

CONSTANT Lower   \* a function; None is its own lower case

None == "none"
SameSpelling(a, b) == a = b
Same(a, b) == Lower[a] = Lower[b]

\* A claim number in a PR's description, 0 when it has none.
NoNumber == 0

-----------------------------------------------------------------------------
\* An issue as its author wrote it, and the claim parsed from its title and its body:
\* title is the part of the names plain and wild that stands in the title.

Parsed(i) ==
  [issue     |-> i.number,
   author    |-> i.author,
   materials |-> (i.plain \cup i.wild) \ i.struck,
   released  |-> i.struck,
   explicit  |-> i.plain \ i.struck,
   hf        |-> i.hf,
   anonymous |-> i.anonymous,
   confirm   |-> i.confirm]

NoClaim == [issue |-> NoNumber, author |-> None, materials |-> {}, released |-> {},
            explicit |-> {}, hf |-> None, anonymous |-> FALSE, confirm |-> FALSE]

Earliest(claims) ==
  IF claims = {} THEN NoClaim
  ELSE CHOOSE c \in claims : \A d \in claims : c.issue <= d.issue

Holders(index, m) == {c \in index : ~ c.confirm /\ m \in c.materials \ c.released}
ClaimFor(index, m) == Earliest(Holders(index, m))

-----------------------------------------------------------------------------
\* The registry's contributors, in the order of data/contributions.json.

NoPerson == [key |-> None, github |-> None, hf |-> None, anonymous |-> FALSE]

\* The person at the first of the places.
MinOf(S) == CHOOSE m \in S : \A n \in S : m <= n
FirstAt(people, places) == IF places = {} THEN NoPerson ELSE people[MinOf(places)]

ByGithub(people, login) ==
  FirstAt(people, {i \in DOMAIN people :
                     people[i].github # None /\ Same(people[i].github, login)})
ByHf(people, user) ==
  FirstAt(people, {i \in DOMAIN people : people[i].hf # None /\ Same(people[i].hf, user)})
ByKey(people, key) == FirstAt(people, {i \in DOMAIN people : people[i].key = key})

-----------------------------------------------------------------------------
(* A PR's description may name a claim (pr.claim) and a GitHub login
   (pr.login); pr.author is its Hugging Face user. *)

LoginKnown(pr, people) ==
  IF pr.login # None THEN pr.login ELSE ByHf(people, pr.author).github

NamedClaim(pr, index) == Earliest({c \in index : c.issue = pr.claim})
OwnClaim(pr, index, login) ==
  Earliest({c \in index : Same(c.author, login) /\ c.materials \cap pr.materials # {}})

\* Only the claim's form can say that it is another Hugging Face user's.
UndeniedClaim(pr, index) ==
  LET first == IF pr.materials = {} THEN NoClaim ELSE ClaimFor(index, MinOf(pr.materials))
  IN IF first.hf = None \/ Same(first.hf, pr.author) THEN first ELSE NoClaim

IdentityClaim(pr, index, people) ==
  LET login == LoginKnown(pr, people) IN
  IF pr.claim # NoNumber THEN NamedClaim(pr, index)
  ELSE IF login # None THEN OwnClaim(pr, index, login)
  ELSE UndeniedClaim(pr, index)

OwnershipConflictLinks(pr, claim, people) ==
  \/ pr.claim # NoNumber /\ pr.claim # claim.issue
  \/ pr.login # None /\ ~ Same(pr.login, claim.author)
OwnershipConflictNumbers(pr, claim, people) == pr.claim # NoNumber /\ pr.claim # claim.issue
OwnershipConflict(pr, claim, people) ==
  LET known == ByHf(people, pr.author) IN
  \/ pr.claim # NoNumber /\ pr.claim # claim.issue
  \/ pr.login # None /\ ~ Same(pr.login, claim.author)
  \/ known.github # None /\ ~ Same(known.github, claim.author)

(* resolve_contributor: an override, the description's login, the claim's
   author, else the registry's entry of the Hugging Face user. *)
ResolveContributor(people, pr, claim, override) ==
  LET login == IF override # None THEN override
               ELSE IF pr.login # None THEN pr.login ELSE claim.author
      known == ByGithub(people, login)
      form  == claim # NoClaim /\ Same(claim.author, login)
  IN IF login = None THEN ByHf(people, pr.author)
     ELSE IF known # NoPerson THEN known
     ELSE [key |-> login, github |-> login,
           hf |-> IF form /\ claim.hf # None THEN claim.hf ELSE pr.author,
           anonymous |-> form /\ claim.anonymous]

PrLogin(pr, index, people) ==
  LET known == ByHf(people, pr.author) IN
  IF pr.login # None THEN pr.login
  ELSE IF known.github # None THEN known.github
  ELSE IdentityClaim(pr, index, people).author

-----------------------------------------------------------------------------
(* What accept finds out about one PR, with the keys of the run's earlier PRs
   (seen: key -> login).  An identity is "refused" or whom to credit. *)

KeyTaken(people, who, seen) ==
  LET known == ByKey(people, who.key)
      other == IF known # NoPerson THEN known.github ELSE seen[who.key]
  IN /\ known # NoPerson \/ who.key \in DOMAIN seen
     /\ ~ Same(other, who.github)

Refused == [key |-> None, github |-> None, hf |-> None, anonymous |-> FALSE,
            claim |-> NoNumber, refused |-> TRUE]

Identified(pr, index, people, override, seen) ==
  LET claim == IdentityClaim(pr, index, people)
      who   == ResolveContributor(people, pr, claim, override)
      asks  == /\ claim.anonymous /\ who.github # None
               /\ Same(claim.author, who.github)
  IN IF \/ claim # NoClaim /\ override = None /\ OwnershipConflict(pr, claim, people)
        \/ who = NoPerson
        \/ KeyTaken(people, who, seen)
     THEN Refused
     ELSE [key |-> who.key, github |-> who.github, hf |-> who.hf,
           anonymous |-> who.anonymous \/ asks,
           claim |-> claim.issue, refused |-> FALSE]

-----------------------------------------------------------------------------
\* The claims bot's view of a material in review.

HeldByBot(pr, m, index, people) ==
  LET first == ClaimFor(index, m)
  IN first # NoClaim /\ OwnershipConflict(pr, first, people)

(* material_status: inReview maps the materials of open PRs to a PR; bare
   kings need no table. *)
Status(m, done, inReview, bare, index) ==
  CASE m \in done -> "done"
    [] m \in inReview \ done -> "in review"
    [] m \in bare \ (inReview \cup done) -> "not needed"
    [] OTHER -> IF ClaimFor(index, m) # NoClaim THEN "claimed" ELSE "open"
=============================================================================
