------------------------------ MODULE Identity ------------------------------
(***************************************************************************)
(* A dataset PR, looked at by three programs at the same moment: the       *)
(* claims bot, verify and accept.  They use the same claims and registry   *)
(* through different functions, and should agree on whose PR it is.        *)
(* Source: contrib/{claims,verify,accept,registry}.py.                     *)
(***************************************************************************)
EXTENDS ClaimsBot

CONSTANT Overrides   \* who --contributor may name

\* The registry the programs load is a list, with at most one person for a login.
ASSUME IdentityAssumption ==
  /\ Overrides \subseteq DOMAIN Lower \ {None}
  /\ \A s \in Settings :
       /\ DOMAIN s.people \subseteq Nat
       /\ \A i, j \in DOMAIN s.people :
            s.people[i].github # None /\ Same(s.people[i].github, s.people[j].github) =>
              s.people[j].github # None /\ s.people[i].key = s.people[j].key
       /\ \A i \in DOMAIN s.people :   \* no login is spelled as none
            s.people[i].github # None => ~ Same(s.people[i].github, None)

NoKeys == [k \in {} |-> None]

\* What accept's preflight of a run with this PR alone makes of its author.
Who(pr, index, override) == Identified(pr, index, setting.people, override, NoKeys)

\* What accept's decide() would hold of unpublished material.
HeldByAccept(m, index, who) ==
  LET claim == ClaimFor(index, m)
  IN claim # NoClaim /\ (who.github = None \/ ~ Same(claim.author, who.github))

\* What verify's report says of it: classify labels the material "held for claim".
HeldByVerify(m, index, login) ==
  LET claim == ClaimFor(index, m)
  IN claim # NoClaim /\ (login = None \/ ~ Same(claim.author, login))

-----------------------------------------------------------------------------
\* Whether P holds of every PR and what accept makes of it, where accept goes on.  (A run of the
\* bot changes none of what the three programs read, so it is enough to look between runs.)
ForEveryPr(override, P(_, _, _)) ==
  at = "idle" =>
    LET index == NowIndex IN
    \A pr \in setting.prs :
      LET who == Who(pr, index, override) IN ~ who.refused => P(pr, index, who)

(* pr_login (verify.py:220) promises "the PR's GitHub login as accept resolves
   it": its own cascade asks the registry before the claim, accept's the other
   way round, and the refusals in between must make up for it; so what verify's
   report calls held is what accept will hold.  And "the claims bot and accept both
   ask this, so they agree on who owns a PR" (claims.py:230): where the PR names no
   claim and its login is known without one, what the bot shows as held is what
   accept will hold. *)
Agree(pr, index, who) ==
  /\ Same(PrLogin(pr, index, setting.people), who.github)
  /\ \A m \in pr.materials :
       HeldByVerify(m, index, PrLogin(pr, index, setting.people)) <=> HeldByAccept(m, index, who)
  /\ pr.claim = NoNumber /\ LoginKnown(pr, setting.people) # None =>
       \A m \in pr.materials :
         HeldByBot(pr, m, index, setting.people) <=> HeldByAccept(m, index, who)
TheyAgree == ForEveryPr(None, Agree)

(* "Someone else's claim never speaks for a PR whose login is known"
   (claims.py:205): a claim accept records with a PR is the credited person's, and
   their wish in it not to be named is kept. *)
Theirs(pr, index, who) ==
  who.claim # NoNumber =>
    /\ \E c \in index : c.issue = who.claim /\ Same(c.author, who.github)
    /\ \A c \in index : c.issue = who.claim /\ c.anonymous => who.anonymous
ClaimIsTheirs == ForEveryPr(None, Theirs)

(* A new registry key is never a second name of someone registered with a login,
   however the login is spelled.  Of people registered by their Hub name alone it says
   nothing: once a PR, a claim or the maintainer names their login, by_github does not
   find them and the code gives them a second key (registry.py:111-118). *)
OneKey(pr, index, who) ==
  \A i \in DOMAIN setting.people :
    LET p == setting.people[i]
    IN p.github # None /\ Lower[p.github] = Lower[who.github] => who.key = p.key
NoSecondKey == \A o \in Overrides \cup {None} : ForEveryPr(o, OneKey)
=============================================================================
