------------------------------ MODULE MCClaims ------------------------------
(* The bot at work: two claims by two people on two materials, the second one in part by a
   wildcard, or a confirmation, some names in the title, and one PR by the first claimant's Hugging Face user; or one claim
   over four days.  And every combination of two claims, at most one registered contributor and one
   PR, on which the bot runs while nothing changes: two people, one of whom spells the login in two
   ways, and the PR's author "hub". *)
EXTENDS Identity

MCLower == [n \in {"Ada", "ada", "Bob", "bob", "hub", "other", None} |->
              IF n = "Ada" THEN "ada" ELSE IF n = "Bob" THEN "bob" ELSE n]

MCDraft(a, p, w, t, c) ==
  [author |-> a, plain |-> p, wild |-> w, title |-> t, hf |-> None, anonymous |-> FALSE, confirm |-> c]
MCDrafts ==
  [n \in {3, 5} |->
     IF n = 3 THEN {MCDraft("ada", {1, 2}, {}, {2}, FALSE)}
     ELSE {MCDraft("bob", {1}, {2}, {}, FALSE), MCDraft("bob", {1}, {}, {}, TRUE)}]
MCOneDraft == [n \in {3} |-> {MCDraft("ada", {1}, {2}, {1}, FALSE)}]
MCPr == [num |-> 7, author |-> "hub", claim |-> NoNumber, login |-> "ada", materials |-> {2}]
MCBob == <<[key |-> "bob", github |-> "bob", hf |-> "hub", anonymous |-> FALSE]>>
MCSetting(drafts, opened, days, changed) ==
  [drafts |-> drafts, opened |-> opened, people |-> MCBob, prs |-> {MCPr},
   maxDay |-> days, maxWorld |-> changed, maxFailures |-> 1]

MCForms == [author : {"Ada", "Bob"}, plain : (SUBSET {1, 2}) \ {{}}, wild : {{}},
            title : {{}}, hf : {None, "hub", "other"}, anonymous : BOOLEAN, confirm : BOOLEAN]
MCBodies ==
  [n \in {3, 5} |-> IF n = 3 THEN {b \in MCForms : b.hf # "hub"}
                    ELSE {b \in MCForms : b.hf = "hub" /\ ~ b.anonymous /\ ~ b.confirm}]
MCPeople ==
  {<<>>} \cup {<<[key |-> "Ada", github |-> g, hf |-> h, anonymous |-> FALSE]>> :
                 g \in {None, "Ada", "Bob"}, h \in {None, "hub"}}
MCPrs == [num : {7}, author : {"hub"}, claim : {NoNumber, 3, 5}, login : {None, "ada", "Bob"},
          materials : (SUBSET {1, 2}) \ {{}}]

MCSettings ==
  {MCSetting(MCDrafts, {3}, 0, 3), MCSetting(MCOneDraft, {}, 3, 2)} \cup
  [drafts : {MCBodies}, opened : SUBSET {3, 5}, people : MCPeople, prs : {MCPrs},
   maxDay : {0}, maxWorld : {0}, maxFailures : {0}]
MCProducers == {{}, {"bob"}}
=============================================================================
