------------------------------ MODULE MCDelivery ------------------------------
(***************************************************************************)
(* Delivery for TLC: a repository with two paths and a second one, six     *)
(* commits, and candidates of one or two sources with up to three          *)
(* evidences.  The candidate is exported at 5 and read then or later.      *)
(***************************************************************************)
EXTENDS Delivery

CONSTANT none

\* c1 is in c2, both are in wide, moved and less; `side` and c1 are unrelated.
MCCommits == {"c1", "c2", "wide", "moved", "less", "side"}
MCAncestorsOf ==
  [c \in MCCommits |-> {c} \cup CASE c \in {"c1", "side"} -> {}
                              [] c = "c2" -> {"c1"}
                              [] OTHER -> {"c1", "c2"}]

\* `wide` changes more files than the buffer has room for; `less` has no compose
\* file any more, and `moved` a migration instead whose name git quotes.
MCTreeOf ==
  [c \in MCCommits |->
     CASE c = "c1" -> [code |-> 1, compose |-> 1, deploy |-> 1]
       [] c = "c2" -> [code |-> 2, compose |-> 1, deploy |-> 2]
       [] c = "wide" -> [code |-> 2, compose |-> 2, deploy |-> 2]
       [] c = "moved" -> [code |-> 1, deploy |-> 1, odd |-> 1]
       [] c = "less" -> [code |-> 1, deploy |-> 1]
       [] c = "side" -> [code |-> 2, compose |-> 1, deploy |-> 1, schema |-> 1]]
MCPaths == {"compose", "code", "deploy", "odd", "schema"}
MCRank ==
  [f \in MCPaths |-> CASE f = "compose" -> 1 [] f = "code" -> 2 [] f = "deploy" -> 3
                       [] f = "odd" -> 4 [] f = "schema" -> 5]
MCPrinted == [f \in MCPaths |-> IF f = "odd" THEN "quoted" ELSE f]
MCMatchedBy == [p \in {"deploy/**", "compose"} |-> IF p = "compose" THEN {p} ELSE {"deploy"}]
MCDirectoryOf ==
  [p \in {"/repo", "/link", "/other", "/lost"} |->
     CASE p = "/lost" -> "gone" [] p = "/other" -> "o" [] OTHER -> "r"]

MCHistories == {[base |-> "c1", target |-> c] : c \in MCCommits}
MCPlan(repository, expected) ==
  [repository |-> repository, base |-> "base", target |-> "target",
   expected |-> expected]
MCPlans == {MCPlan("/repo", {"deploy/**"}), MCPlan("/repo", {"compose"}),
            MCPlan("/lost", {"deploy/**"})}

Check(id, scope, attempt, at, status, commit, worktree) ==
  [id |-> id, criterion |-> none, task |-> IF worktree = "/w2" THEN "t2" ELSE "t1",
   machine |-> TRUE, scope |-> scope, check |-> "test", dir |-> worktree,
   attempt |-> attempt, at |-> at, status |-> status, consistent |-> TRUE,
   bound |-> TRUE, clean |-> TRUE, cleanAfter |-> TRUE, commit |-> commit,
   commitAfter |-> commit, repository |-> "/repo", worktree |-> worktree]

Accept(at, status) ==
  [Check("accept", "plain", 0, at, status, "c1", "/w1") EXCEPT
     !.criterion = "ac", !.machine = FALSE]

Checks ==
  {Check("p1", "plain", 0, 3, "passed", "c1", "/w1"),
   Check("p2", "plain", 0, 5, "passed", "c2", "/w1"),
   Check("f1", "plain", 0, 3, "failed", "c2", "/w1"),
   Check("f2", "plain", 0, 5, "failed", "c2", "/w1"),
   Check("f3", "plain", 0, 3, "failed", "c2", "/w0"),
   Check("a1", "team", 1, 5, "failed", "c1", "/w0"),
   Check("a2", "team", 2, 4, "passed", "c2", "/w1"),
   Check("a3", "team", 3, 5, "failed", "c2", "/w1"),
   Check("b1", "broken", 1, 5, "passed", "c2", "/w1"),
   [Check("c1", "plain", 0, 5, "passed", "c2", "/w1") EXCEPT !.commitAfter = "side"],
   Check("s1", "plain", 0, 5, "passed", "c1", "/w2"),
   [Check("n1", "plain", 0, 6, "passed", "c2", "/w1") EXCEPT !.task = none],
   Check("o1", "plain", 0, 1, "passed", "c2", "/w1")}

Source(task, repository, worktree, commit) ==
  [task |-> task, repository |-> repository, worktree |-> worktree,
   branch |-> task, commit |-> commit, clean |-> TRUE]

SourceLists ==
  {<<Source("t1", "/repo", "/w1", "c2")>>,
   <<Source("t1", "/repo", "/w1", "c2"), Source("t2", "/repo", "/w2", "c1")>>,
   <<Source("t1", "/repo", "/w1", "c2"), Source("t2", "/link", "/w2", "side")>>,
   <<Source("t1", "/link", "/w1", "c1")>>}

Task(id, worktree) ==
  [id |-> id, done |-> TRUE, worktree |-> worktree, branch |-> id, needs |-> {}]

Document(ready, sources, evidence) ==
  [ready |-> ready, generated |-> 5,
   criteria |-> <<[id |-> "ac", satisfied |-> TRUE]>>,
   tasks |-> [i \in DOMAIN sources |-> Task(sources[i].task, sources[i].worktree)],
   sources |-> sources, evidence |-> evidence]

MCDocuments ==
  {Document(TRUE, s, e) :
     s \in SourceLists,
     e \in {<<Accept(5, "passed"), c>> : c \in Checks}
             \cup {<<c, Accept(5, "passed"), d>> : c, d \in Checks}
             \cup {<<c, Accept(3, "failed"), [Accept(4, "passed") EXCEPT !.id = "again"]>> :
                     c \in Checks}}
    \cup {Document(FALSE, <<Source("t1", "/repo", "/w1", "c2")>>, <<>>)}
=============================================================================
