--------------------------- MODULE MCEditBoundary ----------------------------
\* Two invocations on a project with a document, a source file, a secret, a
\* file out of scope and a link that leads there.
EXTENDS EditBoundary, TLC

EditSymmetry == Permutations(Appliers)

MCPaths == {"doc", "note", "src", "env", "git", "link"}

MCPathKind ==
  [doc |-> "plain", note |-> "plain", src |-> "source", env |-> "secret", git |-> "outside",
   link |-> "plain"]

MCLeadsTo == [q \in MCPaths |-> IF q = "link" THEN "git" ELSE q]

Hunk(old, new) == [old |-> old, new |-> new]
Edit(path, op, flags, hunks) == [path |-> path, op |-> op, flags |-> flags, hunks |-> hunks]

AtoB == <<Hunk(<<"a">>, <<"b">>)>>
BtoC == <<Hunk(<<"b">>, <<"c">>)>>
AddA == <<Hunk(<<>>, <<"a">>)>>

MCPatches ==
  {<<>>,
   <<Edit("doc", "modify", {}, AtoB)>>,
   <<Edit("doc", "modify", {}, AtoB \o BtoC), Edit("note", "add", {}, AddA)>>,
   <<Edit("note", "add", {}, AddA), Edit("doc", "modify", {}, BtoC)>>,
   <<Edit("doc", "modify", {}, AtoB), Edit("src", "modify", {}, AtoB)>>,
   <<Edit("doc", "modify", {}, AtoB), Edit("env", "modify", {}, AddA)>>,
   <<Edit("doc", "modify", {}, AtoB), Edit("git", "modify", {}, AddA)>>,
   <<Edit("note", "add", {}, AddA), Edit("doc", "delete", {}, <<>>)>>,
   <<Edit("doc", "modify", {"secret content"}, AtoB)>>,
   <<Edit("note", "add", {}, AddA), Edit("doc", "rename", {}, <<>>)>>,
   <<Edit("doc", "modify", {"binary"}, <<>>), Edit("src", "modify", {"mode"}, <<>>)>>,
   <<Edit("src", "modify", {"volume"}, AtoB)>>,
   <<Edit("note", "add", {}, AddA), Edit("link", "modify", {}, BtoC)>>}

AllowAll == [class \in EditClasses |-> "allow"]
MCPolicies == {DefaultPreviewPolicy, AllowAll}

MCTrees ==
  {[doc |-> File(<<"a", "b">>), note |-> Missing, src |-> File(<<"a">>), env |-> File(<<"b">>),
    git |-> File(<<"b">>), link |-> Missing]}
=============================================================================
