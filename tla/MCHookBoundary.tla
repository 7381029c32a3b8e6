--------------------------- MODULE MCHookBoundary ----------------------------
\* The hook over a catalogue of command lines: every chain of up to MCDepth
\* nestings around a command, pairs of commands, redirects, lines the scanner
\* gives up on, and forwarding programs spelled by their system path.
EXTENDS HookBoundary, CommandLine, TLC

CONSTANT MCDepth

HookSymmetry == Permutations(Hooks) \cup Permutations(Names)

Argv(name, args) ==
  [name |-> name, spelled |-> "bare", args |-> args, payload |-> <<>>, execs |-> <<>>, inner |-> <<>>]
Simple(argv) == [argv |-> argv, writes |-> {}, subs |-> <<>>, subshells |-> <<>>]
Line(cmds) == [modelled |-> TRUE, cmds |-> cmds, rest |-> <<>>]

\* One command around another: a substitution, a subshell, `sh -c`,
\* `find -exec`, a wrapper.
Nest(kind, s) ==
  CASE kind = "sub"      -> [Simple(<<Argv("cat", {})>>) EXCEPT !.subs = <<Line(<<s>>)>>]
    [] kind = "subshell" -> [Simple(<<>>) EXCEPT !.subshells = <<Line(<<s>>)>>]
    [] kind = "payload"  -> Simple(<<[Argv("sh", {}) EXCEPT !.payload = <<Line(<<s>>)>>]>>)
    [] kind = "exec"     -> [s EXCEPT !.argv = <<[Argv("find", {}) EXCEPT !.execs = s.argv]>>]
    [] kind = "prefix"   -> [s EXCEPT !.argv = <<[Argv("sudo", {}) EXCEPT !.inner = s.argv]>>]

Nestings == {"sub", "subshell", "payload", "exec", "prefix"}

BySystemPath(s) == [s EXCEPT !.argv[1].spelled = "system"]

Leaves == {Simple(<<Argv("cat", {})>>), Simple(<<Argv("cp", {"surface"})>>), Simple(<<Argv("rm", {})>>)}

Others ==
  {Simple(<<Argv("eval", {})>>), Simple(<<Argv("blank", {})>>), Simple(<<>>),
   Simple(<<Argv("mv", {})>>), Simple(<<Argv("mv", {"force"})>>), Simple(<<Argv("cat", {"secret"})>>),
   Simple(<<Argv("curl", {})>>), Simple(<<Argv("git", {"clean"})>>), Simple(<<Argv("docker", {"observe"})>>),
   Simple(<<Argv("boundary", {"first-party"})>>), Simple(<<Argv("date", {"set"})>>),
   Simple(<<[Argv("cat", {}) EXCEPT !.spelled = "elsewhere"]>>),
   [Simple(<<Argv("cat", {})>>) EXCEPT !.writes = {[secret |-> FALSE, surface |-> FALSE]}],
   [Simple(<<Argv("cat", {})>>) EXCEPT !.writes = {[secret |-> FALSE, surface |-> TRUE]}],
   [Simple(<<>>) EXCEPT !.writes = {[secret |-> TRUE, surface |-> FALSE]}]}

RECURSIVE Chains(_)
Chains(n) == IF n = 0 THEN Leaves
             ELSE LET shorter == Chains(n - 1) IN shorter \cup {Nest(k, s) : k \in Nestings, s \in shorter}

MCLines ==
  {Line(<<s>>) : s \in Chains(MCDepth) \cup Others}
  \cup {Line(<<s, t>>) : s, t \in Leaves \cup Others}
  \cup {Line(<<Nest(k, BySystemPath(Nest(j, s)))>>) : k, j \in Nestings \ {"subshell"}, s \in Leaves}
  \cup {Line(<<BySystemPath(s)>>) :
          s \in {Nest(k, t) : k \in Nestings \ {"subshell"}, t \in Chains(1)} \cup Leaves
                 \cup {Simple(<<Argv("eval", {})>>)}}
  \cup {[modelled |-> FALSE, cmds |-> <<s>>, rest |-> <<t>>] : s, t \in Leaves}

\* With the argv path's answer for HookPaths.cfg, and without it elsewhere.
MCBothPaths == {Outcome(l) : l \in MCLines}

MCCommandOutcomes == {[o EXCEPT !.argv = "allow"] : o \in MCBothPaths}
=============================================================================
