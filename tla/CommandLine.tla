----------------------------- MODULE CommandLine -----------------------------
(***************************************************************************)
(* Command Boundary's line classifier (internal/commandboundary): a shell  *)
(* line is decomposed into simple commands, every command it reaches is    *)
(* classified, and the strictest class decides.  A line is a tree:         *)
(*   line   [modelled, cmds, rest]: the simple commands scanned, whether   *)
(*          the scan met only constructs it models, and, when it did not,  *)
(*          the commands the shell runs after the point where it stopped;  *)
(*   simple [argv, writes, subs, subshells]: at most one argv, redirect    *)
(*          targets, and the lines of its substitutions and subshells;     *)
(*   argv   [name, spelled, args, payload, execs, inner]: the command word *)
(*          and how it is spelled (bare, under a system bin directory, or  *)
(*          elsewhere), what its arguments show, the line of a `sh -c`,    *)
(*          the argvs of `find -exec`, the argv a wrapper runs.            *)
(***************************************************************************)
EXTENDS Integers, Sequences, SequencesExt

MaxLineDepth == 3
maxPrefixUnwrap == 4

Classes == {"C0", "C1", "C2", "C3", "C4", "C5", "C6", "C7"}

PostureFor(class) ==
  CASE class = "C0" -> "allow"
    [] class = "C1" -> "warn"
    [] class \in {"C4", "C5", "C6"} -> "deny"
    [] OTHER -> "require_approval"

ActionSeverity(action) ==
  CASE action = "allow" -> 1
    [] action = "warn" -> 2
    [] action = "deny" -> 4
    [] OTHER -> 3

MutatesFiles(class) == class \in {"C1", "C4"}

-----------------------------------------------------------------------------
(* The argv classifier.                                                    *)

shellInterpreters == {"sh"}
undecomposableCommands == {"eval"}
prefixCommands == {"sudo", "xargs"}

\* The name classifyCommand switches on: a path outside the system's bin
\* directories names nothing it knows.
KnownName(argv) == IF argv.spelled = "elsewhere" THEN "" ELSE argv.name

\* Tools that either observe or mutate, by their subcommand: the class of a
\* mutation, and the subcommands with a class of their own.
SubcommandClass(name, args) ==
  IF "observe" \in args THEN "C0"
  ELSE CASE name = "git" -> IF "clean" \in args THEN "C4" ELSE IF "fetch" \in args THEN "C2" ELSE "C3"
         [] name = "gh" -> IF "auth" \in args THEN "C6" ELSE IF "repo" \in args THEN "C3" ELSE "C2"
         [] name = "docker" -> "C5"
         [] OTHER -> "C7"

\* `boundary` itself: only the documented shapes are first-party.
BoundaryClass(args) ==
  IF "first-party" \in args THEN "C0" ELSE IF "drill-cleanup" \in args THEN "C1" ELSE "C7"

\* For `date`, args holds whichever of a set flag and an operand comes first.
ClassifyCommand(name, args) ==
  IF "secret" \in args THEN "C6"
  ELSE CASE name = "cat" -> "C0"
         [] name = "cp" -> "C1"
         [] name = "mv" -> IF "force" \in args THEN "C4" ELSE "C1"
         [] name = "chmod" -> IF "recursive" \in args THEN "C4" ELSE "C1"
         [] name = "rm" -> "C4"
         [] name = "find" -> IF "delete" \in args THEN "C4" ELSE "C0"
         [] name = "curl" -> "C2"
         [] name = "psql" -> "C5"
         [] name = "date" -> IF "set" \in args THEN "C5" ELSE IF "operand" \in args THEN "C7" ELSE "C0"
         [] name = "boundary" -> BoundaryClass(args)
         [] name \in {"git", "gh", "npm", "docker"} -> SubcommandClass(name, args)
         [] OTHER -> "C7"

\* One classified command; surface: an argument names a control surface.
Segment(class, surface) == [class |-> class, surface |-> surface]

ClassifyOwn(argv) ==
  Segment(ClassifyCommand(KnownName(argv), argv.args), "surface" \in argv.args)

\* What an argv hands execution to: recognised by the bare name only.
ShellCommandPayload(argv) ==
  IF argv.spelled = "bare" /\ argv.name \in shellInterpreters THEN argv.payload ELSE <<>>
ArgumentCommands(argv) == IF argv.spelled = "bare" /\ argv.name = "find" THEN argv.execs ELSE <<>>
PrefixInnerArgv(argv) ==
  IF argv.spelled = "bare" /\ argv.name \in prefixCommands THEN argv.inner ELSE <<>>

-----------------------------------------------------------------------------
(* The decomposer: the segments found, and whether everything was modelled. *)

Found(segs, parseable) == [segs |-> segs, parseable |-> parseable]

\* The results of several steps of one decomposer.
Together(results) ==
  Found(UNION {results[i].segs : i \in DOMAIN results}, \A i \in DOMAIN results : results[i].parseable)

RedirectSegment(target) == Segment(IF target.secret THEN "C6" ELSE "C1", target.surface)

NothingLeft == Found({}, TRUE)

\* A payload nested past the cap, or wrapped past the unwrap budget, is not
\* followed, and the line is not vouched for.
Unfollowed == Found({}, FALSE)

\* appendSegment: the argv's own class; a blank command word has none.
OwnSegment(argv) ==
  IF argv.name = "blank" THEN Found({}, FALSE)
  ELSE Found({ClassifyOwn(argv)}, ~(argv.spelled = "bare" /\ argv.name \in undecomposableCommands))

RECURSIVE Decompose(_, _), ClassifyArgv(_, _, _)

\* classifyArgv: the argv and up to maxPrefixUnwrap - 1 commands it wraps.
ClassifyArgv(argv, depth, wrappers) ==
  IF wrappers = maxPrefixUnwrap THEN Unfollowed
  ELSE LET payload  == [i \in DOMAIN ShellCommandPayload(argv) |->
                          Decompose(ShellCommandPayload(argv)[i], depth + 1)]
           embedded == [i \in DOMAIN ArgumentCommands(argv) |->
                          IF depth + 1 > MaxLineDepth THEN Unfollowed
                          ELSE ClassifyArgv(ArgumentCommands(argv)[i], depth + 1, 0)]
           inner    == [i \in DOMAIN PrefixInnerArgv(argv) |->
                          ClassifyArgv(PrefixInnerArgv(argv)[i], depth, wrappers + 1)]
       IN Together(<<OwnSegment(argv)>> \o payload \o embedded \o inner)

DecomposeSimple(simple, depth) ==
  Together([i \in DOMAIN simple.subs |-> Decompose(simple.subs[i], depth + 1)]
           \o [i \in DOMAIN simple.subshells |-> Decompose(simple.subshells[i], depth + 1)]
           \o [i \in DOMAIN simple.argv |-> ClassifyArgv(simple.argv[i], depth, 0)]
           \o <<Found({RedirectSegment(t) : t \in simple.writes}, TRUE)>>)

Decompose(line, depth) ==
  IF depth > MaxLineDepth THEN Unfollowed
  ELSE Together(<<Found({}, line.modelled)>>
                \o [i \in DOMAIN line.cmds |-> DecomposeSimple(line.cmds[i], depth)])

\* aggregateOf: the strictest segment above the floor of an unmodelled line;
\* nothing above it, or no command at all, asks for approval.
AggregateOf(found) ==
  LET floor == IF found.parseable THEN 0 ELSE ActionSeverity("require_approval")
      above == {s \in found.segs : ActionSeverity(PostureFor(s.class)) > floor}
      strictest(s) == \A t \in above : ActionSeverity(PostureFor(t.class)) <= ActionSeverity(PostureFor(s.class))
  IN IF above = {} THEN "require_approval"
     ELSE PostureFor((CHOOSE s \in above : strictest(s)).class)

\* commandControlSurface: a found segment that mutates files names one.
CommandControlSurface(found) == \E s \in found.segs : MutatesFiles(s.class) /\ s.surface

\* The command route's verdict: the aggregate, or a deny for a write to a
\* control surface.
CommandVerdict(line) ==
  LET found == Decompose(line, 0)
  IN IF CommandControlSurface(found) THEN "deny" ELSE AggregateOf(found)

-----------------------------------------------------------------------------
(* The argv path, `command run`: the argv's own class, or the class of what *)
(* it forwards execution to when that is stricter.                         *)

\* trustedCommandName: here a system path is its base name.
TrustedCommandName(argv) == [argv EXCEPT !.spelled = IF @ = "system" THEN "bare" ELSE @]

ForwardedPayloads(argv) ==
  ArgumentCommands(TrustedCommandName(argv)) \o PrefixInnerArgv(TrustedCommandName(argv))

Classify(argv) ==
  LET own       == PostureFor(ClassifyOwn(argv).class)
      payloads  == ForwardedPayloads(argv)
      forwarded == AggregateOf(Together([i \in DOMAIN payloads |-> ClassifyArgv(payloads[i], 1, 0)]))
  IN IF payloads # <<>> /\ ActionSeverity(forwarded) > ActionSeverity(own) THEN forwarded ELSE own

-----------------------------------------------------------------------------
(* The reference: what a shell runs, to any depth, through substitutions,  *)
(* subshells and the forwarding programs that are named without a path.    *)

RECURSIVE Runs(_), ArgvRuns(_)

ArgvRuns(argv) ==
  (IF argv.name = "blank" THEN {} ELSE {ClassifyOwn(argv)})
  \cup IF argv.spelled # "bare" THEN {}
       ELSE UNION {Runs(argv.payload[i]) : i \in DOMAIN argv.payload}
            \cup UNION {ArgvRuns(argv.execs[i]) : i \in DOMAIN argv.execs}
            \cup UNION {ArgvRuns(argv.inner[i]) : i \in DOMAIN argv.inner}

SimpleRuns(simple) ==
  UNION {Runs(simple.subs[i]) : i \in DOMAIN simple.subs}
  \cup UNION {Runs(simple.subshells[i]) : i \in DOMAIN simple.subshells}
  \cup UNION {ArgvRuns(simple.argv[i]) : i \in DOMAIN simple.argv}
  \cup {RedirectSegment(t) : t \in simple.writes}

Runs(line) ==
  UNION {SimpleRuns(line.cmds[i]) : i \in DOMAIN line.cmds}
  \cup UNION {SimpleRuns(line.rest[i]) : i \in DOMAIN line.rest}

\* The strictest posture of everything the line runs.
TrueAction(line) ==
  LET runs == {PostureFor(s.class) : s \in Runs(line)}
  IN IF \E s \in Runs(line) : MutatesFiles(s.class) /\ s.surface THEN "deny"
     ELSE IF runs = {} THEN "require_approval"
     ELSE CHOOSE a \in runs : \A b \in runs : ActionSeverity(b) <= ActionSeverity(a)

\* The line is one command and nothing else.
IsLone(line) ==
  /\ Len(line.cmds) = 1
  /\ line.cmds[1].subs = <<>> /\ line.cmds[1].subshells = <<>> /\ line.cmds[1].writes = {}
  /\ Len(line.cmds[1].argv) = 1 /\ line.cmds[1].argv[1].name # "blank"

\* What the hook gets for a line: the verdict, and whether the decomposer
\* vouched for the whole line; when it did, also the strictest posture of
\* what the line runs and, of a lone command, the argv path's answer.
Outcome(line) ==
  LET parseable == Decompose(line, 0).parseable
  IN [verdict |-> CommandVerdict(line), parseable |-> parseable,
      truth |-> IF parseable THEN TrueAction(line) ELSE "allow",
      argv |-> IF parseable /\ IsLone(line) THEN Classify(line.cmds[1].argv[1]) ELSE "allow"]
=============================================================================
