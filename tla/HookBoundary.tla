---------------------------- MODULE HookBoundary -----------------------------
(***************************************************************************)
(* The Claude Code hook (internal/hookboundary).  Every tool call starts a *)
(* hook process: it classifies the call, persists the decision in a record *)
(* file and as a line of the append-only decision log, and only then       *)
(* answers.  At the end of a session another process counts the session's  *)
(* lines.  The processes share the record directory and nothing else; any  *)
(* file operation may fail and any process may be killed.                  *)
(*                                                                         *)
(* The log is a sequence of fragments, one per write that reached it:      *)
(* whose record it carries, whether all of the record's bytes are there,   *)
(* and whether its newline is.  A missing log and an empty one are read    *)
(* alike and are not told apart.                                           *)
(***************************************************************************)
EXTENDS Integers, Sequences, FiniteSets

CONSTANTS
  Hooks,           \* hook processes, one per tool call
  Enders,          \* session-end processes
  Sessions,        \* sanitized session labels
  Names,           \* record file names: timestamp and record id
  FailModes,       \* the fault postures an operator configures
  CommandOutcomes, \* what the command route concludes of a line
  EditOutcomes,    \* verdicts of the edit route
  Faulty           \* the operations that may fail, and "crash"

Verdicts == {"allow", "warn", "require_approval", "deny"}

\* What a route concludes: the verdict, whether it vouches for having seen
\* everything the call runs, the strictest of what it runs, and the answer
\* `command run` gives to the same argv.
Outcomes == [verdict : Verdicts, truth : Verdicts, parseable : BOOLEAN, argv : Verdicts]

ASSUME OutcomeAssumption ==
  /\ FailModes \subseteq {"open", "ask", "closed"}
  /\ CommandOutcomes \subseteq Outcomes
  /\ EditOutcomes \subseteq Verdicts

VARIABLES
  dir,      \* the record directory: absent, present, or refused
  files,    \* the record files
  log,      \* decision-records.jsonl
  hook,     \* the hook processes
  ender     \* the session-end processes

vars == <<dir, files, log, hook, ender>>

-----------------------------------------------------------------------------
VerdictStrength(v) ==
  CASE v = "allow" -> 0 [] v = "warn" -> 1 [] v = "deny" -> 3 [] OTHER -> 2

\* The stricter of the two; on a tie the first.
AtLeastAsStrict(v, other) == IF VerdictStrength(other) > VerdictStrength(v) THEN other ELSE v

FailModeVerdict(mode) ==
  CASE mode = "open" -> "allow" [] mode = "closed" -> "deny" [] OTHER -> "require_approval"

\* What reaches stdout: nothing for an allow, never a grant.
PermissionFor(v) ==
  CASE v = "allow" -> "silent" [] v = "deny" -> "deny" [] OTHER -> "ask"

NoFile == [state |-> "absent"]
NoOutcome == [verdict |-> "allow", truth |-> "allow", parseable |-> TRUE, argv |-> "allow"]

NotStarted ==
  [pc |-> "idle", session |-> "none", outcome |-> NoOutcome, name |-> "none", sinkError |-> FALSE,
   answer |-> "none"]
NotEnding ==
  [pc |-> "idle", session |-> "none", pos |-> 0, decisions |-> 0, unreadable |-> 0, before |-> 0]

\* The record of hook h: its session and the verdict it reached.
RecordOf(h) == [by |-> h, session |-> hook[h].session, verdict |-> hook[h].outcome.verdict]

Init ==
  /\ dir \in {"absent", "present", "refused"}
  /\ files = [n \in Names |-> NoFile]
  /\ log = <<>>
  /\ hook = [h \in Hooks |-> NotStarted]
  /\ ender = [e \in Enders |-> NotEnding]

-----------------------------------------------------------------------------
(* A hook process.                                                         *)

Decided(h, session, outcome) ==
  hook' = [hook EXCEPT ![h].pc = "dirs", ![h].session = session, ![h].outcome = outcome]

\* A fault classifies nothing: its verdict is the fail mode's.
FaultResult(h, session) ==
  \E mode \in FailModes :
    Decided(h, session, [NoOutcome EXCEPT !.verdict = FailModeVerdict(mode)])

DecideCommand(h, session) == \E o \in CommandOutcomes : Decided(h, session, o)

\* An edit is one path: its verdict is all there is to cover.
DecideEdit(h, session) ==
  \E v \in EditOutcomes : Decided(h, session, [NoOutcome EXCEPT !.verdict = v, !.truth = v])

\* Decide up to the sink.  An unreadable event has no session; an ungoverned
\* tool is let through without a record.
Decide(h) ==
  /\ hook[h].pc = "idle"
  /\ \/ FaultResult(h, "none")
     \/ hook' = [hook EXCEPT ![h].pc = "done", ![h].answer = PermissionFor("allow")]
     \/ \E s \in Sessions :
          \/ FaultResult(h, s)
          \/ DecideCommand(h, s)
          \/ DecideEdit(h, s)
  /\ UNCHANGED <<dir, files, log, ender>>

\* The sink returned: with an error the verdict is escalated, never softened.
EnforcedVerdict(h) ==
  IF hook[h].sinkError THEN AtLeastAsStrict(hook[h].outcome.verdict, "require_approval")
  ELSE hook[h].outcome.verdict

SinkFails(h) == hook' = [hook EXCEPT ![h].pc = "answer", ![h].sinkError = TRUE]
Step(h, pc) == hook' = [hook EXCEPT ![h].pc = pc]

\* ensureRecordDir, for the directory and the records directory in it.
EnsureRecordDir(h) ==
  /\ hook[h].pc = "dirs"
  /\ \/ /\ dir = "refused" \/ "dirs" \in Faulty
        /\ SinkFails(h) /\ UNCHANGED dir
     \/ /\ dir # "refused"
        /\ dir' = "present" /\ Step(h, "create")
  /\ UNCHANGED <<files, log, ender>>

\* writeRecordFile up to its open: an existing path is refused, whatever it is.
CreateRecordFile(h) ==
  /\ hook[h].pc = "create"
  /\ \E n \in Names :
       \/ /\ files[n] # NoFile \/ "create" \in Faulty
          /\ SinkFails(h) /\ UNCHANGED files
       \/ /\ files[n] = NoFile
          /\ files' = [files EXCEPT ![n] = [state |-> "partial", rec |-> RecordOf(h)]]
          /\ hook' = [hook EXCEPT ![h].pc = "fill", ![h].name = n]
  /\ UNCHANGED <<dir, log, ender>>

FillAndAnswer(h) ==
  /\ hook[h].pc = "fill"
  /\ files' = [files EXCEPT ![hook[h].name].state = "whole"]
  /\ Step(h, "answer")
  /\ UNCHANGED <<dir, log, ender>>

\* Its write and close: a failure leaves the file behind, cut or whole.
FillRecordFile(h) ==
  /\ hook[h].pc = "fill"
  /\ \/ /\ files' = [files EXCEPT ![hook[h].name].state = "whole"]
        /\ Step(h, "append")
     \/ /\ "fill" \in Faulty
        /\ \E st \in {"partial", "whole"} : files' = [files EXCEPT ![hook[h].name].state = st]
        /\ SinkFails(h)
  /\ UNCHANGED <<dir, log, ender>>

AppendFragment(h, whole, nl) == log' = Append(log, [rec |-> RecordOf(h), whole |-> whole, nl |-> nl])

\* appendJSONLine: one O_APPEND write and a close.  The open may be refused;
\* the write may stop anywhere; the close may fail after all of it.
AppendRecordLine(h) ==
  /\ hook[h].pc = "append"
  /\ \/ AppendFragment(h, TRUE, TRUE) /\ Step(h, "answer")
     \/ /\ "append" \in Faulty
        /\ \/ UNCHANGED log
           \/ AppendFragment(h, FALSE, FALSE)
           \/ AppendFragment(h, TRUE, FALSE)
           \/ AppendFragment(h, TRUE, TRUE)
        /\ Step(h, "rollback")
  /\ UNCHANGED <<dir, files, ender>>

\* os.Remove of the record file; its own failure is ignored.
Rollback(h) ==
  /\ hook[h].pc = "rollback"
  /\ \/ files' = [files EXCEPT ![hook[h].name] = NoFile]
     \/ "remove" \in Faulty /\ UNCHANGED files
  /\ SinkFails(h)
  /\ UNCHANGED <<dir, log, ender>>

\* The decision reaches stdout and the process exits.
Answer(h) ==
  /\ hook[h].pc = "answer"
  /\ hook' = [hook EXCEPT ![h].pc = "done", ![h].answer = PermissionFor(EnforcedVerdict(h))]
  /\ UNCHANGED <<dir, files, log, ender>>

\* The host kills a hook that overruns its time.
Kill(h) ==
  /\ "crash" \in Faulty
  /\ hook[h].pc \notin {"idle", "done", "killed"}
  /\ hook' = [hook EXCEPT ![h].pc = "killed"]
  /\ UNCHANGED <<dir, files, log, ender>>

-----------------------------------------------------------------------------
(* A session-end process.                                                  *)

\* The records of session s that are in the log to be counted.
Logged(s) == {i \in DOMAIN log : log[i].rec.session = s /\ log[i].whole}

SessionEnd(e) ==
  /\ ender[e].pc = "idle"
  /\ \E s \in Sessions \cup {"none"} :
       ender' = [ender EXCEPT ![e] = [NotEnding EXCEPT !.pc = "scan", !.session = s, !.pos = 1,
                                                       !.before = Cardinality(Logged(s))]]
  /\ UNCHANGED <<dir, files, log, hook>>

\* The line that starts at fragment i ends with the first newline, or with
\* the log.
LineEnd(i) == CHOOSE j \in i..Len(log) :
                /\ log[j].nl \/ j = Len(log)
                /\ \A k \in i..(j - 1) : ~log[k].nl

\* json.Unmarshal takes a line that is one whole record and nothing else.
Readable(i) == LineEnd(i) = i /\ log[i].whole

\* A line without its newline is the end of the file.
AfterLine(i) == IF log[LineEnd(i)].nl THEN "scan" ELSE "eof"

VisitQuietly(e) ==
  LET i == ender[e].pos
      mine == Readable(i) /\ log[i].rec.session = ender[e].session
  IN ender' = [ender EXCEPT ![e].pos = LineEnd(i) + 1, ![e].pc = AfterLine(i),
                            ![e].decisions = @ + (IF mine THEN 1 ELSE 0)]

\* summarizeSession's visit of a line: another session's record is passed
\* over, an unreadable line is counted as such.
Visit(e) ==
  LET i == ender[e].pos
      mine == Readable(i) /\ log[i].rec.session = ender[e].session
  IN ender' = [ender EXCEPT ![e].pos = LineEnd(i) + 1, ![e].pc = AfterLine(i),
                            ![e].decisions = @ + (IF mine THEN 1 ELSE 0),
                            ![e].unreadable = @ + (IF Readable(i) THEN 0 ELSE 1)]

\* One line of scanDecisionLog.
ScanLine(e) ==
  /\ ender[e].pc = "scan" /\ ender[e].pos <= Len(log)
  /\ Visit(e)
  /\ UNCHANGED <<dir, files, log, hook>>

\* End of file: the summary is appended to its own log, or nothing is written.
WriteSessionSummary(e) ==
  /\ ender[e].pc = "eof" \/ (ender[e].pc = "scan" /\ ender[e].pos > Len(log))
  /\ \/ dir # "refused" /\ dir' = "present" /\ ender' = [ender EXCEPT ![e].pc = "written"]
     \/ /\ dir = "refused" \/ "summary" \in Faulty
        /\ ender' = [ender EXCEPT ![e].pc = "fault"] /\ UNCHANGED dir
  /\ UNCHANGED <<files, log, hook>>

\* The log could not be read to its end: a summary would be a false statement.
ScanFails(e) ==
  /\ "scan" \in Faulty /\ ender[e].pc = "scan"
  /\ ender' = [ender EXCEPT ![e].pc = "fault"]
  /\ UNCHANGED <<dir, files, log, hook>>

Next ==
  \/ \E h \in Hooks :
       \/ Decide(h) \/ EnsureRecordDir(h) \/ CreateRecordFile(h) \/ FillRecordFile(h)
       \/ AppendRecordLine(h) \/ Rollback(h) \/ Answer(h) \/ Kill(h)
  \/ \E e \in Enders : SessionEnd(e) \/ ScanLine(e) \/ WriteSessionSummary(e) \/ ScanFails(e)

Spec == Init /\ [][Next]_vars

-----------------------------------------------------------------------------
Records == [by : Hooks, session : Sessions \cup {"none"}, verdict : Verdicts]
Files == {NoFile} \cup [state : {"partial", "whole"}, rec : Records]
Fragments == [rec : Records, whole : BOOLEAN, nl : BOOLEAN]
HookPCs == {"idle", "dirs", "create", "fill", "append", "rollback", "answer", "done", "killed"}
HookStates ==
  [pc : HookPCs, session : Sessions \cup {"none"},
   outcome : Outcomes,
   name : Names \cup {"none"}, sinkError : BOOLEAN, answer : {"none", "silent", "ask", "deny"}]

\* The shape of the shared artifacts and of the hook processes.
TypeOK ==
  /\ dir \in {"absent", "present", "refused"}
  /\ files \in [Names -> Files]
  /\ log \in Seq(Fragments)
  /\ hook \in [Hooks -> HookStates]

\* A decision the host acts on was written down first: when a hook that decided
\* on a call of a session, or that took a record file, answers without a sink
\* error, its record file is whole and still its own, and its line is in the
\* log, whatever other hooks, faults and kills did meanwhile.
RecordedBeforeActed ==
  \A h \in Hooks :
    hook[h].pc = "done" /\ (hook[h].name # "none" \/ hook[h].session # "none") /\ ~hook[h].sinkError =>
      /\ hook[h].name \in Names
      /\ files[hook[h].name] = [state |-> "whole", rec |-> RecordOf(h)]
      /\ \E i \in DOMAIN log : log[i] = [rec |-> RecordOf(h), whole |-> TRUE, nl |-> TRUE]

PermissionStrength(p) == CASE p = "silent" -> 0 [] p = "ask" -> 1 [] OTHER -> 2

\* What reaches the host is at least as strict as what the route concluded, and
\* a decision that could not be recorded is never let through silently.
AnswerKeepsVerdict ==
  \A h \in Hooks :
    hook[h].pc = "done" =>
      /\ PermissionStrength(hook[h].answer) >= PermissionStrength(PermissionFor(hook[h].outcome.verdict))
      /\ hook[h].sinkError => hook[h].answer # "silent"

\* ... and at least as strict as everything the call runs, however deep it is
\* nested in substitutions, subshells and forwarding programs named without a
\* path; a line the decomposer cannot vouch for is never let through silently.
AnswerCoversCall ==
  /\ AnswerKeepsVerdict
  /\ \A h \in Hooks :
       hook[h].pc = "done" =>
         /\ hook[h].outcome.parseable =>
              PermissionStrength(hook[h].answer) >= PermissionStrength(PermissionFor(hook[h].outcome.truth))
         /\ ~hook[h].outcome.parseable => hook[h].answer # "silent"

\* "The argv path and the hook's line path agree on what is modeled": a lone
\* command the decomposer vouches for is judged no more softly than `command
\* run` judges the same argv.  The code does not keep this: only the argv path
\* takes a system path for its base name.
PathsAgree ==
  \A h \in Hooks : VerdictStrength(hook[h].outcome.verdict) >= VerdictStrength(hook[h].outcome.argv)

\* A summary that admits to no unreadable line counts every record of its
\* session that was in the log when the scan began, and none that was not
\* there when it ended: torn and merged lines are never missing in silence.
SummaryNeverSilent ==
  \A e \in Enders :
    ender[e].pc = "written" /\ ender[e].unreadable = 0 =>
      ender[e].before <= ender[e].decisions /\ ender[e].decisions <= Cardinality(Logged(ender[e].session))
=============================================================================
