-------------------------- MODULE HookBoundaryProofs --------------------------
(***************************************************************************)
(* What the hook promises, for any number of hooks, session ends, sessions *)
(* and record names, any outcomes of the classifiers and any operations    *)
(* that may fail: a decision the host acts on is recorded first; the       *)
(* answer is as strict as the verdict of the route; a summary leaves out   *)
(* no record in silence.                                                   *)
(***************************************************************************)
EXTENDS HookBoundary, FiniteSetTheorems, WellFoundedInduction, TLAPS

\* Hook h is past creating its record file and has not given it up.
Holds(h) ==
  \/ hook[h].pc \in {"fill", "append", "rollback"}
  \/ hook[h].pc = "answer" /\ ~hook[h].sinkError
  \/ hook[h].pc = "done" /\ (hook[h].name # "none" \/ hook[h].session # "none") /\ ~hook[h].sinkError

\* A process that has not reached the sink's files has neither a name nor an
\* error; one that holds its file finds its own record in it, whole once it
\* was filled, and in the log once the sink returned.
HookInv(h) ==
  /\ hook[h].pc = "idle" => hook[h].session = "none"
  /\ hook[h].pc \in {"idle", "dirs", "create"} => hook[h].name = "none" /\ ~hook[h].sinkError
  /\ Holds(h) => /\ hook[h].name \in Names
                 /\ files[hook[h].name] \in [state : {"partial", "whole"}, rec : Records]
                 /\ files[hook[h].name].rec = RecordOf(h)
                 /\ hook[h].pc # "fill" => files[hook[h].name].state = "whole"
                 /\ hook[h].pc \in {"answer", "done"} =>
                      \E i \in DOMAIN log : log[i] = [rec |-> RecordOf(h), whole |-> TRUE, nl |-> TRUE]

Inv == TypeOK /\ \A h \in Hooks : HookInv(h)

\* What reaches stdout is one of the three answers.
LEMMA PermissionRange == \A v : PermissionFor(v) \in {"none", "silent", "ask", "deny"}
  BY DEF PermissionFor

\* A fail mode resolves to a verdict.
LEMMA FailModeRange == \A m : FailModeVerdict(m) \in Verdicts
  BY DEF FailModeVerdict, Verdicts

\* A record is named after its hook, so two hooks never share a record.
LEMMA RecordsDiffer ==
  ASSUME NEW g \in Hooks, NEW h \in Hooks, g # h
  PROVE  RecordOf(g) # RecordOf(h)
  BY DEF RecordOf

\* The record of a typed hook is a record.
LEMMA RecordTyped ==
  ASSUME TypeOK, NEW h \in Hooks
  PROVE  RecordOf(h) \in Records
  BY DEF TypeOK, RecordOf, Records, HookStates, Outcomes

\* A hook that does not move keeps its invariant as long as its own file is
\* untouched and the log only grows.
LEMMA BystanderKeeps ==
  ASSUME TypeOK, NEW g \in Hooks, HookInv(g), hook'[g] = hook[g],
         files' = files \/ \E n \in Names : /\ Holds(g) => n # hook[g].name
                                            /\ \A m \in Names \ {n} : files'[m] = files[m],
         log' = log \/ \E f \in Fragments : log' = Append(log, f)
  PROVE  HookInv(g)'
<1>1. RecordOf(g)' = RecordOf(g) /\ (Holds(g)' <=> Holds(g))
  BY DEF RecordOf, Holds
<1>2. ASSUME Holds(g) PROVE files'[hook[g].name] = files[hook[g].name]
  BY <1>2 DEF HookInv
<1>3. \A i \in DOMAIN log : i \in DOMAIN log' /\ log'[i] = log[i]
  BY DEF TypeOK
<1> QED BY <1>1, <1>2, <1>3 DEF HookInv, Holds

\* The empty directory: no hook has started.
LEMMA InitInv == Init => Inv
  BY DEF Init, Inv, TypeOK, HookInv, Holds, NotStarted, NoOutcome, HookStates, HookPCs, Verdicts,
     Outcomes, Files, NoFile

\* A step of hook h that touches neither the files nor the log.
LEMMA LocalStep ==
  ASSUME Inv, NEW h \in Hooks, NEW x \in HookStates, hook' = [hook EXCEPT ![h] = x],
         UNCHANGED <<files, log>>, dir' \in {"absent", "present", "refused"},
         HookInv(h)'
  PROVE  Inv'
<1>1. TypeOK'
  BY DEF Inv, TypeOK
<1>2. ASSUME NEW g \in Hooks PROVE HookInv(g)'
  <2>1. CASE g = h
    BY <2>1
  <2>2. CASE g # h
    <3>1. hook'[g] = hook[g]
      BY <2>2 DEF Inv, TypeOK
    <3> QED BY <3>1, BystanderKeeps DEF Inv
  <2> QED BY <2>1, <2>2
<1> QED BY <1>1, <1>2 DEF Inv

\* Classifying a call touches nothing shared.
LEMMA DecideInv ==
  ASSUME Inv, NEW h \in Hooks, Decide(h)
  PROVE  Inv'
<1> USE DEF Inv
<1>1. hook \in [Hooks -> HookStates] /\ hook[h] \in HookStates
  BY DEF TypeOK
<1>2. /\ hook[h].pc = "idle" /\ hook[h].session = "none" /\ hook[h].name = "none" /\ ~hook[h].sinkError
      /\ UNCHANGED <<dir, files, log>>
  BY DEF Decide, HookInv
<1>3. dir' \in {"absent", "present", "refused"}
  BY <1>2 DEF TypeOK
<1>4. ASSUME NEW s \in Sessions \cup {"none"},
             NEW o \in Outcomes, Decided(h, s, o)
      PROVE  Inv'
  <2> DEFINE x == [hook[h] EXCEPT !.pc = "dirs", !.session = s, !.outcome = o]
  <2>1. x \in HookStates /\ x.pc = "dirs" /\ x.name = "none" /\ ~x.sinkError
    BY <1>1, <1>2 DEF HookStates, HookPCs
  <2>2. hook' = [hook EXCEPT ![h] = x]
    BY <1>1, <1>4 DEF Decided
  <2> HIDE DEF x
  <2>3. HookInv(h)'
    BY <1>1, <2>1, <2>2 DEF HookInv, Holds
  <2> QED BY <1>2, <1>3, <2>1, <2>2, <2>3, LocalStep
<1>5. ASSUME NEW s \in Sessions \cup {"none"}, FaultResult(h, s) PROVE Inv'
  <2>1. PICK m \in FailModes : Decided(h, s, [NoOutcome EXCEPT !.verdict = FailModeVerdict(m)])
    BY <1>5 DEF FaultResult
  <2>2. [NoOutcome EXCEPT !.verdict = FailModeVerdict(m)] \in Outcomes
    BY FailModeRange DEF NoOutcome, Verdicts, Outcomes
  <2> QED BY <1>4, <2>1, <2>2
<1>6. CASE hook' = [hook EXCEPT ![h].pc = "done", ![h].answer = PermissionFor("allow")]
  <2> DEFINE x == [hook[h] EXCEPT !.pc = "done", !.answer = PermissionFor("allow")]
  <2>1. x \in HookStates /\ x.pc = "done" /\ x.name = "none" /\ x.session = "none"
    BY <1>1, <1>2, PermissionRange DEF HookStates, HookPCs
  <2>2. hook' = [hook EXCEPT ![h] = x]
    BY <1>1, <1>6
  <2> HIDE DEF x
  <2>3. HookInv(h)'
    BY <1>1, <2>1, <2>2 DEF HookInv, Holds
  <2> QED BY <1>2, <1>3, <2>1, <2>2, <2>3, LocalStep
<1>7. ASSUME NEW s \in Sessions, NEW o \in CommandOutcomes, Decided(h, s, o) PROVE Inv'
  BY <1>4, <1>7, OutcomeAssumption
<1>8. ASSUME NEW s \in Sessions, NEW v \in EditOutcomes,
             Decided(h, s, [NoOutcome EXCEPT !.verdict = v, !.truth = v])
      PROVE  Inv'
  <2>1. [NoOutcome EXCEPT !.verdict = v, !.truth = v] \in Outcomes
    BY OutcomeAssumption DEF NoOutcome, Outcomes, Verdicts
  <2> QED BY <1>4, <1>8, <2>1
<1> QED BY <1>5, <1>6, <1>7, <1>8 DEF Decide, DecideCommand, DecideEdit

\* A sink error ends the hold on the file, and the escalated answer follows.
LEMMA FailedInv ==
  ASSUME TypeOK, NEW h \in Hooks, SinkFails(h)
  PROVE  HookInv(h)' /\ \E x \in HookStates : hook' = [hook EXCEPT ![h] = x]
<1> DEFINE x == [hook[h] EXCEPT !.pc = "answer", !.sinkError = TRUE]
<1>1. hook \in [Hooks -> HookStates] /\ hook[h] \in HookStates
  BY DEF TypeOK
<1>2. x \in HookStates /\ x.pc = "answer" /\ x.sinkError
  BY <1>1 DEF HookStates, HookPCs
<1>3. hook' = [hook EXCEPT ![h] = x]
  BY <1>1 DEF SinkFails
<1> HIDE DEF x
<1>4. HookInv(h)'
  BY <1>1, <1>2, <1>3 DEF HookInv, Holds
<1> QED BY <1>2, <1>3, <1>4

\* A step that only moves the program counter.
LEMMA StepShape ==
  ASSUME TypeOK, NEW h \in Hooks, NEW pc \in HookPCs, Step(h, pc)
  PROVE  /\ [hook[h] EXCEPT !.pc = pc] \in HookStates
         /\ hook' = [hook EXCEPT ![h] = [hook[h] EXCEPT !.pc = pc]]
         /\ hook'[h].pc = pc /\ hook'[h].name = hook[h].name
         /\ hook'[h].sinkError = hook[h].sinkError /\ RecordOf(h)' = RecordOf(h)
<1>1. hook \in [Hooks -> HookStates] /\ hook[h] \in HookStates
  BY DEF TypeOK
<1>2. [hook[h] EXCEPT !.pc = pc] \in HookStates
  BY <1>1 DEF HookStates
<1>3. hook' = [hook EXCEPT ![h] = [hook[h] EXCEPT !.pc = pc]]
  BY <1>1 DEF Step
<1>4. hook'[h] = [hook[h] EXCEPT !.pc = pc]
  BY <1>1, <1>3
<1> QED BY <1>1, <1>2, <1>3, <1>4 DEF RecordOf, HookStates

\* Two hooks never hold the same file.
LEMMA NamesDiffer ==
  ASSUME Inv, NEW g \in Hooks, NEW h \in Hooks, g # h, Holds(g), Holds(h)
  PROVE  hook[g].name # hook[h].name
  BY RecordsDiffer DEF Inv, HookInv

\* A step of hook h that writes one file which no other hook holds.
LEMMA FileStep ==
  ASSUME Inv, NEW h \in Hooks, NEW x \in HookStates, hook' = [hook EXCEPT ![h] = x],
         NEW n \in Names, NEW f \in Files, files' = [files EXCEPT ![n] = f],
         UNCHANGED <<dir, log>>, HookInv(h)',
         \A g \in Hooks \ {h} : Holds(g) => n # hook[g].name
  PROVE  Inv'
<1>1. TypeOK'
  BY DEF Inv, TypeOK
<1>2. \A m \in Names \ {n} : files'[m] = files[m]
  BY DEF Inv, TypeOK
<1>3. ASSUME NEW g \in Hooks PROVE HookInv(g)'
  <2>1. CASE g = h
    BY <2>1
  <2>2. CASE g # h
    <3>1. hook'[g] = hook[g]
      BY <2>2 DEF Inv, TypeOK
    <3> QED BY <2>2, <3>1, <1>2, BystanderKeeps DEF Inv
  <2> QED BY <2>1, <2>2
<1> QED BY <1>1, <1>3 DEF Inv

\* Preparing the directories leaves every file alone.
LEMMA EnsureRecordDirInv ==
  ASSUME Inv, NEW h \in Hooks, EnsureRecordDir(h)
  PROVE  Inv'
<1>1. dir' \in {"absent", "present", "refused"} /\ UNCHANGED <<files, log>>
  BY DEF EnsureRecordDir, Inv, TypeOK
<1>2. CASE SinkFails(h)
  BY <1>1, <1>2, FailedInv, LocalStep DEF Inv
<1>3. CASE Step(h, "create")
  <2>1. "create" \in HookPCs
    BY DEF HookPCs
  <2>2. HookInv(h)'
    BY <1>3, <2>1, StepShape DEF Inv, HookInv, Holds, EnsureRecordDir
  <2> QED BY <1>1, <1>3, <2>1, <2>2, StepShape, LocalStep DEF Inv
<1> QED BY <1>2, <1>3 DEF EnsureRecordDir

\* A name that is taken is refused, so the created file is no other hook's.
LEMMA CreateRecordFileInv ==
  ASSUME Inv, NEW h \in Hooks, CreateRecordFile(h)
  PROVE  Inv'
<1>1. UNCHANGED <<dir, log>> /\ dir' \in {"absent", "present", "refused"}
  BY DEF CreateRecordFile, Inv, TypeOK
<1>2. CASE SinkFails(h) /\ UNCHANGED files
  BY <1>1, <1>2, FailedInv, LocalStep DEF Inv
<1>3. ASSUME NEW n \in Names, files[n] = NoFile,
             files' = [files EXCEPT ![n] = [state |-> "partial", rec |-> RecordOf(h)]],
             hook' = [hook EXCEPT ![h].pc = "fill", ![h].name = n]
      PROVE  Inv'
  <2> DEFINE x == [hook[h] EXCEPT !.pc = "fill", !.name = n]
             f == [state |-> "partial", rec |-> RecordOf(h)]
  <2>1. hook \in [Hooks -> HookStates] /\ hook[h] \in HookStates
    BY DEF Inv, TypeOK
  <2>2. /\ x \in HookStates /\ x.pc = "fill" /\ x.name = n
        /\ x.session = hook[h].session /\ x.outcome = hook[h].outcome
    BY <2>1 DEF HookStates, HookPCs
  <2>3. hook' = [hook EXCEPT ![h] = x]
    BY <1>3, <2>1
  <2>4. f \in [state : {"partial", "whole"}, rec : Records] /\ f.rec = RecordOf(h)
    BY RecordTyped DEF Inv
  <2> HIDE DEF x
  <2>5. hook'[h] = x
    BY <2>1, <2>3
  <2>6. RecordOf(h)' = RecordOf(h)
    BY <2>2, <2>5 DEF RecordOf
  <2>7. files'[n] = f
    BY <1>3 DEF Inv, TypeOK
  <2>8. HookInv(h)'
    BY <2>2, <2>4, <2>5, <2>6, <2>7 DEF HookInv, Holds
  <2>9. \A g \in Hooks \ {h} : Holds(g) => n # hook[g].name
    BY <1>3 DEF Inv, HookInv, NoFile
  <2>10. f \in Files
    BY <2>4 DEF Files
  <2> HIDE DEF f
  <2> QED BY <1>1, <1>3, <2>2, <2>3, <2>8, <2>9, <2>10, FileStep DEF f
<1> QED BY <1>2, <1>3 DEF CreateRecordFile

\* Filling a file: it stays the hook's own, and is whole if the hook goes on.
LEMMA FillRecordFileInv ==
  ASSUME Inv, NEW h \in Hooks, FillRecordFile(h)
  PROVE  Inv'
<1>1. hook[h].pc = "fill" /\ Holds(h) /\ UNCHANGED <<dir, log>>
  BY DEF FillRecordFile, Holds
<1> DEFINE n == hook[h].name
           F(st) == [files[n] EXCEPT !.state = st]
<1>2. /\ n \in Names /\ files[n] \in [state : {"partial", "whole"}, rec : Records]
      /\ files[n].rec = RecordOf(h)
  BY <1>1 DEF Inv, HookInv
<1>3. \A st \in {"partial", "whole"} :
         /\ F(st) \in [state : {"partial", "whole"}, rec : Records]
         /\ F(st).state = st /\ F(st).rec = RecordOf(h) /\ F(st) \in Files
  BY <1>2 DEF Files
<1>4. \A g \in Hooks \ {h} : Holds(g) => n # hook[g].name
  BY <1>1, NamesDiffer
<1>5. CASE files' = [files EXCEPT ![n].state = "whole"] /\ Step(h, "append")
  <2>1. files' = [files EXCEPT ![n] = F("whole")]
    BY <1>5
  <2>2. "append" \in HookPCs
    BY DEF HookPCs
  <2>3. files'[n] = F("whole")
    BY <1>2, <2>1 DEF Inv, TypeOK
  <2>4. F("whole") \in Files /\ F("whole") \in [state : {"partial", "whole"}, rec : Records]
        /\ F("whole").state = "whole" /\ F("whole").rec = RecordOf(h)
    BY <1>3
  <2> HIDE DEF F
  <2> DEFINE x == [hook[h] EXCEPT !.pc = "append"]
  <2>5. /\ x \in HookStates /\ hook' = [hook EXCEPT ![h] = x]
        /\ hook'[h].pc = "append" /\ hook'[h].name = n /\ RecordOf(h)' = RecordOf(h)
    BY <1>5, <2>2, StepShape DEF Inv
  <2> HIDE DEF x
  <2>6. HookInv(h)'
    BY <1>2, <2>3, <2>4, <2>5 DEF HookInv, Holds
  <2> HIDE DEF n
  <2> QED BY <1>1, <1>2, <1>4, <2>1, <2>4, <2>5, <2>6, FileStep
<1>6. ASSUME NEW st \in {"partial", "whole"}, files' = [files EXCEPT ![n].state = st], SinkFails(h)
      PROVE  Inv'
  <2>1. files' = [files EXCEPT ![n] = F(st)] /\ F(st) \in Files
    BY <1>3, <1>6
  <2> HIDE DEF F
  <2> QED BY <1>1, <1>2, <1>4, <1>6, <2>1, FailedInv, FileStep DEF Inv
<1> QED BY <1>5, <1>6 DEF FillRecordFile

\* The log only grows, and by a whole line when the hook goes on to answer.
LEMMA AppendRecordLineInv ==
  ASSUME Inv, NEW h \in Hooks, AppendRecordLine(h)
  PROVE  Inv'
<1>1. hook[h].pc = "append" /\ Holds(h) /\ UNCHANGED <<dir, files>>
  BY DEF AppendRecordLine, Holds
<1>2. \A w, nl \in BOOLEAN : [rec |-> RecordOf(h), whole |-> w, nl |-> nl] \in Fragments
  BY RecordTyped DEF Inv, Fragments
<1>3. log' = log \/ \E f \in Fragments : log' = Append(log, f)
  BY <1>2 DEF AppendRecordLine, AppendFragment
<1>4. log' \in Seq(Fragments)
  BY <1>3 DEF Inv, TypeOK
<1>5. \E pc \in HookPCs : Step(h, pc)
  BY DEF AppendRecordLine, HookPCs
<1>6. TypeOK'
  BY <1>1, <1>4, <1>5, StepShape DEF Inv, TypeOK
<1>7. HookInv(h)'
  <2>1. CASE AppendFragment(h, TRUE, TRUE) /\ Step(h, "answer")
    <3>1. "answer" \in HookPCs
      BY DEF HookPCs
    <3>2. Len(log) + 1 \in DOMAIN log'
          /\ log'[Len(log) + 1] = [rec |-> RecordOf(h), whole |-> TRUE, nl |-> TRUE]
      BY <1>2, <2>1 DEF AppendFragment, Inv, TypeOK
    <3>3. /\ hook'[h].pc = "answer" /\ hook'[h].name = hook[h].name /\ RecordOf(h)' = RecordOf(h)
          /\ files' = files
      BY <1>1, <2>1, <3>1, StepShape DEF Inv
    <3>4. /\ hook[h].name \in Names /\ files[hook[h].name].rec = RecordOf(h)
          /\ files[hook[h].name] \in [state : {"partial", "whole"}, rec : Records]
          /\ files[hook[h].name].state = "whole"
      BY <1>1 DEF Inv, HookInv
    <3>5. \E i \in DOMAIN log' : log'[i] = [rec |-> RecordOf(h), whole |-> TRUE, nl |-> TRUE]
      BY <3>2
    <3> QED BY <3>3, <3>4, <3>5 DEF HookInv
  <2>2. CASE Step(h, "rollback")
    <3>1. "rollback" \in HookPCs
      BY DEF HookPCs
    <3> QED BY <1>1, <2>2, <3>1, StepShape DEF Inv, HookInv, Holds
  <2> QED BY <2>1, <2>2 DEF AppendRecordLine
<1>8. ASSUME NEW g \in Hooks, g # h PROVE HookInv(g)'
  <2>1. hook'[g] = hook[g]
    BY <1>5, <1>8 DEF Step, Inv, TypeOK
  <2> QED BY <1>1, <1>3, <2>1, BystanderKeeps DEF Inv
<1> QED BY <1>6, <1>7, <1>8 DEF Inv

\* Removing the file after a failed append: it is the hook's own.
LEMMA RollbackInv ==
  ASSUME Inv, NEW h \in Hooks, Rollback(h)
  PROVE  Inv'
<1>1. Holds(h) /\ SinkFails(h) /\ UNCHANGED <<dir, log>> /\ dir' \in {"absent", "present", "refused"}
  BY DEF Rollback, Holds, Inv, TypeOK
<1>2. \A g \in Hooks \ {h} : Holds(g) => hook[h].name # hook[g].name
  BY <1>1, NamesDiffer
<1>3. hook[h].name \in Names /\ NoFile \in Files
  BY <1>1 DEF Inv, HookInv, Files
<1>4. CASE files' = [files EXCEPT ![hook[h].name] = NoFile]
  BY <1>1, <1>2, <1>3, <1>4, FailedInv, FileStep DEF Inv
<1>5. CASE UNCHANGED files
  BY <1>1, <1>5, FailedInv, LocalStep DEF Inv
<1> QED BY <1>4, <1>5 DEF Rollback

\* Answering keeps what the sink left.
LEMMA AnswerInv ==
  ASSUME Inv, NEW h \in Hooks, Answer(h)
  PROVE  Inv'
<1> DEFINE p == PermissionFor(EnforcedVerdict(h))
           x == [hook[h] EXCEPT !.pc = "done", !.answer = p]
<1>1. hook \in [Hooks -> HookStates] /\ hook[h] \in HookStates
  BY DEF Inv, TypeOK
<1>2. p \in {"none", "silent", "ask", "deny"}
  BY PermissionRange
<1>3. hook' = [hook EXCEPT ![h] = x] /\ hook[h].pc = "answer" /\ UNCHANGED <<dir, files, log>>
  BY <1>1 DEF Answer
<1> HIDE DEF p
<1>4. /\ x \in HookStates /\ x.pc = "done" /\ x.name = hook[h].name /\ x.sinkError = hook[h].sinkError
      /\ x.session = hook[h].session /\ x.outcome = hook[h].outcome
  BY <1>1, <1>2 DEF HookStates, HookPCs
<1> HIDE DEF x
<1>5. hook'[h] = x
  BY <1>1, <1>3
<1>6. RecordOf(h)' = RecordOf(h)
  BY <1>4, <1>5 DEF RecordOf
<1>7. HookInv(h)'
  BY <1>3, <1>4, <1>5, <1>6 DEF Inv, HookInv, Holds
<1>8. dir' \in {"absent", "present", "refused"}
  BY <1>3 DEF Inv, TypeOK
<1> QED BY <1>3, <1>4, <1>7, <1>8, LocalStep

\* A killed hook holds nothing.
LEMMA KillInv ==
  ASSUME Inv, NEW h \in Hooks, Kill(h)
  PROVE  Inv'
<1>1. Step(h, "killed") /\ UNCHANGED <<dir, files, log>> /\ "killed" \in HookPCs
  BY DEF Kill, Step, HookPCs
<1>2. HookInv(h)'
  BY <1>1, StepShape DEF Inv, HookInv, Holds
<1>3. dir' \in {"absent", "present", "refused"}
  BY <1>1 DEF Inv, TypeOK
<1> QED BY <1>1, <1>2, <1>3, StepShape, LocalStep DEF Inv

\* Neither a session's end nor a stutter touches a hook, a file or the log.
LEMMA QuietInv ==
  ASSUME Inv, UNCHANGED <<files, log, hook>>, dir' = dir \/ dir' = "present"
  PROVE  Inv'
<1>1. TypeOK'
  BY DEF Inv, TypeOK
<1>2. ASSUME NEW h \in Hooks PROVE HookInv(h)'
  BY BystanderKeeps DEF Inv
<1> QED BY <1>1, <1>2 DEF Inv

\* Every step of every process keeps the invariant.
LEMMA NextInv == Inv /\ [Next]_vars => Inv'
<1> SUFFICES ASSUME Inv, [Next]_vars PROVE Inv'
  OBVIOUS
<1>1. ASSUME NEW h \in Hooks,
             \/ Decide(h) \/ EnsureRecordDir(h) \/ CreateRecordFile(h) \/ FillRecordFile(h)
             \/ AppendRecordLine(h) \/ Rollback(h) \/ Answer(h) \/ Kill(h)
      PROVE  Inv'
  BY <1>1, DecideInv, EnsureRecordDirInv, CreateRecordFileInv, FillRecordFileInv, AppendRecordLineInv,
     RollbackInv, AnswerInv, KillInv
<1>2. ASSUME NEW e \in Enders,
             SessionEnd(e) \/ ScanLine(e) \/ WriteSessionSummary(e) \/ ScanFails(e)
      PROVE  Inv'
  <2>1. UNCHANGED <<files, log, hook>> /\ (dir' = dir \/ dir' = "present")
    BY <1>2 DEF SessionEnd, ScanLine, WriteSessionSummary, ScanFails
  <2> QED BY <2>1, QuietInv
<1>3. CASE UNCHANGED vars
  BY <1>3, QuietInv DEF vars
<1> QED BY <1>1, <1>2, <1>3 DEF Next

\* The invariant holds of every reachable state.
LEMMA HookInvariant == Spec => []Inv
<1> QED BY InitInv, NextInv, PTL DEF Spec

\* A decision the host acts on was written down first: the hook's record file
\* is whole and its own and its line is in the log when it answers without a
\* sink error, for any number of concurrent hooks, any failures and kills.
THEOREM HookRecordedBeforeActed == Spec => []RecordedBeforeActed
<1>1. Inv => RecordedBeforeActed
  <2> SUFFICES ASSUME Inv, NEW h \in Hooks,
                      hook[h].pc = "done", hook[h].name # "none" \/ hook[h].session # "none", ~hook[h].sinkError
               PROVE  /\ hook[h].name \in Names
                      /\ files[hook[h].name] = [state |-> "whole", rec |-> RecordOf(h)]
                      /\ \E i \in DOMAIN log : log[i] = [rec |-> RecordOf(h), whole |-> TRUE, nl |-> TRUE]
    BY DEF RecordedBeforeActed
  <2>1. Holds(h)
    BY DEF Holds
  <2> QED BY <2>1 DEF Inv, HookInv
<1> QED BY <1>1, HookInvariant, PTL

-----------------------------------------------------------------------------
(* The answer. *)

\* The answer of a process in state s follows what it concluded, and a sink
\* error is never silent.
Follows(s) ==
  /\ PermissionStrength(s.answer) >= PermissionStrength(PermissionFor(s.outcome.verdict))
  /\ s.outcome.verdict # "allow" \/ s.sinkError => s.answer # "silent"

\* There is a verdict from the start, and the answer follows it.
Covered(s) ==
  /\ s.outcome.verdict \in Verdicts
  /\ s.pc = "idle" => s.outcome = NoOutcome /\ ~s.sinkError
  /\ s.pc = "done" => Follows(s)

AInv == TypeOK /\ \A h \in Hooks : Covered(hook[h])

\* A stricter verdict is a stricter answer, and only an allow is silent.
LEMMA PermissionMonotone ==
  ASSUME NEW v \in Verdicts, NEW w \in Verdicts, VerdictStrength(v) <= VerdictStrength(w)
  PROVE  /\ PermissionStrength(PermissionFor(v)) <= PermissionStrength(PermissionFor(w))
         /\ w # "allow" => PermissionFor(w) # "silent"
         /\ v # "allow" => w # "allow"
  BY DEF Verdicts, VerdictStrength, PermissionFor, PermissionStrength

\* Escalating a verdict never softens it, and does not leave it an allow.
LEMMA EscalationStricter ==
  ASSUME NEW v \in Verdicts
  PROVE  /\ AtLeastAsStrict(v, "require_approval") \in Verdicts
         /\ AtLeastAsStrict(v, "require_approval") # "allow"
         /\ VerdictStrength(v) <= VerdictStrength(AtLeastAsStrict(v, "require_approval"))
         /\ VerdictStrength(v) <= VerdictStrength(v)
  BY DEF Verdicts, VerdictStrength, AtLeastAsStrict

LEMMA PermissionStrengthInt == \A u : PermissionStrength(u) \in Int
  BY DEF PermissionStrength

\* One process moves, to a state that is covered.
LEMMA CoveredStep ==
  ASSUME AInv, TypeOK', NEW h \in Hooks, NEW x, hook' = [hook EXCEPT ![h] = x], Covered(x)
  PROVE  AInv'
<1>1. hook'[h] = x /\ \A g \in Hooks \ {h} : hook'[g] = hook[g]
  BY DEF AInv, TypeOK
<1>2. \A g \in Hooks : Covered(hook'[g])
  BY <1>1 DEF AInv
<1> QED BY <1>2 DEF AInv

\* A step between the classification and the answer leaves the outcome alone.
LEMMA CoveredOnTheWay ==
  ASSUME AInv, TypeOK', NEW h \in Hooks, NEW x, hook' = [hook EXCEPT ![h] = x],
         x.outcome = hook[h].outcome, x.pc # "idle", x.pc # "done"
  PROVE  AInv'
<1>1. x.outcome.verdict \in Verdicts
  BY DEF AInv, Covered
<1>2. Covered(x)
  BY <1>1 DEF Covered
<1> QED BY <1>2, CoveredStep

\* The classification: whatever the route, it reaches a verdict.
LEMMA CoveredDecided ==
  ASSUME AInv, TypeOK', NEW h \in Hooks, NEW s, NEW o, o.verdict \in Verdicts, Decided(h, s, o)
  PROVE  AInv'
<1>1. hook[h] \in HookStates /\ hook \in [Hooks -> HookStates]
  BY DEF AInv, TypeOK
<1>2. PICK x : x = [hook[h] EXCEPT !.pc = "dirs", !.session = s, !.outcome = o]
  OBVIOUS
<1>3. hook' = [hook EXCEPT ![h] = x]
  BY <1>1, <1>2 DEF Decided
<1>4. x.pc = "dirs" /\ x.outcome = o
  BY <1>1, <1>2 DEF HookStates
<1>5. Covered(x)
  BY <1>4 DEF Covered
<1> QED BY <1>3, <1>5, CoveredStep

LEMMA AnswerDecide ==
  ASSUME AInv, TypeOK', NEW h \in Hooks, Decide(h)
  PROVE  AInv'
<1>1. ASSUME NEW s, FaultResult(h, s) PROVE AInv'
  <2>1. PICK m \in FailModes : Decided(h, s, [NoOutcome EXCEPT !.verdict = FailModeVerdict(m)])
    BY <1>1 DEF FaultResult
  <2>2. [NoOutcome EXCEPT !.verdict = FailModeVerdict(m)].verdict \in Verdicts
    BY FailModeRange DEF NoOutcome
  <2> QED BY <2>1, <2>2, CoveredDecided
<1>2. ASSUME NEW s, DecideCommand(h, s) PROVE AInv'
  <2>1. PICK o \in CommandOutcomes : Decided(h, s, o)
    BY <1>2 DEF DecideCommand
  <2>2. o.verdict \in Verdicts
    BY OutcomeAssumption DEF Outcomes
  <2> QED BY <2>1, <2>2, CoveredDecided
<1>3. ASSUME NEW s, DecideEdit(h, s) PROVE AInv'
  <2>1. PICK v \in EditOutcomes : Decided(h, s, [NoOutcome EXCEPT !.verdict = v, !.truth = v])
    BY <1>3 DEF DecideEdit
  <2>2. [NoOutcome EXCEPT !.verdict = v, !.truth = v].verdict \in Verdicts
    BY OutcomeAssumption DEF NoOutcome
  <2> QED BY <2>1, <2>2, CoveredDecided
<1>4. CASE hook' = [hook EXCEPT ![h].pc = "done", ![h].answer = PermissionFor("allow")]
  \* An ungoverned tool: nothing was concluded and nothing went wrong.
  <2>1. hook[h] \in HookStates /\ hook \in [Hooks -> HookStates] /\ hook[h].pc = "idle"
    BY DEF AInv, TypeOK, Decide
  <2>2. hook[h].outcome = NoOutcome /\ ~hook[h].sinkError /\ NoOutcome.verdict \in Verdicts
    BY <2>1 DEF AInv, Covered
  <2>3. PICK x : x = [hook[h] EXCEPT !.pc = "done", !.answer = PermissionFor("allow")]
    OBVIOUS
  <2>4. hook' = [hook EXCEPT ![h] = x]
    BY <1>4, <2>1, <2>3
  <2>5. /\ x.pc = "done" /\ x.answer = PermissionFor("allow") /\ x.outcome = NoOutcome
        /\ ~x.sinkError
    BY <2>1, <2>2, <2>3 DEF HookStates
  <2>6. PermissionStrength(PermissionFor("allow")) >= PermissionStrength(PermissionFor("allow"))
    BY PermissionStrengthInt
  <2>7. Covered(x)
    BY <2>2, <2>5, <2>6 DEF Covered, Follows, NoOutcome
  <2> QED BY <2>4, <2>7, CoveredStep
<1> QED BY <1>1, <1>2, <1>3, <1>4 DEF Decide

\* The answer: the verdict, escalated when the sink failed.
LEMMA AnswerAnswer ==
  ASSUME AInv, TypeOK', NEW h \in Hooks, Answer(h)
  PROVE  AInv'
<1>1. hook[h] \in HookStates /\ hook \in [Hooks -> HookStates] /\ hook[h].outcome.verdict \in Verdicts
  BY DEF AInv, TypeOK, Covered
<1>2. PICK v : v = EnforcedVerdict(h)
  OBVIOUS
<1>3. PICK u : u = hook[h].outcome.verdict
  OBVIOUS
<1>4. u \in Verdicts
  BY <1>1, <1>3
<1>5. /\ v \in Verdicts /\ VerdictStrength(u) <= VerdictStrength(v)
      /\ hook[h].sinkError => v # "allow"
  <2>1. CASE hook[h].sinkError
    BY <1>2, <1>3, <1>4, <2>1, EscalationStricter DEF EnforcedVerdict
  <2>2. CASE ~hook[h].sinkError
    BY <1>2, <1>3, <1>4, <2>2, EscalationStricter DEF EnforcedVerdict
  <2> QED BY <2>1, <2>2
<1>6. PICK x : x = [hook[h] EXCEPT !.pc = "done", !.answer = PermissionFor(v)]
  OBVIOUS
<1>7. hook' = [hook EXCEPT ![h] = x]
  BY <1>1, <1>2, <1>6 DEF Answer
<1>8. /\ x.pc = "done" /\ x.outcome = hook[h].outcome /\ x.answer = PermissionFor(v)
      /\ x.sinkError = hook[h].sinkError
  BY <1>1, <1>6 DEF HookStates
<1>9. /\ PermissionStrength(PermissionFor(u)) <= PermissionStrength(PermissionFor(v))
      /\ v # "allow" => PermissionFor(v) # "silent"
      /\ u # "allow" => v # "allow"
  BY <1>4, <1>5, PermissionMonotone
<1>10. Follows(x)
  BY <1>3, <1>5, <1>8, <1>9, PermissionStrengthInt DEF Follows
<1>11. Covered(x)
  BY <1>1, <1>8, <1>10 DEF Covered
<1> QED BY <1>7, <1>11, CoveredStep

\* Everything between the two.
LEMMA AnswerBetween ==
  ASSUME AInv, TypeOK', NEW h \in Hooks,
         \/ EnsureRecordDir(h) \/ CreateRecordFile(h) \/ FillRecordFile(h)
         \/ AppendRecordLine(h) \/ Rollback(h) \/ Kill(h)
  PROVE  AInv'
<1>1. hook[h] \in HookStates /\ hook \in [Hooks -> HookStates]
  BY DEF AInv, TypeOK
<1>2. ASSUME NEW pc, pc # "idle", pc # "done", hook' = [hook EXCEPT ![h].pc = pc] PROVE AInv'
  <2>1. PICK x : x = [hook[h] EXCEPT !.pc = pc]
    OBVIOUS
  <2>2. hook' = [hook EXCEPT ![h] = x] /\ x.pc = pc /\ x.outcome = hook[h].outcome
    BY <1>1, <1>2, <2>1 DEF HookStates
  <2> QED BY <1>2, <2>2, CoveredOnTheWay
<1>3. ASSUME SinkFails(h) PROVE AInv'
  <2>1. PICK x : x = [hook[h] EXCEPT !.pc = "answer", !.sinkError = TRUE]
    OBVIOUS
  <2>2. hook' = [hook EXCEPT ![h] = x] /\ x.pc = "answer" /\ x.outcome = hook[h].outcome
    BY <1>1, <1>3, <2>1 DEF HookStates, SinkFails
  <2> QED BY <2>2, CoveredOnTheWay
<1>4. ASSUME NEW n, hook' = [hook EXCEPT ![h].pc = "fill", ![h].name = n] PROVE AInv'
  <2>1. PICK x : x = [hook[h] EXCEPT !.pc = "fill", !.name = n]
    OBVIOUS
  <2>2. hook' = [hook EXCEPT ![h] = x] /\ x.pc = "fill" /\ x.outcome = hook[h].outcome
    BY <1>1, <1>4, <2>1 DEF HookStates
  <2> QED BY <2>2, CoveredOnTheWay
<1>5. CASE EnsureRecordDir(h)
  BY <1>2, <1>3, <1>5 DEF EnsureRecordDir, Step
<1>6. CASE CreateRecordFile(h)
  BY <1>3, <1>4, <1>6 DEF CreateRecordFile
<1>7. CASE FillRecordFile(h)
  BY <1>2, <1>3, <1>7 DEF FillRecordFile, Step
<1>8. CASE AppendRecordLine(h)
  BY <1>2, <1>8 DEF AppendRecordLine, Step
<1>9. CASE Rollback(h)
  BY <1>3, <1>9 DEF Rollback
<1>10. CASE Kill(h)
  BY <1>2, <1>10 DEF Kill
<1> QED BY <1>5, <1>6, <1>7, <1>8, <1>9, <1>10

\* A covered process that answered follows its verdict.
LEMMA CoveredAnswers ==
  ASSUME AInv PROVE AnswerKeepsVerdict
<1> SUFFICES ASSUME NEW h \in Hooks, hook[h].pc = "done"
             PROVE  /\ PermissionStrength(hook[h].answer)
                         >= PermissionStrength(PermissionFor(hook[h].outcome.verdict))
                    /\ hook[h].sinkError => hook[h].answer # "silent"
  BY DEF AnswerKeepsVerdict
<1>1. Follows(hook[h])
  BY DEF AInv, Covered
<1> QED BY <1>1 DEF Follows

LEMMA AInvInit == ASSUME Init PROVE AInv
<1>1. TypeOK
  BY InitInv DEF Inv
<1>2. NotStarted.outcome = NoOutcome /\ NotStarted.pc = "idle" /\ ~NotStarted.sinkError
  BY DEF NotStarted
<1>3. NoOutcome.verdict \in Verdicts
  BY DEF NoOutcome, Verdicts
<1>4. Covered(NotStarted)
  BY <1>2, <1>3 DEF Covered
<1> QED BY <1>1, <1>4 DEF AInv, Init

\* The answer that reaches the host is at least as strict as the verdict the
\* route reached, and a decision that could not be recorded is never let through
\* silently: no interleaving of hooks, sink faults and kills softens a verdict on
\* its way to stdout.  (That the verdict covers the line is the other half of
\* AnswerCoversCall, about recursive definitions, and is left to TLC.)
THEOREM HookAnswerKeepsVerdict == Spec => []AnswerKeepsVerdict
<1>1. Init => AInv
  BY AInvInit
<1>2. TypeOK /\ TypeOK' /\ AInv /\ [Next]_vars => AInv'
  <2> SUFFICES ASSUME TypeOK, TypeOK', AInv, [Next]_vars PROVE AInv'
    OBVIOUS
  <2>1. ASSUME NEW h \in Hooks,
               \/ Decide(h) \/ EnsureRecordDir(h) \/ CreateRecordFile(h) \/ FillRecordFile(h)
               \/ AppendRecordLine(h) \/ Rollback(h) \/ Answer(h) \/ Kill(h)
        PROVE  AInv'
    BY <2>1, AnswerDecide, AnswerBetween, AnswerAnswer
  <2>2. CASE hook' = hook
    BY <2>2 DEF AInv
  <2>3. ASSUME NEW e \in Enders, SessionEnd(e) \/ ScanLine(e) \/ WriteSessionSummary(e) \/ ScanFails(e)
        PROVE  AInv'
    BY <2>2, <2>3 DEF SessionEnd, ScanLine, WriteSessionSummary, ScanFails
  <2> QED BY <2>1, <2>2, <2>3 DEF Next, vars
<1>3. AInv => AnswerKeepsVerdict
  BY CoveredAnswers
<1>4. Inv => TypeOK
  BY DEF Inv
<1> QED BY <1>1, <1>2, <1>3, <1>4, InitInv, NextInv, PTL DEF Spec

-----------------------------------------------------------------------------
(* The session summary.  The log is a parameter J of what follows. *)

\* A nonempty set of numbers has a least one.
LEMMA LeastIn ==
  ASSUME NEW T, T \subseteq Nat, T # {}
  PROVE  \E x \in T : \A y \in T : x <= y
<1> DEFINE R == {ss \in Nat \X Nat : ss[1] < ss[2]}
<1>1. IsWellFoundedOn(R, Nat)
  BY NatLessThanWellFounded DEF OpToRel
<1>2. \A x, y \in Nat : <<y, x>> \in R <=> y < x
  OBVIOUS
<1> HIDE DEF R
<1>3. PICK x \in T : \A y \in T : ~ (<<y, x>> \in R)
  BY <1>1, WFMin
<1>4. ASSUME NEW y \in T PROVE x <= y
  <2>1. x \in Nat /\ y \in Nat /\ ~(<<y, x>> \in R)
    BY <1>3
  <2> QED BY <1>2, <2>1
<1> QED BY <1>4

\* The line that starts at a fragment of the log has an end: a newline or the
\* end of the log.
LEMMA LineEndExists ==
  ASSUME log \in Seq(Fragments), NEW i \in 1..Len(log)
  PROVE  LineEnd(i) \in i..Len(log) /\ (log[LineEnd(i)].nl \/ LineEnd(i) = Len(log))
<1> DEFINE T == {j \in i..Len(log) : log[j].nl \/ j = Len(log)}
<1>1. T \subseteq Nat /\ Len(log) \in T
  OBVIOUS
<1>2. PICK j \in T : \A k \in T : j <= k
  BY <1>1, LeastIn
<1>3. ASSUME NEW k \in i..(j - 1) PROVE ~log[k].nl
  <2>1. k \in i..Len(log) /\ ~(j <= k)
    BY <1>2
  <2> QED BY <1>2, <2>1
<1>4. \E m \in i..Len(log) : /\ log[m].nl \/ m = Len(log)
                             /\ \A k \in i..(m - 1) : ~log[k].nl
  BY <1>2, <1>3
<1> QED BY <1>4 DEF LineEnd

\* The records of session s among the first n fragments.
Upto(J, s, n) == {i \in 1..n : J[i].rec.session = s /\ J[i].whole}

\* There are finitely many of them, and more in a longer prefix.
LEMMA UptoMonotone ==
  ASSUME NEW J, NEW s, NEW m \in Nat, NEW n \in Nat, m <= n
  PROVE  /\ IsFiniteSet(Upto(J, s, n)) /\ Cardinality(Upto(J, s, n)) \in Nat
         /\ Cardinality(Upto(J, s, m)) \in Nat
         /\ Cardinality(Upto(J, s, m)) <= Cardinality(Upto(J, s, n))
<1>1. IsFiniteSet(1..n)
  BY FS_Interval
<1>2. Upto(J, s, n) \in SUBSET (1..n) /\ Upto(J, s, m) \in SUBSET Upto(J, s, n)
  BY DEF Upto
<1>3. IsFiniteSet(Upto(J, s, n))
  BY <1>1, <1>2, FS_Subset
<1>4. IsFiniteSet(Upto(J, s, m)) /\ Cardinality(Upto(J, s, m)) <= Cardinality(Upto(J, s, n))
  BY <1>2, <1>3, FS_Subset
<1> QED BY <1>3, <1>4, FS_CardinalityType

\* A whole fragment adds one record, to its own session.
LEMMA UptoNext ==
  ASSUME NEW J, NEW s, NEW i \in Nat \ {0}, J[i].whole
  PROVE  Cardinality(Upto(J, s, i))
           = Cardinality(Upto(J, s, i - 1)) + (IF J[i].rec.session = s THEN 1 ELSE 0)
<1>1. /\ IsFiniteSet(Upto(J, s, i - 1)) /\ Cardinality(Upto(J, s, i - 1)) \in Nat
  BY UptoMonotone
<1>2. i \notin Upto(J, s, i - 1)
  BY DEF Upto
<1>3. CASE J[i].rec.session = s
  <2>1. Upto(J, s, i) = Upto(J, s, i - 1) \cup {i}
    BY <1>3 DEF Upto
  <2> QED BY <1>1, <1>2, <1>3, <2>1, FS_AddElement
<1>4. CASE J[i].rec.session # s
  <2>1. Upto(J, s, i) = Upto(J, s, i - 1)
    BY <1>4 DEF Upto
  <2> QED BY <1>1, <1>4, <2>1
<1> QED BY <1>3, <1>4

EnderStates ==
  [pc : {"idle", "scan", "eof", "written", "fault"}, session : Sessions \cup {"none"},
   pos : Nat, decisions : Nat, unreadable : Nat, before : Nat]

\* What a scan in state d started from: the records of a prefix of the log,
\* which it has passed when it is at the end of the file.
Began(J, d) ==
  \E n \in 0..Len(J) :
    /\ d.before = Cardinality(Upto(J, d.session, n))
    /\ d.pc \in {"eof", "written"} => n <= d.pos - 1

\* A scan that met only readable lines has counted its session's records up to
\* where it stands.
Counted(J, d) ==
  /\ d.pc = "scan" => d.pos >= 1
  /\ d.pc \in {"scan", "eof", "written"} /\ d.unreadable = 0 =>
       /\ Began(J, d)
       /\ d.pos \in 1..(Len(J) + 1)
       /\ d.decisions = Cardinality(Upto(J, d.session, d.pos - 1))

SInv ==
  /\ ender \in [Enders -> EnderStates]
  /\ \A e \in Enders : Counted(log, ender[e])

\* What is counted stays counted when the log grows.
LEMMA CountedGrows ==
  ASSUME NEW J \in Seq(Fragments), NEW f \in Fragments, NEW d \in EnderStates, Counted(J, d)
  PROVE  Counted(Append(J, f), d)
<1> SUFFICES ASSUME d.pc \in {"scan", "eof", "written"}, d.unreadable = 0
             PROVE  /\ Began(Append(J, f), d)
                    /\ d.pos \in 1..(Len(Append(J, f)) + 1)
                    /\ d.decisions = Cardinality(Upto(Append(J, f), d.session, d.pos - 1))
  BY DEF Counted
<1>1. /\ Began(J, d) /\ d.pos \in 1..(Len(J) + 1)
      /\ d.decisions = Cardinality(Upto(J, d.session, d.pos - 1))
  BY DEF Counted
<1>2. Len(Append(J, f)) = Len(J) + 1 /\ Len(J) \in Nat
  OBVIOUS
<1>3. ASSUME NEW n \in 0..Len(J) PROVE Upto(Append(J, f), d.session, n) = Upto(J, d.session, n)
  <2>1. \A i \in 1..n : Append(J, f)[i] = J[i]
    OBVIOUS
  <2> QED BY <2>1 DEF Upto
<1>4. Began(Append(J, f), d)
  <2>1. PICK n \in 0..Len(J) : /\ d.before = Cardinality(Upto(J, d.session, n))
                               /\ d.pc \in {"eof", "written"} => n <= d.pos - 1
    BY <1>1 DEF Began
  <2>2. n \in 0..Len(Append(J, f)) /\ d.before = Cardinality(Upto(Append(J, f), d.session, n))
    BY <1>2, <1>3, <2>1
  <2> QED BY <2>1, <2>2 DEF Began
<1>5. d.pos - 1 \in 0..Len(J)
  BY <1>1, <1>2
<1>6. d.decisions = Cardinality(Upto(Append(J, f), d.session, d.pos - 1))
  BY <1>1, <1>3, <1>5
<1> QED BY <1>1, <1>2, <1>4, <1>6

\* A hook's step adds at most a fragment to the log.
LEMMA HookLogGrows ==
  ASSUME TypeOK, NEW h \in Hooks,
         \/ Decide(h) \/ EnsureRecordDir(h) \/ CreateRecordFile(h) \/ FillRecordFile(h)
         \/ AppendRecordLine(h) \/ Rollback(h) \/ Answer(h) \/ Kill(h)
  PROVE  ender' = ender /\ (log' = log \/ \E f \in Fragments : log' = Append(log, f))
<1>1. ASSUME NEW w \in BOOLEAN, NEW nl \in BOOLEAN, AppendFragment(h, w, nl)
      PROVE  \E f \in Fragments : log' = Append(log, f)
  <2>1. [rec |-> RecordOf(h), whole |-> w, nl |-> nl] \in Fragments
    BY RecordTyped DEF Fragments
  <2> QED BY <1>1, <2>1 DEF AppendFragment
<1>2. CASE AppendRecordLine(h)
  BY <1>1, <1>2 DEF AppendRecordLine
<1>3. CASE \/ Decide(h) \/ EnsureRecordDir(h) \/ CreateRecordFile(h) \/ FillRecordFile(h)
           \/ Rollback(h) \/ Answer(h) \/ Kill(h)
  BY <1>3 DEF Decide, EnsureRecordDir, CreateRecordFile, FillRecordFile, Rollback, Answer, Kill
<1> QED BY <1>2, <1>3

\* One session end moves, to a state that has counted what it says.
LEMMA EnderStep ==
  ASSUME SInv, log' = log, NEW e \in Enders, NEW x \in EnderStates,
         ender' = [ender EXCEPT ![e] = x], Counted(log, x)
  PROVE  SInv'
<1>1. /\ ender' \in [Enders -> EnderStates] /\ ender'[e] = x
      /\ \A g \in Enders \ {e} : ender'[g] = ender[g]
  BY DEF SInv
<1>2. \A g \in Enders : Counted(log, ender'[g])
  BY <1>1 DEF SInv
<1> QED BY <1>1, <1>2 DEF SInv

\* The scan begins before the first fragment.
LEMMA SessionEndCounts ==
  ASSUME SInv, TypeOK, NEW e \in Enders, SessionEnd(e)
  PROVE  SInv'
<1>1. PICK s \in Sessions \cup {"none"} :
        ender' = [ender EXCEPT ![e] = [NotEnding EXCEPT !.pc = "scan", !.session = s, !.pos = 1,
                                                        !.before = Cardinality(Logged(s))]]
  BY DEF SessionEnd
<1>2. Len(log) \in Nat /\ Logged(s) = Upto(log, s, Len(log))
  BY DEF TypeOK, Logged, Upto
<1>3. Cardinality(Logged(s)) \in Nat
  BY <1>2, UptoMonotone
<1>4. PICK x : x = [NotEnding EXCEPT !.pc = "scan", !.session = s, !.pos = 1,
                                     !.before = Cardinality(Logged(s))]
  OBVIOUS
<1>5. /\ x \in EnderStates /\ x.pc = "scan" /\ x.session = s /\ x.pos = 1 /\ x.decisions = 0
      /\ x.before = Cardinality(Logged(s))
  <2>1. PICK c : c = Cardinality(Logged(s))
    OBVIOUS
  <2>2. x = [pc |-> "scan", session |-> s, pos |-> 1, decisions |-> 0, unreadable |-> 0, before |-> c]
    BY <1>4, <2>1 DEF NotEnding
  <2>3. c \in Nat
    BY <1>3, <2>1
  <2> QED BY <2>1, <2>2, <2>3 DEF EnderStates
<1>6. Upto(log, x.session, x.pos - 1) = {}
  BY <1>5 DEF Upto
<1>7. Began(log, x)
  BY <1>2, <1>5 DEF Began
<1>8. Counted(log, x)
  <2>1. x.decisions = Cardinality(Upto(log, x.session, x.pos - 1))
    BY <1>5, <1>6, FS_EmptySet
  <2>2. x.pos \in 1..(Len(log) + 1) /\ x.pos >= 1
    BY <1>2, <1>5
  <2> QED BY <1>7, <2>1, <2>2 DEF Counted
<1>9. ender' = [ender EXCEPT ![e] = x] /\ log' = log
  BY <1>1, <1>4 DEF SessionEnd
<1> QED BY <1>5, <1>8, <1>9, EnderStep

\* One line: a readable one is one fragment, counted if it is the session's.
LEMMA ScanLineCounts ==
  ASSUME SInv, TypeOK, NEW e \in Enders, ScanLine(e)
  PROVE  SInv'
<1>1. PICK d : d = ender[e]
  OBVIOUS
<1>2. d \in EnderStates /\ Counted(log, d) /\ d.pc = "scan" /\ d.pos <= Len(log) /\ log' = log
  BY <1>1 DEF SInv, ScanLine
<1>3. PICK i : i = d.pos
  OBVIOUS
<1>4. PICK x : x = [d EXCEPT !.pos = LineEnd(i) + 1, !.pc = AfterLine(i),
                      !.decisions = @ + (IF Readable(i) /\ log[i].rec.session = d.session THEN 1 ELSE 0),
                      !.unreadable = @ + (IF Readable(i) THEN 0 ELSE 1)]
  OBVIOUS
<1>5. ender' = [ender EXCEPT ![e] = x]
  BY <1>1, <1>3, <1>4 DEF ScanLine, Visit, SInv
<1>6. /\ x.pos = LineEnd(i) + 1 /\ x.pc = AfterLine(i) /\ x.session = d.session /\ x.before = d.before
      /\ x.decisions = d.decisions + (IF Readable(i) /\ log[i].rec.session = d.session THEN 1 ELSE 0)
      /\ x.unreadable = d.unreadable + (IF Readable(i) THEN 0 ELSE 1)
  BY <1>2, <1>4 DEF EnderStates
<1>7. i \in 1..Len(log) /\ Len(log) \in Nat
  BY <1>2, <1>3 DEF Counted, EnderStates, TypeOK
<1>8. LineEnd(i) \in i..Len(log) /\ (log[LineEnd(i)].nl \/ LineEnd(i) = Len(log))
  BY <1>7, LineEndExists DEF TypeOK
<1>9. x \in EnderStates /\ x.pos >= 1
  <2>1. AfterLine(i) \in {"scan", "eof"}
    BY DEF AfterLine
  <2>2. LineEnd(i) + 1 \in Nat /\ LineEnd(i) + 1 >= 1
    BY <1>7, <1>8
  <2>3. /\ d.decisions + (IF Readable(i) /\ log[i].rec.session = d.session THEN 1 ELSE 0) \in Nat
        /\ d.unreadable + (IF Readable(i) THEN 0 ELSE 1) \in Nat
    BY <1>2 DEF EnderStates
  <2> QED BY <1>2, <1>4, <1>6, <2>1, <2>2, <2>3 DEF EnderStates
<1>10. ASSUME x.unreadable = 0
       PROVE  /\ Began(log, x)
              /\ x.pos \in 1..(Len(log) + 1)
              /\ x.decisions = Cardinality(Upto(log, x.session, x.pos - 1))
  <2>1. d.unreadable = 0 /\ Readable(i)
    BY <1>2, <1>6, <1>10 DEF EnderStates
  <2>2. LineEnd(i) = i /\ log[i].whole
    BY <2>1 DEF Readable
  <2>3. /\ Began(log, d) /\ d.decisions = Cardinality(Upto(log, d.session, i - 1))
    BY <1>2, <1>3, <2>1 DEF Counted
  <2>4. x.pos = i + 1 /\ x.pos - 1 = i
    BY <1>6, <1>7, <2>2
  <2>5. Cardinality(Upto(log, d.session, i))
          = d.decisions + (IF log[i].rec.session = d.session THEN 1 ELSE 0)
    <3>1. i \in Nat \ {0}
      BY <1>7
    <3>2. Cardinality(Upto(log, d.session, i))
            = Cardinality(Upto(log, d.session, i - 1)) + (IF log[i].rec.session = d.session THEN 1 ELSE 0)
      BY <2>2, <3>1, UptoNext
    <3> QED BY ONLY <2>3, <3>2
  <2>6. x.decisions = Cardinality(Upto(log, x.session, x.pos - 1))
    <3>1. x.decisions = d.decisions + (IF log[i].rec.session = d.session THEN 1 ELSE 0)
      BY <1>6, <2>1
    <3>2. Upto(log, x.session, x.pos - 1) = Upto(log, d.session, i)
      BY <1>6, <2>4
    <3> QED BY <2>5, <3>1, <3>2
  <2>7. x.pc \in {"eof", "written"} => i = Len(log)
    BY <1>6, <1>8, <2>2 DEF AfterLine
  <2>8. PICK n \in 0..Len(log) : d.before = Cardinality(Upto(log, d.session, n))
    BY <2>3 DEF Began
  <2>9. x.pc \in {"eof", "written"} => n <= x.pos - 1
    BY <1>7, <2>4, <2>7, <2>8
  <2>10. Began(log, x)
    BY <1>6, <2>8, <2>9 DEF Began
  <2> QED BY <1>7, <2>4, <2>6, <2>10
<1>11. Counted(log, x)
  BY <1>9, <1>10 DEF Counted
<1> QED BY <1>2, <1>5, <1>9, <1>11, EnderStep

\* The summary is written once the scan has passed the whole log, or not at all.
LEMMA WriteSummaryCounts ==
  ASSUME SInv, TypeOK, NEW e \in Enders, WriteSessionSummary(e) \/ ScanFails(e)
  PROVE  SInv'
<1>1. PICK d : d = ender[e]
  OBVIOUS
<1>2. d \in EnderStates /\ Counted(log, d) /\ log' = log /\ Len(log) \in Nat
  BY <1>1 DEF SInv, WriteSessionSummary, ScanFails, TypeOK
<1>3. ASSUME ender' = [ender EXCEPT ![e].pc = "fault"] PROVE SInv'
  <2>1. PICK x : x = [d EXCEPT !.pc = "fault"]
    OBVIOUS
  <2>2. x \in EnderStates /\ x.pc = "fault"
    BY <1>2, <2>1 DEF EnderStates
  <2>3. ender' = [ender EXCEPT ![e] = x]
    BY <1>1, <1>3, <2>1 DEF SInv
  <2>4. Counted(log, x)
    BY <2>2 DEF Counted
  <2> QED BY <1>2, <2>2, <2>3, <2>4, EnderStep
<1>4. ASSUME ender' = [ender EXCEPT ![e].pc = "written"],
             d.pc = "eof" \/ (d.pc = "scan" /\ d.pos > Len(log))
      PROVE  SInv'
  <2>1. PICK x : x = [d EXCEPT !.pc = "written"]
    OBVIOUS
  <2>2. /\ x \in EnderStates /\ x.pc = "written" /\ x.pos = d.pos /\ x.session = d.session
        /\ x.decisions = d.decisions /\ x.unreadable = d.unreadable /\ x.before = d.before
    BY <1>2, <2>1 DEF EnderStates
  <2>3. ender' = [ender EXCEPT ![e] = x]
    BY <1>1, <1>4, <2>1 DEF SInv
  <2>4. ASSUME d.unreadable = 0
        PROVE  /\ Began(log, x) /\ d.pos \in 1..(Len(log) + 1)
               /\ d.decisions = Cardinality(Upto(log, d.session, d.pos - 1))
    <3>1. /\ Began(log, d) /\ d.pos \in 1..(Len(log) + 1)
          /\ d.decisions = Cardinality(Upto(log, d.session, d.pos - 1))
      BY <1>2, <1>4, <2>4 DEF Counted
    <3>2. PICK n \in 0..Len(log) : /\ d.before = Cardinality(Upto(log, d.session, n))
                                   /\ d.pc \in {"eof", "written"} => n <= d.pos - 1
      BY <3>1 DEF Began
    <3>3. n <= d.pos - 1
      BY <1>2, <1>4, <3>1, <3>2
    <3>4. Began(log, x)
      BY <2>2, <3>2, <3>3 DEF Began
    <3> QED BY <3>1, <3>4
  <2>5. Counted(log, x)
    BY <2>2, <2>4 DEF Counted
  <2> QED BY <1>2, <2>2, <2>3, <2>5, EnderStep
<1> QED BY <1>1, <1>3, <1>4 DEF WriteSessionSummary, ScanFails

\* Hooks only add to the log, so no scan loses what it counted.
LEMMA HookCounts ==
  ASSUME SInv, TypeOK, ender' = ender, log' = log \/ \E f \in Fragments : log' = Append(log, f)
  PROVE  SInv'
<1>1. ASSUME NEW e \in Enders PROVE Counted(log', ender[e])
  <2>1. Counted(log, ender[e]) /\ ender[e] \in EnderStates /\ log \in Seq(Fragments)
    BY DEF SInv, TypeOK
  <2> QED BY <2>1, CountedGrows
<1> QED BY <1>1 DEF SInv

\* A written summary without unreadable lines has counted what it says.
LEMMA CountedSummary ==
  ASSUME SInv, TypeOK PROVE SummaryNeverSilent
<1> SUFFICES ASSUME NEW e \in Enders, ender[e].pc = "written", ender[e].unreadable = 0
             PROVE  /\ ender[e].before <= ender[e].decisions
                    /\ ender[e].decisions <= Cardinality(Logged(ender[e].session))
  BY DEF SummaryNeverSilent
<1>1. PICK d : d = ender[e]
  OBVIOUS
<1>2. /\ d \in EnderStates /\ Counted(log, d) /\ d.pc = "written" /\ d.unreadable = 0
      /\ Len(log) \in Nat /\ Logged(d.session) = Upto(log, d.session, Len(log))
  BY <1>1 DEF SInv, TypeOK, Logged, Upto
<1>3. /\ Began(log, d) /\ d.pos \in 1..(Len(log) + 1)
      /\ d.decisions = Cardinality(Upto(log, d.session, d.pos - 1))
  BY <1>2 DEF Counted
<1>4. PICK n \in 0..Len(log) : d.before = Cardinality(Upto(log, d.session, n)) /\ n <= d.pos - 1
  BY <1>2, <1>3 DEF Began
<1>5. PICK m : m = d.pos - 1
  OBVIOUS
<1>6. m \in Nat /\ n \in Nat /\ n <= m /\ m <= Len(log)
  BY <1>2, <1>3, <1>4, <1>5
<1>7. /\ Cardinality(Upto(log, d.session, n)) <= Cardinality(Upto(log, d.session, m))
      /\ Cardinality(Upto(log, d.session, m)) <= Cardinality(Upto(log, d.session, Len(log)))
  BY <1>2, <1>6, UptoMonotone
<1> QED BY <1>1, <1>2, <1>3, <1>4, <1>5, <1>7

\* A summary that admits to no unreadable line counts every record of its
\* session that was in the log when the scan began and none that was not there
\* when it ended, for any number of hooks and scans, whatever the hooks append,
\* whole or torn, between two lines of a scan.
THEOREM HookSummaryNeverSilent == Spec => []SummaryNeverSilent
<1>1. Init => SInv
  <2> SUFFICES ASSUME Init PROVE SInv
    OBVIOUS
  <2>1. NotEnding \in EnderStates /\ NotEnding.pc = "idle"
    BY DEF NotEnding, EnderStates
  <2>2. Counted(log, NotEnding)
    BY <2>1 DEF Counted
  <2> QED BY <2>1, <2>2 DEF Init, SInv
<1>2. TypeOK /\ SInv /\ [Next]_vars => SInv'
  <2> SUFFICES ASSUME TypeOK, SInv, [Next]_vars PROVE SInv'
    OBVIOUS
  <2>1. ASSUME NEW h \in Hooks,
               \/ Decide(h) \/ EnsureRecordDir(h) \/ CreateRecordFile(h) \/ FillRecordFile(h)
               \/ AppendRecordLine(h) \/ Rollback(h) \/ Answer(h) \/ Kill(h)
        PROVE  SInv'
    BY <2>1, HookLogGrows, HookCounts
  <2>2. ASSUME NEW e \in Enders, SessionEnd(e) \/ ScanLine(e) \/ WriteSessionSummary(e) \/ ScanFails(e)
        PROVE  SInv'
    BY <2>2, SessionEndCounts, ScanLineCounts, WriteSummaryCounts
  <2>3. CASE UNCHANGED vars
    BY <2>3, HookCounts DEF vars
  <2> QED BY <2>1, <2>2, <2>3 DEF Next
<1>3. SInv /\ TypeOK => SummaryNeverSilent
  BY CountedSummary
<1>4. Inv => TypeOK
  BY DEF Inv
<1> QED BY <1>1, <1>2, <1>3, <1>4, InitInv, NextInv, PTL DEF Spec
=============================================================================
