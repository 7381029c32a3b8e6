---------------------------- MODULE EditBoundary -----------------------------
(***************************************************************************)
(* `boundary edit apply` (internal/editboundary): every invocation is a    *)
(* process that classifies a patch by its strictest file, lets the         *)
(* governance pipeline decide on that class, applies the files one after   *)
(* the other and appends a decision record at the end.  Invocations on one *)
(* project share its files and its record log and take no lock; any file   *)
(* operation may fail and any process may be killed.                       *)
(*                                                                         *)
(* A patch is a sequence of changes [path, op, flags, hunks]: the target   *)
(* path, the operation, what else the classifier looks at (flags), and the *)
(* hunks [old, new] of lines.                                              *)
(***************************************************************************)
EXTENDS Integers, Sequences, SequencesExt

CONSTANTS
  Appliers,   \* processes
  Paths,      \* files a patch may name
  PathKind,   \* [Paths -> Kinds]: what the shape of a path says
  LeadsTo,    \* [Paths -> Paths]: where its symbolic links end; itself for none
  Patches,    \* the patches given
  Policies,   \* what a pipeline decides for each class
  Trees,      \* the projects to start from
  EditFaulty  \* the operations that may fail, and "crash"

Kinds == {"outside", "secret", "execution", "infra", "source", "plain"}
EditClasses == {"E0", "E1", "E2", "E3", "E4", "E5", "E6", "E7"}
Actions == {"allow", "warn", "require_approval", "escalate", "deny", "check_indeterminate"}

Ops == {"add", "modify", "delete", "rename"}
Flags == {"secret source", "secret content", "volume", "binary", "mode", "scripts"}

VARIABLES
  project,   \* the project's files
  records,   \* the decision records in the log
  proc       \* the invocations

editVars == <<project, records, proc>>

-----------------------------------------------------------------------------
(* The classifier.                                                         *)

ClassRank(class) ==
  CASE class = "E0" -> 0
    [] class = "E1" -> 1
    [] class = "E2" -> 2
    [] class = "E3" -> 3
    [] class = "E6" -> 4
    [] class = "E4" -> 5
    [] class = "E5" -> 6
    [] class = "E7" -> 7

ClassifyChange(c) ==
  LET kind == PathKind[c.path]
  IN IF kind = "outside" THEN "E7"
     ELSE IF kind = "secret" \/ c.flags \cap {"secret source", "secret content"} # {} THEN "E4"
     ELSE IF c.op = "delete" \/ "volume" \in c.flags THEN "E5"
     ELSE IF "binary" \in c.flags THEN "E2"
     ELSE IF kind = "execution" \/ c.flags \cap {"mode", "scripts"} # {} THEN "E6"
     ELSE IF kind = "infra" THEN "E3"
     ELSE IF kind = "source" THEN "E2"
     ELSE "E1"

\* An empty patch is a no-op; the ranks of two classes differ.
ClassesOf(patch) == {"E0"} \cup {ClassifyChange(patch[k]) : k \in DOMAIN patch}

FirstClass(patch) == IF patch = <<>> THEN "E0" ELSE ClassifyChange(patch[1])

HighestClass(patch) ==
  CHOOSE c \in ClassesOf(patch) : \A d \in ClassesOf(patch) : ClassRank(d) <= ClassRank(c)

HardDenyClass(class) == class \in {"E4", "E5", "E7"}

\* An approval stands in for the decision that asks for one, and for no other.
AllowedByPolicyAlone(class, action, approved) ==
  action \in {"allow", "warn"} \/ (action = "require_approval" /\ approved)

\* A hard-deny class is refused whatever the pipeline says.
ApplyAllowed(class, action, approved) ==
  ~HardDenyClass(class) /\ AllowedByPolicyAlone(class, action, approved)

DefaultPreviewPolicy ==
  [class \in EditClasses |->
     IF HardDenyClass(class) THEN "deny"
     ELSE IF class \in {"E0", "E1"} THEN "allow"
     ELSE "require_approval"]

ASSUME PatchAssumption ==
  /\ PathKind \in [Paths -> Kinds]
  /\ LeadsTo \in [Paths -> Paths]
  /\ \A tree \in Trees : tree = [q \in Paths |-> tree[q]]
  /\ \A patch \in Patches : Len(patch) \in Nat /\ DOMAIN patch = 1..Len(patch)
  /\ \A patch \in Patches : \A k \in DOMAIN patch :
       patch[k].path \in Paths /\ patch[k].op \in Ops /\ patch[k].flags \subseteq Flags

\* A pipeline that lets a class through lets the classes ranked below through,
\* as the default rules do: the executor asks about the highest class only.
ASSUME PolicyAssumption ==
  /\ Policies \subseteq [EditClasses -> Actions]
  /\ \A policy \in Policies, c \in EditClasses, d \in EditClasses, approved \in BOOLEAN :
       /\ ClassRank(c) <= ClassRank(d)
       /\ AllowedByPolicyAlone(d, policy[d], approved)
       => AllowedByPolicyAlone(c, policy[c], approved)

-----------------------------------------------------------------------------
(* The applier's text edits.                                               *)

MatchesAt(lines, seq, i) ==
  i + Len(seq) <= Len(lines) /\ \A j \in DOMAIN seq : lines[i + j] = seq[j]

\* The places where seq may be replaced: the first match; an empty one goes
\* to the end; none is -1.
FindSequence(lines, seq) ==
  IF seq = <<>> THEN Len(lines)
  ELSE IF \E i \in 0..Len(lines) : MatchesAt(lines, seq, i)
       THEN CHOOSE i \in 0..Len(lines) :
              MatchesAt(lines, seq, i) /\ \A k \in 0..(i - 1) : ~MatchesAt(lines, seq, k)
       ELSE -1

Mismatch == [ok |-> FALSE, lines |-> <<>>]

ApplyHunk(text, hunk) ==
  LET i == FindSequence(text.lines, hunk.old)
  IN IF ~text.ok \/ i < 0 THEN Mismatch
     ELSE [ok |-> TRUE,
           lines |-> SubSeq(text.lines, 1, i) \o hunk.new
                     \o SubSeq(text.lines, i + Len(hunk.old) + 1, Len(text.lines))]

\* applyModify's loop: each hunk is sought in what the ones before it left.
ApplyHunks(lines, hunks) == FoldLeft(ApplyHunk, [ok |-> TRUE, lines |-> lines], hunks)

AddedLines(hunks) == FoldLeft(LAMBDA acc, hunk : acc \o hunk.new, <<>>, hunks)

\* Lines written out with a final newline and read back: no line at all comes
\* back as an empty one.
Saved(lines) == IF lines = <<>> THEN <<"">> ELSE lines

-----------------------------------------------------------------------------
Missing == [there |-> FALSE, lines |-> <<>>]
File(lines) == [there |-> TRUE, lines |-> lines]

Unstarted ==
  [pc |-> "idle", patch |-> <<>>, policy |-> DefaultPreviewPolicy, dryRun |-> FALSE, approved |-> FALSE,
   invoked |-> FALSE, applied |-> FALSE, index |-> 1, body |-> Missing, touched |-> {}]

EditInit ==
  /\ project \in Trees
  /\ records = {}
  /\ proc = [p \in Appliers |-> Unstarted]

\* Apply up to the applier: the record's directory first, then the patch is
\* parsed and classified, the pipeline decides, and a dry run, a refusal and
\* a malformed patch end here.
Begin(p) ==
  /\ proc[p].pc = "idle"
  /\ \E patch \in Patches, policy \in Policies, dryRun, approved \in BOOLEAN :
       LET class   == HighestClass(patch)
           allowed == ApplyAllowed(class, policy[class], approved)
       IN proc' = [proc EXCEPT ![p] =
                     [Unstarted EXCEPT !.patch = patch, !.policy = policy, !.dryRun = dryRun,
                                       !.approved = approved, !.invoked = ~dryRun /\ allowed,
                                       !.pc = IF ~dryRun /\ allowed THEN "apply" ELSE "record"]]
  /\ UNCHANGED <<project, records>>

\* No directory for the record, or no patch in the input: an error, no record.
BeginFails(p) ==
  /\ proc[p].pc = "idle"
  /\ proc' = [proc EXCEPT ![p].pc = "error"]
  /\ UNCHANGED <<project, records>>

Change(p) == proc[p].patch[proc[p].index]

StopAsApplied(p) == proc' = [proc EXCEPT ![p].pc = "record", ![p].applied = TRUE]

\* The applier returns an error; files already touched stay as they are.
ApplierStops(p) == proc' = [proc EXCEPT ![p].pc = "record"]

\* The file os.Stat, os.ReadFile and os.WriteFile open: links are followed, and
\* neither the classifier nor the sandbox resolves them.
Target(c) == LeadsTo[c.path]

\* What the applier can carry out at all: judged on the path as it is spelled.
Supported(c) ==
  /\ PathKind[c.path] # "outside"
  /\ c.flags \cap {"binary", "mode"} = {}
  /\ c.op # "rename"

\* What becomes of a file that is old when the change reads it; a change that
\* finds no such file, finds one in its way, or does not match, fails.
Prepared(c, old) ==
  LET text == ApplyHunks(old.lines, c.hunks)
  IN CASE c.op = "add"    -> [ok |-> ~old.there, file |-> File(Saved(AddedLines(c.hunks)))]
       [] c.op = "modify" -> [ok |-> old.there /\ text.ok, file |-> File(Saved(text.lines))]
       [] c.op = "delete" -> [ok |-> old.there, file |-> Missing]

\* One file up to its write: the target is checked and read.
PrepareChange(p) ==
  /\ proc[p].pc = "apply" /\ proc[p].index <= Len(proc[p].patch)
  /\ \/ ~Supported(Change(p)) /\ ApplierStops(p)
     \/ "read" \in EditFaulty /\ ApplierStops(p)
     \/ /\ Supported(Change(p))
        /\ LET next == Prepared(Change(p), project[Target(Change(p))])
           IN IF next.ok THEN proc' = [proc EXCEPT ![p].pc = "write", ![p].body = next.file]
              ELSE ApplierStops(p)
  /\ UNCHANGED <<project, records>>

Touch(p, file) == project' = [project EXCEPT ![Target(Change(p))] = file]

\* os.WriteFile replaces whatever is there by now; a write that fails leaves
\* the file as it was or cut.
WriteChange(p) ==
  /\ proc[p].pc = "write"
  /\ \/ /\ Touch(p, proc[p].body)
        /\ proc' = [proc EXCEPT ![p].pc = "apply", ![p].index = @ + 1, ![p].touched = @ \cup {proc[p].index}]
     \/ "write" \in EditFaulty /\ UNCHANGED project /\ ApplierStops(p)
     \/ /\ "write" \in EditFaulty
        /\ \E n \in 0..(Len(proc[p].body.lines) - 1) : Touch(p, File(SubSeq(proc[p].body.lines, 1, n)))
        /\ proc' = [proc EXCEPT ![p].pc = "record", ![p].touched = @ \cup {proc[p].index}]
  /\ UNCHANGED records

\* All files done.
FinishApply(p) ==
  /\ proc[p].pc = "apply" /\ proc[p].index > Len(proc[p].patch)
  /\ proc' = [proc EXCEPT ![p].pc = "record", ![p].applied = TRUE]
  /\ UNCHANGED <<project, records>>

DecisionRecordOf(p) ==
  [by |-> p, dryRun |-> proc[p].dryRun, invoked |-> proc[p].invoked, applied |-> proc[p].applied]

\* AppendDecisionRecord, last of all: when it fails the caller gets an error
\* and no record.
AppendDecisionRecord(p) ==
  /\ proc[p].pc = "record"
  /\ \/ records' = records \cup {DecisionRecordOf(p)} /\ proc' = [proc EXCEPT ![p].pc = "done"]
     \/ "record" \in EditFaulty /\ UNCHANGED records /\ proc' = [proc EXCEPT ![p].pc = "error"]
  /\ UNCHANGED project

KillApplier(p) ==
  /\ "crash" \in EditFaulty
  /\ proc[p].pc \in {"apply", "write", "record"}
  /\ proc' = [proc EXCEPT ![p].pc = "killed"]
  /\ UNCHANGED <<project, records>>

EditNext ==
  \E p \in Appliers :
    \/ Begin(p) \/ BeginFails(p) \/ PrepareChange(p) \/ WriteChange(p)
    \/ FinishApply(p) \/ AppendDecisionRecord(p) \/ KillApplier(p)

EditSpec == EditInit /\ [][EditNext]_editVars

-----------------------------------------------------------------------------
\* The pipeline, asked about this change alone, would let it through.
Permitted(p, c) ==
  LET class == ClassifyChange(c)
  IN /\ class \notin {"E4", "E5", "E7"}
     /\ \/ proc[p].policy[class] \in {"allow", "warn"}
        \/ proc[p].policy[class] = "require_approval" /\ proc[p].approved

\* One decision is taken for the whole patch, on its highest class: no file of
\* it is written that the same policy and approval would have refused alone.
\* A file is judged by the path the patch names, not by where its links end.
EachChangePermitted ==
  \A p \in Appliers : \A k \in proc[p].touched : Permitted(p, proc[p].patch[k])

\* A path that is neither secret nor out of scope leads to the file.
Exposed(q) == \E r \in Paths : LeadsTo[r] = q /\ PathKind[r] \notin {"outside", "secret"}

\* No step removes a file, and no step changes one that is secret or out of
\* scope unless a link leads there from a path that is neither, whatever the
\* pipeline allows, the operator approves, and other invocations and failing
\* writes leave behind.
ProtectedFilesKept ==
  [][\A q \in Paths :
       /\ project[q].there => project'[q].there
       /\ project'[q] # project[q] => Exposed(q)]_editVars

\* What the taxonomy says of class E7: a patch that escapes the project through
\* a symbolic link is denied, so what is written is never out of scope.
SymlinkEscapeDenied ==
  \A p \in Appliers : \A k \in proc[p].touched : PathKind[Target(proc[p].patch[k])] # "outside"

\* The record agrees with what was done: without the applier, and on a dry
\* run, nothing was touched; applied means every file was; and a file touched
\* by an invocation that ended normally is under a record that says so.
RecordTruthful ==
  /\ \A r \in records :
       /\ ~r.invoked \/ r.dryRun => proc[r.by].touched = {}
       /\ r.applied => proc[r.by].touched = DOMAIN proc[r.by].patch
  /\ \A p \in Appliers :
       proc[p].pc = "done" /\ proc[p].touched # {} => \E r \in records : r.by = p /\ r.invoked
=============================================================================
