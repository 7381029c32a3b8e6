-------------------------- MODULE EditBoundaryProofs --------------------------
(***************************************************************************)
(* One decision covers every file of a patch, and protected files are out  *)
(* of reach, and the records are true, for any patches, any number of      *)
(* overlapping invocations, and any operations that may fail.              *)
(***************************************************************************)
EXTENDS EditBoundary, TLAPS

Fields == {"pc", "patch", "policy", "dryRun", "approved", "invoked", "applied", "index", "body", "touched"}

\* The decision invocation p acted on let its applier run.
Allowed(p) ==
  LET class == HighestClass(proc[p].patch)
  IN ApplyAllowed(class, proc[p].policy[class], proc[p].approved)

\* Only an allowed invocation runs the applier; it touches files of its patch
\* in order, and never holds an empty place to write.
ProcInv(p) ==
  /\ DOMAIN proc[p] = Fields
  /\ proc[p].pc # "idle" /\ proc[p].pc # "error" => proc[p].patch \in Patches
  /\ proc[p].policy \in Policies \cup {DefaultPreviewPolicy}
  /\ proc[p].approved \in BOOLEAN
  /\ proc[p].touched \subseteq DOMAIN proc[p].patch
  /\ proc[p].pc \in {"apply", "write"} \/ proc[p].touched # {} =>
       proc[p].patch \in Patches /\ proc[p].policy \in Policies /\ Allowed(p)
  /\ proc[p].index \in Nat \ {0}
  /\ proc[p].pc = "write" => proc[p].index \in DOMAIN proc[p].patch /\ proc[p].body.there

Inv ==
  /\ project = [q \in Paths |-> project[q]]
  /\ proc = [p \in Appliers |-> proc[p]]
  /\ \A p \in Appliers : ProcInv(p)

\* A change has one of the classes.
LEMMA ClassRange == \A c : ClassifyChange(c) \in EditClasses
  BY DEF ClassifyChange, EditClasses

\* The ranks order the classes, and the hard-deny classes are at the top.
LEMMA RankFacts ==
  /\ \A c \in EditClasses : ClassRank(c) \in 0..7
  /\ \A c \in EditClasses : HardDenyClass(c) <=> ClassRank(c) >= 5
  BY DEF ClassRank, EditClasses, HardDenyClass

\* A nonempty set of classes has one of the highest rank.
LEMMA HighestExists ==
  ASSUME NEW S \in SUBSET EditClasses, S # {}
  PROVE  \E c \in S : \A d \in S : ClassRank(d) <= ClassRank(c)
<1> DEFINE At(n) == \E c \in S : ClassRank(c) = n
<1>1. \A c \in S : ClassRank(c) \in 0..7
  BY RankFacts
<1>2. \E n \in 0..7 : At(n) /\ \A m \in (n + 1)..7 : ~At(m)
  <2>1. \E n \in 0..7 : At(n)
    BY <1>1
  <2> HIDE DEF At
  <2>2. CASE At(7)
    BY <2>2
  <2>3. CASE At(6) /\ ~At(7)
    BY <2>3
  <2>4. CASE At(5) /\ ~At(6) /\ ~At(7)
    BY <2>4
  <2>5. CASE At(4) /\ ~At(5) /\ ~At(6) /\ ~At(7)
    BY <2>5
  <2>6. CASE At(3) /\ ~At(4) /\ ~At(5) /\ ~At(6) /\ ~At(7)
    BY <2>6
  <2>7. CASE At(2) /\ ~At(3) /\ ~At(4) /\ ~At(5) /\ ~At(6) /\ ~At(7)
    BY <2>7
  <2>8. CASE At(1) /\ ~At(2) /\ ~At(3) /\ ~At(4) /\ ~At(5) /\ ~At(6) /\ ~At(7)
    BY <2>8
  <2>9. CASE ~At(1) /\ ~At(2) /\ ~At(3) /\ ~At(4) /\ ~At(5) /\ ~At(6) /\ ~At(7)
    <3>1. At(0)
      BY <2>1, <2>9
    <3> QED BY <2>9, <3>1
  <2> QED BY <2>2, <2>3, <2>4, <2>5, <2>6, <2>7, <2>8, <2>9
<1>3. PICK n \in 0..7 : At(n) /\ \A m \in (n + 1)..7 : ~At(m)
  BY <1>2
<1>4. PICK c \in S : ClassRank(c) = n
  BY <1>3
<1>5. \A d \in S : ClassRank(d) <= n
  BY <1>1, <1>3
<1> QED BY <1>4, <1>5

\* The highest class is a class, and no file of the patch ranks above it.
LEMMA HighestFacts ==
  ASSUME NEW patch
  PROVE  /\ HighestClass(patch) \in EditClasses
         /\ \A k \in DOMAIN patch : ClassRank(ClassifyChange(patch[k])) <= ClassRank(HighestClass(patch))
<1>1. ClassesOf(patch) \subseteq EditClasses /\ ClassesOf(patch) # {}
  BY ClassRange DEF ClassesOf, EditClasses
<1>2. \E c \in ClassesOf(patch) : \A d \in ClassesOf(patch) : ClassRank(d) <= ClassRank(c)
  BY <1>1, HighestExists
<1>3. /\ HighestClass(patch) \in ClassesOf(patch)
      /\ \A d \in ClassesOf(patch) : ClassRank(d) <= ClassRank(HighestClass(patch))
  BY <1>2 DEF HighestClass
<1> QED BY <1>1, <1>3 DEF ClassesOf

\* What is allowed for the highest class is allowed for each file.
LEMMA AllowedCovers ==
  ASSUME NEW p \in Appliers, ProcInv(p), proc[p].patch \in Patches, proc[p].policy \in Policies, Allowed(p),
         NEW k \in DOMAIN proc[p].patch
  PROVE  /\ ~HardDenyClass(ClassifyChange(proc[p].patch[k]))
         /\ Permitted(p, proc[p].patch[k])
<1> DEFINE c == ClassifyChange(proc[p].patch[k])
           d == HighestClass(proc[p].patch)
<1>1. c \in EditClasses /\ d \in EditClasses /\ ClassRank(c) <= ClassRank(d)
  BY ClassRange, HighestFacts
<1>2. ~HardDenyClass(d) /\ AllowedByPolicyAlone(d, proc[p].policy[d], proc[p].approved)
  BY DEF Allowed, ApplyAllowed
<1> HIDE DEF d
<1>3. ~HardDenyClass(c)
  <2>1. ClassRank(c) \in 0..7 /\ ClassRank(d) \in 0..7
    BY <1>1, RankFacts
  <2>2. ~(ClassRank(d) >= 5)
    BY <1>1, <1>2, RankFacts
  <2>3. ~(ClassRank(c) >= 5)
    BY <1>1, <2>1, <2>2
  <2> QED BY <1>1, <2>3, RankFacts
<1>4. AllowedByPolicyAlone(c, proc[p].policy[c], proc[p].approved)
  BY <1>1, <1>2, PolicyAssumption DEF ProcInv
<1> QED BY <1>3, <1>4 DEF Permitted, HardDenyClass, AllowedByPolicyAlone

\* A change whose class is not a hard deny deletes nothing and stays clear of
\* secret and foreign paths.
LEMMA HarmlessClass ==
  ASSUME NEW c, ~HardDenyClass(ClassifyChange(c))
  PROVE  c.op # "delete" /\ PathKind[c.path] \notin {"outside", "secret"}
  BY DEF HardDenyClass, ClassifyChange

\* What such a change prepares is a file.
LEMMA PreparedThere ==
  ASSUME NEW c, NEW old, c.op \in Ops, c.op # "delete", Supported(c)
  PROVE  Prepared(c, old).file.there
  BY DEF Prepared, Supported, File, Ops

\* A step that changes only the record of invocation p.
LEMMA ProcStep ==
  ASSUME Inv, NEW p \in Appliers, NEW x, proc' = [proc EXCEPT ![p] = x],
         project' = [q \in Paths |-> project'[q]], ProcInv(p)'
  PROVE  Inv'
<1>1. \A g \in Appliers \ {p} : proc'[g] = proc[g]
  BY DEF Inv
<1>2. ASSUME NEW g \in Appliers PROVE ProcInv(g)'
  <2>1. CASE g = p
    BY <2>1
  <2>2. CASE g # p
    <3>1. proc'[g] = proc[g]
      BY <1>1, <2>2
    <3> QED BY <3>1 DEF Inv, ProcInv, Allowed
  <2> QED BY <2>1, <2>2
<1>3. proc' = [g \in Appliers |-> proc'[g]]
  BY DEF Inv
<1> QED BY <1>2, <1>3 DEF Inv

\* No invocation has begun.
LEMMA InitInv == EditInit => Inv
<1> SUFFICES ASSUME EditInit PROVE Inv
  OBVIOUS
<1>1. proc = [p \in Appliers |-> Unstarted] /\ project = [q \in Paths |-> project[q]]
  BY PatchAssumption DEF EditInit
<1>2. ASSUME NEW p \in Appliers PROVE ProcInv(p)
  <2>1. /\ DOMAIN proc[p] = Fields /\ proc[p].pc = "idle" /\ proc[p].policy = DefaultPreviewPolicy
        /\ proc[p].index = 1 /\ proc[p].touched = {}
    BY <1>1 DEF Unstarted, Fields
  <2>2. proc[p].approved \in BOOLEAN
    BY <1>1 DEF Unstarted
  <2>3. ~(proc[p].pc \in {"apply", "write"} \/ proc[p].touched # {})
    BY <2>1
  <2> QED BY <2>1, <2>2, <2>3 DEF ProcInv
<1> QED BY <1>1, <1>2 DEF Inv

\* A decision is taken on the highest class of the patch that is then applied.
LEMMA BeginInv ==
  ASSUME Inv, NEW p \in Appliers, Begin(p)
  PROVE  Inv'
<1>1. PICK patch \in Patches, policy \in Policies, dryRun \in BOOLEAN, approved \in BOOLEAN :
        LET class   == HighestClass(patch)
            allowed == ApplyAllowed(class, policy[class], approved)
        IN proc' = [proc EXCEPT ![p] =
                      [Unstarted EXCEPT !.patch = patch, !.policy = policy, !.dryRun = dryRun,
                                        !.approved = approved, !.invoked = ~dryRun /\ allowed,
                                        !.pc = IF ~dryRun /\ allowed THEN "apply" ELSE "record"]]
  BY DEF Begin
<1> DEFINE allowed == ApplyAllowed(HighestClass(patch), policy[HighestClass(patch)], approved)
           x == [Unstarted EXCEPT !.patch = patch, !.policy = policy, !.dryRun = dryRun,
                                  !.approved = approved, !.invoked = ~dryRun /\ allowed,
                                  !.pc = IF ~dryRun /\ allowed THEN "apply" ELSE "record"]
<1>2. proc' = [proc EXCEPT ![p] = x] /\ project' = [q \in Paths |-> project'[q]]
  BY <1>1 DEF Begin, Inv
<1>3. proc'[p] = x
  BY <1>2 DEF Inv
<1>4. /\ DOMAIN x = Fields /\ x.patch = patch /\ x.policy = policy /\ x.approved = approved
      /\ x.touched = {} /\ x.index = 1 /\ x.pc \in {"apply", "record"} /\ (x.pc = "apply" => allowed)
  BY DEF Unstarted, Fields
<1> HIDE DEF x
<1>5. x.pc = "apply" => Allowed(p)'
  BY <1>3, <1>4 DEF Allowed
<1>6. ProcInv(p)'
  BY <1>3, <1>4, <1>5 DEF ProcInv
<1> QED BY <1>2, <1>6, ProcStep

\* A step of p that keeps its request and what it touched, and does not end
\* in the applier's write, keeps the invariant.
LEMMA MoveInv ==
  ASSUME Inv, NEW p \in Appliers, NEW x, proc' = [proc EXCEPT ![p] = x],
         project' = [q \in Paths |-> project'[q]],
         DOMAIN x = Fields, x.patch = proc[p].patch, x.policy = proc[p].policy,
         x.approved = proc[p].approved, x.pc # "write", x.index \in Nat \ {0},
         x.touched = proc[p].touched
           \/ (proc[p].pc = "write" /\ x.touched = proc[p].touched \cup {proc[p].index}),
         x.pc = "apply" => proc[p].pc \in {"apply", "write"},
         x.pc # "error" => proc[p].pc # "idle" /\ proc[p].pc # "error"
  PROVE  Inv'
<1>1. proc'[p] = x
  BY DEF Inv
<1>2. Allowed(p)' <=> Allowed(p)
  BY <1>1 DEF Allowed
<1>3. ProcInv(p)
  BY DEF Inv
<1>4. x.touched \subseteq DOMAIN x.patch
  BY <1>3 DEF ProcInv
<1>5. ProcInv(p)'
  BY <1>1, <1>2, <1>3, <1>4 DEF ProcInv
<1> QED BY <1>5, ProcStep

\* The applier holds a file to write, never the absence of one.
LEMMA PrepareInv ==
  ASSUME Inv, NEW p \in Appliers, PrepareChange(p)
  PROVE  Inv'
<1>1. /\ ProcInv(p) /\ proc[p].pc = "apply" /\ proc[p].index <= Len(proc[p].patch)
      /\ project' = [q \in Paths |-> project'[q]]
  BY DEF Inv, PrepareChange
<1>2. CASE ApplierStops(p)
  <2> DEFINE x == [proc[p] EXCEPT !.pc = "record"]
  <2>1. proc' = [proc EXCEPT ![p] = x]
    BY <1>2 DEF ApplierStops
  <2>2. /\ DOMAIN x = Fields /\ x.pc = "record" /\ x.patch = proc[p].patch /\ x.policy = proc[p].policy
        /\ x.approved = proc[p].approved /\ x.touched = proc[p].touched /\ x.index = proc[p].index
    BY <1>1 DEF ProcInv, Fields
  <2> HIDE DEF x
  <2>3. x.index \in Nat \ {0}
    BY <1>1, <2>2 DEF ProcInv
  <2> QED BY <1>1, <2>1, <2>2, <2>3, MoveInv
<1>3. CASE ~ApplierStops(p)
  <2> DEFINE next == Prepared(Change(p), project[Target(Change(p))])
             x == [proc[p] EXCEPT !.pc = "write", !.body = next.file]
  <2>1. Supported(Change(p)) /\ proc' = [proc EXCEPT ![p] = x]
    BY <1>3 DEF PrepareChange
  <2>2. proc[p].patch \in Patches /\ proc[p].policy \in Policies /\ Allowed(p)
    BY <1>1 DEF ProcInv
  <2>3. proc[p].index \in DOMAIN proc[p].patch
    BY <1>1, <2>2, PatchAssumption DEF ProcInv
  <2>4. Change(p).op \in Ops /\ ~HardDenyClass(ClassifyChange(Change(p)))
    BY <1>1, <2>2, <2>3, AllowedCovers, PatchAssumption DEF Change
  <2>5. next.file.there
    BY <2>1, <2>4, HarmlessClass, PreparedThere
  <2>6. /\ DOMAIN x = Fields /\ x.pc = "write" /\ x.patch = proc[p].patch /\ x.policy = proc[p].policy
        /\ x.approved = proc[p].approved /\ x.touched = proc[p].touched /\ x.index = proc[p].index
        /\ x.body = next.file
    BY <1>1 DEF ProcInv, Fields
  <2> HIDE DEF x, next
  <2>7. proc'[p] = x
    BY <2>1 DEF Inv
  <2>8. Allowed(p)'
    BY <2>2, <2>6, <2>7 DEF Allowed
  <2>9. ProcInv(p)'
    BY <1>1, <2>2, <2>3, <2>5, <2>6, <2>7, <2>8 DEF ProcInv
  <2> QED BY <1>1, <2>1, <2>9, ProcStep
<1> QED BY <1>2, <1>3

\* A write lands on a file of the patch and leaves a file there, whole or cut.
LEMMA WriteInv ==
  ASSUME Inv, NEW p \in Appliers, WriteChange(p)
  PROVE  Inv'
<1>1. ProcInv(p) /\ proc[p].pc = "write" /\ project' = [q \in Paths |-> project'[q]]
  BY DEF Inv, WriteChange, Touch
<1>2. CASE proc' = [proc EXCEPT ![p].pc = "apply", ![p].index = @ + 1, ![p].touched = @ \cup {proc[p].index}]
  <2> DEFINE x == [proc[p] EXCEPT !.pc = "apply", !.index = @ + 1, !.touched = @ \cup {proc[p].index}]
  <2>1. proc' = [proc EXCEPT ![p] = x]
    BY <1>2 DEF Inv
  <2>2. /\ DOMAIN x = Fields /\ x.pc = "apply" /\ x.patch = proc[p].patch /\ x.policy = proc[p].policy
        /\ x.approved = proc[p].approved /\ x.touched = proc[p].touched \cup {proc[p].index}
        /\ x.index = proc[p].index + 1
    BY <1>1 DEF ProcInv, Fields
  <2> HIDE DEF x
  <2>3. x.index \in Nat \ {0}
    BY <1>1, <2>2 DEF ProcInv
  <2> QED BY <1>1, <2>1, <2>2, <2>3, MoveInv
<1>3. CASE ApplierStops(p)
  <2> DEFINE x == [proc[p] EXCEPT !.pc = "record"]
  <2>1. proc' = [proc EXCEPT ![p] = x]
    BY <1>3 DEF ApplierStops
  <2>2. /\ DOMAIN x = Fields /\ x.pc = "record" /\ x.patch = proc[p].patch /\ x.policy = proc[p].policy
        /\ x.approved = proc[p].approved /\ x.touched = proc[p].touched /\ x.index = proc[p].index
    BY <1>1 DEF ProcInv, Fields
  <2> HIDE DEF x
  <2>3. x.index \in Nat \ {0}
    BY <1>1, <2>2 DEF ProcInv
  <2> QED BY <1>1, <2>1, <2>2, <2>3, MoveInv
<1>4. CASE proc' = [proc EXCEPT ![p].pc = "record", ![p].touched = @ \cup {proc[p].index}]
  <2> DEFINE x == [proc[p] EXCEPT !.pc = "record", !.touched = @ \cup {proc[p].index}]
  <2>1. proc' = [proc EXCEPT ![p] = x]
    BY <1>4 DEF Inv
  <2>2. /\ DOMAIN x = Fields /\ x.pc = "record" /\ x.patch = proc[p].patch /\ x.policy = proc[p].policy
        /\ x.approved = proc[p].approved /\ x.touched = proc[p].touched \cup {proc[p].index}
        /\ x.index = proc[p].index
    BY <1>1 DEF ProcInv, Fields
  <2> HIDE DEF x
  <2>3. x.index \in Nat \ {0}
    BY <1>1, <2>2 DEF ProcInv
  <2> QED BY <1>1, <2>1, <2>2, <2>3, MoveInv
<1> QED BY <1>2, <1>3, <1>4 DEF WriteChange

\* The steps that leave the files alone and only move an invocation on.
LEMMA LeaveInv ==
  ASSUME Inv, NEW p \in Appliers,
         BeginFails(p) \/ FinishApply(p) \/ AppendDecisionRecord(p) \/ KillApplier(p)
  PROVE  Inv'
<1>1. ProcInv(p) /\ project' = [q \in Paths |-> project'[q]]
  BY DEF Inv, BeginFails, FinishApply, AppendDecisionRecord, KillApplier
<1>2. \E to \in {"record", "done", "error", "killed"}, applied \in {proc[p].applied, TRUE} :
        /\ proc' = [proc EXCEPT ![p] = [proc[p] EXCEPT !.pc = to, !.applied = applied]]
        /\ to # "error" => proc[p].pc # "idle" /\ proc[p].pc # "error"
  <2>1. \A to : [proc[p] EXCEPT !.pc = to] = [proc[p] EXCEPT !.pc = to, !.applied = proc[p].applied]
    BY <1>1 DEF ProcInv, Fields
  <2>2. CASE BeginFails(p)
    BY <2>1, <2>2 DEF BeginFails
  <2>3. CASE FinishApply(p)
    BY <2>3 DEF FinishApply
  <2>4. CASE AppendDecisionRecord(p)
    BY <2>1, <2>4 DEF AppendDecisionRecord
  <2>5. CASE KillApplier(p)
    BY <2>1, <2>5 DEF KillApplier
  <2> QED BY <2>2, <2>3, <2>4, <2>5
<1>3. PICK to \in {"record", "done", "error", "killed"}, applied \in {proc[p].applied, TRUE} :
        /\ proc' = [proc EXCEPT ![p] = [proc[p] EXCEPT !.pc = to, !.applied = applied]]
        /\ to # "error" => proc[p].pc # "idle" /\ proc[p].pc # "error"
  BY <1>2
<1> DEFINE x == [proc[p] EXCEPT !.pc = to, !.applied = applied]
<1>4. /\ DOMAIN x = Fields /\ x.pc = to /\ x.patch = proc[p].patch /\ x.policy = proc[p].policy
      /\ x.approved = proc[p].approved /\ x.touched = proc[p].touched /\ x.index = proc[p].index
  BY <1>1 DEF ProcInv, Fields
<1>5. proc' = [proc EXCEPT ![p] = x]
  BY <1>3
<1> HIDE DEF x
<1>6. x.index \in Nat \ {0}
  BY <1>1, <1>4 DEF ProcInv
<1> QED BY <1>1, <1>3, <1>4, <1>5, <1>6, MoveInv

\* Every step keeps the invariant.
LEMMA NextInv == Inv /\ [EditNext]_editVars => Inv'
<1> SUFFICES ASSUME Inv, [EditNext]_editVars PROVE Inv'
  OBVIOUS
<1>1. CASE UNCHANGED editVars
  BY <1>1 DEF editVars, Inv, ProcInv, Allowed
<1>2. CASE EditNext
  <2>1. PICK p \in Appliers :
          \/ Begin(p) \/ BeginFails(p) \/ PrepareChange(p) \/ WriteChange(p)
          \/ FinishApply(p) \/ AppendDecisionRecord(p) \/ KillApplier(p)
    BY <1>2 DEF EditNext
  <2> QED BY <2>1, BeginInv, PrepareInv, WriteInv, LeaveInv
<1> QED BY <1>1, <1>2

\* What is touched is in the patch of an allowed invocation.
LEMMA InvPermits == Inv => EachChangePermitted
<1> SUFFICES ASSUME Inv, NEW p \in Appliers, NEW k \in proc[p].touched
             PROVE  Permitted(p, proc[p].patch[k])
  BY DEF EachChangePermitted
<1>1. ProcInv(p)
  BY DEF Inv
<1>2. k \in DOMAIN proc[p].patch /\ proc[p].patch \in Patches /\ proc[p].policy \in Policies /\ Allowed(p)
  BY <1>1 DEF ProcInv
<1> QED BY <1>1, <1>2, AllowedCovers

\* The one step that changes files changes one an unprotected path leads to.
LEMMA InvProtects ==
  Inv /\ [EditNext]_editVars =>
    [\A q \in Paths : /\ project[q].there => project'[q].there
                      /\ project'[q] # project[q] => Exposed(q)]_editVars
<1> SUFFICES ASSUME Inv, EditNext, NEW q \in Paths
             PROVE  /\ project[q].there => project'[q].there
                    /\ project'[q] # project[q] => Exposed(q)
  OBVIOUS
<1>1. PICK p \in Appliers :
          \/ Begin(p) \/ BeginFails(p) \/ PrepareChange(p) \/ WriteChange(p)
          \/ FinishApply(p) \/ AppendDecisionRecord(p) \/ KillApplier(p)
  BY DEF EditNext
<1>2. CASE UNCHANGED project
  BY <1>2
<1>3. CASE WriteChange(p) /\ ~UNCHANGED project
  <2>1. ProcInv(p) /\ proc[p].pc = "write" /\ proc[p].body.there /\ proc[p].index \in DOMAIN proc[p].patch
    BY <1>3 DEF Inv, ProcInv, WriteChange
  <2>2. ~HardDenyClass(ClassifyChange(Change(p)))
    BY <2>1, AllowedCovers DEF ProcInv, Change
  <2>3. PathKind[Change(p).path] \notin {"outside", "secret"}
    BY <2>2, HarmlessClass
  <2>4. \E f : f.there /\ project' = [project EXCEPT ![Target(Change(p))] = f]
    BY <1>3, <2>1 DEF WriteChange, Touch, File
  <2>5. project = [r \in Paths |-> project[r]]
    BY DEF Inv
  <2>6. Change(p).path \in Paths
    BY <2>1, PatchAssumption DEF ProcInv, Change
  <2> QED BY <2>3, <2>4, <2>5, <2>6 DEF Target, Exposed
<1> QED BY <1>1, <1>2, <1>3 DEF Begin, BeginFails, PrepareChange, FinishApply, AppendDecisionRecord, KillApplier

\* apply.go decides once, on the highest class of the patch: under that one
\* decision no invocation ever writes a file the same policy and approval would
\* have refused alone.
THEOREM EditEachChangePermitted == EditSpec => []EachChangePermitted
<1>1. EditInit => Inv
  BY InitInv
<1>2. Inv /\ [EditNext]_editVars => Inv'
  BY NextInv
<1>3. Inv => EachChangePermitted
  BY InvPermits
<1> QED BY <1>1, <1>2, <1>3, PTL DEF EditSpec

\* sandbox_apply.go's writes never remove a file, and change a secret or a file
\* out of scope only through a symbolic link under a path that is neither,
\* whatever the other invocations, the operator's approvals and failing writes
\* do.
THEOREM EditProtectedFilesKept == EditSpec => ProtectedFilesKept
<1>1. EditInit => Inv
  BY InitInv
<1>2. Inv /\ [EditNext]_editVars => Inv'
  BY NextInv
<1>3. Inv /\ [EditNext]_editVars =>
        [\A q \in Paths : /\ project[q].there => project'[q].there
                          /\ project'[q] # project[q] => Exposed(q)]_editVars
  BY InvProtects
<1> QED BY <1>1, <1>2, <1>3, PTL DEF EditSpec, ProtectedFilesKept

-----------------------------------------------------------------------------
(* The decision records. *)

\* What an invocation has touched goes with what its record will say: the files
\* before its place in the patch, and nothing without the applier.
RecordInv(p) ==
  /\ proc[p].touched # {} => proc[p].invoked /\ ~proc[p].dryRun
  /\ proc[p].pc \in {"apply", "write"} =>
       /\ proc[p].invoked /\ ~proc[p].dryRun
       /\ proc[p].touched = 1..(proc[p].index - 1)
  /\ proc[p].applied => /\ proc[p].touched = DOMAIN proc[p].patch
                        /\ proc[p].pc \notin {"idle", "apply", "write"}
  /\ proc[p].pc = "done" => DecisionRecordOf(p) \in records

\* A record is the one its invocation ended with.
LogInv ==
  \A r \in records : r.by \in Appliers /\ proc[r.by].pc = "done" /\ r = DecisionRecordOf(r.by)

RInv == Inv /\ LogInv /\ \A p \in Appliers : RecordInv(p)

\* A step of p that is not over yet leaves the other invocations and the records
\* of those that are over.
LEMMA RecordStep ==
  ASSUME RInv, Inv', NEW p \in Appliers, NEW x, proc' = [proc EXCEPT ![p] = x],
         proc[p].pc # "done",
         records' = records \/ (records' = records \cup {DecisionRecordOf(p)} /\ LogInv'),
         RecordInv(p)'
  PROVE  RInv'
<1>1. \A g \in Appliers \ {p} : proc'[g] = proc[g]
  BY DEF RInv, Inv
<1>2. ASSUME NEW g \in Appliers PROVE RecordInv(g)'
  <2>1. CASE g = p
    BY <2>1
  <2>2. CASE g # p
    <3>1. proc'[g] = proc[g] /\ RecordInv(g)
      BY <1>1, <2>2 DEF RInv
    <3>2. DecisionRecordOf(g)' = DecisionRecordOf(g) /\ records \subseteq records'
      BY <3>1 DEF DecisionRecordOf
    <3> QED BY <3>1, <3>2 DEF RecordInv
  <2> QED BY <2>1, <2>2
<1>3. ASSUME records' = records PROVE LogInv'
  <2> SUFFICES ASSUME NEW r \in records
               PROVE  r.by \in Appliers /\ proc'[r.by].pc = "done" /\ r = DecisionRecordOf(r.by)'
    BY <1>3 DEF LogInv
  <2>1. r.by \in Appliers /\ proc[r.by].pc = "done" /\ r = DecisionRecordOf(r.by)
    BY DEF RInv, LogInv
  <2>2. proc'[r.by] = proc[r.by]
    BY <1>1, <2>1
  <2> QED BY <2>1, <2>2 DEF DecisionRecordOf
<1> QED BY <1>2, <1>3 DEF RInv

\* No invocation has begun and nothing is recorded.
LEMMA RecordInitInv == EditInit => RInv
<1> SUFFICES ASSUME EditInit PROVE RInv
  OBVIOUS
<1>1. Inv
  BY InitInv
<1>2. ASSUME NEW p \in Appliers PROVE RecordInv(p)
  <2>1. proc[p].pc = "idle" /\ proc[p].touched = {} /\ ~proc[p].applied
    BY DEF EditInit, Unstarted
  <2> QED BY <2>1 DEF RecordInv
<1>3. LogInv
  BY DEF EditInit, LogInv
<1> QED BY <1>1, <1>2, <1>3 DEF RInv

\* The applier is invoked for an allowed patch that is no dry run.
LEMMA RecordBegin ==
  ASSUME RInv, NEW p \in Appliers, Begin(p)
  PROVE  RInv'
<1>1. PICK patch \in Patches, policy \in Policies, dryRun \in BOOLEAN, approved \in BOOLEAN :
        LET class   == HighestClass(patch)
            allowed == ApplyAllowed(class, policy[class], approved)
        IN proc' = [proc EXCEPT ![p] =
                      [Unstarted EXCEPT !.patch = patch, !.policy = policy, !.dryRun = dryRun,
                                        !.approved = approved, !.invoked = ~dryRun /\ allowed,
                                        !.pc = IF ~dryRun /\ allowed THEN "apply" ELSE "record"]]
  BY DEF Begin
<1>2. PICK allowed : allowed = ApplyAllowed(HighestClass(patch), policy[HighestClass(patch)], approved)
  OBVIOUS
<1>3. PICK x : x = [Unstarted EXCEPT !.patch = patch, !.policy = policy, !.dryRun = dryRun,
                                     !.approved = approved, !.invoked = ~dryRun /\ allowed,
                                     !.pc = IF ~dryRun /\ allowed THEN "apply" ELSE "record"]
  OBVIOUS
<1>4. proc' = [proc EXCEPT ![p] = x] /\ proc[p].pc = "idle" /\ records' = records
  BY <1>1, <1>2, <1>3 DEF Begin
<1>5. proc'[p] = x
  BY <1>4 DEF RInv, Inv
<1>6. /\ x.touched = {} /\ x.index = 1 /\ ~x.applied /\ x.pc \in {"apply", "record"}
      /\ x.pc = "apply" => x.invoked /\ ~x.dryRun
  BY <1>3 DEF Unstarted
<1>7. RecordInv(p)'
  <2>1. 1..(x.index - 1) = {}
    BY <1>6
  <2> QED BY <1>5, <1>6, <2>1 DEF RecordInv
<1>8. Inv'
  BY BeginInv DEF RInv
<1>9. proc[p].pc # "done"
  BY <1>4
<1> QED BY <1>4, <1>7, <1>8, <1>9, RecordStep

\* A step of the applier.
LEMMA RecordApplier ==
  ASSUME RInv, NEW p \in Appliers, PrepareChange(p) \/ WriteChange(p)
  PROVE  RInv'
<1>1. Inv /\ Inv' /\ ProcInv(p) /\ RecordInv(p) /\ proc[p].pc \in {"apply", "write"} /\ records' = records
  BY PrepareInv, WriteInv DEF RInv, Inv, PrepareChange, WriteChange
<1>2. \E x : /\ proc' = [proc EXCEPT ![p] = x] /\ DOMAIN x = Fields /\ x.patch = proc[p].patch
             /\ x.dryRun = proc[p].dryRun /\ x.invoked = proc[p].invoked /\ x.applied = proc[p].applied
             /\ \/ /\ x.pc \in {"record", "write"} /\ x.touched = proc[p].touched
                   /\ x.index = proc[p].index
                \/ /\ x.pc \in {"record", "apply"} /\ x.touched = proc[p].touched \cup {proc[p].index}
                   /\ x.pc = "apply" => x.index = proc[p].index + 1
  <2>1. CASE ApplierStops(p)
    <3>1. PICK x : x = [proc[p] EXCEPT !.pc = "record"]
      OBVIOUS
    <3>2. proc' = [proc EXCEPT ![p] = x]
      BY <1>1, <2>1, <3>1 DEF ApplierStops, Inv
    <3>3. /\ DOMAIN x = Fields /\ x.patch = proc[p].patch
          /\ x.dryRun = proc[p].dryRun /\ x.invoked = proc[p].invoked /\ x.applied = proc[p].applied
          /\ x.pc = "record" /\ x.touched = proc[p].touched /\ x.index = proc[p].index
      BY <1>1, <3>1 DEF ProcInv, Fields
    <3> QED BY <3>2, <3>3
  <2>2. CASE PrepareChange(p) /\ ~ApplierStops(p)
    <3>1. PICK x : x = [proc[p] EXCEPT !.pc = "write",
                                       !.body = Prepared(Change(p), project[Target(Change(p))]).file]
      OBVIOUS
    <3>2. proc' = [proc EXCEPT ![p] = x]
      BY <1>1, <2>2, <3>1 DEF PrepareChange, Inv
    <3>3. /\ DOMAIN x = Fields /\ x.patch = proc[p].patch
          /\ x.dryRun = proc[p].dryRun /\ x.invoked = proc[p].invoked /\ x.applied = proc[p].applied
          /\ x.pc = "write" /\ x.touched = proc[p].touched /\ x.index = proc[p].index
      BY <1>1, <3>1 DEF ProcInv, Fields
    <3> QED BY <3>2, <3>3
  <2>3. CASE proc' = [proc EXCEPT ![p].pc = "apply", ![p].index = @ + 1,
                                  ![p].touched = @ \cup {proc[p].index}]
    <3>1. PICK x : x = [proc[p] EXCEPT !.pc = "apply", !.index = @ + 1,
                                       !.touched = @ \cup {proc[p].index}]
      OBVIOUS
    <3>2. proc' = [proc EXCEPT ![p] = x]
      BY <1>1, <2>3, <3>1 DEF Inv
    <3>3. /\ DOMAIN x = Fields /\ x.patch = proc[p].patch
          /\ x.dryRun = proc[p].dryRun /\ x.invoked = proc[p].invoked /\ x.applied = proc[p].applied
          /\ x.pc = "apply" /\ x.touched = proc[p].touched \cup {proc[p].index} /\ x.index = proc[p].index + 1
      BY <1>1, <3>1 DEF ProcInv, Fields
    <3> QED BY <3>2, <3>3
  <2>4. CASE proc' = [proc EXCEPT ![p].pc = "record", ![p].touched = @ \cup {proc[p].index}]
    <3>1. PICK x : x = [proc[p] EXCEPT !.pc = "record", !.touched = @ \cup {proc[p].index}]
      OBVIOUS
    <3>2. proc' = [proc EXCEPT ![p] = x]
      BY <1>1, <2>4, <3>1 DEF Inv
    <3>3. /\ DOMAIN x = Fields /\ x.patch = proc[p].patch
          /\ x.dryRun = proc[p].dryRun /\ x.invoked = proc[p].invoked /\ x.applied = proc[p].applied
          /\ x.pc = "record" /\ x.touched = proc[p].touched \cup {proc[p].index}
      BY <1>1, <3>1 DEF ProcInv, Fields
    <3> QED BY <3>2, <3>3
  <2> QED BY <2>1, <2>2, <2>3, <2>4 DEF WriteChange
<1>3. PICK x : /\ proc' = [proc EXCEPT ![p] = x] /\ DOMAIN x = Fields /\ x.patch = proc[p].patch
               /\ x.dryRun = proc[p].dryRun /\ x.invoked = proc[p].invoked /\ x.applied = proc[p].applied
               /\ \/ /\ x.pc \in {"record", "write"} /\ x.touched = proc[p].touched
                     /\ x.index = proc[p].index
                  \/ /\ x.pc \in {"record", "apply"} /\ x.touched = proc[p].touched \cup {proc[p].index}
                     /\ x.pc = "apply" => x.index = proc[p].index + 1
  BY <1>2
<1>4. proc'[p] = x
  BY <1>1, <1>3 DEF Inv
<1>5. proc[p].invoked /\ ~proc[p].dryRun /\ ~proc[p].applied /\ proc[p].touched = 1..(proc[p].index - 1)
  BY <1>1 DEF RecordInv
<1>6. x.pc \in {"apply", "write"} => x.touched = 1..(x.index - 1)
  <2>1. proc[p].index \in Nat \ {0}
    BY <1>1 DEF ProcInv
  <2>2. 1..(proc[p].index - 1) \cup {proc[p].index} = 1..((proc[p].index + 1) - 1)
    BY <2>1
  <2>3. CASE x.pc = "write"
    BY <1>3, <1>5, <2>3
  <2>4. CASE x.pc = "apply"
    BY <1>3, <1>5, <2>2, <2>4
  <2> QED BY <2>3, <2>4
<1>7. RecordInv(p)'
  BY <1>3, <1>4, <1>5, <1>6 DEF RecordInv
<1>8. proc[p].pc # "done"
  BY <1>1
<1> QED BY <1>1, <1>3, <1>7, <1>8, RecordStep

\* The applier is through with every file of the patch.
LEMMA RecordFinish ==
  ASSUME RInv, NEW p \in Appliers, FinishApply(p)
  PROVE  RInv'
<1>1. Inv /\ Inv' /\ ProcInv(p) /\ RecordInv(p) /\ proc[p].pc = "apply" /\ records' = records
  BY LeaveInv DEF RInv, Inv, FinishApply
<1>2. PICK x : x = [proc[p] EXCEPT !.pc = "record", !.applied = TRUE]
  OBVIOUS
<1>3. proc' = [proc EXCEPT ![p] = x] /\ proc'[p] = x
  BY <1>1, <1>2 DEF FinishApply, Inv
<1>4. /\ x.pc = "record" /\ x.patch = proc[p].patch /\ x.touched = proc[p].touched
      /\ x.dryRun = proc[p].dryRun /\ x.invoked = proc[p].invoked
  BY <1>1, <1>2 DEF ProcInv, Fields
<1>5. proc[p].touched = DOMAIN proc[p].patch
  <2>1. /\ proc[p].patch \in Patches /\ proc[p].touched = 1..(proc[p].index - 1)
        /\ proc[p].touched \subseteq DOMAIN proc[p].patch /\ proc[p].index \in Nat \ {0}
        /\ proc[p].index > Len(proc[p].patch)
    BY <1>1 DEF ProcInv, RecordInv, FinishApply
  <2>2. Len(proc[p].patch) \in Nat /\ DOMAIN proc[p].patch = 1..Len(proc[p].patch)
    BY <2>1, PatchAssumption
  <2>3. \A i \in Nat \ {0}, n \in Nat : 1..(i - 1) \subseteq 1..n /\ i > n => i - 1 = n
    <3> SUFFICES ASSUME NEW i \in Nat \ {0}, NEW n \in Nat, 1..(i - 1) \subseteq 1..n, i > n
                 PROVE  i - 1 = n
      OBVIOUS
    <3>1. i - 1 > 0 => i - 1 \in 1..n
      <4>1. i - 1 > 0 => i - 1 \in 1..(i - 1)
        OBVIOUS
      <4> QED BY <4>1
    <3> QED BY <3>1
  <2> QED BY <2>1, <2>2, <2>3
<1>6. RecordInv(p)'
  BY <1>1, <1>3, <1>4, <1>5 DEF RecordInv
<1>7. proc[p].pc # "done"
  BY <1>1
<1> QED BY <1>1, <1>3, <1>6, <1>7, RecordStep

\* The record that is appended is the one the invocation ends with.
LEMMA RecordAppend ==
  ASSUME RInv, NEW p \in Appliers, AppendDecisionRecord(p)
  PROVE  RInv'
<1>1. Inv /\ Inv' /\ ProcInv(p) /\ RecordInv(p) /\ proc[p].pc = "record"
  BY LeaveInv DEF RInv, Inv, AppendDecisionRecord
<1>2. PICK to \in {"done", "error"} :
        /\ proc' = [proc EXCEPT ![p] = [proc[p] EXCEPT !.pc = to]]
        /\ records' = IF to = "done" THEN records \cup {DecisionRecordOf(p)} ELSE records
  BY DEF AppendDecisionRecord
<1>3. PICK x : x = [proc[p] EXCEPT !.pc = to]
  OBVIOUS
<1>4. proc' = [proc EXCEPT ![p] = x] /\ proc'[p] = x
  BY <1>1, <1>2, <1>3 DEF Inv
<1>5. /\ x.pc = to /\ x.patch = proc[p].patch /\ x.touched = proc[p].touched
      /\ x.dryRun = proc[p].dryRun /\ x.invoked = proc[p].invoked /\ x.applied = proc[p].applied
  BY <1>1, <1>3 DEF ProcInv, Fields
<1>6. DecisionRecordOf(p)' = DecisionRecordOf(p) /\ DecisionRecordOf(p).by = p
  BY <1>4, <1>5 DEF DecisionRecordOf
<1>7. RecordInv(p)'
  BY <1>1, <1>2, <1>4, <1>5, <1>6 DEF RecordInv
<1>8. ASSUME to = "done" PROVE LogInv'
  <2> SUFFICES ASSUME NEW r \in records \cup {DecisionRecordOf(p)}
               PROVE  r.by \in Appliers /\ proc'[r.by].pc = "done" /\ r = DecisionRecordOf(r.by)'
    BY <1>2, <1>8 DEF LogInv
  <2>1. CASE r = DecisionRecordOf(p)
    BY <1>4, <1>5, <1>6, <1>8, <2>1
  <2>2. CASE r \in records
    <3>1. r.by \in Appliers /\ proc[r.by].pc = "done" /\ r = DecisionRecordOf(r.by)
      BY <2>2 DEF RInv, LogInv
    <3>2. proc'[r.by] = proc[r.by]
      BY <1>1, <1>4, <3>1 DEF Inv
    <3> QED BY <3>1, <3>2 DEF DecisionRecordOf
  <2> QED BY <2>1, <2>2
<1>9. proc[p].pc # "done"
  BY <1>1
<1> QED BY <1>1, <1>2, <1>4, <1>7, <1>8, <1>9, RecordStep

\* An invocation that fails early or is killed leaves no record.
LEMMA RecordLost ==
  ASSUME RInv, NEW p \in Appliers, BeginFails(p) \/ KillApplier(p)
  PROVE  RInv'
<1>1. Inv /\ Inv' /\ ProcInv(p) /\ RecordInv(p) /\ records' = records
  BY LeaveInv DEF RInv, Inv, BeginFails, KillApplier
<1>2. PICK to \in {"error", "killed"} : proc' = [proc EXCEPT ![p] = [proc[p] EXCEPT !.pc = to]]
  BY DEF BeginFails, KillApplier
<1>3. PICK x : x = [proc[p] EXCEPT !.pc = to]
  OBVIOUS
<1>4. proc' = [proc EXCEPT ![p] = x] /\ proc'[p] = x
  BY <1>1, <1>2, <1>3 DEF Inv
<1>5. /\ x.pc = to /\ x.patch = proc[p].patch /\ x.touched = proc[p].touched
      /\ x.dryRun = proc[p].dryRun /\ x.invoked = proc[p].invoked /\ x.applied = proc[p].applied
  BY <1>1, <1>3 DEF ProcInv, Fields
<1>6. RecordInv(p)'
  BY <1>1, <1>2, <1>4, <1>5 DEF RecordInv
<1>7. proc[p].pc # "done"
  BY DEF BeginFails, KillApplier
<1> QED BY <1>1, <1>4, <1>6, <1>7, RecordStep

\* Every step keeps the records true.
LEMMA RecordNextInv == RInv /\ [EditNext]_editVars => RInv'
<1> SUFFICES ASSUME RInv, [EditNext]_editVars PROVE RInv'
  OBVIOUS
<1>1. CASE UNCHANGED editVars
  <2>1. Inv'
    BY <1>1, NextInv DEF RInv
  <2> QED BY <1>1, <2>1 DEF editVars, RInv, LogInv, RecordInv, DecisionRecordOf
<1>2. CASE EditNext
  <2>1. PICK p \in Appliers :
          \/ Begin(p) \/ BeginFails(p) \/ PrepareChange(p) \/ WriteChange(p)
          \/ FinishApply(p) \/ AppendDecisionRecord(p) \/ KillApplier(p)
    BY <1>2 DEF EditNext
  <2> QED BY <2>1, RecordBegin, RecordApplier, RecordFinish, RecordAppend, RecordLost
<1> QED BY <1>1, <1>2

\* The record that apply.go appends last says what was done, however the
\* invocations interleave and whichever operations fail: nothing was touched
\* without the applier, everything was when it says applied, and no invocation
\* that touched a file ends normally without a record of it.
THEOREM EditRecordTruthful == EditSpec => []RecordTruthful
<1>1. RInv => RecordTruthful
  <2> SUFFICES ASSUME RInv PROVE RecordTruthful
    OBVIOUS
  <2>1. ASSUME NEW r \in records
        PROVE  /\ ~r.invoked \/ r.dryRun => proc[r.by].touched = {}
               /\ r.applied => proc[r.by].touched = DOMAIN proc[r.by].patch
    <3>1. r.by \in Appliers /\ r = DecisionRecordOf(r.by)
      BY DEF RInv, LogInv
    <3>2. RecordInv(r.by)
      BY <3>1 DEF RInv
    <3>3. r.invoked = proc[r.by].invoked /\ r.dryRun = proc[r.by].dryRun /\ r.applied = proc[r.by].applied
      BY <3>1 DEF DecisionRecordOf
    <3> QED BY <3>2, <3>3 DEF RecordInv
  <2>2. ASSUME NEW p \in Appliers, proc[p].pc = "done", proc[p].touched # {}
        PROVE  \E r \in records : r.by = p /\ r.invoked
    <3>1. DecisionRecordOf(p) \in records /\ proc[p].invoked
      BY <2>2 DEF RInv, RecordInv
    <3> QED BY <3>1 DEF DecisionRecordOf
  <2> QED BY <2>1, <2>2 DEF RecordTruthful
<1> QED BY <1>1, RecordInitInv, RecordNextInv, PTL DEF EditSpec
=============================================================================
