---------------------------- MODULE EvidenceBundle ----------------------------
(***************************************************************************)
(* `boundary evidence bundle` and `boundary evidence verify`: a bundling   *)
(* writes its outputs one by one, hashes each from the disk, writes the    *)
(* summary and, last, the manifest.  It can be killed at any step, run     *)
(* again or twice at once over one directory, and the files can change.    *)
(* A verification reads the manifest, then opens the artifacts one after   *)
(* the other, up to four times each, then the summary: bundlings and       *)
(* changes fall in between.                                                *)
(***************************************************************************)
EXTENDS Integers, Sequences, FiniteSets, SequencesExt

CONSTANTS
  Bundlings,      \* the runs of `evidence bundle` into one directory
  Outputs,        \* what each writes itself: a sequence of [path, kind, schema]
  SourceFiles,    \* the source directory in walking order: [path, kind, regular, json]
  Fixtures,       \* the kinds a manifest claims as fixture-safe outputs
  MaxTouches      \* how often a file of the directory is changed

ASSUME FilesAssumption == Outputs \in Seq(ToSet(Outputs)) /\ SourceFiles \in Seq(ToSet(SourceFiles))

Absent == [tag |-> "absent", size |-> 0, json |-> FALSE, schema |-> "", lists |-> {}]

VARIABLES
  out,        \* the output directory: path -> content (Absent if there is no file)
  manifest,   \* manifest.json: "absent", "broken" or "whole", and what it registers
  bnd,        \* bnd[b]: a bundling's step, its next file and what it has registered
  touches,    \* how often the directory was changed
  vrf,        \* the verification: its step, its artifact, the manifest's artifacts it read
  still       \* history: no file of the directory changed since it read the manifest

evVars == <<out, manifest, bnd, touches, vrf, still>>

\* Source files become artifacts/<path>; a name with "decision" or "record" in it
\* makes a decision_record.
Plan == Outputs \o SourceFiles

\* What a bundling writes: all but the source files that are not regular.
Copied == {i \in DOMAIN Plan : i > Len(Outputs) => Plan[i].regular}

Paths == {Plan[i].path : i \in Copied} \cup {"summary.md"}

\* The content bundling b gives a file: its own outputs differ from run to run.
Written(b, item) ==
  [tag |-> IF item \in ToSet(Outputs) THEN b ELSE item.path,
   size |-> 2, json |-> item.json, schema |-> item.schema, lists |-> {}]

EvInit ==
  /\ out = [p \in Paths |-> Absent]
  /\ manifest = [state |-> "absent", artifacts |-> <<>>]
  /\ bnd = [b \in Bundlings |-> [step |-> "write", at |-> 1, artifacts |-> <<>>]]
  /\ touches = 0
  /\ vrf = [step |-> "manifest", at |-> 1, artifacts |-> <<>>, seen |-> <<>>] /\ still = TRUE

-----------------------------------------------------------------------------
(* Bundle. *)

\* A file that is not regular is skipped with a warning.
SkipSource(b) ==
  /\ bnd[b].step = "write" /\ bnd[b].at \in DOMAIN Plan \ Copied
  /\ bnd' = [bnd EXCEPT ![b].at = @ + 1]
  /\ UNCHANGED <<out, manifest, touches, vrf>>

\* writeJSON, writeFile or copyFile.
WriteArtifact(b) ==
  /\ bnd[b].step = "write" /\ bnd[b].at \in Copied
  /\ out' = [out EXCEPT ![Plan[bnd[b].at].path] = Written(b, Plan[bnd[b].at])]
  /\ bnd' = [bnd EXCEPT ![b].step = "hash"]
  /\ UNCHANGED <<manifest, touches, vrf>>

\* hashArtifact reads the file back; a file that is gone ends the bundling.
hashArtifact(b, path, kind, schema) ==
  [path |-> path, kind |-> kind, schema |-> schema, content |-> out[path]]

RegisterArtifact(b) ==
  /\ bnd[b].step = "hash"
  /\ LET item == Plan[bnd[b].at]
     IN  bnd' = [bnd EXCEPT ![b] =
                   IF out[item.path] = Absent THEN [@ EXCEPT !.step = "failed"]
                   ELSE [step |-> "write", at |-> @.at + 1,
                         artifacts |-> Append(@.artifacts,
                                              hashArtifact(b, item.path, item.kind, item.schema))]]
  /\ UNCHANGED <<out, manifest, touches, vrf>>

\* renderSummary lists what is registered so far and the summary itself.
WriteSummary(b) ==
  /\ bnd[b].step = "write" /\ bnd[b].at = Len(Plan) + 1
  /\ out' = [out EXCEPT !["summary.md"] =
               [tag |-> b, size |-> 2, json |-> FALSE, schema |-> "",
                lists |-> {"summary.md"} \cup {bnd[b].artifacts[i].path : i \in DOMAIN bnd[b].artifacts}]]
  /\ bnd' = [bnd EXCEPT ![b].step = "summary"]
  /\ UNCHANGED <<manifest, touches, vrf>>

RegisterSummary(b) ==
  /\ bnd[b].step = "summary"
  /\ IF out["summary.md"] = Absent THEN bnd' = [bnd EXCEPT ![b].step = "failed"]
     ELSE bnd' = [bnd EXCEPT ![b].step = "manifest",
                             ![b].artifacts = Append(@, hashArtifact(b, "summary.md", "summary", ""))]
  /\ UNCHANGED <<out, manifest, touches, vrf>>

\* os.WriteFile truncates and then writes: in between the manifest is broken.
TruncateManifest(b) ==
  /\ bnd[b].step = "manifest"
  /\ manifest' = [state |-> "broken", artifacts |-> <<>>]
  /\ bnd' = [bnd EXCEPT ![b].step = "flush"]
  /\ UNCHANGED <<out, touches, vrf>>

\* Written over another bundling's longer manifest, the rest of that one stays.
FlushManifest(b) ==
  /\ bnd[b].step = "flush"
  /\ \/ manifest' = [state |-> "whole", artifacts |-> bnd[b].artifacts]
     \/ manifest.state = "whole" /\ manifest' = [state |-> "broken", artifacts |-> <<>>]
  /\ bnd' = [bnd EXCEPT ![b].step = "done"]
  /\ UNCHANGED <<out, touches, vrf>>

\* Killed, or a write fails: the file being written may be left cut short.
Interrupt(b) ==
  /\ bnd[b].step \notin {"done", "failed"}
  /\ bnd' = [bnd EXCEPT ![b].step = "failed"]
  /\ \/ out' = out
     \/ /\ bnd[b].step = "write" /\ bnd[b].at \in Copied
        /\ out' = [out EXCEPT ![Plan[bnd[b].at].path] =
                     [Written(b, Plan[bnd[b].at]) EXCEPT !.size = 1, !.json = FALSE]]
  /\ UNCHANGED <<manifest, touches, vrf>>

\* Someone changes, cuts or removes a file of the directory.
Touch(p) ==
  /\ touches < MaxTouches /\ out[p] # Absent
  /\ touches' = touches + 1
  /\ \E c \in {Absent, [out[p] EXCEPT !.tag = "other"], [out[p] EXCEPT !.size = 1, !.json = FALSE]} :
       out' = [out EXCEPT ![p] = c]
  /\ UNCHANGED <<manifest, bnd, vrf>>

-----------------------------------------------------------------------------
(* Verify. *)

\* The artifact whose turn it is, and what lies at its path by now.
Artifact == vrf.artifacts[vrf.at]
Found == out[Artifact.path]

\* Mutant: the digest is not compared, only the size.
SizeMatches(artifact) == out[artifact.path].size = artifact.content.size

\* Size and digest of what is hashed.
Unchanged(artifact) == out[artifact.path] = artifact.content

\* readBundleFile and json.Unmarshal of manifest.json.
ReadManifest ==
  /\ vrf.step = "manifest"
  /\ vrf' = IF manifest.state = "whole" THEN [vrf EXCEPT !.step = "stat", !.artifacts = manifest.artifacts]
            ELSE [vrf EXCEPT !.step = "fail"]
  /\ UNCHANGED <<out, manifest, bnd, touches>>

\* One operation on the artifact's file.  The first check that fails settles the
\* answer: the later ones are reported, and change nothing.
Check(step, ok, next) ==
  /\ vrf.step = step /\ vrf.at \in DOMAIN vrf.artifacts
  /\ vrf' = IF ok THEN next ELSE [vrf EXCEPT !.step = "fail"]
  /\ UNCHANGED <<out, manifest, bnd, touches>>

StatArtifact ==
  Check("stat", Found # Absent /\ Found.size = Artifact.content.size, [vrf EXCEPT !.step = "hash"])

\* An artifact is opened again only for what is left to check of it.
ToRecord(at) ==
  IF vrf.artifacts[at].kind = "decision_record" THEN [step |-> "record", at |-> at]
  ELSE [step |-> "stat", at |-> at + 1]

ToSchema(at) ==
  IF vrf.artifacts[at].schema # "" THEN [step |-> "schema", at |-> at] ELSE ToRecord(at)

RehashArtifact ==
  Check("hash", Found # Absent /\ Unchanged(Artifact),
        [vrf EXCEPT !.step = ToSchema(vrf.at).step, !.at = ToSchema(vrf.at).at, !.seen = Append(@, Found)])

verifyJSONSchema ==
  Check("schema", Found.json /\ Found.schema = Artifact.schema,
        [vrf EXCEPT !.step = ToRecord(vrf.at).step, !.at = ToRecord(vrf.at).at])

parseRecordArtifact == Check("record", Found.json, [vrf EXCEPT !.step = "stat", !.at = @ + 1])

missingSummaryReferences(artifacts) ==
  {artifacts[i].path : i \in DOMAIN artifacts} \ out["summary.md"].lists

\* The fixture claims are the manifest's own; the summary is read last.
ReadSummary ==
  /\ vrf.step = "stat" /\ vrf.at = Len(vrf.artifacts) + 1
  /\ vrf' = [vrf EXCEPT !.step =
               IF /\ \A k \in Fixtures : \E i \in DOMAIN vrf.artifacts : vrf.artifacts[i].kind = k
                  /\ out["summary.md"] # Absent /\ missingSummaryReferences(vrf.artifacts) = {}
               THEN "pass" ELSE "fail"]
  /\ UNCHANGED <<out, manifest, bnd, touches>>

EvStep ==
  \/ \E b \in Bundlings :
       \/ SkipSource(b) \/ WriteArtifact(b) \/ RegisterArtifact(b) \/ WriteSummary(b) \/ RegisterSummary(b)
       \/ TruncateManifest(b) \/ FlushManifest(b) \/ Interrupt(b)
  \/ \E p \in Paths : Touch(p)
  \/ ReadManifest \/ StatArtifact \/ RehashArtifact \/ verifyJSONSchema \/ parseRecordArtifact
  \/ ReadSummary

\* The model ends with the verification's answer.
EvNext ==
  /\ vrf.step \notin {"pass", "fail"} /\ EvStep
  /\ still' = (vrf.step = "manifest" \/ (still /\ out' = out))

-----------------------------------------------------------------------------
(* Properties. *)

\* A verification that passes has read the manifest of a finished bundling, whole and over
\* every file of the directory, and each artifact had the registered content when it was
\* hashed: a bundling that was cut off and a file changed or lost before its turn are
\* noticed, whoever writes meanwhile.  If no file changed from the reading of the manifest
\* on, the directory is what that bundling registered, file for file.  (A file may change
\* after its turn; and what a bundling registers of a file is what it found there.)
EvidencePassMeansBundled ==
  vrf.step = "pass" =>
    \E b \in Bundlings :
      /\ bnd[b].step = "done" /\ bnd[b].artifacts = vrf.artifacts
      /\ {vrf.artifacts[i].path : i \in DOMAIN vrf.artifacts} = Paths
      /\ \A i \in DOMAIN vrf.artifacts :
           /\ vrf.seen[i] = vrf.artifacts[i].content
           /\ still => out[vrf.artifacts[i].path] = vrf.artifacts[i].content
=============================================================================
