----------------------------- MODULE RecordCodec ------------------------------
(***************************************************************************)
(* Decision records as files, and what their readers make of them.         *)
(*                                                                         *)
(* A file is a sequence of JSON members, each with the object it stands in *)
(* (the record or its `check`), so that a name may repeat, differ in case  *)
(* only or belong to no schema.  Digests are the values they digest: no    *)
(* two contents share one.  A signature is a key and the digest it covers. *)
(***************************************************************************)
EXTENDS Integers, Sequences, FiniteSets, SequencesExt

CONSTANT Documents   \* the canonical policy documents, in the order of their text

Fields == {"schema_version", "boundary_build_digest", "action", "decision_mode", "request_hash",
           "policy_bundle_hash", "route_id", "stage"}

NoHash == [f \in Fields |-> <<>>]
NoSignature == [key |-> "", over |-> NoHash]

ScopeOf(f) == IF f = "stage" THEN "check" ELSE "record"

\* The closed member sets: the JSON tags of the record and of its check object.
memberSetFor(scope) == {f \in Fields : ScopeOf(f) = scope}

\* strings.ToLower on the names that occur here.
Folded(name) == CASE name = "Action" -> "action" [] name = "Stage" -> "stage" [] OTHER -> name

Member(in, name, value) == [in |-> in, name |-> name, value |-> value]

-----------------------------------------------------------------------------
(* Readers.  encoding/json binds a member to a field whatever its case and
   keeps the last; other readers keep the first or the last exact name. *)

Readers == {"go", "first", "last"}

Positions(file, f, reader) ==
  {i \in DOMAIN file.members :
     /\ file.members[i].in = ScopeOf(f)
     /\ f = IF reader = "go" THEN Folded(file.members[i].name) ELSE file.members[i].name}

\* The content a reader sees; an absent member reads as the empty value.
Content(file, reader) ==
  [f \in Fields |->
     LET at == Positions(file, f, reader)
     IN  IF at = {} THEN <<>>
         ELSE file.members[IF reader = "first" THEN Min(at) ELSE Max(at)].value]

-----------------------------------------------------------------------------
(* Strict decoding. *)

\* Mutant: the scan only knows the schema's members, it does not compare names.
RepeatsTolerated(file) == FALSE

\* Names must be unique in each object, compared case-folded.
RepeatsMember(file) ==
  \E i, j \in DOMAIN file.members :
    /\ i < j
    /\ file.members[i].in = file.members[j].in
    /\ Folded(file.members[i].name) = Folded(file.members[j].name)

UnknownMember(file) ==
  \E i \in DOMAIN file.members : file.members[i].name \notin memberSetFor(file.members[i].in)

\* rejectDuplicateMembersAndTrailing, the object test and RecordRejectReason: a
\* repeated member or trailing bytes outrank a name outside the schema.
DecodeDecisionRecord(file) ==
  IF RepeatsMember(file) THEN "duplicate-key"
  ELSE IF file.shape = "truncated" THEN "parse-error"
  ELSE IF file.trailing THEN "trailing-data"
  ELSE IF file.shape = "array" THEN "not-object"
  ELSE IF UnknownMember(file) THEN "unknown-field"
  ELSE "ok"

\* The witnessed verifier's scan is the same; its decoding also wants the required
\* members and validates their values.
decodeDecisionRecord(file) ==
  LET record == Content(file, "go")
  IN  /\ DecodeDecisionRecord(file) = "ok"
      /\ record["schema_version"] \in {<<"1">>, <<"2">>}
      /\ record["action"] # <<>>
      /\ record["decision_mode"] \in {<<>>, <<"deterministic">>, <<"classified">>,
                                      <<"proved">>, <<"human_approved">>}
      /\ file.hash # NoHash

-----------------------------------------------------------------------------
(* Emission and hashes. *)

\* The canonical JSON of everything but record_id, decision_hash and the signature.
ComputeDecisionHash(content) == content

HasRouteContext(event) == event.route # <<>>

\* A member with an empty value is omitted.
OmitEmpty(f, value) == IF value = <<>> THEN <<>> ELSE <<Member(ScopeOf(f), f, value)>>

Unhashed(event) ==
  [shape |-> "object", trailing |-> FALSE,
   members |-> OmitEmpty("schema_version", IF HasRouteContext(event) THEN <<"2">> ELSE <<"1">>)
               \o OmitEmpty("boundary_build_digest", event.build) \o OmitEmpty("action", event.action)
               \o OmitEmpty("decision_mode", event.mode) \o OmitEmpty("policy_bundle_hash", event.policies)
               \o OmitEmpty("request_hash", event.request) \o OmitEmpty("stage", event.stage)
               \o OmitEmpty("route_id", event.route),
   hash |-> NoHash, sig |-> NoSignature]

BuildDecisionRecord(event) ==
  [Unhashed(event) EXCEPT !.hash = ComputeDecisionHash(Content(Unhashed(event), "go"))]

\* The pipeline signs with a nil, a usable or an unusable signer: without a
\* signature the record is emitted all the same.
Sign(file, key) ==
  IF key = "" THEN file
  ELSE [file EXCEPT !.sig = [key |-> key, over |-> ComputeDecisionHash(Content(file, "go"))]]

\* A request file holds a request and perhaps members the request type lacks:
\* hashing the raw bytes keeps those, hashing the decoded request drops them.
ComputeRequestHash(request) == <<request.body>>
ComputeRawRequestHash(request) ==
  IF request.extra THEN <<request.body, "extra">> ELSE <<request.body>>

\* Regular YAML files, in the order of their names.
PolicyFiles(dir) == SelectSeq(dir, LAMBDA p : p.kind \in {"yaml", "broken"})

Unloadable(dir) == \E i \in DOMAIN dir : dir[i].kind = "broken"

\* The contents, sorted: names and order do not count.
PolicyBundleHashFromDir(dir) ==
  LET docs == [i \in DOMAIN PolicyFiles(dir) |-> PolicyFiles(dir)[i].doc]
  IN  FoldLeft(LAMBDA sorted, d : sorted \o SelectSeq(docs, LAMBDA x : x = d), <<>>, Documents)

-----------------------------------------------------------------------------
(* boundary verify-record. *)

\* A missing, foreign or misplaced signature fails.
VerifyReceiptSignature(file, pub) ==
  /\ file.sig # NoSignature
  /\ file.sig = [key |-> pub, over |-> ComputeDecisionHash(Content(file, "go"))]

\* The first failing check of the fixed order, in the words of VerifyDecisionRecord.
VerifyDecisionRecord(file, given) ==
  LET record == Content(file, "go")
  IN  IF record["schema_version"] \notin {<<"1">>, <<"2">>} THEN "schema_version"
      ELSE IF /\ given.request.body # ""
              /\ record["request_hash"] # ComputeRawRequestHash(given.request) THEN "mismatch"
      ELSE IF given.policies # <<>> /\ Unloadable(given.policies) THEN "unloadable"
      ELSE IF \/ /\ given.policies # <<>>
                 /\ record["policy_bundle_hash"] # PolicyBundleHashFromDir(given.policies)
              \/ given.build # <<>> /\ record["boundary_build_digest"] # given.build
              \/ file.hash # ComputeDecisionHash(record) THEN "mismatch"
      ELSE "ok"

\* Which of the shared rejection classes a failure belongs to.
verifyRecordFailReason(file, failure) ==
  IF file.hash = NoHash THEN "missing-hash"
  ELSE IF failure = "schema_version" THEN "schema-version"
  ELSE IF failure = "mismatch" THEN "hash-mismatch"
  ELSE "verify-fail"

runVerifyRecord(file, given) ==
  IF DecodeDecisionRecord(file) # "ok" THEN DecodeDecisionRecord(file)
  ELSE IF VerifyDecisionRecord(file, given) # "ok"
       THEN verifyRecordFailReason(file, VerifyDecisionRecord(file, given))
  ELSE IF given.key # "" /\ ~VerifyReceiptSignature(file, given.key) THEN "signature"
  ELSE "ok"
=============================================================================
