------------------------------- MODULE Receipts -------------------------------
(***************************************************************************)
(* The life of one decision record: the pipeline builds, signs and writes  *)
(* it, the file is kept and handed around, and a later reader runs         *)
(* `boundary verify-record` and `boundary replay` on what it received.     *)
(***************************************************************************)
EXTENDS RecordCodec

CONSTANTS
  Events,           \* the decisions that are recorded
  Signers,          \* the keys a record is signed with; "" for no (usable) signer
  Options,          \* what verify-record and replay are given
  Outcome(_, _),    \* the verdict of a request under loaded policy documents
  Substitutes,      \* the values an edit may put in a field
  ForeignKey,       \* a key that is not Boundary's
  MaxEmitted,       \* how many records are written
  MaxEdits          \* how often a file is edited before it is verified

NoFile == [BuildDecisionRecord([action |-> <<>>, mode |-> <<>>, stage |-> <<>>, route |-> <<>>,
                                build |-> <<>>, request |-> <<>>, policies |-> <<>>])
             EXCEPT !.members = <<>>]

VARIABLES
  emitted,    \* the records written, as they were written
  file,       \* the file a reader holds
  edits,      \* how often it has been edited
  given,      \* the options of the commands run on it
  verified,   \* verify-record's answer: "" before it ran, "ok", or a rejection class
  replayed    \* replay's answer: "" before it ran, "match", "mismatch" or "error"

rcVars == <<emitted, file, edits, given, verified, replayed>>

NotGiven == [request |-> [body |-> "", extra |-> FALSE], policies |-> <<>>, build |-> <<>>, key |-> ""]

RcInit ==
  /\ emitted = {} /\ file = NoFile /\ edits = 0
  /\ given = NotGiven /\ verified = "" /\ replayed = ""

-----------------------------------------------------------------------------

\* emitAudit and the publisher: the event is signed and written as a record.
EmitRecord(event, key) ==
  /\ file = NoFile /\ Cardinality(emitted) < MaxEmitted
  /\ emitted' = emitted \cup {Sign(BuildDecisionRecord(event), key)}
  /\ UNCHANGED <<file, edits, given, verified, replayed>>

\* A reader gets a record and whatever else it will run the commands with.
ReceiveRecord(record, options) ==
  /\ file = NoFile
  /\ file' = record /\ given' = options
  /\ UNCHANGED <<emitted, edits, verified, replayed>>

\* What may have become of a file since: its bytes are not protected, and neither
\* the digest nor, for whoever holds another key, the signature is hard to redo.
EditMember(i) ==
  \/ \E v \in Substitutes : file' = [file EXCEPT !.members[i].value = v]
  \/ file' = [file EXCEPT !.members = RemoveAt(@, i)]
  \/ file.members[i].name = "action" /\ file' = [file EXCEPT !.members[i].name = "Action"]

AddedMembers ==
  {Member("record", n, v) : n \in {"action", "Action", "note"}, v \in Substitutes}
  \cup {Member("check", "Stage", v) : v \in Substitutes}

AddMember == \E m \in AddedMembers : file' = [file EXCEPT !.members = Append(@, m)]

EditBytes ==
  (\E s \in {"array", "truncated"} : file' = [file EXCEPT !.shape = s]) \/ file' = [file EXCEPT !.trailing = TRUE]

EditSeals ==
  \/ \E h \in {NoHash} \cup {ComputeDecisionHash(Content(file, r)) : r \in Readers} : file' = [file EXCEPT !.hash = h]
  \/ \E other \in emitted : file' = [file EXCEPT !.sig = other.sig]
  \/ file' = Sign(file, ForeignKey)

Edit ==
  /\ file # NoFile /\ edits < MaxEdits /\ verified = "" /\ replayed = ""
  /\ (\E i \in DOMAIN file.members : EditMember(i)) \/ AddMember \/ EditBytes \/ EditSeals
  /\ edits' = edits + 1
  /\ UNCHANGED <<emitted, given, verified, replayed>>

VerifyRecord ==
  /\ file # NoFile /\ verified = ""
  /\ verified' = runVerifyRecord(file, given)
  /\ UNCHANGED <<emitted, file, edits, given, replayed>>

-----------------------------------------------------------------------------
(* boundary replay: the record is decoded leniently, its decision_hash is not
   looked at. *)

\* The hash gates and the compared decision fields.
reproduce(record, options) ==
  IF Unloadable(options.policies) THEN "error"
  ELSE IF /\ record["request_hash"] = ComputeRequestHash(options.request)
          /\ record["policy_bundle_hash"] \in {<<>>, PolicyBundleHashFromDir(options.policies)}
          /\ record["action"] = Outcome(options.request.body, PolicyFiles(options.policies)).action
          /\ record["decision_mode"] = Outcome(options.request.body, PolicyFiles(options.policies)).mode
       THEN "match" ELSE "mismatch"

\* json.Unmarshal fails on truncated and trailing bytes and on an array.
Replay ==
  /\ file # NoFile /\ replayed = ""
  /\ given.request.body # "" /\ given.policies # <<>>
  /\ LET record == Content(file, "go")
     IN  replayed' = IF \/ file.shape # "object" \/ file.trailing
                        \/ record["schema_version"] \notin {<<"1">>, <<"2">>}
                        \/ record["action"] = <<>>
                     THEN "error"
                     ELSE reproduce(record, given)
  /\ UNCHANGED <<emitted, file, edits, given, verified>>

RcNext ==
  \/ \E e \in Events, k \in Signers : EmitRecord(e, k)
  \/ \E r \in emitted, o \in Options : ReceiveRecord(r, o)
  \/ Edit \/ VerifyRecord \/ Replay

-----------------------------------------------------------------------------
(* Properties. *)

\* A record verify-record accepts reads the same to every reader, replay's lenient
\* one among them, and its digest covers what they read; with the signature checked,
\* that content is one Boundary emitted under this key.  If replay also matched, the
\* request and verdict it reproduced are the emitted ones.
VerifiedMeansEmitted ==
  verified = "ok" =>
    /\ \A r \in Readers : Content(file, r) = file.hash
    /\ given.key \notin {"", ForeignKey} =>
         \E e \in emitted :
           /\ e.sig.key = given.key
           /\ Content(e, "first") = Content(file, "first")
           /\ replayed = "match" =>
                /\ Content(e, "first")["request_hash"] = <<given.request.body>>
                /\ Content(e, "first")["action"] =
                     Outcome(given.request.body, PolicyFiles(given.policies)).action
=============================================================================
