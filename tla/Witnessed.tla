------------------------------- MODULE Witnessed ------------------------------
(***************************************************************************)
(* Witnessed receipt bundles and their independent verifier.  The log      *)
(* service, its witnesses and the exporter are external; the verifier      *)
(* (verify-witnessed) sees a directory of a manifest and five files that   *)
(* may have been mixed up, edited, stripped or re-registered on the way.   *)
(*                                                                         *)
(* A Merkle root is the sequence of its leaves, an audit path that         *)
(* sequence without the leaf proved: only the right leaf completes it.     *)
(***************************************************************************)
EXTENDS RecordCodec

CONSTANTS
  Tenants,        \* each has a log of its own
  Logged,         \* Logged[t]: the records tenant t's decisions produce, in order
  Unlogged,       \* a record no log holds
  Witnesses,      \* the witnesses that cosign
  FulcrumKeyID,   \* the identifier the log service's key is published under
  WitnessKeyID,   \* WitnessKeyID[w]: the same for a witness
  KeySpecs,       \* the sequences of keys a verifier may be started with
  MaxCosigned,    \* how many cosignatures are made
  MaxExports,     \* how many bundles are exported, one of which is received
  MaxChanges      \* how often that one changes on the way

\* The logs are sequences of records, a record a file with a sequence of members.
ASSUME LogAssumption ==
  /\ \A t \in Tenants : Logged[t] \in Seq(ToSet(Logged[t]))
  /\ \A d \in {Unlogged} \cup UNION {ToSet(Logged[t]) : t \in Tenants} :
       DOMAIN d = {"shape", "trailing", "members", "hash", "sig"} /\ d.members \in Seq(ToSet(d.members))

Names == {"decisions", "declines", "proof", "head", "cosignatures"}

NoLeaf == [field |-> "", source |-> NoHash]

VARIABLES
  logs,       \* logs[t]: how many of t's decisions are logged
  heads,      \* the tree heads the log service signed
  cosigned,   \* the cosignatures the witnesses made
  exports,    \* the bundles exported
  bundle,     \* the bundle a reader holds (<<>> before it was received, else <<b>>)
  changes,    \* how often it changed on the way
  outcome     \* the verifier's exit status and checks, <<>> before it ran

wtVars == <<logs, heads, cosigned, exports, bundle, changes, outcome>>

-----------------------------------------------------------------------------
(* The log service, the witnesses and the exporter (external). *)

LeafOf(source) == [field |-> "decision_hash", source |-> source]
RootOf(t, n) == [i \in 1..n |-> LeafOf(Logged[t][i].hash)]

\* What the signature of a tree head covers: not its tree_head_id.
canonicalTreeHead(h) == [log |-> h.log, tenant |-> h.tenant, size |-> h.size, root |-> h.root, key |-> h.key]
canonicalWitnessCosignature(c) ==
  [witness |-> c.witness, log |-> c.log, size |-> c.size, root |-> c.root, key |-> c.key]

\* Signatures are the signer's key and what it signed.
SignedHead(t, n) ==
  LET h == [id |-> <<t, n>>, log |-> t, tenant |-> t, size |-> n, root |-> RootOf(t, n), key |-> FulcrumKeyID,
            sig |-> <<>>]
  IN  [h EXCEPT !.sig = <<"fulcrum", canonicalTreeHead(h)>>]

Cosignature(w, h) ==
  LET c == [witness |-> w, log |-> h.log, size |-> h.size, root |-> h.root, key |-> h.key, sig |-> <<>>]
  IN  [c EXCEPT !.sig = <<w, canonicalWitnessCosignature(c)>>]

\* What a manifest says of the decisions: their index and the counts.
Tally(decisions, f) ==
  [v \in {Content(decisions[i], "go")[f] : i \in DOMAIN decisions} |->
     Cardinality({i \in DOMAIN decisions : Content(decisions[i], "go")[f] = v})]
IndexEntry(d) ==
  [hash |-> d.hash, action |-> Content(d, "go")["action"], mode |-> Content(d, "go")["decision_mode"],
   key |-> d.sig.key]
Summary(decisions) ==
  [index |-> [i \in DOMAIN decisions |-> IndexEntry(decisions[i])],
   byVerdict |-> Tally(decisions, "action"), byMode |-> Tally(decisions, "decision_mode"),
   signed |-> Cardinality({i \in DOMAIN decisions : decisions[i].sig # NoSignature})]

Manifest(tenant, b) ==
  [tenant |-> tenant, summary |-> Summary(b.decisions),
   decisions |-> b.decisions, proof |-> b.proof, head |-> b.head, cosignatures |-> b.cosignatures,
   configured |-> Cardinality(DOMAIN b.cosignatures.configured),
   present |-> Cardinality(b.cosignatures.items)]

ExportedBundle(t, i, h) ==
  LET proof == [log |-> t, head |-> h.id, source |-> Logged[t][i].hash, leaf |-> LeafOf(Logged[t][i].hash),
                index |-> i, size |-> h.size, path |-> [h.root EXCEPT ![i] = NoLeaf],
                mode |-> Content(Logged[t][i], "go")["decision_mode"]]
      b == [decisions |-> SubSeq(Logged[t], 1, h.size), proof |-> proof, head |-> h,
            cosignatures |-> [head |-> h.id, configured |-> WitnessKeyID,
                              items |-> {c \in cosigned : c.root = h.root /\ c.log = h.log}],
            absent |-> {}, garbled |-> {}, declined |-> FALSE]
  IN  [files |-> b, manifest |-> Manifest(t, b)]

\* A decision is logged and a new head signed.
LogDecision(t) ==
  /\ bundle = <<>> /\ exports = {} /\ logs[t] < Len(Logged[t])
  /\ logs' = [logs EXCEPT ![t] = @ + 1]
  /\ heads' = heads \cup {SignedHead(t, logs[t] + 1)}
  /\ UNCHANGED <<cosigned, exports, bundle, changes, outcome>>

Cosign(w, h) ==
  /\ bundle = <<>> /\ exports = {} /\ Cardinality(cosigned) < MaxCosigned
  /\ cosigned' = cosigned \cup {Cosignature(w, h)}
  /\ UNCHANGED <<logs, heads, exports, bundle, changes, outcome>>

Export(i, h) ==
  /\ bundle = <<>> /\ Cardinality(exports) < MaxExports /\ i <= h.size
  /\ exports' = exports \cup {ExportedBundle(h.tenant, i, h)}
  /\ UNCHANGED <<logs, heads, cosigned, bundle, changes, outcome>>

ReceiveBundle(b) ==
  /\ bundle = <<>> /\ Cardinality(exports) = MaxExports
  /\ bundle' = <<b>>
  /\ UNCHANGED <<logs, heads, cosigned, exports, changes, outcome>>

-----------------------------------------------------------------------------
(* What may become of a bundle. *)

\* What has become of the files.
Becomes(files) == bundle' = <<[bundle[1] EXCEPT !.files = files]>>

\* Records edited, added, taken out or those of another export, rehashed or not.
ChangedDecision(d) ==
  {Unlogged, [d EXCEPT !.hash = Content(d, "go")]}
  \cup {[d EXCEPT !.members[i].value = <<"allow">>] :
          i \in {k \in DOMAIN d.members : d.members[k].name = "action"}}

ChangeDecisions(f) ==
  \/ Becomes([f EXCEPT !.decisions = Append(@, Unlogged)])
  \/ \E i \in DOMAIN f.decisions :
       \/ Becomes([f EXCEPT !.decisions = RemoveAt(@, i)])
       \/ \E d \in ChangedDecision(f.decisions[i]) : Becomes([f EXCEPT !.decisions[i] = d])
  \/ \E x \in exports : Becomes([f EXCEPT !.decisions = x.files.decisions])

\* The proof is made to select another record, or rewritten.
ChangeProof(f) ==
  \/ \E d \in ToSet(f.decisions) :
       Becomes([f EXCEPT !.proof.source = d.hash, !.proof.leaf = LeafOf(d.hash)])
  \/ Becomes([f EXCEPT !.proof.leaf = LeafOf(f.proof.source)])
  \/ Becomes([f EXCEPT !.proof.index = 0])
  \/ \E x \in exports : Becomes([f EXCEPT !.proof = x.files.proof])

\* The tree of the selected record alone, signed by somebody else.
ForgedHead(f) ==
  LET h == [f.head EXCEPT !.root = <<f.proof.leaf>>, !.size = 1]
  IN  [h EXCEPT !.sig = <<"foreign", canonicalTreeHead(h)>>]

\* Neither the head's identifier nor the places that repeat it are signed.
ChangeHead(f) ==
  \/ Becomes([f EXCEPT !.head.size = 0])
  \/ \E t \in Tenants : Becomes([f EXCEPT !.head.tenant = t])
  \/ \E x \in exports :
       \/ Becomes([f EXCEPT !.head = x.files.head])
       \/ LET id == x.files.head.id
          IN  Becomes([f EXCEPT !.proof.head = id, !.head.id = id, !.cosignatures.head = id])
  \/ Becomes([f EXCEPT !.head = ForgedHead(f),
                       !.proof.size = 1, !.proof.index = 1, !.proof.path = <<NoLeaf>>])

ChangeCosignatures(f) ==
  \E x \in exports :
    \/ Becomes([f EXCEPT !.cosignatures = x.files.cosignatures])
    \/ Becomes([f EXCEPT !.cosignatures.items = @ \cup x.files.cosignatures.items])

\* A file is lost or damaged, or a declined entry added.
LoseFile(f) ==
  \/ \E n \in Names \cup {"manifest"} :
       Becomes([f EXCEPT !.absent = @ \cup {n}]) \/ Becomes([f EXCEPT !.garbled = @ \cup {n}])
  \/ Becomes([f EXCEPT !.declined = TRUE])

ChangeBundle ==
  /\ bundle # <<>> /\ outcome = <<>> /\ changes < MaxChanges
  /\ changes' = changes + 1
  /\ LET f == bundle[1].files
     IN  \/ ChangeDecisions(f) \/ ChangeProof(f) \/ ChangeHead(f)
         \/ ChangeCosignatures(f) \/ LoseFile(f)
         \/ bundle' = <<[bundle[1] EXCEPT !.manifest = Manifest(@.tenant, f)]>>
         \/ \E t \in Tenants : bundle' = <<[bundle[1] EXCEPT !.manifest.tenant = t]>>
  /\ UNCHANGED <<logs, heads, cosigned, exports, outcome>>

-----------------------------------------------------------------------------
(* The verifier. *)

\* Keyrings, then the keys of the command line: an identifier repeated with
\* another role or other bytes is refused, and so is an empty set.
KeySet(specs) == {specs[i] : i \in DOMAIN specs}
KeysUsable(specs) ==
  /\ specs # <<>>
  /\ \A k, l \in KeySet(specs) : k.id = l.id => k = l

\* The key of an identifier, if it has this role.
lookup(keys, id, role) == {k.key : k \in {k \in keys : k.id = id /\ k.role = role}}

SumOf(counts) == FoldFunction(+, 0, counts)

\* What decoding demands of the values, beyond their syntax.
validManifest(m) ==
  /\ Len(m.summary.index) = SumOf(m.summary.byVerdict)
  /\ SumOf(m.summary.byVerdict) = SumOf(m.summary.byMode)
  /\ m.summary.signed <= Len(m.summary.index)
  /\ m.present <= m.configured

validProof(p) ==
  /\ p.size > 0 /\ p.index \in 1..p.size
  /\ p.mode \in {<<"proved">>, <<"deterministic">>, <<"classified">>, <<"human_approved">>}

validTreeHead(h) == h.size > 0

\* Key identifiers are distinct, and a configured witness has at most one
\* cosignature, no other witness any.
validAggregate(a) ==
  /\ \A v, w \in DOMAIN a.configured : a.configured[v] = a.configured[w] => v = w
  /\ \A c \in a.items : c.witness \in DOMAIN a.configured
  /\ \A c, d \in a.items : c.witness = d.witness => c = d

\* A file that is there, one compact JSON line (or JSON lines), and valid.
Decodes(f, name) ==
  /\ name \notin f.absent \cup f.garbled
  /\ CASE name = "proof" -> validProof(f.proof)
       [] name = "head" -> validTreeHead(f.head)
       [] name = "cosignatures" -> validAggregate(f.cosignatures)
       [] OTHER -> TRUE

passFail(ok) == IF ok THEN "pass" ELSE "fail"

DecisionLines(f) == IF Decodes(f, "decisions") THEN f.decisions ELSE <<>>

\* A decision is valid if it decodes and its digest is the one it carries.
ValidDecision(d) == decodeDecisionRecord(d) /\ Content(d, "go") = d.hash

\* One check for each line, or for each decision of the manifest if it has more;
\* each is named by the manifest's index, else by the record.
DecisionChecks(f, m) ==
  LET lines == DecisionLines(f)
      n == IF Len(m.summary.index) > Len(lines) THEN Len(m.summary.index) ELSE Len(lines)
  IN  [i \in 1..n |->
         [id |-> IF i <= Len(m.summary.index) THEN m.summary.index[i].hash ELSE lines[i].hash,
          status |-> passFail(i <= Len(lines) /\ ValidDecision(lines[i]))]]

\* The counts and the index agree with the records, whose digests are all different.
DecisionManifestOK(f, m) ==
  /\ Decodes(f, "decisions")
  /\ \A i \in DOMAIN f.decisions : decodeDecisionRecord(f.decisions[i])
  /\ \A i, j \in DOMAIN f.decisions : i # j => f.decisions[i].hash # f.decisions[j].hash
  /\ m.summary = Summary(f.decisions)

\* Mutant: the proof's decision need not be among the records.
BindNothing(checks, f) == checks

\* The decision the proof is about must be among the records, valid and of the
\* proof's decision mode: its check fails otherwise, and is added if there is none.
bindSelectedDecision(checks, f) ==
  LET lines == DecisionLines(f)
      named == {i \in DOMAIN lines : decodeDecisionRecord(lines[i]) /\ lines[i].hash = f.proof.source}
      valid == named # {} /\ LET d == lines[Min(named)]
                             IN  ValidDecision(d) /\ Content(d, "go")["decision_mode"] = f.proof.mode
      chosen == {i \in DOMAIN checks : checks[i].id = f.proof.source}
  IN  IF ~Decodes(f, "proof") THEN checks
      ELSE IF chosen = {} THEN Append(checks, [id |-> f.proof.source, status |-> "fail"])
      ELSE [i \in DOMAIN checks |->
              IF i \in chosen /\ ~valid THEN [checks[i] EXCEPT !.status = "fail"] ELSE checks[i]]

\* A registered file is there, byte for byte, and what it holds is as registered.
manifestCheck(f, m, name) ==
  passFail(/\ Decodes(f, name)
           /\ CASE name = "decisions" -> f.decisions = m.decisions /\ DecisionManifestOK(f, m)
                [] name = "declines" -> ~f.declined
                [] name = "proof" -> f.proof = m.proof
                [] name = "head" -> f.head = m.head
                [] name = "cosignatures" ->
                     /\ f.cosignatures = m.cosignatures
                     /\ m.configured = Cardinality(DOMAIN f.cosignatures.configured)
                     /\ m.present = Cardinality(f.cosignatures.items))

sourceCheck(f) ==
  IF "proof" \in f.absent THEN "not_present"
  ELSE passFail(Decodes(f, "proof") /\ f.proof.leaf = LeafOf(f.proof.source))

\* tlog.CheckRecord: the path completed with the leaf is the root (external).
CheckRecord(path, size, root, index, leaf) ==
  /\ Len(path) = size /\ index \in 1..size
  /\ [path EXCEPT ![index] = leaf] = root

verifyInclusion(proof, head) ==
  /\ proof.log = head.log /\ proof.head = head.id /\ proof.size = head.size
  /\ CheckRecord(proof.path, proof.size, head.root, proof.index, proof.leaf)

inclusionCheck(f) ==
  IF {"proof", "head"} \cap f.absent # {} THEN "not_present"
  ELSE passFail(Decodes(f, "proof") /\ Decodes(f, "head") /\ verifyInclusion(f.proof, f.head))

bundleTenantBindingCheck(f, m) == passFail(Decodes(f, "head") /\ m.tenant = f.head.tenant)

verifyTreeHeadSignature(head, keys) ==
  \E k \in lookup(keys, head.key, "fulcrum_sth") : head.sig = <<k, canonicalTreeHead(head)>>

treeHeadCheck(f, keys) ==
  IF "head" \in f.absent THEN "not_present"
  ELSE passFail(Decodes(f, "head") /\ verifyTreeHeadSignature(f.head, keys))

verifyWitnessSignature(item, k) == item.sig = <<k, canonicalWitnessCosignature(item)>>

\* A configured witness without a cosignature is missing, which is not a failure;
\* one that is there must be of this head and this log's key.
witnessChecks(f, keys) ==
  LET agg == f.cosignatures
      status(w) ==
        LET items == {c \in agg.items : c.witness = w}
        IN  IF items = {} THEN "missing"
            ELSE passFail(\A c \in items :
                   /\ Decodes(f, "head") /\ agg.head = f.head.id
                   /\ c.log = f.head.log /\ c.size = f.head.size
                   /\ c.root = f.head.root /\ c.key = f.head.key
                   /\ \E k \in lookup(keys, agg.configured[w], "witness") : verifyWitnessSignature(c, k))
  IN  IF ~Decodes(f, "cosignatures") THEN <<>>
      ELSE [w \in DOMAIN agg.configured |-> status(w)]

HasFailures(r) ==
  \/ \E i \in DOMAIN r.decisions : r.decisions[i].status = "fail"
  \/ \E n \in Names : r.registered[n] = "fail"
  \/ "fail" \in {r.source, r.inclusion, r.tenant, r.head}
  \/ \E w \in DOMAIN r.witnesses : r.witnesses[w] = "fail"

VerifyDir(b, keys) ==
  [decisions |-> bindSelectedDecision(DecisionChecks(b.files, b.manifest), b.files),
   registered |-> [n \in Names |-> manifestCheck(b.files, b.manifest, n)],
   source |-> sourceCheck(b.files), inclusion |-> inclusionCheck(b.files),
   tenant |-> bundleTenantBindingCheck(b.files, b.manifest),
   head |-> treeHeadCheck(b.files, keys), witnesses |-> witnessChecks(b.files, keys)]

ReadableManifest(b) == Decodes(b.files, "manifest") /\ validManifest(b.manifest)

Answer(specs, exit, results) == [keys |-> KeySet(specs), exit |-> exit, results |-> results]

\* The command: unusable keys and an unreadable or invalid manifest end it before any
\* check; a failed check is 1, else 0.
RunVerifier(specs) ==
  /\ bundle # <<>> /\ outcome = <<>>
  /\ \/ ~KeysUsable(specs) /\ outcome' = <<Answer(specs, 2, <<>>)>>
     \/ /\ KeysUsable(specs) /\ ~ReadableManifest(bundle[1])
        /\ outcome' = <<Answer(specs, 1, <<>>)>>
     \/ /\ KeysUsable(specs) /\ ReadableManifest(bundle[1])
        /\ LET r == VerifyDir(bundle[1], KeySet(specs))
           IN  outcome' = <<Answer(specs, IF HasFailures(r) THEN 1 ELSE 0, r)>>
  /\ UNCHANGED <<logs, heads, cosigned, exports, bundle, changes>>

WtInit ==
  /\ logs = [t \in Tenants |-> 0] /\ heads = {} /\ cosigned = {} /\ exports = {}
  /\ bundle = <<>> /\ changes = 0 /\ outcome = <<>>

WtNext ==
  \/ \E t \in Tenants : LogDecision(t)
  \/ \E h \in heads : (\E w \in Witnesses : Cosign(w, h)) \/ (\E i \in 1..h.size : Export(i, h))
  \/ \E b \in exports : ReceiveBundle(b)
  \/ ChangeBundle
  \/ \E specs \in KeySpecs : RunVerifier(specs)

-----------------------------------------------------------------------------
(* Properties. *)

\* A bundle the verifier accepts, with keys that are their owners', shows what it
\* claims: the decision its proof selects is among its records, reads as its digest
\* says, and stands in the log of the tenant the manifest names, in a tree whose head
\* the log service signed; and every witness reported as passing cosigned that tree.
WitnessedBinding ==
  outcome # <<>> /\ outcome[1].exit = 0 /\ "foreign" \notin {k.key : k \in outcome[1].keys} =>
    LET f == bundle[1].files
    IN  \E d \in ToSet(f.decisions), h \in heads :
          /\ \A r \in Readers : Content(d, r) = f.proof.source
          /\ h.tenant = bundle[1].manifest.tenant
          /\ canonicalTreeHead(h) = canonicalTreeHead(f.head)
          /\ \E i \in 1..h.size :
               /\ Logged[h.tenant][i].hash = f.proof.source
               /\ i <= logs[h.tenant]
          /\ \A w \in DOMAIN outcome[1].results.witnesses :
               outcome[1].results.witnesses[w] = "pass" =>
                 Cosignature(w, h) \in cosigned
=============================================================================
