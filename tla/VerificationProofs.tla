--------------------------- MODULE VerificationProofs ---------------------------
(***************************************************************************)
(* What the verifiers' answers are worth: records, witnessed bundles,      *)
(* evidence bundles and hook installations, one after the other.           *)
(***************************************************************************)
EXTENDS Verification, TLAPS, NaturalsInduction, WellFoundedInduction

\* A nonempty set of numbers has a least one, and a bounded one a greatest.
LEMMA LeastIn ==
  ASSUME NEW T, T \subseteq Nat, T # {}
  PROVE  \E x \in T : \A y \in T : x <= y
<1> DEFINE R == {ss \in Nat \X Nat : ss[1] < ss[2]}
<1>1. IsWellFoundedOn(R, Nat)
  BY NatLessThanWellFounded DEF OpToRel
<1>2. \A x, y \in Nat : <<y, x>> \in R <=> y < x
  OBVIOUS
<1> HIDE DEF R
<1>3. PICK x \in T : \A y \in T : ~ (<<y, x>> \in R)
  BY <1>1, WFMin
<1>4. ASSUME NEW y \in T PROVE x <= y
  <2>1. x \in Nat /\ y \in Nat /\ ~(<<y, x>> \in R)
    BY <1>3
  <2> QED BY <1>2, <2>1
<1> QED BY <1>4

\* Min of a nonempty set of numbers is its least member.
LEMMA LeastInIt ==
  ASSUME NEW T, T \subseteq Nat, T # {}
  PROVE  Min(T) \in T
<1>1. \E x \in T : \A y \in T : x <= y
  BY LeastIn
<1>2. Min(T) = CHOOSE x \in T : \A y \in T : x <= y
  BY DEF Min
<1> QED BY <1>1, <1>2

\* A nonempty set of numbers up to n has a greatest.
LEMMA GreatestIn ==
  ASSUME NEW n \in Nat, NEW T, T \subseteq 0..n, T # {}
  PROVE  \E x \in T : \A y \in T : x >= y
<1>1. PICK U : U = {m \in Nat : n - m \in T}
  OBVIOUS
<1>2. U \subseteq Nat /\ U # {}
  <2>1. PICK x \in T : TRUE
    OBVIOUS
  <2>2. n - x \in Nat /\ n - (n - x) = x
    BY <2>1
  <2>3. n - x \in U
    BY <1>1, <2>1, <2>2
  <2> QED BY <1>1, <2>3
<1>3. PICK m \in U : \A k \in U : m <= k
  BY <1>2, LeastIn
<1>4. n - m \in T /\ m \in Nat
  BY <1>1, <1>3
<1>5. ASSUME NEW y \in T PROVE n - m >= y
  <2>1. y \in 0..n /\ n - y \in Nat /\ n - (n - y) = y
    OBVIOUS
  <2>2. n - y \in U
    BY <1>1, <2>1
  <2>3. m <= n - y
    BY <1>3, <2>2
  <2> QED BY <1>4, <2>1, <2>3
<1> QED BY <1>4, <1>5

-----------------------------------------------------------------------------
(* Decision records. *)

\* A name of the schema is its own folded form.
LEMMA FoldedField ==
  ASSUME NEW f \in Fields
  PROVE  Folded(f) = f
BY DEF Fields, Folded

\* The member of a nonempty set of positions without two members is both ends.
LEMMA OneEnd ==
  ASSUME NEW at, NEW i \in Int, at = {i}
  PROVE  Min(at) = i /\ Max(at) = i
<1>1. Min(at) = CHOOSE x \in at : \A y \in at : x <= y
  BY DEF Min
<1>2. Max(at) = CHOOSE x \in at : \A y \in at : x >= y
  BY DEF Max
<1> QED BY <1>1, <1>2

\* Without repeated and unknown members every reader binds the same member to a field.
LEMMA UniqueReads ==
  ASSUME NEW d, NEW r \in Readers, DOMAIN d.members \subseteq Int, ~RepeatsMember(d), ~UnknownMember(d)
  PROVE  Content(d, r) = Content(d, "go")
<1>1. ASSUME NEW i \in DOMAIN d.members
      PROVE  d.members[i].name \in Fields /\ Folded(d.members[i].name) = d.members[i].name
  BY FoldedField DEF UnknownMember, memberSetFor
<1>2. ASSUME NEW f \in Fields
      PROVE  Positions(d, f, r) = Positions(d, f, "go")
  BY <1>1, <1>2 DEF Positions
<1>3. ASSUME NEW f \in Fields, Positions(d, f, "go") # {}
      PROVE  Min(Positions(d, f, "go")) = Max(Positions(d, f, "go"))
  <2>1. PICK i \in Positions(d, f, "go") : TRUE
    BY <1>3
  <2>2. ASSUME NEW j \in Positions(d, f, "go") PROVE j = i
    <3>1. /\ i \in DOMAIN d.members /\ j \in DOMAIN d.members
          /\ d.members[i].in = d.members[j].in
          /\ Folded(d.members[i].name) = Folded(d.members[j].name)
      BY <2>1, <2>2 DEF Positions
    <3>2. ~(i < j) /\ ~(j < i)
      BY <3>1 DEF RepeatsMember
    <3> QED BY <3>1, <3>2
  <2>3. Positions(d, f, "go") = {i} /\ i \in Int
    BY <2>1, <2>2 DEF Positions
  <2> QED BY <2>3, OneEnd
<1>4. ASSUME NEW f \in Fields
      PROVE  (LET at == Positions(d, f, r)
              IN  IF at = {} THEN <<>> ELSE d.members[IF r = "first" THEN Min(at) ELSE Max(at)].value)
             = (LET at == Positions(d, f, "go")
                IN  IF at = {} THEN <<>> ELSE d.members[IF "go" = "first" THEN Min(at) ELSE Max(at)].value)
  <2>1. Positions(d, f, r) = Positions(d, f, "go")
    BY <1>2
  <2>2. CASE Positions(d, f, "go") = {}
    BY <2>1, <2>2
  <2>3. CASE Positions(d, f, "go") # {}
    BY <2>1, <2>3, <1>3
  <2> QED BY <2>2, <2>3
<1> QED BY <1>4 DEF Content

\* The strict decoder accepts a record only if no member is repeated or unknown.
LEMMA DecodedUnique ==
  ASSUME NEW d, DecodeDecisionRecord(d) = "ok"
  PROVE  ~RepeatsMember(d) /\ ~UnknownMember(d)
BY DEF DecodeDecisionRecord

-----------------------------------------------------------------------------
(* What is emitted. *)

\* Members of the fields F, each at most once.
MembersOf(s, F) ==
  /\ \E S : s \in Seq(S)
  /\ \A i \in DOMAIN s : s[i].name \in F /\ s[i].in = ScopeOf(s[i].name)
  /\ \A i, j \in DOMAIN s : i # j => s[i].name # s[j].name

\* A value that is left out when empty is no member or the one of its field.
LEMMA OneMember ==
  ASSUME NEW f, NEW v
  PROVE  MembersOf(OmitEmpty(f, v), {f})
<1>1. PICK m : m = Member(ScopeOf(f), f, v)
  OBVIOUS
<1>2. m.name = f /\ m.in = ScopeOf(f)
  BY <1>1 DEF Member
<1>3. MembersOf(<<>>, {f})
  BY DEF MembersOf
<1>4. MembersOf(<<m>>, {f})
  <2>1. <<m>> \in Seq({m})
    OBVIOUS
  <2>2. \A i \in DOMAIN <<m>> : i = 1 /\ <<m>>[i] = m
    OBVIOUS
  <2> QED BY <1>2, <2>1, <2>2 DEF MembersOf
<1>5. OmitEmpty(f, v) = <<>> \/ OmitEmpty(f, v) = <<m>>
  BY <1>1 DEF OmitEmpty
<1> QED BY <1>3, <1>4, <1>5

\* After members of other fields, it is the one of its field.
LEMMA MoreMembers ==
  ASSUME NEW s, NEW F, NEW f, NEW v, f \notin F, MembersOf(s, F)
  PROVE  MembersOf(s \o OmitEmpty(f, v), F \cup {f})
<1>1. PICK S : s \in Seq(S)
  BY DEF MembersOf
<1>2. CASE v = <<>>
  <2>1. s \o OmitEmpty(f, v) = s
    BY <1>1, <1>2 DEF OmitEmpty
  <2> QED BY <2>1 DEF MembersOf
<1>3. CASE v # <<>>
  <2>1. PICK m : m = Member(ScopeOf(f), f, v)
    OBVIOUS
  <2>2. m.name = f /\ m.in = ScopeOf(f)
    BY <2>1 DEF Member
  <2>3. OmitEmpty(f, v) = <<m>>
    BY <1>3, <2>1 DEF OmitEmpty
  <2>4. PICK t : t = s \o <<m>>
    OBVIOUS
  <2>5. s \in Seq(S \cup {m}) /\ <<m>> \in Seq(S \cup {m})
    BY <1>1
  <2>6. t \in Seq(S \cup {m}) /\ Len(t) = Len(s) + 1 /\ DOMAIN t = 1..(Len(s) + 1)
    BY <2>4, <2>5
  <2>7. \A i \in DOMAIN s : t[i] = s[i]
    BY <2>4, <2>5
  <2>8. t[Len(s) + 1] = m
    BY <2>4, <2>5
  <2>9. \A i \in DOMAIN t : i \in DOMAIN s \/ i = Len(s) + 1
    BY <1>1, <2>6
  <2>10. ASSUME NEW i \in DOMAIN t
         PROVE  t[i].name \in F \cup {f} /\ t[i].in = ScopeOf(t[i].name)
    BY <2>2, <2>7, <2>8, <2>9 DEF MembersOf
  <2>11. ASSUME NEW i \in DOMAIN t, NEW j \in DOMAIN t, i # j
         PROVE  t[i].name # t[j].name
    <3>1. CASE i \in DOMAIN s /\ j \in DOMAIN s
      BY <2>7, <2>11, <3>1 DEF MembersOf
    <3>2. CASE i \in DOMAIN s /\ j = Len(s) + 1
      BY <2>2, <2>7, <2>8, <3>2 DEF MembersOf
    <3>3. CASE j \in DOMAIN s /\ i = Len(s) + 1
      BY <2>2, <2>7, <2>8, <3>3 DEF MembersOf
    <3> QED BY <2>9, <2>11, <3>1, <3>2, <3>3
  <2>12. MembersOf(t, F \cup {f})
    BY <2>6, <2>10, <2>11 DEF MembersOf
  <2> QED BY <2>3, <2>4, <2>12
<1> QED BY <1>2, <1>3

\* A record is built of members of the schema, each at most once.
LEMMA BuiltUnique ==
  ASSUME NEW event
  PROVE  MembersOf(Unhashed(event).members, Fields)
<1>1. PICK v1, v2, v3, v4 :
        /\ v1 = (IF HasRouteContext(event) THEN <<"2">> ELSE <<"1">>)
        /\ v2 = event.build /\ v3 = event.action /\ v4 = event.mode
  OBVIOUS
<1>2. PICK v5, v6, v7, v8 :
        v5 = event.policies /\ v6 = event.request /\ v7 = event.stage /\ v8 = event.route
  OBVIOUS
<1>3. PICK s1 : s1 = OmitEmpty("schema_version", v1)
  OBVIOUS
<1>4. PICK s2 : s2 = s1 \o OmitEmpty("boundary_build_digest", v2)
  OBVIOUS
<1>5. PICK s3 : s3 = s2 \o OmitEmpty("action", v3)
  OBVIOUS
<1>6. PICK s4 : s4 = s3 \o OmitEmpty("decision_mode", v4)
  OBVIOUS
<1>7. PICK s5 : s5 = s4 \o OmitEmpty("policy_bundle_hash", v5)
  OBVIOUS
<1>8. PICK s6 : s6 = s5 \o OmitEmpty("request_hash", v6)
  OBVIOUS
<1>9. PICK s7 : s7 = s6 \o OmitEmpty("stage", v7)
  OBVIOUS
<1>10. PICK s8 : s8 = s7 \o OmitEmpty("route_id", v8)
  OBVIOUS
<1>11. Unhashed(event).members = s8
  BY <1>1, <1>2, <1>3, <1>4, <1>5, <1>6, <1>7, <1>8, <1>9, <1>10 DEF Unhashed
<1>12. PICK F1, F2, F3, F4 :
         /\ F1 = {"schema_version"} /\ F2 = F1 \cup {"boundary_build_digest"}
         /\ F3 = F2 \cup {"action"} /\ F4 = F3 \cup {"decision_mode"}
  OBVIOUS
<1>13. PICK F5, F6, F7, F8 :
         /\ F5 = F4 \cup {"policy_bundle_hash"} /\ F6 = F5 \cup {"request_hash"}
         /\ F7 = F6 \cup {"stage"} /\ F8 = F7 \cup {"route_id"}
  OBVIOUS
<1>14. F8 = Fields
  BY <1>12, <1>13 DEF Fields
<1>15. MembersOf(s1, F1)
  BY <1>3, <1>12, OneMember
<1>16. MembersOf(s2, F2)
  <2>1. "boundary_build_digest" \notin F1
    BY <1>12, <1>13
  <2>2. MembersOf(s2, F1 \cup {"boundary_build_digest"})
    BY <1>4, <1>15, <2>1, MoreMembers
  <2> QED BY <1>12, <1>13, <2>2
<1>17. MembersOf(s3, F3)
  <2>1. "action" \notin F2
    BY <1>12, <1>13
  <2>2. MembersOf(s3, F2 \cup {"action"})
    BY <1>5, <1>16, <2>1, MoreMembers
  <2> QED BY <1>12, <1>13, <2>2
<1>18. MembersOf(s4, F4)
  <2>1. "decision_mode" \notin F3
    BY <1>12, <1>13
  <2>2. MembersOf(s4, F3 \cup {"decision_mode"})
    BY <1>6, <1>17, <2>1, MoreMembers
  <2> QED BY <1>12, <1>13, <2>2
<1>19. MembersOf(s5, F5)
  <2>1. "policy_bundle_hash" \notin F4
    BY <1>12, <1>13
  <2>2. MembersOf(s5, F4 \cup {"policy_bundle_hash"})
    BY <1>7, <1>18, <2>1, MoreMembers
  <2> QED BY <1>12, <1>13, <2>2
<1>20. MembersOf(s6, F6)
  <2>1. "request_hash" \notin F5
    BY <1>12, <1>13
  <2>2. MembersOf(s6, F5 \cup {"request_hash"})
    BY <1>8, <1>19, <2>1, MoreMembers
  <2> QED BY <1>12, <1>13, <2>2
<1>21. MembersOf(s7, F7)
  <2>1. "stage" \notin F6
    BY <1>12, <1>13
  <2>2. MembersOf(s7, F6 \cup {"stage"})
    BY <1>9, <1>20, <2>1, MoreMembers
  <2> QED BY <1>12, <1>13, <2>2
<1>22. MembersOf(s8, F8)
  <2>1. "route_id" \notin F7
    BY <1>12, <1>13
  <2>2. MembersOf(s8, F7 \cup {"route_id"})
    BY <1>10, <1>21, <2>1, MoreMembers
  <2> QED BY <1>12, <1>13, <2>2
<1> QED BY <1>11, <1>14, <1>22

\* What a reader sees depends on the members only.
LEMMA ContentOfMembers ==
  ASSUME NEW d, NEW e, NEW r, d.members = e.members
  PROVE  Content(d, r) = Content(e, r)
BY DEF Content, Positions

\* Every reader reads an emitted record alike, and a signature covers what it reads.
LEMMA EmittedReads ==
  ASSUME NEW event, NEW key, NEW e, e = Sign(BuildDecisionRecord(event), key)
  PROVE  /\ Content(e, "first") = Content(e, "go")
         /\ e.sig = NoSignature \/ e.sig = [key |-> key, over |-> Content(e, "go")]
<1>1. PICK u : u = Unhashed(event)
  OBVIOUS
<1>2. MembersOf(u.members, Fields)
  BY <1>1, BuiltUnique
<1>3. /\ DOMAIN u = {"shape", "trailing", "members", "hash", "sig"}
      /\ u.sig = NoSignature
  BY <1>1 DEF Unhashed
<1>4. PICK d : d = BuildDecisionRecord(event)
  OBVIOUS
<1>5. d.members = u.members /\ d.sig = NoSignature /\ DOMAIN d = DOMAIN u
  BY <1>1, <1>3, <1>4 DEF BuildDecisionRecord
<1>6. e.members = u.members
  BY <1>3, <1>4, <1>5 DEF Sign
<1>7. DOMAIN e.members \subseteq Int
  BY <1>2, <1>6 DEF MembersOf
<1>8. ~UnknownMember(e)
  BY <1>2, <1>6 DEF MembersOf, UnknownMember, memberSetFor
<1>9. ~RepeatsMember(e)
  <2>1. ASSUME NEW i \in DOMAIN e.members
        PROVE  Folded(e.members[i].name) = e.members[i].name
    BY <1>2, <1>6, FoldedField DEF MembersOf
  <2>2. ASSUME NEW i \in DOMAIN e.members, NEW j \in DOMAIN e.members, i < j
        PROVE  e.members[i].name # e.members[j].name
    <3>1. i # j
      BY <1>7, <2>2
    <3> QED BY <1>2, <1>6, <3>1 DEF MembersOf
  <2> QED BY <2>1, <2>2 DEF RepeatsMember
<1>10. Content(e, "first") = Content(e, "go")
  BY <1>7, <1>8, <1>9, UniqueReads DEF Readers
<1>11. Content(e, "go") = Content(d, "go")
  BY <1>5, <1>6, ContentOfMembers
<1>12. e.sig = NoSignature \/ e.sig = [key |-> key, over |-> Content(e, "go")]
  <2>1. CASE key = ""
    BY <1>4, <1>5, <2>1 DEF Sign
  <2>2. CASE key # ""
    BY <1>3, <1>4, <1>5, <1>11, <2>2 DEF Sign, ComputeDecisionHash
  <2> QED BY <2>1, <2>2
<1> QED BY <1>10, <1>12

-----------------------------------------------------------------------------
(* Invariant: what is emitted reads the same to every reader and is signed, if at
   all, over what it reads as; the file a reader holds has no signature, one of
   another key, or the signature of an emitted record; and the answers are those
   the commands give on the file. *)

RecordFile(d) ==
  /\ DOMAIN d = {"shape", "trailing", "members", "hash", "sig"}
  /\ \E S : d.members \in Seq(S)

Emitted(e) ==
  /\ RecordFile(e)
  /\ Content(e, "first") = Content(e, "go")
  /\ e.sig = NoSignature \/ e.sig.over = Content(e, "go")

SignedBefore(sig) ==
  sig.key \in {"", ForeignKey} \/ \E e \in emitted : sig = e.sig

Reproduced ==
  /\ Content(file, "go")["request_hash"] = ComputeRequestHash(given.request)
  /\ Content(file, "go")["action"] = Outcome(given.request.body, PolicyFiles(given.policies)).action

RcInv ==
  /\ RecordFile(file)
  /\ SignedBefore(file.sig)
  /\ \A e \in emitted : Emitted(e)
  /\ verified # "" \/ replayed # "" => file # NoFile
  /\ verified = "ok" => runVerifyRecord(file, given) = "ok"
  /\ replayed = "match" => Reproduced

\* What the pipeline writes is such a record.
LEMMA SignedIsEmitted ==
  ASSUME NEW event, NEW key
  PROVE  Emitted(Sign(BuildDecisionRecord(event), key))
<1>1. PICK u : u = Unhashed(event)
  OBVIOUS
<1>2. /\ DOMAIN u = {"shape", "trailing", "members", "hash", "sig"}
      /\ \E S : u.members \in Seq(S)
  BY <1>1, BuiltUnique DEF Unhashed, MembersOf
<1>3. PICK d : d = BuildDecisionRecord(event)
  OBVIOUS
<1>4. DOMAIN d = DOMAIN u /\ d.members = u.members
  BY <1>1, <1>2, <1>3 DEF BuildDecisionRecord
<1>5. PICK e : e = Sign(d, key)
  OBVIOUS
<1>6. DOMAIN e = DOMAIN u /\ e.members = u.members
  BY <1>2, <1>4, <1>5 DEF Sign
<1>7. RecordFile(e)
  BY <1>2, <1>6 DEF RecordFile
<1>8. Content(e, "first") = Content(e, "go")
  BY <1>3, <1>5, EmittedReads
<1>9. e.sig = NoSignature \/ e.sig.over = Content(e, "go")
  <2>1. PICK c : c = Content(e, "go")
    OBVIOUS
  <2>2. e.sig = NoSignature \/ e.sig = [key |-> key, over |-> c]
    BY <1>3, <1>5, <2>1, EmittedReads
  <2> QED BY <2>1, <2>2
<1> QED BY <1>3, <1>5, <1>7, <1>8, <1>9 DEF Emitted

\* Before anything is emitted.
LEMMA RcInitInv ==
  ASSUME RcInit
  PROVE  RcInv
<1>1. PICK event : event = [action |-> <<>>, mode |-> <<>>, stage |-> <<>>, route |-> <<>>,
                            build |-> <<>>, request |-> <<>>, policies |-> <<>>]
  OBVIOUS
<1>2. PICK d : d = BuildDecisionRecord(event)
  OBVIOUS
<1>3. NoFile = [d EXCEPT !.members = <<>>]
  BY <1>1, <1>2 DEF NoFile
<1>4. DOMAIN d = {"shape", "trailing", "members", "hash", "sig"} /\ d.sig = NoSignature
  BY <1>2 DEF BuildDecisionRecord, Unhashed
<1>5. RecordFile(NoFile)
  <2>1. NoFile.members = <<>> /\ <<>> \in Seq({})
    BY <1>3, <1>4
  <2> QED BY <1>3, <1>4, <2>1 DEF RecordFile
<1>6. NoFile.sig = NoSignature
  BY <1>3, <1>4
<1>7. SignedBefore(NoFile.sig)
  <2>1. NoSignature.key = ""
    BY DEF NoSignature
  <2>2. SignedBefore(NoSignature)
    BY <2>1 DEF SignedBefore
  <2> QED BY <1>6, <2>2
<1> QED BY <1>5, <1>7 DEF RcInit, RcInv

\* Elements taken out of, changed in or put at the end of a sequence leave one.
LEMMA RemovedIsSeq ==
  ASSUME NEW S, NEW s \in Seq(S), NEW i \in DOMAIN s
  PROVE  RemoveAt(s, i) \in Seq(S)
BY DEF RemoveAt

\* Likewise a sequence with one element replaced,
LEMMA ChangedIsSeq ==
  ASSUME NEW S, NEW s \in Seq(S), NEW i, NEW x
  PROVE  [s EXCEPT ![i] = x] \in Seq(S \cup {x})
<1>1. PICK n \in Nat : s \in [1..n -> S]
  OBVIOUS
<1>2. [s EXCEPT ![i] = x] \in [1..n -> S \cup {x}]
  BY <1>1
<1> QED BY <1>1, <1>2

\* and one with an element appended.
LEMMA AppendedIsSeq ==
  ASSUME NEW S, NEW s \in Seq(S), NEW x
  PROVE  Append(s, x) \in Seq(S \cup {x})
OBVIOUS

\* An edit leaves a file whose signature was there before or is of another key.
LEMMA EditedFile ==
  ASSUME RcInv,
         (\E i \in DOMAIN file.members : EditMember(i)) \/ AddMember \/ EditBytes \/ EditSeals
  PROVE  RecordFile(file') /\ SignedBefore(file'.sig)
<1>1. /\ DOMAIN file = {"shape", "trailing", "members", "hash", "sig"}
      /\ SignedBefore(file.sig)
  BY DEF RcInv, RecordFile
<1>2. PICK S : file.members \in Seq(S)
  BY DEF RcInv, RecordFile
<1>3. ASSUME NEW s, \E T : s \in Seq(T), file' = [file EXCEPT !.members = s]
      PROVE  RecordFile(file') /\ SignedBefore(file'.sig)
  <2>1. DOMAIN file' = DOMAIN file /\ file'.members = s /\ file'.sig = file.sig
    BY <1>1, <1>3
  <2> QED BY <1>1, <1>3, <2>1 DEF RecordFile
<1>4. ASSUME NEW i \in DOMAIN file.members, EditMember(i)
      PROVE  RecordFile(file') /\ SignedBefore(file'.sig)
  <2>1. ASSUME NEW v, file' = [file EXCEPT !.members[i].value = v]
        PROVE  RecordFile(file') /\ SignedBefore(file'.sig)
    <3>1. PICK m : m = [file.members[i] EXCEPT !.value = v]
      OBVIOUS
    <3>2. file' = [file EXCEPT !.members = [file.members EXCEPT ![i] = m]]
      BY <2>1, <3>1
    <3> QED BY <1>2, <1>3, <3>2, ChangedIsSeq
  <2>2. ASSUME file' = [file EXCEPT !.members = RemoveAt(@, i)]
        PROVE  RecordFile(file') /\ SignedBefore(file'.sig)
    BY <1>2, <1>3, <2>2, RemovedIsSeq
  <2>3. ASSUME file' = [file EXCEPT !.members[i].name = "Action"]
        PROVE  RecordFile(file') /\ SignedBefore(file'.sig)
    <3>1. PICK m : m = [file.members[i] EXCEPT !.name = "Action"]
      OBVIOUS
    <3>2. file' = [file EXCEPT !.members = [file.members EXCEPT ![i] = m]]
      BY <2>3, <3>1
    <3> QED BY <1>2, <1>3, <3>2, ChangedIsSeq
  <2> QED BY <1>4, <2>1, <2>2, <2>3 DEF EditMember
<1>5. CASE AddMember
  <2>1. ASSUME NEW m, file' = [file EXCEPT !.members = Append(@, m)]
        PROVE  RecordFile(file') /\ SignedBefore(file'.sig)
    <3>1. PICK s : s = Append(file.members, m)
      OBVIOUS
    <3>2. file' = [file EXCEPT !.members = s]
      BY <2>1, <3>1
    <3>3. s \in Seq(S \cup {m})
      BY <1>2, <3>1, AppendedIsSeq
    <3>4. DOMAIN file' = DOMAIN file /\ file'.members = s /\ file'.sig = file.sig
      BY <1>1, <3>2
    <3>5. RecordFile(file')
      BY <1>1, <3>3, <3>4 DEF RecordFile
    <3>6. SignedBefore(file'.sig)
      BY <1>1, <3>4
    <3> QED BY <3>5, <3>6
  <2> QED BY <1>5, <2>1 DEF AddMember
<1>6. CASE EditBytes
  <2>1. DOMAIN file' = DOMAIN file /\ file'.members = file.members /\ file'.sig = file.sig
    BY <1>1, <1>6 DEF EditBytes
  <2> QED BY <1>1, <1>2, <2>1 DEF RecordFile
<1>7. CASE EditSeals
  <2>1. DOMAIN file' = DOMAIN file /\ file'.members = file.members
    BY <1>1, <1>7 DEF EditSeals, Sign
  <2>2. ASSUME NEW h, file' = [file EXCEPT !.hash = h] PROVE SignedBefore(file'.sig)
    BY <1>1, <2>2
  <2>3. ASSUME NEW other \in emitted, file' = [file EXCEPT !.sig = other.sig] PROVE SignedBefore(file'.sig)
    BY <1>1, <2>3 DEF SignedBefore
  <2>4. ASSUME file' = Sign(file, ForeignKey) PROVE SignedBefore(file'.sig)
    BY <1>1, <2>4 DEF SignedBefore, Sign
  <2>5. SignedBefore(file'.sig)
    BY <1>7, <2>2, <2>3, <2>4 DEF EditSeals
  <2> QED BY <1>1, <1>2, <2>1, <2>5 DEF RecordFile
<1> QED BY <1>4, <1>5, <1>6, <1>7

\* Every step on the records: EmitRecord, ReceiveRecord, the edits, VerifyRecord and Replay.
LEMMA RcNextInv ==
  ASSUME RcInv, RcNext
  PROVE  RcInv'
<1>1. ASSUME NEW e \in Events, NEW k \in Signers, EmitRecord(e, k)
      PROVE  RcInv'
  <2>1. PICK r : r = Sign(BuildDecisionRecord(e), k)
    OBVIOUS
  <2>2. emitted' = emitted \cup {r} /\ Emitted(r)
    BY <1>1, <2>1, SignedIsEmitted DEF EmitRecord
  <2>3. UNCHANGED <<file, given, verified, replayed>>
    BY <1>1 DEF EmitRecord
  <2>4. SignedBefore(file.sig)'
    BY <2>2, <2>3 DEF RcInv, SignedBefore
  <2>5. \A x \in emitted' : Emitted(x)
    BY <2>2 DEF RcInv
  <2> QED BY <2>3, <2>4, <2>5 DEF RcInv, Reproduced
<1>2. ASSUME NEW r \in emitted, NEW o \in Options, ReceiveRecord(r, o)
      PROVE  RcInv'
  <2>1. file' = r /\ verified = "" /\ replayed = ""
    BY <1>2 DEF ReceiveRecord, RcInv
  <2>2. UNCHANGED <<emitted, verified, replayed>>
    BY <1>2 DEF ReceiveRecord
  <2>3. RecordFile(r) /\ SignedBefore(r.sig)'
    BY <2>2 DEF RcInv, Emitted, SignedBefore
  <2> QED BY <2>1, <2>2, <2>3 DEF RcInv
<1>3. CASE Edit
  <2>1. RecordFile(file') /\ SignedBefore(file'.sig)
    BY <1>3, EditedFile DEF Edit
  <2>2. UNCHANGED <<emitted, verified, replayed>> /\ verified = "" /\ replayed = ""
    BY <1>3 DEF Edit
  <2>3. SignedBefore(file.sig)'
    BY <2>1, <2>2 DEF SignedBefore
  <2> QED BY <2>1, <2>2, <2>3 DEF RcInv
<1>4. CASE VerifyRecord
  <2>1. /\ UNCHANGED <<emitted, file, given, replayed>> /\ file # NoFile
        /\ verified' = runVerifyRecord(file, given)
    BY <1>4 DEF VerifyRecord
  <2>2. SignedBefore(file.sig)'
    BY <2>1 DEF RcInv, SignedBefore
  <2> QED BY <2>1, <2>2 DEF RcInv, Reproduced
<1>5. CASE Replay
  <2>1. UNCHANGED <<emitted, file, given, verified>> /\ file # NoFile
    BY <1>5 DEF Replay
  <2>2. SignedBefore(file.sig)'
    BY <2>1 DEF RcInv, SignedBefore
  <2>3. replayed' = "match" => Reproduced
    BY <1>5 DEF Replay, reproduce, Reproduced
  <2> QED BY <2>1, <2>2, <2>3 DEF RcInv, Reproduced
<1> QED BY <1>1, <1>2, <1>3, <1>4, <1>5 DEF RcNext

\* The invariant gives what the verifier's answer means.
LEMMA RcInvVerified ==
  ASSUME RcInv
  PROVE  VerifiedMeansEmitted
<1> SUFFICES ASSUME verified = "ok"
             PROVE  /\ \A r \in Readers : Content(file, r) = file.hash
                    /\ given.key \notin {"", ForeignKey} =>
                         \E e \in emitted :
                           /\ e.sig.key = given.key
                           /\ Content(e, "first") = Content(file, "first")
                           /\ replayed = "match" =>
                                /\ Content(e, "first")["request_hash"] = <<given.request.body>>
                                /\ Content(e, "first")["action"] =
                                     Outcome(given.request.body, PolicyFiles(given.policies)).action
  BY DEF VerifiedMeansEmitted
<1>1. runVerifyRecord(file, given) = "ok"
  BY DEF RcInv
<1>2. DecodeDecisionRecord(file) = "ok" /\ VerifyDecisionRecord(file, given) = "ok"
  <2>1. verifyRecordFailReason(file, VerifyDecisionRecord(file, given)) # "ok"
    BY DEF verifyRecordFailReason
  <2> QED BY <1>1, <2>1 DEF runVerifyRecord
<1>3. given.key # "" => VerifyReceiptSignature(file, given.key)
  BY <1>1, <1>2 DEF runVerifyRecord
<1>4. Content(file, "go") = file.hash
  BY <1>2 DEF VerifyDecisionRecord, ComputeDecisionHash
<1>5. ASSUME NEW r \in Readers PROVE Content(file, r) = Content(file, "go")
  <2>1. DOMAIN file.members \subseteq Int
    BY DEF RcInv, RecordFile
  <2> QED BY <1>2, <2>1, DecodedUnique, UniqueReads
<1>6. ASSUME given.key \notin {"", ForeignKey}
      PROVE  \E e \in emitted : e.sig.key = given.key /\ Content(e, "first") = Content(file, "go")
  <2>1. file.sig = [key |-> given.key, over |-> Content(file, "go")]
    BY <1>3, <1>6 DEF VerifyReceiptSignature, ComputeDecisionHash
  <2>2. PICK e \in emitted : file.sig = e.sig
    <3>1. file.sig.key = given.key
      BY <2>1
    <3>2. file.sig.key \notin {"", ForeignKey}
      BY <1>6, <3>1
    <3>3. SignedBefore(file.sig)
      BY DEF RcInv
    <3> QED BY <3>2, <3>3 DEF SignedBefore
  <2>3. e.sig.key = given.key /\ e.sig.over = Content(file, "go")
    BY <2>1, <2>2
  <2>4. e.sig # NoSignature
    <3>1. NoSignature.key = ""
      BY DEF NoSignature
    <3> QED BY <1>6, <2>3, <3>1
  <2>5. Content(e, "first") = Content(e, "go") /\ e.sig.over = Content(e, "go")
    BY <2>4 DEF RcInv, Emitted
  <2> QED BY <2>3, <2>5
<1>7. replayed = "match" =>
        /\ Content(file, "go")["request_hash"] = <<given.request.body>>
        /\ Content(file, "go")["action"] = Outcome(given.request.body, PolicyFiles(given.policies)).action
  BY DEF RcInv, Reproduced, ComputeRequestHash
<1>8. "first" \in Readers
  BY DEF Readers
<1> QED BY <1>4, <1>5, <1>6, <1>7, <1>8

-----------------------------------------------------------------------------
(* Witnessed bundles. *)

HeadFields == {"id", "log", "tenant", "size", "root", "key", "sig"}

\* A head the log service signed: of a tenant's log as it was, or still is.
HeadOk(h) ==
  /\ DOMAIN h = HeadFields
  /\ h.tenant \in Tenants /\ h.size \in 1..logs[h.tenant]
  /\ h.root = RootOf(h.tenant, h.size)
  /\ h.sig = <<"fulcrum", canonicalTreeHead(h)>>

DecisionsOk(s) ==
  \E S : s \in Seq(S) /\ \A d \in S : RecordFile(d)

HeadSigned(g) ==
  /\ DOMAIN g = HeadFields
  /\ g.sig[1] = "foreign" \/ \E h \in heads : g.sig = h.sig

CosignaturesOk(a) ==
  DOMAIN a = {"head", "configured", "items"} /\ a.items \subseteq cosigned

FileFields == {"decisions", "proof", "head", "cosignatures", "absent", "garbled", "declined"}

FilesOk(f) ==
  /\ DOMAIN f = FileFields
  /\ DecisionsOk(f.decisions)
  /\ HeadSigned(f.head)
  /\ CosignaturesOk(f.cosignatures)

BundleOk(b) == DOMAIN b = {"files", "manifest"} /\ FilesOk(b.files)

\* Exit status 0 is an answer without a failed check.
AnswerOk(o, b) ==
  o.exit = 0 => o.results = VerifyDir(b, o.keys) /\ ~HasFailures(o.results)

\* Invariant: heads and cosignatures are those of the logs; whatever becomes of a bundle,
\* its head carries a signature that was made or one of a foreign key, and its
\* cosignatures were made.
WtInv ==
  /\ DOMAIN logs = Tenants /\ \A t \in Tenants : logs[t] \in 0..Len(Logged[t])
  /\ \A h \in heads : HeadOk(h)
  /\ \A c \in cosigned : \E w \in Witnesses, h \in heads : c = Cosignature(w, h)
  /\ \A x \in exports : BundleOk(x)
  /\ bundle = <<>> \/ (\E b : bundle = <<b>> /\ BundleOk(b))
  /\ outcome = <<>> \/ (bundle # <<>> /\ \E o : outcome = <<o>> /\ AnswerOk(o, bundle[1]))

\* The invariant's parts only speak of sets that grow, and of logs that grow before
\* anything is exported.
LEMMA BundleKept ==
  ASSUME NEW b, BundleOk(b), heads \subseteq heads', cosigned \subseteq cosigned'
  PROVE  BundleOk(b)'
BY DEF BundleOk, FilesOk, HeadSigned, CosignaturesOk

\* Before anything is logged.
LEMMA WtInitInv ==
  ASSUME WtInit
  PROVE  WtInv
<1>1. ASSUME NEW t \in Tenants PROVE logs[t] \in 0..Len(Logged[t])
  <2>1. PICK l : l = Logged[t]
    OBVIOUS
  <2>2. l \in Seq(ToSet(l)) /\ logs[t] = 0
    BY <2>1, LogAssumption DEF WtInit
  <2>3. Len(l) \in Nat
    BY <2>2
  <2> QED BY <2>1, <2>2, <2>3
<1>2. DOMAIN logs = Tenants
  BY DEF WtInit
<1> QED BY <1>1, <1>2 DEF WtInit, WtInv

\* The fields of a head the log service signs.
LEMMA SignedHeadOk ==
  ASSUME NEW t, NEW n, NEW h, h = SignedHead(t, n)
  PROVE  /\ DOMAIN h = HeadFields /\ h.tenant = t /\ h.size = n /\ h.root = RootOf(t, n)
         /\ h.sig = <<"fulcrum", canonicalTreeHead(h)>>
<1>1. PICK g : g = [id |-> <<t, n>>, log |-> t, tenant |-> t, size |-> n, root |-> RootOf(t, n),
                    key |-> FulcrumKeyID, sig |-> <<>>]
  OBVIOUS
<1>2. PICK s : s = <<"fulcrum", canonicalTreeHead(g)>>
  OBVIOUS
<1>3. h = [g EXCEPT !.sig = s]
  BY <1>1, <1>2 DEF SignedHead
<1>4. /\ DOMAIN g = HeadFields /\ g.log = t /\ g.tenant = t /\ g.size = n /\ g.root = RootOf(t, n)
      /\ g.key = FulcrumKeyID
  BY <1>1 DEF HeadFields
<1>5. /\ DOMAIN h = HeadFields /\ h.log = t /\ h.tenant = t /\ h.size = n /\ h.root = RootOf(t, n)
      /\ h.key = FulcrumKeyID /\ h.sig = s
  BY <1>3, <1>4 DEF HeadFields
<1>6. canonicalTreeHead(h) = canonicalTreeHead(g)
  BY <1>4, <1>5 DEF canonicalTreeHead
<1> QED BY <1>2, <1>5, <1>6

\* A decision is logged, and the log's new head signed.
LEMMA WtLogged ==
  ASSUME WtInv, NEW t \in Tenants, LogDecision(t)
  PROVE  WtInv'
<1>1. /\ logs[t] \in Nat /\ Len(Logged[t]) \in Nat /\ logs[t] < Len(Logged[t])
      /\ bundle = <<>> /\ exports = {} /\ bundle' = bundle /\ exports' = exports
      /\ cosigned' = cosigned /\ outcome' = outcome
      /\ logs' = [logs EXCEPT ![t] = @ + 1]
  BY LogAssumption DEF WtInv, LogDecision
<1>2. PICK n : n = logs[t] + 1
  OBVIOUS
<1>3. PICK g : g = SignedHead(t, n)
  OBVIOUS
<1>4. heads' = heads \cup {g}
  BY <1>2, <1>3 DEF LogDecision
<1>5. /\ DOMAIN logs' = Tenants /\ logs'[t] = n /\ n \in 1..logs'[t]
      /\ \A u \in Tenants : u # t => logs'[u] = logs[u]
  BY <1>1, <1>2 DEF WtInv
<1>6. \A u \in Tenants : logs'[u] \in 0..Len(Logged[u])
  BY <1>1, <1>2, <1>5 DEF WtInv
<1>7. HeadOk(g)'
  <2>1. n \in 1..logs'[t]
    BY <1>5
  <2>2. /\ DOMAIN g = HeadFields /\ g.tenant = t /\ g.size = n /\ g.root = RootOf(t, n)
        /\ g.sig = <<"fulcrum", canonicalTreeHead(g)>>
    BY <1>3, SignedHeadOk
  <2> QED BY <2>1, <2>2 DEF HeadOk
<1>8. ASSUME NEW h \in heads PROVE HeadOk(h)'
  <2>1. HeadOk(h)
    BY DEF WtInv
  <2>2. h.size \in 1..logs'[h.tenant]
    <3>1. h.tenant \in Tenants /\ h.size \in 1..logs[h.tenant]
      BY <2>1 DEF HeadOk
    <3>2. logs[h.tenant] \in Nat /\ logs'[h.tenant] \in Nat /\ logs[h.tenant] <= logs'[h.tenant]
      BY <1>1, <1>2, <1>5, <3>1 DEF WtInv
    <3> QED BY <3>1, <3>2
  <2> QED BY <2>1, <2>2 DEF HeadOk
<1>9. \A h \in heads' : HeadOk(h)'
  BY <1>4, <1>7, <1>8
<1>10. \A c \in cosigned' : \E w \in Witnesses, h \in heads' : c = Cosignature(w, h)
  BY <1>1, <1>4 DEF WtInv
<1> QED BY <1>1, <1>5, <1>6, <1>9, <1>10 DEF WtInv

\* A witness cosigns a head.
LEMMA WtCosigned ==
  ASSUME WtInv, NEW h \in heads, NEW w \in Witnesses, Cosign(w, h)
  PROVE  WtInv'
<1>1. /\ bundle = <<>> /\ exports = {} /\ UNCHANGED <<logs, heads, exports, bundle, outcome>>
      /\ cosigned' = cosigned \cup {Cosignature(w, h)}
  BY DEF Cosign
<1>2. \A c \in cosigned' : \E v \in Witnesses, g \in heads' : c = Cosignature(v, g)
  BY <1>1 DEF WtInv
<1>3. \A g \in heads' : HeadOk(g)'
  BY <1>1 DEF WtInv, HeadOk
<1> QED BY <1>1, <1>2, <1>3 DEF WtInv

\* Part of a log is a sequence of records.
LEMMA LogPartOk ==
  ASSUME NEW t \in Tenants, NEW n \in 0..Len(Logged[t])
  PROVE  DecisionsOk(SubSeq(Logged[t], 1, n))
<1>1. PICK S : S = ToSet(Logged[t])
  OBVIOUS
<1>2. PICK l : l = Logged[t]
  OBVIOUS
<1>3. l \in Seq(S) /\ n \in 0..Len(l)
  BY <1>1, <1>2, LogAssumption
<1>4. SubSeq(l, 1, n) \in Seq(S)
  BY <1>3
<1>5. ASSUME NEW d \in S PROVE RecordFile(d)
  <2>1. d \in ToSet(Logged[t])
    BY <1>1, <1>5
  <2>2. /\ DOMAIN d = {"shape", "trailing", "members", "hash", "sig"}
        /\ d.members \in Seq(ToSet(d.members))
    BY <2>1, LogAssumption
  <2> QED BY <2>2 DEF RecordFile
<1> QED BY <1>2, <1>4, <1>5 DEF DecisionsOk

\* A bundle is exported: part of the log, its head and its cosignatures.
LEMMA WtExported ==
  ASSUME WtInv, NEW h \in heads, NEW i \in 1..h.size, Export(i, h)
  PROVE  WtInv'
<1>1. PICK x : x = ExportedBundle(h.tenant, i, h)
  OBVIOUS
<1>2. /\ exports' = exports \cup {x} /\ UNCHANGED <<logs, heads, cosigned, bundle, outcome>>
      /\ bundle = <<>>
  BY <1>1 DEF Export
<1>3. HeadOk(h)
  BY DEF WtInv
<1>4. PICK f : f = x.files
  OBVIOUS
<1>5. PICK its : its = {c \in cosigned : c.root = h.root /\ c.log = h.log}
  OBVIOUS
<1>6. /\ DOMAIN x = {"files", "manifest"}
      /\ DOMAIN f = FileFields
      /\ f.head = h /\ f.decisions = SubSeq(Logged[h.tenant], 1, h.size)
      /\ f.cosignatures = [head |-> h.id, configured |-> WitnessKeyID, items |-> its]
  BY <1>1, <1>4, <1>5 DEF ExportedBundle, FileFields
<1>7. h.tenant \in Tenants /\ h.size \in 0..Len(Logged[h.tenant])
  <2>1. h.tenant \in Tenants /\ h.size \in 1..logs[h.tenant]
    BY <1>3 DEF HeadOk
  <2>2. logs[h.tenant] \in 0..Len(Logged[h.tenant]) /\ Len(Logged[h.tenant]) \in Nat
    BY <2>1, LogAssumption DEF WtInv
  <2> QED BY <2>1, <2>2
<1>8. DecisionsOk(f.decisions)
  <2>1. PICK t, n : t = h.tenant /\ n = h.size
    OBVIOUS
  <2>2. DecisionsOk(SubSeq(Logged[t], 1, n))
    BY <1>7, <2>1, LogPartOk
  <2> QED BY <1>6, <2>1, <2>2
<1>9. HeadSigned(f.head)
  BY <1>3, <1>6 DEF HeadSigned, HeadOk
<1>10. CosignaturesOk(f.cosignatures)
  <2>1. PICK a : a = f.cosignatures
    OBVIOUS
  <2>2. DOMAIN a = {"head", "configured", "items"} /\ a.items = its
    BY <1>6, <2>1
  <2>3. its \subseteq cosigned
    BY <1>5
  <2> QED BY <2>1, <2>2, <2>3 DEF CosignaturesOk
<1>11. BundleOk(x)
  BY <1>4, <1>6, <1>8, <1>9, <1>10 DEF BundleOk, FilesOk
<1>12. \A y \in exports' : BundleOk(y)'
  <2>1. ASSUME NEW y \in exports' PROVE BundleOk(y)'
    <3>1. BundleOk(y)
      BY <1>2, <1>11 DEF WtInv
    <3> QED BY <1>2, <3>1, BundleKept
  <2> QED BY <2>1
<1>13. \A g \in heads' : HeadOk(g)'
  BY <1>2 DEF WtInv, HeadOk
<1> QED BY <1>2, <1>12, <1>13 DEF WtInv

\* A reader receives an exported bundle.
LEMMA WtReceived ==
  ASSUME WtInv, NEW b \in exports, ReceiveBundle(b)
  PROVE  WtInv'
<1>1. BundleOk(b)
  BY DEF WtInv
<1>2. /\ UNCHANGED <<logs, heads, cosigned, exports, outcome>> /\ bundle' = <<b>> /\ bundle = <<>>
  BY DEF ReceiveBundle
<1>3. ASSUME NEW x, BundleOk(x) PROVE BundleOk(x)'
  BY <1>2, <1>3, BundleKept
<1>4. \A g \in heads' : HeadOk(g)'
  BY <1>2 DEF WtInv, HeadOk
<1>5. outcome' = <<>>
  BY <1>2 DEF WtInv
<1> QED BY <1>1, <1>2, <1>3, <1>4, <1>5 DEF WtInv

-----------------------------------------------------------------------------
(* Changes on the way. *)

\* The decisions of a bundle stay records when one is added, taken out or replaced.
LEMMA DecisionsKept ==
  ASSUME NEW s, DecisionsOk(s)
  PROVE  /\ \A d : RecordFile(d) => DecisionsOk(Append(s, d))
         /\ \A i \in DOMAIN s : RecordFile(s[i]) /\ DecisionsOk(RemoveAt(s, i))
         /\ \A i \in DOMAIN s : \A d : RecordFile(d) => DecisionsOk([s EXCEPT ![i] = d])
<1>1. PICK S : s \in Seq(S) /\ \A d \in S : RecordFile(d)
  BY DEF DecisionsOk
<1>2. ASSUME NEW d, RecordFile(d) PROVE DecisionsOk(Append(s, d))
  <2>1. Append(s, d) \in Seq(S \cup {d})
    BY <1>1, AppendedIsSeq
  <2>2. \A e \in S \cup {d} : RecordFile(e)
    BY <1>1, <1>2
  <2> QED BY <2>1, <2>2 DEF DecisionsOk
<1>3. ASSUME NEW i \in DOMAIN s PROVE RecordFile(s[i]) /\ DecisionsOk(RemoveAt(s, i))
  <2>1. s[i] \in S
    BY <1>1
  <2>2. RemoveAt(s, i) \in Seq(S)
    BY <1>1, RemovedIsSeq
  <2> QED BY <1>1, <2>1, <2>2 DEF DecisionsOk
<1>4. ASSUME NEW i \in DOMAIN s, NEW d, RecordFile(d) PROVE DecisionsOk([s EXCEPT ![i] = d])
  <2>1. [s EXCEPT ![i] = d] \in Seq(S \cup {d})
    BY <1>1, ChangedIsSeq
  <2>2. \A e \in S \cup {d} : RecordFile(e)
    BY <1>1, <1>4
  <2> QED BY <2>1, <2>2 DEF DecisionsOk
<1> QED BY <1>2, <1>3, <1>4

\* A record stays one when its hash or its members are changed.
LEMMA ChangedRecord ==
  ASSUME NEW d, RecordFile(d), NEW e \in ChangedDecision(d)
  PROVE  RecordFile(e)
<1>1. RecordFile(Unlogged)
  BY LogAssumption DEF RecordFile
<1>2. PICK S : DOMAIN d = {"shape", "trailing", "members", "hash", "sig"} /\ d.members \in Seq(S)
  BY DEF RecordFile
<1>3. ASSUME NEW h, e = [d EXCEPT !.hash = h] PROVE RecordFile(e)
  <2>1. DOMAIN e = DOMAIN d /\ e.members = d.members
    BY <1>2, <1>3
  <2> QED BY <1>2, <2>1 DEF RecordFile
<1>4. ASSUME NEW i, e = [d EXCEPT !.members[i].value = <<"allow">>] PROVE RecordFile(e)
  <2>1. PICK m : m = [d.members[i] EXCEPT !.value = <<"allow">>]
    OBVIOUS
  <2>2. PICK s : s = [d.members EXCEPT ![i] = m]
    OBVIOUS
  <2>3. e = [d EXCEPT !.members = s]
    BY <1>4, <2>1, <2>2
  <2>4. DOMAIN e = DOMAIN d /\ e.members = s
    BY <1>2, <2>3
  <2>5. s \in Seq(S \cup {m})
    BY <1>2, <2>2, ChangedIsSeq
  <2> QED BY <1>2, <2>4, <2>5 DEF RecordFile
<1> QED BY <1>1, <1>3, <1>4 DEF ChangedDecision

\* Files in which only the proof, the absences, the damages and the declined entry differ.
SameSealed(f, g) ==
  DOMAIN g = FileFields /\ g.decisions = f.decisions /\ g.head = f.head /\ g.cosignatures = f.cosignatures

\* A change that leaves head and cosignatures alone only has to keep the decisions records.
LEMMA SealedKept ==
  ASSUME NEW f, FilesOk(f), NEW g, SameSealed(f, g)
  PROVE  FilesOk(g)
BY DEF FilesOk, SameSealed

\* The files a change leaves.
LEMMA ChangedDecisionsOk ==
  ASSUME WtInv, NEW f, FilesOk(f), ChangeDecisions(f)
  PROVE  \E g : FilesOk(g) /\ Becomes(g)
<1>1. ASSUME NEW s, DecisionsOk(s), Becomes([f EXCEPT !.decisions = s])
      PROVE  \E g : FilesOk(g) /\ Becomes(g)
  <2>1. PICK g : g = [f EXCEPT !.decisions = s]
    OBVIOUS
  <2>2. /\ DOMAIN g = FileFields /\ g.decisions = s /\ g.head = f.head
        /\ g.cosignatures = f.cosignatures
    BY <2>1 DEF FilesOk, FileFields
  <2>3. FilesOk(g)
    BY <1>1, <2>2 DEF FilesOk
  <2> QED BY <1>1, <2>1, <2>3
<1>2. PICK s : s = f.decisions
  OBVIOUS
<1>3. DecisionsOk(s)
  BY <1>2 DEF FilesOk
<1>4. RecordFile(Unlogged)
  BY LogAssumption DEF RecordFile
<1>5. CASE Becomes([f EXCEPT !.decisions = Append(@, Unlogged)])
  <2>1. DecisionsOk(Append(s, Unlogged))
    BY <1>3, <1>4, DecisionsKept
  <2> QED BY <1>1, <1>2, <1>5, <2>1
<1>6. ASSUME NEW i \in DOMAIN s, Becomes([f EXCEPT !.decisions = RemoveAt(@, i)])
      PROVE  \E g : FilesOk(g) /\ Becomes(g)
  <2>1. DecisionsOk(RemoveAt(s, i))
    BY <1>3, DecisionsKept
  <2> QED BY <1>1, <1>2, <1>6, <2>1
<1>7. ASSUME NEW i \in DOMAIN s, NEW d \in ChangedDecision(s[i]), Becomes([f EXCEPT !.decisions[i] = d])
      PROVE  \E g : FilesOk(g) /\ Becomes(g)
  <2>1. RecordFile(s[i])
    BY <1>3, DecisionsKept
  <2>2. RecordFile(d)
    BY <2>1, ChangedRecord
  <2>3. DecisionsOk([s EXCEPT ![i] = d])
    BY <1>3, <2>2, DecisionsKept
  <2>4. Becomes([f EXCEPT !.decisions = [s EXCEPT ![i] = d]])
    BY <1>2, <1>7
  <2> QED BY <1>1, <2>3, <2>4
<1>8. ASSUME NEW x \in exports, Becomes([f EXCEPT !.decisions = x.files.decisions])
      PROVE  \E g : FilesOk(g) /\ Becomes(g)
  <2>1. DecisionsOk(x.files.decisions)
    BY DEF WtInv, BundleOk, FilesOk
  <2> QED BY <1>1, <1>8, <2>1
<1> QED BY <1>2, <1>5, <1>6, <1>7, <1>8 DEF ChangeDecisions

\* A change of the inclusion proof.
LEMMA ChangedProofOk ==
  ASSUME NEW f, FilesOk(f), ChangeProof(f)
  PROVE  \E g : FilesOk(g) /\ Becomes(g)
<1>1. ASSUME NEW p, Becomes([f EXCEPT !.proof = p])
      PROVE  \E g : FilesOk(g) /\ Becomes(g)
  <2>1. PICK g : g = [f EXCEPT !.proof = p]
    OBVIOUS
  <2>2. SameSealed(f, g)
    BY <2>1 DEF SameSealed, FilesOk, FileFields
  <2> QED BY <1>1, <2>1, <2>2, SealedKept
<1>2. ASSUME NEW a, NEW b, Becomes([f EXCEPT !.proof.source = a, !.proof.leaf = b])
      PROVE  \E g : FilesOk(g) /\ Becomes(g)
  <2>1. PICK g : g = [f EXCEPT !.proof.source = a, !.proof.leaf = b]
    OBVIOUS
  <2>2. SameSealed(f, g)
    BY <2>1 DEF SameSealed, FilesOk, FileFields
  <2> QED BY <1>2, <2>1, <2>2, SealedKept
<1>3. ASSUME NEW b, Becomes([f EXCEPT !.proof.leaf = b])
      PROVE  \E g : FilesOk(g) /\ Becomes(g)
  BY <1>1, <1>3
<1>4. ASSUME Becomes([f EXCEPT !.proof.index = 0])
      PROVE  \E g : FilesOk(g) /\ Becomes(g)
  BY <1>1, <1>4
<1> QED BY <1>1, <1>2, <1>3, <1>4 DEF ChangeProof

\* A change of the head: another signed one, or one forged under the foreign key.
LEMMA ChangedHeadOk ==
  ASSUME WtInv, NEW f, FilesOk(f), ChangeHead(f)
  PROVE  \E g : FilesOk(g) /\ Becomes(g)
<1>1. DOMAIN f = FileFields /\ DOMAIN f.head = HeadFields /\ HeadSigned(f.head)
  BY DEF FilesOk, HeadSigned
<1>2. ASSUME NEW h, HeadSigned(h), Becomes([f EXCEPT !.head = h])
      PROVE  \E g : FilesOk(g) /\ Becomes(g)
  <2>1. PICK g : g = [f EXCEPT !.head = h]
    OBVIOUS
  <2>2. /\ DOMAIN g = FileFields /\ g.decisions = f.decisions /\ g.head = h
        /\ g.cosignatures = f.cosignatures
    BY <1>1, <2>1 DEF FileFields
  <2>3. FilesOk(g)
    BY <1>2, <2>2 DEF FilesOk
  <2> QED BY <1>2, <2>1, <2>3
<1>3. ASSUME Becomes([f EXCEPT !.head.size = 0])
      PROVE  \E g : FilesOk(g) /\ Becomes(g)
  <2>1. PICK h : h = [f.head EXCEPT !.size = 0]
    OBVIOUS
  <2>2. DOMAIN h = HeadFields /\ h.sig = f.head.sig
    BY <1>1, <2>1 DEF HeadFields
  <2>3. HeadSigned(h)
    BY <1>1, <2>2 DEF HeadSigned
  <2> QED BY <1>2, <1>3, <2>1, <2>3
<1>4. ASSUME NEW t, Becomes([f EXCEPT !.head.tenant = t])
      PROVE  \E g : FilesOk(g) /\ Becomes(g)
  <2>1. PICK h : h = [f.head EXCEPT !.tenant = t]
    OBVIOUS
  <2>2. DOMAIN h = HeadFields /\ h.sig = f.head.sig
    BY <1>1, <2>1 DEF HeadFields
  <2>3. HeadSigned(h)
    BY <1>1, <2>2 DEF HeadSigned
  <2> QED BY <1>2, <1>4, <2>1, <2>3
<1>5. ASSUME NEW x \in exports, Becomes([f EXCEPT !.head = x.files.head])
      PROVE  \E g : FilesOk(g) /\ Becomes(g)
  <2>1. HeadSigned(x.files.head)
    BY DEF WtInv, BundleOk, FilesOk
  <2> QED BY <1>2, <1>5, <2>1
<1>6. ASSUME NEW id, Becomes([f EXCEPT !.proof.head = id, !.head.id = id, !.cosignatures.head = id])
      PROVE  \E g : FilesOk(g) /\ Becomes(g)
  <2>1. PICK g : g = [f EXCEPT !.proof.head = id, !.head.id = id, !.cosignatures.head = id]
    OBVIOUS
  <2>2. /\ DOMAIN g = FileFields /\ g.decisions = f.decisions
        /\ g.head = [f.head EXCEPT !.id = id]
        /\ g.cosignatures = [f.cosignatures EXCEPT !.head = id]
    BY <1>1, <2>1 DEF FileFields
  <2>3. DOMAIN g.head = HeadFields /\ g.head.sig = f.head.sig
    BY <1>1, <2>2 DEF HeadFields
  <2>4. HeadSigned(g.head)
    BY <1>1, <2>3 DEF HeadSigned
  <2>5. CosignaturesOk(g.cosignatures)
    BY <2>2 DEF FilesOk, CosignaturesOk
  <2>6. FilesOk(g)
    BY <2>2, <2>4, <2>5 DEF FilesOk
  <2> QED BY <1>6, <2>1, <2>6
<1>7. ASSUME Becomes([f EXCEPT !.head = ForgedHead(f),
                               !.proof.size = 1, !.proof.index = 1, !.proof.path = <<NoLeaf>>])
      PROVE  \E g : FilesOk(g) /\ Becomes(g)
  <2>1. PICK h : h = [f.head EXCEPT !.root = <<f.proof.leaf>>, !.size = 1]
    OBVIOUS
  <2>2. PICK s : s = <<"foreign", canonicalTreeHead(h)>>
    OBVIOUS
  <2>3. PICK e : e = ForgedHead(f)
    OBVIOUS
  <2>4. e = [h EXCEPT !.sig = s]
    BY <2>1, <2>2, <2>3 DEF ForgedHead
  <2>5. DOMAIN h = HeadFields
    BY <1>1, <2>1
  <2>6. DOMAIN e = HeadFields /\ e.sig = s /\ s[1] = "foreign"
    BY <2>2, <2>4, <2>5 DEF HeadFields
  <2>7. HeadSigned(e)
    BY <2>6 DEF HeadSigned
  <2>8. PICK g : g = [f EXCEPT !.head = e, !.proof.size = 1, !.proof.index = 1, !.proof.path = <<NoLeaf>>]
    OBVIOUS
  <2>9. /\ DOMAIN g = FileFields /\ g.decisions = f.decisions /\ g.head = e
        /\ g.cosignatures = f.cosignatures
    BY <1>1, <2>8 DEF FileFields
  <2>10. FilesOk(g)
    BY <2>7, <2>9 DEF FilesOk
  <2> QED BY <1>7, <2>3, <2>8, <2>10
<1> QED BY <1>3, <1>4, <1>5, <1>6, <1>7 DEF ChangeHead

\* A change of the cosignatures: others that were made, or fewer.
LEMMA ChangedCosignaturesOk ==
  ASSUME WtInv, NEW f, FilesOk(f), ChangeCosignatures(f)
  PROVE  \E g : FilesOk(g) /\ Becomes(g)
<1>1. ASSUME NEW a, CosignaturesOk(a), Becomes([f EXCEPT !.cosignatures = a])
      PROVE  \E g : FilesOk(g) /\ Becomes(g)
  <2>1. PICK g : g = [f EXCEPT !.cosignatures = a]
    OBVIOUS
  <2>2. /\ DOMAIN g = FileFields /\ g.decisions = f.decisions /\ g.head = f.head /\ g.cosignatures = a
    BY <2>1 DEF FilesOk, FileFields
  <2>3. FilesOk(g)
    BY <1>1, <2>2 DEF FilesOk
  <2> QED BY <1>1, <2>1, <2>3
<1>2. ASSUME NEW x \in exports
      PROVE  CosignaturesOk(x.files.cosignatures) /\ CosignaturesOk(f.cosignatures)
  BY DEF WtInv, BundleOk, FilesOk
<1>3. ASSUME NEW x \in exports,
             Becomes([f EXCEPT !.cosignatures.items = @ \cup x.files.cosignatures.items])
      PROVE  \E g : FilesOk(g) /\ Becomes(g)
  <2>1. PICK c, its : c = f.cosignatures /\ its = c.items \cup x.files.cosignatures.items
    OBVIOUS
  <2>2. PICK a : a = [c EXCEPT !.items = its]
    OBVIOUS
  <2>3. its \subseteq cosigned /\ DOMAIN c = {"head", "configured", "items"}
    BY <1>2, <2>1 DEF CosignaturesOk
  <2>4. DOMAIN a = {"head", "configured", "items"} /\ a.items = its
    BY <2>2, <2>3
  <2>5. CosignaturesOk(a)
    BY <2>3, <2>4 DEF CosignaturesOk
  <2>6. Becomes([f EXCEPT !.cosignatures = a])
    BY <1>3, <2>1, <2>2
  <2> QED BY <1>1, <2>5, <2>6
<1> QED BY <1>1, <1>2, <1>3 DEF ChangeCosignatures

\* A file lost, garbled or declined.
LEMMA LostFileOk ==
  ASSUME NEW f, FilesOk(f), LoseFile(f)
  PROVE  \E g : FilesOk(g) /\ Becomes(g)
<1>1. ASSUME NEW g, SameSealed(f, g), Becomes(g) PROVE \E e : FilesOk(e) /\ Becomes(e)
  BY <1>1, SealedKept
<1>2. ASSUME NEW n PROVE SameSealed(f, [f EXCEPT !.absent = @ \cup {n}])
  BY DEF SameSealed, FilesOk, FileFields
<1>3. ASSUME NEW n PROVE SameSealed(f, [f EXCEPT !.garbled = @ \cup {n}])
  BY DEF SameSealed, FilesOk, FileFields
<1>4. SameSealed(f, [f EXCEPT !.declined = TRUE])
  BY DEF SameSealed, FilesOk, FileFields
<1> QED BY <1>1, <1>2, <1>3, <1>4 DEF LoseFile

\* Every change of the bundle at hand.
LEMMA WtChanged ==
  ASSUME WtInv, ChangeBundle
  PROVE  WtInv'
<1>1. /\ UNCHANGED <<logs, heads, cosigned, exports>> /\ outcome' = <<>>
  BY DEF ChangeBundle
<1>2. PICK b : bundle = <<b>> /\ BundleOk(b)
  BY DEF ChangeBundle, WtInv
<1>3. PICK f : f = b.files
  OBVIOUS
<1>4. FilesOk(f) /\ DOMAIN b = {"files", "manifest"} /\ bundle[1] = b
  BY <1>2, <1>3 DEF BundleOk
<1>5. ASSUME NEW g, FilesOk(g), Becomes(g) PROVE \E c : bundle' = <<c>> /\ BundleOk(c)
  <2>1. PICK c : c = [b EXCEPT !.files = g]
    OBVIOUS
  <2>2. DOMAIN c = {"files", "manifest"} /\ c.files = g
    BY <1>4, <2>1
  <2>3. bundle' = <<c>>
    BY <1>4, <1>5, <2>1 DEF Becomes
  <2> QED BY <1>5, <2>2, <2>3 DEF BundleOk
<1>6. ASSUME NEW m, bundle' = <<[b EXCEPT !.manifest = m]>> PROVE \E c : bundle' = <<c>> /\ BundleOk(c)
  <2>1. PICK c : c = [b EXCEPT !.manifest = m]
    OBVIOUS
  <2>2. DOMAIN c = {"files", "manifest"} /\ c.files = f
    BY <1>3, <1>4, <2>1
  <2> QED BY <1>4, <1>6, <2>1, <2>2 DEF BundleOk
<1>7. \/ ChangeDecisions(f) \/ ChangeProof(f) \/ ChangeHead(f)
      \/ ChangeCosignatures(f) \/ LoseFile(f)
      \/ bundle' = <<[b EXCEPT !.manifest = Manifest(@.tenant, f)]>>
      \/ \E t \in Tenants : bundle' = <<[b EXCEPT !.manifest.tenant = t]>>
  BY <1>3, <1>4 DEF ChangeBundle
<1>8. \E c : bundle' = <<c>> /\ BundleOk(c)
  <2>1. CASE ChangeDecisions(f)
    BY <1>4, <1>5, <2>1, ChangedDecisionsOk
  <2>2. CASE ChangeProof(f)
    BY <1>4, <1>5, <2>2, ChangedProofOk
  <2>3. CASE ChangeHead(f)
    BY <1>4, <1>5, <2>3, ChangedHeadOk
  <2>4. CASE ChangeCosignatures(f)
    BY <1>4, <1>5, <2>4, ChangedCosignaturesOk
  <2>5. CASE LoseFile(f)
    BY <1>4, <1>5, <2>5, LostFileOk
  <2>6. CASE bundle' = <<[b EXCEPT !.manifest = Manifest(@.tenant, f)]>>
    BY <1>6, <2>6
  <2>7. CASE \E t \in Tenants : bundle' = <<[b EXCEPT !.manifest.tenant = t]>>
    BY <1>6, <2>7
  <2> QED BY <1>7, <2>1, <2>2, <2>3, <2>4, <2>5, <2>6, <2>7
<1>9. ASSUME NEW x, BundleOk(x) PROVE BundleOk(x)'
  BY <1>1, <1>9, BundleKept
<1>10. \A g \in heads' : HeadOk(g)'
  BY <1>1 DEF WtInv, HeadOk
<1> QED BY <1>1, <1>8, <1>9, <1>10 DEF WtInv

\* The verifier answers for what it was given.
LEMMA WtVerified ==
  ASSUME WtInv, NEW specs, RunVerifier(specs)
  PROVE  WtInv'
<1>1. UNCHANGED <<logs, heads, cosigned, exports, bundle>> /\ bundle # <<>>
  BY DEF RunVerifier
<1>2. PICK b : bundle = <<b>> /\ BundleOk(b)
  BY <1>1 DEF WtInv
<1>3. PICK r : r = VerifyDir(b, KeySet(specs))
  OBVIOUS
<1>4. PICK o :
        /\ outcome' = <<o>>
        /\ \/ o = Answer(specs, 2, <<>>)
           \/ o = Answer(specs, 1, <<>>)
           \/ o = Answer(specs, IF HasFailures(r) THEN 1 ELSE 0, r)
  BY <1>2, <1>3 DEF RunVerifier
<1>5. AnswerOk(o, b)
  BY <1>3, <1>4 DEF Answer, AnswerOk
<1>6. outcome' = <<o>>
  BY <1>4
<1>7. bundle'[1] = b /\ bundle' = <<b>> /\ bundle' # <<>>
  BY <1>1, <1>2
<1>8. BundleOk(b)'
  BY <1>1, <1>2, BundleKept
<1>9. \A y \in exports' : BundleOk(y)'
  BY <1>1, BundleKept DEF WtInv
<1>10. \A g \in heads' : HeadOk(g)'
  BY <1>1 DEF WtInv, HeadOk
<1>11. AnswerOk(o, bundle'[1])
  BY <1>5, <1>7
<1>12. outcome' # <<>> /\ \E p : outcome' = <<p>> /\ AnswerOk(p, bundle'[1])
  BY <1>6, <1>11
<1> QED BY <1>1, <1>7, <1>8, <1>9, <1>10, <1>12 DEF WtInv

\* Every step on witnessed bundles.
LEMMA WtNextInv ==
  ASSUME WtInv, WtNext
  PROVE  WtInv'
BY WtLogged, WtCosigned, WtExported, WtReceived, WtChanged, WtVerified DEF WtNext

-----------------------------------------------------------------------------
(* What an accepted bundle shows. *)

\* What the checks of an accepted bundle say.
LEMMA AcceptedFiles ==
  ASSUME NEW b, NEW keys, ~HasFailures(VerifyDir(b, keys))
  PROVE  /\ \A n \in Names : Decodes(b.files, n)
         /\ b.manifest.summary = Summary(b.files.decisions)
         /\ b.files.proof.leaf = LeafOf(b.files.proof.source)
         /\ verifyInclusion(b.files.proof, b.files.head)
         /\ b.manifest.tenant = b.files.head.tenant
         /\ verifyTreeHeadSignature(b.files.head, keys)
<1>1. PICK r : r = VerifyDir(b, keys)
  OBVIOUS
<1>2. PICK f, m : f = b.files /\ m = b.manifest
  OBVIOUS
<1>3. /\ r.registered = [n \in Names |-> manifestCheck(f, m, n)]
      /\ r.source = sourceCheck(f) /\ r.inclusion = inclusionCheck(f)
      /\ r.tenant = bundleTenantBindingCheck(f, m) /\ r.head = treeHeadCheck(f, keys)
  BY <1>1, <1>2 DEF VerifyDir
<1>4. /\ \A n \in Names : manifestCheck(f, m, n) # "fail"
      /\ sourceCheck(f) # "fail" /\ inclusionCheck(f) # "fail"
      /\ bundleTenantBindingCheck(f, m) # "fail" /\ treeHeadCheck(f, keys) # "fail"
  BY <1>1, <1>3 DEF HasFailures
<1>5. ASSUME NEW n \in Names PROVE Decodes(f, n)
  BY <1>4 DEF manifestCheck, passFail
<1>6. \A n \in Names : n \notin f.absent
  BY <1>5 DEF Decodes
<1>7. {"decisions", "proof", "head"} \subseteq Names
  BY DEF Names
<1>8. m.summary = Summary(f.decisions)
  <2>1. manifestCheck(f, m, "decisions") # "fail"
    BY <1>4, <1>7
  <2>2. DecisionManifestOK(f, m)
    BY <2>1 DEF manifestCheck, passFail
  <2> QED BY <2>2 DEF DecisionManifestOK
<1>9. f.proof.leaf = LeafOf(f.proof.source)
  BY <1>4, <1>6, <1>7 DEF sourceCheck, passFail
<1>10. verifyInclusion(f.proof, f.head)
  BY <1>4, <1>6, <1>7 DEF inclusionCheck, passFail
<1>11. m.tenant = f.head.tenant
  BY <1>4 DEF bundleTenantBindingCheck, passFail
<1>12. verifyTreeHeadSignature(f.head, keys)
  BY <1>4, <1>6, <1>7 DEF treeHeadCheck, passFail
<1> QED BY <1>2, <1>5, <1>8, <1>9, <1>10, <1>11, <1>12

\* The decision of the proof is among the records and reads as its digest says.
LEMMA SelectedDecision ==
  ASSUME NEW b, NEW keys, ~HasFailures(VerifyDir(b, keys)), FilesOk(b.files)
  PROVE  \E d \in ToSet(b.files.decisions) : \A r \in Readers : Content(d, r) = b.files.proof.source
<1>1. PICK f, m : f = b.files /\ m = b.manifest
  OBVIOUS
<1>2. PICK S : f.decisions \in Seq(S) /\ \A d \in S : RecordFile(d)
  BY <1>1 DEF FilesOk, DecisionsOk
<1>3. PICK recs : recs = f.decisions
  OBVIOUS
<1>4. DecisionLines(f) = recs /\ Decodes(f, "proof")
  BY <1>1, <1>3, AcceptedFiles DEF DecisionLines, Names
<1>5. PICK checks : checks = DecisionChecks(f, m)
  OBVIOUS
<1>6. PICK bound : bound = bindSelectedDecision(checks, f)
  OBVIOUS
<1>7. \A i \in DOMAIN bound : bound[i].status # "fail"
  BY <1>1, <1>5, <1>6 DEF HasFailures, VerifyDir
<1>8. \E S2 : checks \in Seq(S2)
  <2>1. m.summary.index = [i \in DOMAIN recs |-> IndexEntry(recs[i])]
    <3>1. m.summary = Summary(recs)
      BY <1>1, <1>3, AcceptedFiles
    <3>2. Summary(recs).index = [i \in DOMAIN recs |-> IndexEntry(recs[i])]
      BY DEF Summary
    <3> QED BY <3>1, <3>2
  <2>2. PICK n \in Nat : n = Len(recs) /\ DOMAIN recs = 1..n
    BY <1>2, <1>3
  <2>3. PICK x : x = m.summary.index
    OBVIOUS
  <2>4. Len(x) = n
    BY <2>1, <2>2, <2>3
  <2>5. PICK k \in Nat : k = IF Len(x) > Len(recs) THEN Len(x) ELSE Len(recs)
    BY <2>2, <2>4
  <2>6. checks = [i \in 1..k |->
                    [id |-> IF i <= Len(x) THEN x[i].hash ELSE recs[i].hash,
                     status |-> passFail(i <= Len(recs) /\ ValidDecision(recs[i]))]]
    BY <1>4, <1>5, <2>3, <2>5 DEF DecisionChecks
  <2>7. PICK T : T = {checks[i] : i \in 1..k}
    OBVIOUS
  <2>8. \A i \in 1..k : checks[i] \in T
    BY <2>7
  <2>9. DOMAIN checks = 1..k /\ checks = [i \in 1..k |-> checks[i]]
    BY <2>6
  <2>10. checks \in [1..k -> T]
    BY <2>8, <2>9
  <2>11. checks \in Seq(T)
    BY <2>5, <2>10
  <2> QED BY <2>11
<1>9. PICK named : named = {i \in DOMAIN recs : decodeDecisionRecord(recs[i]) /\ recs[i].hash = f.proof.source}
  OBVIOUS
<1> DEFINE valid == named # {} /\ LET d == recs[Min(named)]
                                  IN  ValidDecision(d) /\ Content(d, "go")["decision_mode"] = f.proof.mode
<1>11. PICK chosen : chosen = {i \in DOMAIN checks : checks[i].id = f.proof.source}
  OBVIOUS
<1>12. bound = IF chosen = {} THEN Append(checks, [id |-> f.proof.source, status |-> "fail"])
               ELSE [i \in DOMAIN checks |->
                       IF i \in chosen /\ ~valid THEN [checks[i] EXCEPT !.status = "fail"] ELSE checks[i]]
  BY <1>4, <1>6, <1>9, <1>11 DEF bindSelectedDecision
<1> HIDE DEF valid
<1>13. chosen # {}
  <2> SUFFICES ASSUME chosen = {} PROVE FALSE
    OBVIOUS
  <2>1. PICK c : c = [id |-> f.proof.source, status |-> "fail"]
    OBVIOUS
  <2>2. c.status = "fail" /\ bound = Append(checks, c)
    BY <1>12, <2>1
  <2>3. Len(checks) + 1 \in DOMAIN bound /\ bound[Len(checks) + 1] = c
    BY <1>8, <2>2
  <2> QED BY <1>7, <2>2, <2>3
<1>14. valid
  <2> SUFFICES ASSUME ~valid PROVE FALSE
    OBVIOUS
  <2>1. PICK i \in chosen : TRUE
    BY <1>13
  <2>2. i \in DOMAIN checks /\ bound[i] = [checks[i] EXCEPT !.status = "fail"] /\ i \in DOMAIN bound
    BY <1>11, <1>12, <1>13, <2>1
  <2>3. "status" \in DOMAIN checks[i]
    BY <1>5, <2>2 DEF DecisionChecks
  <2>4. bound[i].status = "fail"
    BY <2>2, <2>3
  <2> QED BY <1>7, <2>2, <2>4
<1>15. PICK d : d = recs[Min(named)]
  OBVIOUS
<1>16. Min(named) \in named
  <2>1. named \subseteq Nat /\ named # {}
    BY <1>2, <1>3, <1>9, <1>14 DEF valid
  <2> QED BY <2>1, LeastInIt
<1>17. /\ d \in ToSet(recs) /\ RecordFile(d)
       /\ decodeDecisionRecord(d) /\ d.hash = f.proof.source
  <2>1. PICK i : i = Min(named)
    OBVIOUS
  <2>2. i \in DOMAIN recs /\ d = recs[i] /\ decodeDecisionRecord(recs[i]) /\ recs[i].hash = f.proof.source
    BY <1>9, <1>15, <1>16, <2>1
  <2>3. d \in ToSet(recs)
    BY <2>2 DEF ToSet
  <2>4. d \in S
    BY <1>2, <1>3, <2>2
  <2> QED BY <1>2, <2>2, <2>3, <2>4
<1>18. Content(d, "go") = d.hash
  BY <1>14, <1>15 DEF ValidDecision, valid
<1>19. ASSUME NEW r \in Readers PROVE Content(d, r) = f.proof.source
  <2>1. DecodeDecisionRecord(d) = "ok"
    BY <1>17 DEF decodeDecisionRecord
  <2>2. DOMAIN d.members \subseteq Int
    BY <1>17 DEF RecordFile
  <2> QED BY <1>17, <1>18, <2>1, <2>2, DecodedUnique, UniqueReads
<1> QED BY <1>1, <1>3, <1>17, <1>19

\* The path leads to the root with the leaf in its place.
LEMMA CheckedLeaf ==
  ASSUME NEW path, NEW size, NEW root, NEW index, NEW leaf, DOMAIN root = 1..size,
         CheckRecord(path, size, root, index, leaf)
  PROVE  index \in 1..size /\ root[index] = leaf
<1>1. index \in 1..size /\ [path EXCEPT ![index] = leaf] = root
  BY DEF CheckRecord
<1>2. DOMAIN path = 1..size
  BY <1>1
<1> QED BY <1>1, <1>2

\* The invariant gives what an accepted bundle shows.
LEMMA WtInvBinding ==
  ASSUME WtInv
  PROVE  WitnessedBinding
<1> SUFFICES ASSUME outcome # <<>>, outcome[1].exit = 0, "foreign" \notin {k.key : k \in outcome[1].keys}
             PROVE  LET f == bundle[1].files
                    IN  \E d \in ToSet(f.decisions), h \in heads :
                          /\ \A r \in Readers : Content(d, r) = f.proof.source
                          /\ h.tenant = bundle[1].manifest.tenant
                          /\ canonicalTreeHead(h) = canonicalTreeHead(f.head)
                          /\ \E i \in 1..h.size :
                               /\ Logged[h.tenant][i].hash = f.proof.source
                               /\ i <= logs[h.tenant]
                          /\ \A w \in DOMAIN outcome[1].results.witnesses :
                               outcome[1].results.witnesses[w] = "pass" =>
                                 Cosignature(w, h) \in cosigned
  BY DEF WitnessedBinding
<1>1. PICK o : outcome = <<o>> /\ AnswerOk(o, bundle[1])
  BY DEF WtInv
<1>2. PICK b : bundle = <<b>> /\ BundleOk(b)
  BY DEF WtInv
<1>3. PICK f, keys : f = b.files /\ keys = o.keys
  OBVIOUS
<1>4. /\ outcome[1] = o /\ bundle[1] = b /\ o.exit = 0 /\ "foreign" \notin {k.key : k \in keys}
  BY <1>1, <1>2, <1>3
<1>5. FilesOk(f) /\ o.results = VerifyDir(b, keys) /\ ~HasFailures(VerifyDir(b, keys))
  BY <1>1, <1>2, <1>3, <1>4 DEF AnswerOk, BundleOk
<1>6. PICK d \in ToSet(f.decisions) : \A r \in Readers : Content(d, r) = f.proof.source
  BY <1>3, <1>5, SelectedDecision
<1>7. /\ \A n \in Names : Decodes(f, n)
      /\ f.proof.leaf = LeafOf(f.proof.source) /\ verifyInclusion(f.proof, f.head)
      /\ b.manifest.tenant = f.head.tenant /\ verifyTreeHeadSignature(f.head, keys)
  BY <1>3, <1>5, AcceptedFiles
<1>8. PICK h \in heads : f.head.sig = h.sig /\ f.head.sig[2] = canonicalTreeHead(f.head)
  <2>1. PICK k : k \in lookup(keys, f.head.key, "fulcrum_sth") /\ f.head.sig = <<k, canonicalTreeHead(f.head)>>
    BY <1>7 DEF verifyTreeHeadSignature
  <2>2. k # "foreign"
    BY <1>4, <2>1 DEF lookup
  <2>3. f.head.sig[1] # "foreign" /\ f.head.sig[2] = canonicalTreeHead(f.head)
    BY <2>1, <2>2
  <2> QED BY <1>5, <2>3 DEF FilesOk, HeadSigned
<1>9. /\ HeadOk(h) /\ canonicalTreeHead(h) = canonicalTreeHead(f.head)
  <2>1. HeadOk(h)
    BY DEF WtInv
  <2>2. h.sig[2] = canonicalTreeHead(h)
    BY <2>1 DEF HeadOk
  <2> QED BY <1>8, <2>1, <2>2
<1>10. /\ h.log = f.head.log /\ h.tenant = f.head.tenant /\ h.size = f.head.size
       /\ h.root = f.head.root /\ h.key = f.head.key
  BY <1>9 DEF canonicalTreeHead
<1>11. h.tenant \in Tenants /\ h.size \in 1..logs[h.tenant] /\ logs[h.tenant] \in Nat
  BY <1>9 DEF HeadOk, WtInv
<1>12. PICK i : i = f.proof.index
  OBVIOUS
<1>13. i \in 1..h.size /\ Logged[h.tenant][i].hash = f.proof.source /\ i <= logs[h.tenant]
  <2>1. h.root = [j \in 1..h.size |-> LeafOf(Logged[h.tenant][j].hash)]
    BY <1>9 DEF HeadOk, RootOf
  <2>2. CheckRecord(f.proof.path, h.size, h.root, i, f.proof.leaf)
    BY <1>7, <1>10, <1>12 DEF verifyInclusion
  <2>3. DOMAIN h.root = 1..h.size
    BY <2>1
  <2>4. i \in 1..h.size /\ h.root[i] = f.proof.leaf
    BY <2>2, <2>3, CheckedLeaf
  <2>5. LeafOf(Logged[h.tenant][i].hash) = LeafOf(f.proof.source)
    BY <1>7, <2>1, <2>4
  <2>6. Logged[h.tenant][i].hash = f.proof.source
    <3>1. \A s : LeafOf(s).source = s
      BY DEF LeafOf
    <3> QED BY <2>5, <3>1
  <2> QED BY <1>11, <2>4, <2>6
<1>14. PICK ws : ws = o.results.witnesses
  OBVIOUS
<1>15. ASSUME NEW w \in DOMAIN ws, ws[w] = "pass" PROVE Cosignature(w, h) \in cosigned
  <2>1. PICK agg : agg = f.cosignatures
    OBVIOUS
  <2>2. PICK items : items = {c \in agg.items : c.witness = w}
    OBVIOUS
  <2>3. /\ items # {}
        /\ \A c \in items : /\ c.log = f.head.log /\ c.size = f.head.size
                            /\ c.root = f.head.root /\ c.key = f.head.key
    <3>1. ws = witnessChecks(f, keys) /\ Decodes(f, "cosignatures")
      BY <1>3, <1>5, <1>7, <1>14 DEF VerifyDir, Names
    <3>2. w \in DOMAIN agg.configured /\
          ws[w] = IF items = {} THEN "missing"
                  ELSE passFail(\A c \in items :
                         /\ Decodes(f, "head") /\ agg.head = f.head.id
                         /\ c.log = f.head.log /\ c.size = f.head.size
                         /\ c.root = f.head.root /\ c.key = f.head.key
                         /\ \E k \in lookup(keys, agg.configured[w], "witness") : verifyWitnessSignature(c, k))
      BY <2>1, <2>2, <3>1 DEF witnessChecks
    <3> QED BY <1>15, <3>2 DEF passFail
  <2>4. PICK c \in items : c \in cosigned /\ c.witness = w
    BY <1>5, <2>1, <2>2, <2>3 DEF FilesOk, CosignaturesOk
  <2>5. PICK v \in Witnesses, g \in heads : c = Cosignature(v, g)
    BY <2>4 DEF WtInv
  <2>6. PICK e : e = [witness |-> v, log |-> g.log, size |-> g.size, root |-> g.root, key |-> g.key, sig |-> <<>>]
    OBVIOUS
  <2>7. PICK s : s = <<v, canonicalWitnessCosignature(e)>>
    OBVIOUS
  <2>8. c = [e EXCEPT !.sig = s]
    BY <2>5, <2>6, <2>7 DEF Cosignature
  <2>9. c.witness = v /\ c.log = g.log /\ c.size = g.size /\ c.root = g.root /\ c.key = g.key
    BY <2>6, <2>8
  <2>10. v = w /\ g.log = h.log /\ g.size = h.size /\ g.root = h.root /\ g.key = h.key
    BY <1>10, <2>3, <2>4, <2>9
  <2>11. Cosignature(w, h) = Cosignature(v, g)
    BY <2>10 DEF Cosignature
  <2> QED BY <2>4, <2>5, <2>11
<1> QED BY <1>3, <1>4, <1>6, <1>7, <1>9, <1>10, <1>13, <1>14, <1>15

-----------------------------------------------------------------------------
(* Evidence bundles. *)

\* Where a bundling stands, and the paths of what it has registered by then.
PathsBefore(n) == {Plan[i].path : i \in {k \in Copied : k < n}}

IsList(s) == \E S : s \in Seq(S)

Registered(x) == {x.artifacts[i].path : i \in DOMAIN x.artifacts}

BundlingOk(x) ==
  /\ DOMAIN x = {"step", "at", "artifacts"}
  /\ x.at \in 1..(Len(Plan) + 1)
  /\ IsList(x.artifacts)
  /\ x.step \in {"write", "hash", "summary"} => Registered(x) = PathsBefore(x.at)
  /\ x.step = "hash" => x.at \in Copied
  /\ x.step = "summary" => x.at = Len(Plan) + 1
  /\ x.step \in {"manifest", "flush", "done"} => Registered(x) = Paths

\* Invariant: a bundling has registered what comes before its place, all of it once it
\* writes the manifest; and a whole manifest is that of a finished bundling.
EvInv ==
  /\ DOMAIN bnd = Bundlings
  /\ \A b \in Bundlings : BundlingOk(bnd[b])
  /\ manifest.state = "whole" =>
       \E b \in Bundlings : bnd[b].step = "done" /\ bnd[b].artifacts = manifest.artifacts

\* The plan is a finite list.
LEMMA PlanLength ==
  Len(Plan) \in Nat /\ DOMAIN Plan = 1..Len(Plan)
BY FilesAssumption DEF Plan

\* Before anything is written.
LEMMA EvInitInv ==
  ASSUME EvInit
  PROVE  EvInv
<1>1. PICK x : x = [step |-> "write", at |-> 1, artifacts |-> <<>>]
  OBVIOUS
<1>2. PathsBefore(1) = {}
  BY PlanLength DEF PathsBefore, Copied
<1>3. BundlingOk(x)
  <2>1. IsList(x.artifacts) /\ Registered(x) = {}
    <3>1. <<>> \in Seq({}) /\ x.artifacts = <<>>
      BY <1>1
    <3> QED BY <3>1 DEF Registered, IsList
  <2>2. /\ DOMAIN x = {"step", "at", "artifacts"} /\ x.step = "write"
        /\ x.at = 1 /\ 1 \in 1..(Len(Plan) + 1)
    BY <1>1, PlanLength
  <2> QED BY <1>2, <2>1, <2>2 DEF BundlingOk
<1>4. bnd = [b \in Bundlings |-> x] /\ manifest.state = "absent"
  BY <1>1 DEF EvInit
<1> QED BY <1>3, <1>4 DEF EvInv

\* One bundling's step keeps the invariant if it leaves that bundling in order and a
\* whole manifest with the bundling it is of.
LEMMA BundlingStep ==
  ASSUME EvInv, NEW b \in Bundlings, NEW x, bnd' = [bnd EXCEPT ![b] = x], BundlingOk(x),
         bnd[b].step # "done", manifest' = manifest
  PROVE  EvInv'
<1>1. DOMAIN bnd' = Bundlings /\ bnd'[b] = x /\ \A c \in Bundlings : c # b => bnd'[c] = bnd[c]
  BY DEF EvInv
<1>2. \A c \in Bundlings : BundlingOk(bnd'[c])
  BY <1>1 DEF EvInv
<1>3. ASSUME manifest'.state = "whole"
      PROVE  \E c \in Bundlings : bnd'[c].step = "done" /\ bnd'[c].artifacts = manifest'.artifacts
  <2>1. PICK c \in Bundlings : bnd[c].step = "done" /\ bnd[c].artifacts = manifest.artifacts
    BY <1>3 DEF EvInv
  <2> QED BY <1>1, <2>1
<1> QED BY <1>1, <1>2, <1>3 DEF EvInv

\* A new artifact adds its path.
LEMMA RegisteredMore ==
  ASSUME NEW x, NEW y, NEW a, IsList(x.artifacts), y.artifacts = Append(x.artifacts, a)
  PROVE  Registered(y) = Registered(x) \cup {a.path} /\ IsList(y.artifacts)
<1>0. PICK S : x.artifacts \in Seq(S)
  BY DEF IsList
<1>1. PICK s : s = x.artifacts
  OBVIOUS
<1>2. PICK t : t = Append(s, a)
  OBVIOUS
<1>3. s \in Seq(S \cup {a}) /\ t \in Seq(S \cup {a})
  BY <1>0, <1>1, <1>2
<1>4. /\ DOMAIN s = 1..Len(s) /\ DOMAIN t = 1..(Len(s) + 1) /\ Len(s) \in Nat
      /\ t[Len(s) + 1] = a /\ \A i \in DOMAIN s : t[i] = s[i]
  BY <1>1, <1>2, <1>3
<1>5. \A i \in DOMAIN t : i \in DOMAIN s \/ i = Len(s) + 1
  BY <1>4
<1>6. \A i \in DOMAIN s : i \in DOMAIN t
  BY <1>4
<1>7. Len(s) + 1 \in DOMAIN t
  BY <1>4
<1>8. {t[i].path : i \in DOMAIN t} = {s[i].path : i \in DOMAIN s} \cup {a.path}
  BY <1>4, <1>5, <1>6, <1>7
<1> QED BY <1>1, <1>2, <1>3, <1>8 DEF Registered, IsList

\* A source file that is not regular is passed over.
LEMMA EvSkip ==
  ASSUME EvInv, NEW b \in Bundlings, SkipSource(b)
  PROVE  EvInv'
<1>1. PICK x : x = [bnd[b] EXCEPT !.at = @ + 1]
  OBVIOUS
<1>2. bnd' = [bnd EXCEPT ![b] = x] /\ manifest' = manifest
  BY <1>1 DEF SkipSource
<1>3. BundlingOk(bnd[b]) /\ bnd[b].step = "write" /\ bnd[b].at \in DOMAIN Plan \ Copied
  BY DEF EvInv, SkipSource
<1>4. /\ DOMAIN x = {"step", "at", "artifacts"} /\ x.at = bnd[b].at + 1 /\ x.step = "write"
      /\ x.artifacts = bnd[b].artifacts
  BY <1>1, <1>3 DEF BundlingOk
<1>5. PathsBefore(bnd[b].at + 1) = PathsBefore(bnd[b].at)
  BY <1>3, PlanLength DEF PathsBefore, Copied
<1>6. Registered(x) = Registered(bnd[b])
  BY <1>4 DEF Registered
<1>7. x.at \in 1..(Len(Plan) + 1)
  BY <1>3, <1>4, PlanLength
<1>8. BundlingOk(x)
  BY <1>3, <1>4, <1>5, <1>6, <1>7 DEF BundlingOk
<1> QED BY <1>2, <1>3, <1>8, BundlingStep

\* A step that only moves a bundling on.
Moved(b, s) == bnd' = [bnd EXCEPT ![b].step = s]

\* A bundling turns to hashing or to its summary, or fails.
LEMMA EvGoto ==
  ASSUME EvInv, NEW b \in Bundlings, NEW s, Moved(b, s),
         bnd[b].step # "done", manifest' = manifest,
         \/ s = "failed"
         \/ bnd[b].step = "write" /\ s = "hash" /\ bnd[b].at \in Copied
         \/ bnd[b].step = "write" /\ s = "summary" /\ bnd[b].at = Len(Plan) + 1
  PROVE  EvInv'
<1>1. PICK x : x = [bnd[b] EXCEPT !.step = s]
  OBVIOUS
<1>2. bnd' = [bnd EXCEPT ![b] = x]
  BY <1>1 DEF Moved
<1>3. BundlingOk(bnd[b])
  BY DEF EvInv
<1>4. /\ DOMAIN x = {"step", "at", "artifacts"} /\ x.at = bnd[b].at /\ x.step = s
      /\ x.artifacts = bnd[b].artifacts
  BY <1>1, <1>3 DEF BundlingOk
<1>5. Registered(x) = Registered(bnd[b])
  BY <1>4 DEF Registered
<1>6. BundlingOk(x)
  BY <1>3, <1>4, <1>5 DEF BundlingOk
<1> QED BY <1>2, <1>6, BundlingStep

\* An artifact is registered and the next one is due.
LEMMA EvRegister ==
  ASSUME EvInv, NEW b \in Bundlings, RegisterArtifact(b)
  PROVE  EvInv'
<1>1. /\ BundlingOk(bnd[b]) /\ bnd[b].step = "hash" /\ bnd[b].at \in Copied
      /\ manifest' = manifest
  BY DEF EvInv, RegisterArtifact, BundlingOk
<1>2. PICK item : item = Plan[bnd[b].at]
  OBVIOUS
<1>3. CASE out[item.path] = Absent
  <2>1. PICK s : s = "failed"
    OBVIOUS
  <2>2. Moved(b, s)
    BY <1>2, <1>3, <2>1 DEF RegisterArtifact, Moved
  <2> QED BY <1>1, <2>1, <2>2, EvGoto
<1>4. CASE out[item.path] # Absent
  <2>1. PICK a : a = hashArtifact(b, item.path, item.kind, item.schema)
    OBVIOUS
  <2>2. PICK x : x = [step |-> "write", at |-> bnd[b].at + 1, artifacts |-> Append(bnd[b].artifacts, a)]
    OBVIOUS
  <2>3. bnd' = [bnd EXCEPT ![b] = x]
    BY <1>2, <1>4, <2>1, <2>2 DEF RegisterArtifact
  <2>4. a.path = item.path
    BY <2>1 DEF hashArtifact
  <2>5. /\ DOMAIN x = {"step", "at", "artifacts"} /\ x.at = bnd[b].at + 1 /\ x.step = "write"
        /\ x.artifacts = Append(bnd[b].artifacts, a)
    BY <2>2
  <2>6. Registered(x) = Registered(bnd[b]) \cup {item.path} /\ IsList(x.artifacts)
    <3>1. PICK y : y = bnd[b]
      OBVIOUS
    <3>2. IsList(y.artifacts) /\ x.artifacts = Append(y.artifacts, a)
      BY <1>1, <2>5, <3>1 DEF BundlingOk
    <3>3. Registered(x) = Registered(y) \cup {a.path} /\ IsList(x.artifacts)
      BY <3>2, RegisteredMore
    <3> QED BY <2>4, <3>1, <3>3
  <2>7. PathsBefore(bnd[b].at + 1) = PathsBefore(bnd[b].at) \cup {item.path}
    <3>1. bnd[b].at \in Nat /\ \A k \in Copied : k \in Nat
      BY <1>1, PlanLength DEF Copied
    <3>2. \A k \in Copied : k < bnd[b].at + 1 <=> (k < bnd[b].at \/ k = bnd[b].at)
      BY <3>1
    <3> QED BY <1>1, <1>2, <3>2 DEF PathsBefore
  <2>8. x.at \in 1..(Len(Plan) + 1)
    BY <1>1, <2>5, PlanLength DEF Copied
  <2>9. BundlingOk(x)
    BY <1>1, <2>5, <2>6, <2>7, <2>8 DEF BundlingOk
  <2> QED BY <1>1, <2>3, <2>9, BundlingStep
<1> QED BY <1>3, <1>4

\* The summary is registered last.
LEMMA EvRegisterSummary ==
  ASSUME EvInv, NEW b \in Bundlings, RegisterSummary(b)
  PROVE  EvInv'
<1>1. /\ BundlingOk(bnd[b]) /\ bnd[b].step = "summary" /\ bnd[b].at = Len(Plan) + 1
      /\ manifest' = manifest
  BY DEF EvInv, RegisterSummary, BundlingOk
<1>3. CASE out["summary.md"] = Absent
  <2>1. PICK s : s = "failed"
    OBVIOUS
  <2>2. Moved(b, s)
    BY <1>3, <2>1 DEF RegisterSummary, Moved
  <2> QED BY <1>1, <2>1, <2>2, EvGoto
<1>4. CASE out["summary.md"] # Absent
  <2>1. PICK a : a = hashArtifact(b, "summary.md", "summary", "")
    OBVIOUS
  <2>2. PICK x : x = [bnd[b] EXCEPT !.step = "manifest", !.artifacts = Append(@, a)]
    OBVIOUS
  <2>3. bnd' = [bnd EXCEPT ![b] = x]
    <3>1. bnd' = [bnd EXCEPT ![b].step = "manifest", ![b].artifacts = Append(@, a)]
      BY <1>4, <2>1 DEF RegisterSummary
    <3>2. b \in DOMAIN bnd
      BY DEF EvInv
    <3> QED BY <2>2, <3>1, <3>2
  <2>4. a.path = "summary.md"
    BY <2>1 DEF hashArtifact
  <2>5. /\ DOMAIN x = {"step", "at", "artifacts"} /\ x.at = bnd[b].at /\ x.step = "manifest"
        /\ x.artifacts = Append(bnd[b].artifacts, a)
    BY <1>1, <2>2 DEF BundlingOk
  <2>6. Registered(x) = Registered(bnd[b]) \cup {"summary.md"} /\ IsList(x.artifacts)
    <3>1. PICK y : y = bnd[b]
      OBVIOUS
    <3>2. IsList(y.artifacts) /\ x.artifacts = Append(y.artifacts, a)
      BY <1>1, <2>5, <3>1 DEF BundlingOk
    <3>3. Registered(x) = Registered(y) \cup {a.path} /\ IsList(x.artifacts)
      BY <3>2, RegisteredMore
    <3> QED BY <2>4, <3>1, <3>3
  <2>7. PathsBefore(Len(Plan) + 1) = {Plan[i].path : i \in Copied}
    <3>1. \A k \in Copied : k < Len(Plan) + 1
      BY PlanLength DEF Copied
    <3> QED BY <3>1 DEF PathsBefore
  <2>8. Registered(x) = Paths
    BY <1>1, <2>6, <2>7 DEF Paths, BundlingOk
  <2>9. BundlingOk(x)
    BY <1>1, <2>5, <2>6, <2>8 DEF BundlingOk
  <2> QED BY <1>1, <2>3, <2>9, BundlingStep
<1> QED BY <1>3, <1>4

\* The manifest's two steps: it is broken, then whole with what this bundling registered.
LEMMA EvManifest ==
  ASSUME EvInv, NEW b \in Bundlings, TruncateManifest(b) \/ FlushManifest(b)
  PROVE  EvInv'
<1>1. PICK s : /\ Moved(b, s) /\ s \in {"flush", "done"}
               /\ bnd[b].step \in {"manifest", "flush"}
               /\ \/ manifest'.state = "broken"
                  \/ s = "done" /\ manifest' = [state |-> "whole", artifacts |-> bnd[b].artifacts]
  <2>1. CASE TruncateManifest(b)
    <3>1. PICK s : s = "flush"
      OBVIOUS
    <3>2. Moved(b, s) /\ bnd[b].step = "manifest" /\ manifest'.state = "broken"
      BY <2>1, <3>1 DEF TruncateManifest, Moved
    <3> QED BY <3>1, <3>2
  <2>2. CASE FlushManifest(b)
    <3>1. PICK s : s = "done"
      OBVIOUS
    <3>2. Moved(b, s) /\ bnd[b].step = "flush"
      BY <2>2, <3>1 DEF FlushManifest, Moved
    <3>3. \/ manifest' = [state |-> "whole", artifacts |-> bnd[b].artifacts]
          \/ manifest' = [state |-> "broken", artifacts |-> <<>>]
      BY <2>2 DEF FlushManifest
    <3>4. \/ manifest' = [state |-> "whole", artifacts |-> bnd[b].artifacts]
          \/ manifest'.state = "broken"
      BY <3>3
    <3> QED BY <3>1, <3>2, <3>4
  <2> QED BY <2>1, <2>2
<1>2. PICK x : x = [bnd[b] EXCEPT !.step = s]
  OBVIOUS
<1>3. bnd' = [bnd EXCEPT ![b] = x] /\ BundlingOk(bnd[b])
  BY <1>1, <1>2 DEF EvInv, Moved
<1>4. /\ DOMAIN x = {"step", "at", "artifacts"} /\ x.at = bnd[b].at /\ x.step = s
      /\ x.artifacts = bnd[b].artifacts
  BY <1>2, <1>3 DEF BundlingOk
<1>5. Registered(x) = Registered(bnd[b])
  BY <1>4 DEF Registered
<1>6. BundlingOk(x)
  BY <1>1, <1>3, <1>4, <1>5 DEF BundlingOk
<1>7. DOMAIN bnd' = Bundlings /\ bnd'[b] = x /\ \A c \in Bundlings : c # b => bnd'[c] = bnd[c]
  BY <1>3 DEF EvInv
<1>8. \A c \in Bundlings : BundlingOk(bnd'[c])
  BY <1>6, <1>7 DEF EvInv
<1>9. manifest'.state = "whole" => x.step = "done" /\ x.artifacts = manifest'.artifacts
  BY <1>1, <1>4
<1> QED BY <1>7, <1>8, <1>9 DEF EvInv

\* The steps of the verification.
VerifyStep ==
  ReadManifest \/ StatArtifact \/ RehashArtifact \/ verifyJSONSchema \/ parseRecordArtifact \/ ReadSummary

\* They write nothing.
LEMMA VerifyReads ==
  ASSUME VerifyStep
  PROVE  UNCHANGED <<out, manifest, bnd, touches>>
BY DEF VerifyStep, ReadManifest, StatArtifact, RehashArtifact, verifyJSONSchema, parseRecordArtifact,
       ReadSummary, Check

\* Every step on evidence bundles.
LEMMA EvNextInv ==
  ASSUME EvInv, EvNext
  PROVE  EvInv'
<1>1. ASSUME NEW b \in Bundlings, SkipSource(b) PROVE EvInv'
  BY <1>1, EvSkip
<1>2. ASSUME NEW b \in Bundlings, WriteArtifact(b) PROVE EvInv'
  <2>1. Moved(b, "hash") /\ manifest' = manifest /\ bnd[b].step = "write" /\ bnd[b].at \in Copied
    BY <1>2 DEF WriteArtifact, Moved
  <2> QED BY <2>1, EvGoto
<1>3. ASSUME NEW b \in Bundlings, RegisterArtifact(b) PROVE EvInv'
  BY <1>3, EvRegister
<1>4. ASSUME NEW b \in Bundlings, WriteSummary(b) PROVE EvInv'
  <2>1. Moved(b, "summary") /\ manifest' = manifest /\ bnd[b].step = "write" /\ bnd[b].at = Len(Plan) + 1
    BY <1>4 DEF WriteSummary, Moved
  <2> QED BY <2>1, EvGoto
<1>5. ASSUME NEW b \in Bundlings, RegisterSummary(b) PROVE EvInv'
  BY <1>5, EvRegisterSummary
<1>6. ASSUME NEW b \in Bundlings, TruncateManifest(b) \/ FlushManifest(b) PROVE EvInv'
  BY <1>6, EvManifest
<1>7. ASSUME NEW b \in Bundlings, Interrupt(b) PROVE EvInv'
  <2>1. PICK s : s = "failed"
    OBVIOUS
  <2>2. Moved(b, s) /\ manifest' = manifest /\ bnd[b].step # "done"
    BY <1>7, <2>1 DEF Interrupt, Moved
  <2> QED BY <2>1, <2>2, EvGoto
<1>8. ASSUME UNCHANGED <<manifest, bnd>> PROVE EvInv'
  BY <1>8 DEF EvInv
<1>9. ASSUME NEW p \in Paths, Touch(p) PROVE EvInv'
  BY <1>8, <1>9 DEF Touch
<1>10. CASE VerifyStep
  BY <1>8, <1>10, VerifyReads
<1> QED BY <1>1, <1>2, <1>3, <1>4, <1>5, <1>6, <1>7, <1>9, <1>10 DEF EvNext, EvStep, VerifyStep

\* Invariant of the verification: the manifest it works on is a finished bundling's, what it
\* has hashed had the registered content, and lies there unchanged if no file has changed.
VrfInv ==
  /\ DOMAIN vrf = {"step", "at", "artifacts", "seen"}
  /\ vrf.step = "manifest" => vrf.at = 1 /\ vrf.seen = <<>>
  /\ vrf.step \notin {"manifest", "fail"} =>
       /\ \E b \in Bundlings : bnd[b].step = "done" /\ bnd[b].artifacts = vrf.artifacts
       /\ vrf.at \in Nat \ {0} /\ IsList(vrf.seen)
       /\ Len(vrf.seen) = IF vrf.step \in {"schema", "record"} THEN vrf.at ELSE vrf.at - 1
       /\ \A i \in DOMAIN vrf.seen :
            /\ vrf.seen[i] = vrf.artifacts[i].content
            /\ still => out[vrf.artifacts[i].path] = vrf.artifacts[i].content
  /\ vrf.step = "pass" => vrf.at = Len(vrf.artifacts) + 1

\* A bundling that is done stays so.
LEMMA DoneKept ==
  ASSUME EvInv, EvNext, NEW b \in Bundlings, bnd[b].step = "done"
  PROVE  bnd'[b] = bnd[b]
<1>1. ASSUME NEW c \in Bundlings,
             \/ SkipSource(c) \/ WriteArtifact(c) \/ RegisterArtifact(c) \/ WriteSummary(c)
             \/ RegisterSummary(c) \/ TruncateManifest(c) \/ FlushManifest(c) \/ Interrupt(c)
      PROVE  bnd'[b] = bnd[b]
  <2>1. bnd[c].step # "done"
    BY <1>1 DEF SkipSource, WriteArtifact, RegisterArtifact, WriteSummary, RegisterSummary,
                TruncateManifest, FlushManifest, Interrupt
  <2>2. \E x : bnd' = [bnd EXCEPT ![c] = x]
    BY <1>1 DEF SkipSource, WriteArtifact, RegisterArtifact, WriteSummary, RegisterSummary,
                TruncateManifest, FlushManifest, Interrupt
  <2> QED BY <2>1, <2>2 DEF EvInv
<1>2. ASSUME UNCHANGED bnd PROVE bnd'[b] = bnd[b]
  BY <1>2
<1>3. ASSUME NEW p \in Paths, Touch(p) PROVE UNCHANGED bnd
  BY <1>3 DEF Touch
<1> QED BY <1>1, <1>2, <1>3, VerifyReads DEF EvNext, EvStep, VerifyStep

\* A bundling or a change leaves the verification where it is.
LEMMA VrfOthers ==
  ASSUME EvInv, VrfInv, EvNext, UNCHANGED vrf
  PROVE  VrfInv'
<1>1. still' => vrf.step = "manifest" \/ (still /\ out' = out)
  BY DEF EvNext
<1>2. ASSUME NEW b \in Bundlings, bnd[b].step = "done" /\ bnd[b].artifacts = vrf.artifacts
      PROVE  bnd'[b].step = "done" /\ bnd'[b].artifacts = vrf'.artifacts
  BY <1>2, DoneKept
<1>3. CASE vrf.step \in {"manifest", "fail"}
  BY <1>3 DEF VrfInv
<1>4. CASE vrf.step \notin {"manifest", "fail"}
  <2>1. \A i \in DOMAIN vrf.seen :
          still' => out'[vrf.artifacts[i].path] = vrf.artifacts[i].content
    BY <1>1, <1>4 DEF VrfInv
  <2>2. \E b \in Bundlings : bnd'[b].step = "done" /\ bnd'[b].artifacts = vrf'.artifacts
    BY <1>2, <1>4 DEF VrfInv
  <2> QED BY <1>4, <2>1, <2>2 DEF VrfInv
<1> QED BY <1>3, <1>4

\* A step of the verification, once it has its manifest, that hashes nothing.
LEMMA VrfMoves ==
  ASSUME VrfInv, EvNext, UNCHANGED <<out, bnd>>, vrf.step \notin {"manifest", "fail"},
         NEW step, NEW at, vrf' = [vrf EXCEPT !.step = step, !.at = at],
         at \in Nat \ {0}, step # "manifest",
         step # "fail" => Len(vrf.seen) = IF step \in {"schema", "record"} THEN at ELSE at - 1,
         step = "pass" => at = Len(vrf.artifacts) + 1
  PROVE  VrfInv'
<1>1. /\ DOMAIN vrf' = {"step", "at", "artifacts", "seen"} /\ vrf'.step = step /\ vrf'.at = at
      /\ vrf'.artifacts = vrf.artifacts /\ vrf'.seen = vrf.seen
  BY DEF VrfInv
<1>2. still' => still
  BY DEF EvNext
<1>3. \A i \in DOMAIN vrf.seen :
        /\ vrf'.seen[i] = vrf'.artifacts[i].content
        /\ still' => out'[vrf'.artifacts[i].path] = vrf'.artifacts[i].content
  BY <1>1, <1>2 DEF VrfInv
<1>4. \E b \in Bundlings : bnd'[b].step = "done" /\ bnd'[b].artifacts = vrf'.artifacts
  BY <1>1 DEF VrfInv
<1>5. IsList(vrf'.seen)
  BY <1>1 DEF VrfInv
<1> QED BY <1>1, <1>3, <1>4, <1>5 DEF VrfInv

\* An artifact whose bytes are what was registered is noted.
LEMMA VrfHashes ==
  ASSUME VrfInv, EvNext, UNCHANGED <<out, bnd>>, vrf.step = "hash",
         Unchanged(Artifact), NEW next,
         \/ next \in {"schema", "record"} /\ vrf'.at = vrf.at
         \/ next = "stat" /\ vrf'.at = vrf.at + 1,
         vrf' = [vrf EXCEPT !.step = next, !.at = vrf'.at, !.seen = Append(@, Found)]
  PROVE  VrfInv'
<1>1. /\ DOMAIN vrf' = {"step", "at", "artifacts", "seen"} /\ vrf'.step = next
      /\ vrf'.artifacts = vrf.artifacts /\ vrf'.seen = Append(vrf.seen, Found)
  BY DEF VrfInv
<1>2. still' => still
  BY DEF EvNext
<1>3. PICK s : s = vrf.seen
  OBVIOUS
<1>4. PICK S : s \in Seq(S)
  BY <1>3 DEF VrfInv, IsList
<1>5. PICK t : t = Append(s, Found)
  OBVIOUS
<1>6. t \in Seq(S \cup {Found}) /\ Len(t) = Len(s) + 1 /\ Len(s) \in Nat
  BY <1>4, <1>5
<1>7. /\ DOMAIN s = 1..Len(s) /\ DOMAIN t = 1..(Len(s) + 1)
      /\ t[Len(s) + 1] = Found /\ \A i \in DOMAIN s : t[i] = s[i]
  BY <1>4, <1>5
<1>8. Len(s) = vrf.at - 1 /\ vrf.at \in Nat \ {0}
  BY <1>3 DEF VrfInv
<1>9. Found = vrf.artifacts[vrf.at].content /\ out[vrf.artifacts[vrf.at].path] = vrf.artifacts[vrf.at].content
  BY DEF Found, Artifact, Unchanged
<1>10. ASSUME NEW i \in DOMAIN t
       PROVE  /\ t[i] = vrf.artifacts[i].content
              /\ still' => out'[vrf.artifacts[i].path] = vrf.artifacts[i].content
  <2>1. CASE i \in DOMAIN s
    BY <1>2, <1>3, <1>7, <2>1 DEF VrfInv
  <2>2. CASE i \notin DOMAIN s
    <3>1. i = vrf.at
      BY <1>6, <1>7, <1>8, <2>2
    <3> QED BY <1>7, <1>8, <1>9, <3>1
  <2> QED BY <2>1, <2>2
<1>11. \E b \in Bundlings : bnd'[b].step = "done" /\ bnd'[b].artifacts = vrf'.artifacts
  BY <1>1 DEF VrfInv
<1>12. vrf'.seen = t /\ IsList(t)
  BY <1>1, <1>3, <1>5, <1>6 DEF IsList
<1>13. Len(t) = IF next \in {"schema", "record"} THEN vrf'.at ELSE vrf'.at - 1
  BY <1>6, <1>8
<1>14. vrf'.at \in Nat \ {0}
  BY <1>8
<1> QED BY <1>1, <1>10, <1>11, <1>12, <1>13, <1>14 DEF VrfInv

\* The first check that fails ends the verification.
LEMMA VrfFails ==
  ASSUME VrfInv, vrf' = [vrf EXCEPT !.step = "fail"]
  PROVE  VrfInv'
<1>1. DOMAIN vrf' = {"step", "at", "artifacts", "seen"} /\ vrf'.step = "fail"
  BY DEF VrfInv
<1> QED BY <1>1 DEF VrfInv

\* Every step of the verification.
LEMMA VrfStepInv ==
  ASSUME EvInv, VrfInv, EvNext, VerifyStep
  PROVE  VrfInv'
<1>0. UNCHANGED <<out, manifest, bnd, touches>>
  BY VerifyReads
<1>f. ASSUME vrf' = [vrf EXCEPT !.step = "fail"] PROVE VrfInv'
  BY <1>f, VrfFails
<1>1. CASE ReadManifest
  <2>1. CASE manifest.state = "whole"
    <3>1. PICK v : v = [vrf EXCEPT !.step = "stat", !.artifacts = manifest.artifacts]
      OBVIOUS
    <3>2. vrf' = v /\ vrf.step = "manifest"
      BY <1>1, <2>1, <3>1 DEF ReadManifest
    <3>3. /\ DOMAIN v = {"step", "at", "artifacts", "seen"} /\ v.step = "stat" /\ v.at = 1
          /\ v.artifacts = manifest.artifacts /\ v.seen = <<>>
      BY <3>1, <3>2 DEF VrfInv
    <3>4. \E b \in Bundlings : bnd[b].step = "done" /\ bnd[b].artifacts = v.artifacts
      BY <2>1, <3>3 DEF EvInv
    <3>5. <<>> \in Seq({}) /\ Len(<<>>) = 0 /\ DOMAIN <<>> = {}
      OBVIOUS
    <3>6. IsList(v.seen) /\ Len(v.seen) = v.at - 1 /\ DOMAIN v.seen = {}
      BY <3>3, <3>5 DEF IsList
    <3> QED BY <1>0, <3>2, <3>3, <3>4, <3>6 DEF VrfInv
  <2>2. CASE manifest.state # "whole"
    BY <1>1, <1>f, <2>2 DEF ReadManifest
  <2> QED BY <2>1, <2>2
<1>2. CASE StatArtifact
  <2>1. vrf.step = "stat"
    BY <1>2 DEF StatArtifact, Check
  <2>2. CASE vrf' = [vrf EXCEPT !.step = "hash"]
    <3>1. PICK at : at = vrf.at
      OBVIOUS
    <3>2. vrf' = [vrf EXCEPT !.step = "hash", !.at = at]
      BY <2>2, <3>1 DEF VrfInv
    <3>3. at \in Nat \ {0} /\ Len(vrf.seen) = at - 1
      BY <2>1, <3>1 DEF VrfInv
    <3> QED BY <1>0, <2>1, <3>2, <3>3, VrfMoves
  <2> QED BY <1>2, <1>f, <2>2 DEF StatArtifact, Check
<1>3. CASE RehashArtifact
  <2>1. vrf.step = "hash" /\ vrf.at \in Nat \ {0}
    BY <1>3 DEF RehashArtifact, Check, VrfInv
  <2>2. CASE /\ Unchanged(Artifact)
             /\ vrf' = [vrf EXCEPT !.step = ToSchema(vrf.at).step, !.at = ToSchema(vrf.at).at, !.seen = Append(@, Found)]
    <3>1. PICK next, at : next = ToSchema(vrf.at).step /\ at = ToSchema(vrf.at).at
      OBVIOUS
    <3>2. \/ next \in {"schema", "record"} /\ at = vrf.at
          \/ next = "stat" /\ at = vrf.at + 1
      BY <3>1 DEF ToSchema, ToRecord
    <3>3. vrf' = [vrf EXCEPT !.step = next, !.at = at, !.seen = Append(@, Found)]
      BY <2>2, <3>1
    <3>4. vrf'.at = at
      BY <3>3 DEF VrfInv
    <3> QED BY <1>0, <2>1, <2>2, <3>2, <3>3, <3>4, VrfHashes
  <2>3. CASE vrf' = [vrf EXCEPT !.step = "fail"]
    BY <1>f, <2>3
  <2> QED BY <1>3, <2>2, <2>3 DEF RehashArtifact, Check
<1>4. CASE verifyJSONSchema
  <2>1. vrf.step = "schema" /\ vrf.at \in Nat \ {0} /\ Len(vrf.seen) = vrf.at
    BY <1>4 DEF verifyJSONSchema, Check, VrfInv
  <2>2. CASE vrf' = [vrf EXCEPT !.step = ToRecord(vrf.at).step, !.at = ToRecord(vrf.at).at]
    <3>1. PICK next, at : next = ToRecord(vrf.at).step /\ at = ToRecord(vrf.at).at
      OBVIOUS
    <3>2. \/ next = "record" /\ at = vrf.at
          \/ next = "stat" /\ at = vrf.at + 1
      <4>1. PICK r : r = ToRecord(vrf.at)
        OBVIOUS
      <4>2. CASE vrf.artifacts[vrf.at].kind = "decision_record"
        <5>1. r = [step |-> "record", at |-> vrf.at]
          BY <4>1, <4>2 DEF ToRecord
        <5> QED BY <3>1, <4>1, <5>1
      <4>3. CASE vrf.artifacts[vrf.at].kind # "decision_record"
        <5>1. r = [step |-> "stat", at |-> vrf.at + 1]
          BY <4>1, <4>3 DEF ToRecord
        <5> QED BY <3>1, <4>1, <5>1
      <4> QED BY <4>2, <4>3
    <3>3. vrf' = [vrf EXCEPT !.step = next, !.at = at]
      BY <2>2, <3>1
    <3>4. at \in Nat \ {0} /\ Len(vrf.seen) = IF next \in {"schema", "record"} THEN at ELSE at - 1
      BY <2>1, <3>2
    <3> QED BY <1>0, <2>1, <3>2, <3>3, <3>4, VrfMoves
  <2>3. CASE vrf' = [vrf EXCEPT !.step = "fail"]
    BY <1>f, <2>3
  <2> QED BY <1>4, <2>2, <2>3 DEF verifyJSONSchema, Check
<1>5. CASE parseRecordArtifact
  <2>1. vrf.step = "record" /\ vrf.at \in Nat \ {0} /\ Len(vrf.seen) = vrf.at
    BY <1>5 DEF parseRecordArtifact, Check, VrfInv
  <2>2. CASE vrf' = [vrf EXCEPT !.step = "stat", !.at = @ + 1]
    <3>1. PICK at : at = vrf.at + 1
      OBVIOUS
    <3>2. vrf' = [vrf EXCEPT !.step = "stat", !.at = at]
      BY <2>2, <3>1
    <3>3. at \in Nat \ {0} /\ Len(vrf.seen) = at - 1
      BY <2>1, <3>1
    <3> QED BY <1>0, <2>1, <3>2, <3>3, VrfMoves
  <2>3. CASE vrf' = [vrf EXCEPT !.step = "fail"]
    BY <1>f, <2>3
  <2> QED BY <1>5, <2>2, <2>3 DEF parseRecordArtifact, Check
<1>6. CASE ReadSummary
  <2>1. vrf.step = "stat" /\ vrf.at = Len(vrf.artifacts) + 1
    BY <1>6 DEF ReadSummary
  <2>2. CASE vrf' = [vrf EXCEPT !.step = "pass"]
    <3>1. PICK at : at = vrf.at
      OBVIOUS
    <3>2. vrf' = [vrf EXCEPT !.step = "pass", !.at = at]
      BY <2>2, <3>1 DEF VrfInv
    <3>3. at \in Nat \ {0} /\ Len(vrf.seen) = at - 1
      BY <2>1, <3>1 DEF VrfInv
    <3> QED BY <1>0, <2>1, <3>1, <3>2, <3>3, VrfMoves
  <2>3. CASE vrf' = [vrf EXCEPT !.step = "fail"]
    BY <1>f, <2>3
  <2> QED BY <1>6, <2>2, <2>3 DEF ReadSummary
<1> QED BY <1>1, <1>2, <1>3, <1>4, <1>5, <1>6 DEF VerifyStep

\* Every step keeps the verification's invariant.
LEMMA VrfNextInv ==
  ASSUME EvInv, VrfInv, EvNext
  PROVE  VrfInv'
<1>1. ASSUME NEW b \in Bundlings,
             \/ SkipSource(b) \/ WriteArtifact(b) \/ RegisterArtifact(b) \/ WriteSummary(b)
             \/ RegisterSummary(b) \/ TruncateManifest(b) \/ FlushManifest(b) \/ Interrupt(b)
      PROVE  UNCHANGED vrf
  BY <1>1 DEF SkipSource, WriteArtifact, RegisterArtifact, WriteSummary, RegisterSummary,
              TruncateManifest, FlushManifest, Interrupt
<1>2. ASSUME NEW p \in Paths, Touch(p) PROVE UNCHANGED vrf
  BY <1>2 DEF Touch
<1>3. UNCHANGED vrf \/ VerifyStep
  BY <1>1, <1>2 DEF EvNext, EvStep, VerifyStep
<1> QED BY <1>3, VrfOthers, VrfStepInv

\* Before anything is read.
LEMMA VrfInitInv ==
  ASSUME EvInit
  PROVE  VrfInv
BY DEF EvInit, VrfInv

\* What verification passes is what a finished bundling registered.
LEMMA PassedIsBundled ==
  ASSUME EvInv, VrfInv
  PROVE  EvidencePassMeansBundled
<1> SUFFICES ASSUME vrf.step = "pass"
             PROVE  \E b \in Bundlings :
                      /\ bnd[b].step = "done" /\ bnd[b].artifacts = vrf.artifacts
                      /\ {vrf.artifacts[i].path : i \in DOMAIN vrf.artifacts} = Paths
                      /\ \A i \in DOMAIN vrf.artifacts :
                           /\ vrf.seen[i] = vrf.artifacts[i].content
                           /\ still => out[vrf.artifacts[i].path] = vrf.artifacts[i].content
  BY DEF EvidencePassMeansBundled
<1>1. PICK b \in Bundlings : bnd[b].step = "done" /\ bnd[b].artifacts = vrf.artifacts
  BY DEF VrfInv
<1>2. BundlingOk(bnd[b])
  BY DEF EvInv
<1>3. {vrf.artifacts[i].path : i \in DOMAIN vrf.artifacts} = Paths
  BY <1>1, <1>2 DEF BundlingOk, Registered
<1>4. PICK a, s : a = vrf.artifacts /\ s = vrf.seen
  OBVIOUS
<1>5. PICK S, T : a \in Seq(S) /\ s \in Seq(T)
  BY <1>1, <1>2, <1>4 DEF BundlingOk, VrfInv, IsList
<1>6. Len(s) = Len(a)
  <2>1. vrf.at = Len(a) + 1 /\ Len(s) = vrf.at - 1 /\ Len(a) \in Nat
    BY <1>4, <1>5 DEF VrfInv
  <2> QED BY <2>1
<1>7. DOMAIN s = DOMAIN a
  BY <1>5, <1>6
<1> QED BY <1>1, <1>3, <1>4, <1>7 DEF VrfInv

-----------------------------------------------------------------------------
(* Hook installations: what a doctor has read of one. *)


SettingsNames == {"project", "local", "user"}

\* The scopes are settings files, each once, and all of them if both directories resolve.
LEMMA ScopesOf ==
  ASSUME NEW i, i.resolved \subseteq {"project", "home"}
  PROVE  /\ hookSettingsScopes(i) \in Seq(SettingsNames)
         /\ \A j, k \in DOMAIN hookSettingsScopes(i) :
              hookSettingsScopes(i)[j] = hookSettingsScopes(i)[k] => j = k
         /\ ~HiddenSettings(i) =>
              \A n \in SettingsNames : \E k \in DOMAIN hookSettingsScopes(i) : hookSettingsScopes(i)[k] = n
<1>1. PICK a : a = IF "project" \in i.resolved THEN <<"project", "local">> ELSE <<>>
  OBVIOUS
<1>2. PICK b : b = IF "home" \in i.resolved THEN <<"user">> ELSE <<>>
  OBVIOUS
<1>3. PICK s : s = a \o b
  OBVIOUS
<1>4. hookSettingsScopes(i) = s
  BY <1>1, <1>2, <1>3 DEF hookSettingsScopes
<1>5. a \in Seq(SettingsNames) /\ b \in Seq(SettingsNames)
  <2>1. <<"project", "local">> \in Seq(SettingsNames) /\ <<"user">> \in Seq(SettingsNames) /\ <<>> \in Seq(SettingsNames)
    BY DEF SettingsNames
  <2> QED BY <1>1, <1>2, <2>1
<1>6. s \in Seq(SettingsNames) /\ Len(s) = Len(a) + Len(b)
  BY <1>3, <1>5
<1>7. \A k \in 1..Len(s) : s[k] = IF k <= Len(a) THEN a[k] ELSE b[k - Len(a)]
  BY <1>3, <1>5
<1>8. /\ a = <<>> \/ (Len(a) = 2 /\ a[1] = "project" /\ a[2] = "local")
      /\ b = <<>> \/ (Len(b) = 1 /\ b[1] = "user")
  BY <1>1, <1>2
<1>9. Len(<<>>) = 0
  OBVIOUS
<1>10. \A j, k \in 1..Len(s) : s[j] = s[k] => j = k
  <2>1. /\ a = <<>> => Len(a) = 0
        /\ b = <<>> => Len(b) = 0
    BY <1>9
  <2>2. CASE a = <<>>
    BY <1>6, <1>7, <1>8, <2>1, <2>2
  <2>3. CASE Len(a) = 2 /\ a[1] = "project" /\ a[2] = "local"
    <3>1. s[1] = "project" /\ s[2] = "local" /\ 1 \in 1..Len(s) /\ 2 \in 1..Len(s)
      BY <1>5, <1>6, <1>7, <2>3
    <3>2. \A k \in 1..Len(s) : k = 1 \/ k = 2 \/ (k = 3 /\ s[k] = "user")
      BY <1>6, <1>7, <1>8, <2>1, <2>3
    <3> QED BY <3>1, <3>2
  <2> QED BY <1>8, <2>2, <2>3
<1>11. ASSUME ~HiddenSettings(i), NEW n \in SettingsNames PROVE \E k \in 1..Len(s) : s[k] = n
  <2>1. a = <<"project", "local">> /\ b = <<"user">>
    BY <1>1, <1>2, <1>11 DEF HiddenSettings
  <2>2. Len(a) = 2 /\ a[1] = "project" /\ a[2] = "local" /\ Len(b) = 1 /\ b[1] = "user"
    BY <2>1
  <2>3. Len(s) = 3 /\ s[1] = "project" /\ s[2] = "local" /\ s[3] = "user"
    BY <1>6, <1>7, <2>2
  <2> QED BY <2>3 DEF SettingsNames
<1>12. DOMAIN s = 1..Len(s)
  BY <1>6
<1> QED BY <1>4, <1>6, <1>10, <1>11, <1>12

\* The entries are those of the files, in some order.
EntriesOk(files, entries) ==
  /\ \E S : entries \in Seq(S)
  /\ \A k \in DOMAIN entries : \E j \in DOMAIN files : \E q \in DOMAIN hookEntries(files[j]) :
       entries[k] = hookEntries(files[j])[q]
  /\ \A j \in DOMAIN files : \A q \in DOMAIN hookEntries(files[j]) : \E k \in DOMAIN entries :
       entries[k] = hookEntries(files[j])[q]

FilesRead(files, i) ==
  /\ \E S : files \in Seq(S)
  /\ Len(files) <= Len(hookSettingsScopes(i))
  /\ \A k \in DOMAIN files : files[k] = i.settings[hookSettingsScopes(i)[k]]

PluggedOf(i) == UNION {ToSet(hookEntries(i.plugins[k].manifest)) : k \in pluginHookManifests(i)}

\* The entries of a file are those of its hooks, one for one.
LEMMA HookEntriesSeq ==
  ASSUME NEW f, SettingsFile(f)
  PROVE  /\ \E S : hookEntries(f) \in Seq(S)
         /\ DOMAIN hookEntries(f) = DOMAIN f.hooks
         /\ \A q \in DOMAIN f.hooks :
              /\ hookEntries(f)[q].boundary = IsBoundaryHookCommand(f.hooks[q].command)
              /\ hookEntries(f)[q].tools = matcherTools(f.hooks[q].matcher)
<1>0. PICK S : f.hooks \in Seq(S)
  BY DEF SettingsFile
<1>1. PICK n \in Nat : n = Len(f.hooks) /\ DOMAIN f.hooks = 1..n
  BY <1>0
<1>2. PICK e : e = hookEntries(f)
  OBVIOUS
<1>3. CASE f.state # "valid"
  <2>1. f.hooks = <<>> /\ e = <<>>
    BY <1>2, <1>3 DEF SettingsFile, hookEntries
  <2>2. e \in Seq({}) /\ DOMAIN e = {} /\ DOMAIN f.hooks = {}
    BY <2>1
  <2> QED BY <1>2, <2>2
<1>4. CASE f.state = "valid"
  <2>1. e = [k \in 1..n |-> [boundary |-> IsBoundaryHookCommand(f.hooks[k].command),
                             tools |-> matcherTools(f.hooks[k].matcher),
                             understood |-> f.hooks[k].matcher.form # "broken"]]
    BY <1>1, <1>2, <1>4 DEF hookEntries
  <2>2. PICK T : T = {e[k] : k \in 1..n}
    OBVIOUS
  <2>3. \A k \in 1..n : e[k] \in T
    BY <2>2
  <2>4. e \in [1..n -> T]
    BY <2>1, <2>3
  <2>5. e \in Seq(T)
    BY <2>4
  <2>6. DOMAIN e = DOMAIN f.hooks
    BY <1>1, <2>1
  <2>7. \A q \in 1..n : /\ e[q].boundary = IsBoundaryHookCommand(f.hooks[q].command)
                        /\ e[q].tools = matcherTools(f.hooks[q].matcher)
    BY <2>1
  <2> QED BY <1>1, <1>2, <2>5, <2>6, <2>7
<1> QED BY <1>3, <1>4

\* They still are when one more file is read.
LEMMA EntriesMore ==
  ASSUME NEW files, \E S : files \in Seq(S), NEW entries, EntriesOk(files, entries),
         NEW f, SettingsFile(f)
  PROVE  EntriesOk(Append(files, f), entries \o hookEntries(f))
<1>1. PICK S : files \in Seq(S)
  OBVIOUS
<1>2. PICK T : entries \in Seq(T)
  BY DEF EntriesOk
<1>3. PICK e : e = hookEntries(f)
  OBVIOUS
<1>4. PICK U : e \in Seq(U)
  BY <1>3, HookEntriesSeq
<1>5. PICK g : g = Append(files, f)
  OBVIOUS
<1>6. PICK z : z = entries \o e
  OBVIOUS
<1>7. PICK n \in Nat : n = Len(files) /\ DOMAIN files = 1..n
  BY <1>1
<1>8. DOMAIN g = 1..(n + 1) /\ g[n + 1] = f /\ \A j \in 1..n : g[j] = files[j]
  BY <1>1, <1>5, <1>7
<1>9. entries \in Seq(T \cup U) /\ e \in Seq(T \cup U)
  BY <1>2, <1>4
<1>10. PICK m \in Nat : m = Len(entries) /\ DOMAIN entries = 1..m
  BY <1>2
<1>11. PICK l \in Nat : l = Len(e) /\ DOMAIN e = 1..l
  BY <1>4
<1>12. z \in Seq(T \cup U) /\ DOMAIN z = 1..(m + l)
  BY <1>6, <1>9, <1>10, <1>11
<1>13. /\ \A k \in 1..m : z[k] = entries[k]
       /\ \A k \in (m + 1)..(m + l) : z[k] = e[k - m]
  BY <1>6, <1>9, <1>10, <1>11
<1>14. ASSUME NEW k \in DOMAIN z
       PROVE  \E j \in DOMAIN g : \E q \in DOMAIN hookEntries(g[j]) : z[k] = hookEntries(g[j])[q]
  <2>1. CASE k \in 1..m
    <3>1. PICK j \in DOMAIN files : \E q \in DOMAIN hookEntries(files[j]) : entries[k] = hookEntries(files[j])[q]
      BY <1>10, <2>1 DEF EntriesOk
    <3>2. j \in DOMAIN g /\ g[j] = files[j]
      BY <1>7, <1>8, <3>1
    <3> QED BY <1>13, <2>1, <3>1, <3>2
  <2>2. CASE k \in (m + 1)..(m + l)
    <3>1. k - m \in DOMAIN e /\ z[k] = e[k - m]
      BY <1>11, <1>13, <2>2
    <3>2. n + 1 \in DOMAIN g /\ hookEntries(g[n + 1]) = e
      BY <1>3, <1>8
    <3> QED BY <3>1, <3>2
  <2> QED BY <1>12, <1>14, <2>1, <2>2
<1>15. ASSUME NEW j \in DOMAIN g, NEW q \in DOMAIN hookEntries(g[j])
       PROVE  \E k \in DOMAIN z : z[k] = hookEntries(g[j])[q]
  <2>1. CASE j = n + 1
    <3>1. q \in 1..l /\ hookEntries(g[j])[q] = e[q]
      BY <1>3, <1>8, <1>11, <1>15, <2>1
    <3>2. m + q \in DOMAIN z /\ z[m + q] = e[m + q - m] /\ m + q - m = q
      BY <1>12, <1>13, <3>1
    <3> QED BY <3>1, <3>2
  <2>2. CASE j # n + 1
    <3>1. j \in DOMAIN files /\ g[j] = files[j]
      BY <1>7, <1>8, <1>15, <2>2
    <3>2. PICK k \in DOMAIN entries : entries[k] = hookEntries(files[j])[q]
      BY <1>15, <3>1 DEF EntriesOk
    <3>3. k \in DOMAIN z /\ z[k] = entries[k]
      BY <1>10, <1>12, <1>13, <3>2
    <3> QED BY <3>1, <3>2, <3>3
  <2> QED BY <2>1, <2>2
<1> QED BY <1>3, <1>5, <1>6, <1>12, <1>14, <1>15 DEF EntriesOk

-----------------------------------------------------------------------------
(* What the grade of the registration says of the machine that was read. *)

ReadAll(r, i) ==
  /\ FilesRead(r.files, i) /\ Len(r.files) = Len(hookSettingsScopes(i))
  /\ EntriesOk(r.files, r.entries)
  /\ r.plugged = PluggedOf(i)
  /\ r.managed = i.managed

Disabled(i) == i.managed.disable \/ i.managed.only \/ \E s \in DOMAIN i.settings : i.settings[s].disable

\* A hook the host runs stands in a settings file or an enabled plugin's manifest.
LEMMA RunningHook ==
  ASSUME NEW i, NEW g
  PROVE  /\ g \in Running(i) =>
              /\ ~Disabled(i)
              /\ \/ \E s \in DOMAIN i.settings : g \in ToSet(i.settings[s].hooks)
                 \/ \E p \in ToSet(i.plugins) : g \in ToSet(p.manifest.hooks)
         /\ ~Disabled(i) /\ (\E s \in DOMAIN i.settings : g \in ToSet(i.settings[s].hooks)) => g \in Running(i)
<1> DEFINE A == UNION {ToSet(i.settings[s].hooks) : s \in DOMAIN i.settings}
<1> DEFINE B == UNION {ToSet(p.manifest.hooks) : p \in {q \in ToSet(i.plugins) : q.enabled}}
<1>3. Running(i) = IF Disabled(i) THEN {} ELSE A \cup B
  BY DEF Running, Disabled
<1>4. g \in A <=> \E s \in DOMAIN i.settings : g \in ToSet(i.settings[s].hooks)
  OBVIOUS
<1>5. g \in B => \E p \in ToSet(i.plugins) : g \in ToSet(p.manifest.hooks)
  OBVIOUS
<1> HIDE DEF A, B
<1> QED BY <1>3, <1>4, <1>5

\* Every settings file of a machine whose directories resolve is read.
LEMMA ReadSettingsFile ==
  ASSUME NEW i, Machine(i), ~HiddenSettings(i), NEW r, ReadAll(r, i), NEW s \in DOMAIN i.settings
  PROVE  \E k \in DOMAIN r.files : r.files[k] = i.settings[s]
<1>1. s \in SettingsNames /\ i.resolved \subseteq {"project", "home"}
  BY DEF Machine, SettingsNames
<1>2. PICK k \in DOMAIN hookSettingsScopes(i) : hookSettingsScopes(i)[k] = s
  BY <1>1, ScopesOf
<1>3. DOMAIN r.files = DOMAIN hookSettingsScopes(i)
  <2>1. PICK sc : sc = hookSettingsScopes(i) /\ sc \in Seq(SettingsNames)
    BY <1>1, ScopesOf
  <2>2. PICK fs : fs = r.files
    OBVIOUS
  <2>3. PICK S : fs \in Seq(S)
    BY <2>2 DEF ReadAll, FilesRead
  <2>4. Len(fs) = Len(sc)
    BY <2>1, <2>2 DEF ReadAll
  <2> QED BY <2>1, <2>2, <2>3, <2>4
<1>4. k \in DOMAIN r.files /\ r.files[k] = i.settings[s]
  BY <1>2, <1>3 DEF ReadAll, FilesRead
<1> QED BY <1>4

\* A file that was read is a settings file of the machine.
LEMMA ReadFileOf ==
  ASSUME NEW i, Machine(i), NEW r, ReadAll(r, i), NEW k \in DOMAIN r.files
  PROVE  \E s \in DOMAIN i.settings : r.files[k] = i.settings[s]
<1>1. i.resolved \subseteq {"project", "home"} /\ DOMAIN i.settings = SettingsNames
  BY DEF Machine, SettingsNames
<1>2. PICK sc : sc = hookSettingsScopes(i) /\ sc \in Seq(SettingsNames)
  BY <1>1, ScopesOf
<1>3. PICK fs : fs = r.files
  OBVIOUS
<1>4. PICK S : fs \in Seq(S)
  BY <1>3 DEF ReadAll, FilesRead
<1>5. Len(fs) = Len(sc) /\ fs[k] = i.settings[sc[k]]
  BY <1>2, <1>3 DEF ReadAll, FilesRead
<1>6. sc[k] \in SettingsNames
  BY <1>2, <1>3, <1>4, <1>5
<1> QED BY <1>1, <1>3, <1>5, <1>6

Faulty(i) ==
  \/ VisiblyRouted(i) = {} \/ HiddenPlugin(i) \/ HiddenSettings(i)
  \/ \E s \in DOMAIN i.settings : i.settings[s].state = "unreadable"

\* A broken registration: the machine routes no recognisable hook, or hides something.
LEMMA GradedBroken ==
  ASSUME NEW i, Machine(i), NEW r, ReadAll(r, i), NEW at, registrationCheck(r, at) = "broken"
  PROVE  Faulty(i)
<1>1. ASSUME Disabled(i) PROVE VisiblyRouted(i) = {}
  <2>1. \A g : g \notin Running(i)
    BY <1>1, RunningHook
  <2> QED BY <2>1 DEF VisiblyRouted
<1>2. \/ ManagedRead(r.managed) /\ r.managed.disable
      \/ \E k \in DOMAIN r.files : r.files[k].state = "valid" /\ r.files[k].disable
      \/ \E k \in DOMAIN r.files : r.files[k].state = "unreadable"
      \/ Registrations(r.entries) = {} /\ ~ \E e \in r.plugged : e.boundary
  BY DEF registrationCheck
<1>3. CASE ManagedRead(r.managed) /\ r.managed.disable
  BY <1>1, <1>3 DEF Disabled, ReadAll, Faulty
<1>4. ASSUME NEW k \in DOMAIN r.files, r.files[k].disable PROVE Faulty(i)
  <2>1. \E s \in DOMAIN i.settings : i.settings[s].disable
    BY <1>4, ReadFileOf
  <2> QED BY <1>1, <2>1 DEF Disabled, Faulty
<1>5. ASSUME NEW k \in DOMAIN r.files, r.files[k].state = "unreadable" PROVE Faulty(i)
  <2>1. \E s \in DOMAIN i.settings : i.settings[s].state = "unreadable"
    BY <1>5, ReadFileOf
  <2> QED BY <2>1 DEF Faulty
<1>6. CASE Registrations(r.entries) = {} /\ ~ \E e \in r.plugged : e.boundary
  <2> SUFFICES ASSUME ~HiddenSettings(i), ~HiddenPlugin(i) PROVE VisiblyRouted(i) = {}
    BY DEF Faulty
  <2>1. ASSUME NEW g \in Running(i), IsBoundaryHookCommand(g.command) PROVE FALSE
    <3>1. ASSUME NEW s \in DOMAIN i.settings, g \in ToSet(i.settings[s].hooks) PROVE FALSE
      <4>1. PICK f : f = i.settings[s] /\ SettingsFile(f)
        BY DEF Machine
      <4>2. PICK q \in DOMAIN f.hooks : g = f.hooks[q]
        BY <3>1, <4>1 DEF ToSet
      <4>3. q \in DOMAIN hookEntries(f) /\ hookEntries(f)[q].boundary
        BY <2>1, <4>1, <4>2, HookEntriesSeq
      <4>4. PICK k \in DOMAIN r.files : r.files[k] = f
        BY <4>1, ReadSettingsFile
      <4>5. PICK l \in DOMAIN r.entries : r.entries[l] = hookEntries(f)[q]
        BY <4>3, <4>4 DEF ReadAll, EntriesOk
      <4>6. l \in Registrations(r.entries)
        BY <4>3, <4>5 DEF Registrations
      <4> QED BY <1>6, <4>6
    <3>2. ASSUME NEW p \in ToSet(i.plugins), g \in ToSet(p.manifest.hooks) PROVE FALSE
      <4>1. PICK f : f = p.manifest /\ SettingsFile(f)
        BY DEF Machine
      <4>2. PICK q \in DOMAIN f.hooks : g = f.hooks[q]
        BY <3>2, <4>1 DEF ToSet
      <4>3. PICK e : e = hookEntries(f)[q] /\ q \in DOMAIN hookEntries(f) /\ e.boundary
        BY <2>1, <4>1, <4>2, HookEntriesSeq
      <4>4. PICK k \in DOMAIN i.plugins : p = i.plugins[k]
        BY DEF ToSet
      <4>5. k \in pluginHookManifests(i)
        BY <4>4 DEF HiddenPlugin
      <4>6. e \in ToSet(hookEntries(i.plugins[k].manifest))
        BY <4>1, <4>3, <4>4 DEF ToSet
      <4>7. e \in PluggedOf(i)
        BY <4>5, <4>6 DEF PluggedOf
      <4> QED BY <1>6, <4>3, <4>7 DEF ReadAll
    <3> QED BY <2>1, <3>1, <3>2, RunningHook
  <2> QED BY <2>1 DEF VisiblyRouted
<1> QED BY <1>2, <1>3, <1>4, <1>5, <1>6

\* A clean one: a recent routed call, every governed tool routed, or something unread.
LEMMA GradedOk ==
  ASSUME NEW i, Machine(i), NEW r, ReadAll(r, i), NEW at, registrationCheck(r, at) = "ok"
  PROVE  fresh(r.routed, at) \/ RoutedTools(i) = Governed \/ ~ManagedRead(i.managed) \/ HiddenSettings(i)
<1> SUFFICES ASSUME ~fresh(r.routed, at), ManagedRead(i.managed), ~HiddenSettings(i)
             PROVE  RoutedTools(i) = Governed
  OBVIOUS
<1>1. /\ ~r.managed.disable /\ ~r.managed.only
      /\ \A k \in DOMAIN r.files : ~(r.files[k].state = "valid" /\ r.files[k].disable)
      /\ coveredTools(r.entries) = Governed
  BY DEF registrationCheck, ReadAll
<1>2. ~Disabled(i)
  <2>1. ASSUME NEW s \in DOMAIN i.settings PROVE ~i.settings[s].disable
    <3>1. PICK k \in DOMAIN r.files : r.files[k] = i.settings[s]
      BY ReadSettingsFile
    <3>2. SettingsFile(i.settings[s])
      BY DEF Machine
    <3> QED BY <1>1, <3>1, <3>2 DEF SettingsFile
  <2> QED BY <1>1, <2>1 DEF Disabled, ReadAll
<1>3. ASSUME NEW h \in Running(i) PROVE matcherTools(h.matcher) \subseteq Governed
  <2>1. PICK f : SettingsFile(f) /\ h \in ToSet(f.hooks)
    <3>1. CASE \E s \in DOMAIN i.settings : h \in ToSet(i.settings[s].hooks)
      BY <3>1 DEF Machine
    <3>2. CASE \E p \in ToSet(i.plugins) : h \in ToSet(p.manifest.hooks)
      BY <3>2 DEF Machine
    <3> QED BY <3>1, <3>2, RunningHook
  <2>2. h.matcher.tools \subseteq Governed
    BY <2>1 DEF SettingsFile
  <2> QED BY <2>2 DEF matcherTools
<1>4. ASSUME NEW t \in Governed PROVE t \in RoutedTools(i)
  <2>1. PICK l \in Registrations(r.entries) : t \in r.entries[l].tools
    BY <1>1 DEF coveredTools
  <2>2. PICK j \in DOMAIN r.files : \E q \in DOMAIN hookEntries(r.files[j]) : r.entries[l] = hookEntries(r.files[j])[q]
    BY <2>1 DEF ReadAll, EntriesOk, Registrations
  <2>3. PICK s \in DOMAIN i.settings : r.files[j] = i.settings[s]
    BY ReadFileOf
  <2>4. PICK f : f = i.settings[s] /\ SettingsFile(f)
    BY DEF Machine
  <2>5. PICK q \in DOMAIN hookEntries(f) : r.entries[l] = hookEntries(f)[q]
    BY <2>2, <2>3, <2>4
  <2>6. PICK h : h = f.hooks[q] /\ q \in DOMAIN f.hooks
    BY <2>4, <2>5, HookEntriesSeq
  <2>7. IsBoundaryHookCommand(h.command) /\ t \in matcherTools(h.matcher)
    <3>1. r.entries[l].boundary /\ t \in r.entries[l].tools
      BY <2>1 DEF Registrations
    <3> QED BY <2>4, <2>5, <2>6, <3>1, HookEntriesSeq
  <2>8. h \in ToSet(f.hooks)
    BY <2>6 DEF ToSet
  <2>9. h \in Running(i) /\ h.command # "peer"
    BY <1>2, <2>4, <2>7, <2>8, RunningHook DEF IsBoundaryHookCommand
  <2> QED BY <2>7, <2>9 DEF RoutedTools
<1>5. RoutedTools(i) \subseteq Governed
  BY <1>3 DEF RoutedTools
<1> QED BY <1>4, <1>5

-----------------------------------------------------------------------------
(* The invariant. *)

DoctorFields ==
  {"pc", "files", "entries", "plugged", "managed", "routed", "states", "private", "graded", "status",
   "seen", "edited", "blocked", "sink"}

\* Machines that differ at most in their settings, their policy and what is enabled.
Alike(i, j) ==
  /\ i.resolved = j.resolved /\ DOMAIN i.plugins = DOMAIN j.plugins
  /\ \A k \in DOMAIN i.plugins :
       /\ i.plugins[k].root = j.plugins[k].root /\ i.plugins[k].marker = j.plugins[k].marker
       /\ i.plugins[k].manifest = j.plugins[k].manifest

\* What a doctor has read is of machine i, and what it has yet to read there is as it is now.
ReadSoFar(r, i) ==
  /\ FilesRead(r.files, i) /\ EntriesOk(r.files, r.entries)
  /\ r.pc # "settings" => Len(r.files) = Len(hookSettingsScopes(i))
  /\ r.pc \in {"managed", "log", "grade"} => r.plugged = PluggedOf(i)
  /\ r.pc \in {"log", "grade"} => r.managed = i.managed

ToRead(r, i) ==
  /\ Alike(i, inst) /\ i.managed = inst.managed
  /\ \A k \in DOMAIN hookSettingsScopes(i) :
       k > Len(r.files) => i.settings[hookSettingsScopes(i)[k]] = inst.settings[hookSettingsScopes(i)[k]]

SeenOk(r) ==
  r.pc \in Reading => inst \in r.seen /\ (r.edited = 0 => r.seen = {inst})

ReadingOk(r) ==
  r.pc \in Reading \cup {"log", "grade"} /\ r.edited < 2 =>
    \E i \in r.seen : Machine(i) /\ ReadSoFar(r, i) /\ (r.pc \in Reading => ToRead(r, i))

RoutedOk(r) ==
  r.pc = "grade" /\ r.routed > 0 => \E k \in DOMAIN lines : lines[k].kind = "routed" /\ lines[k].at = r.routed

\* What a grade without a complaint, and one with the worst, tells of the machines seen.
Clean(r) ==
  \/ \E k \in DOMAIN lines : lines[k].kind = "routed" /\ r.graded - lines[k].at <= RoutedEvidenceWindow
  \/ \E i \in r.seen : RoutedTools(i) = Governed \/ ~ManagedRead(i.managed) \/ HiddenSettings(i)

GradeOk(r) ==
  r.pc \in {"directory", "create", "fill", "remove", "records", "done"} /\ r.edited < 2 =>
    /\ r.states \subseteq {"ok"} => Clean(r)
    /\ "broken" \in r.states =>
         (\E i \in r.seen : Faulty(i)) \/ (r.pc \in {"records", "done"} /\ (~r.sink \/ r.blocked))

StatusOk(r) ==
  /\ r.pc \in {"records", "done"} /\ r.states \subseteq {"ok"} => r.sink
  /\ r.pc = "done" => /\ r.status = "ok" => r.states \subseteq {"ok"}
                      /\ r.status = "broken" => "broken" \in r.states

ProbeOk(r) ==
  /\ r.pc \in {"create", "fill", "remove"} => recordDir.kind = "directory" /\ ~recordDir.linked
  /\ r.pc = "remove" => recordDir.space

DoctorOk(r) ==
  /\ DOMAIN r = DoctorFields /\ r.edited \in Nat
  /\ SeenOk(r) /\ ReadingOk(r) /\ RoutedOk(r) /\ GradeOk(r) /\ StatusOk(r) /\ ProbeOk(r)

MarkerOk ==
  marker # "none" =>
    /\ marker \in Doctors
    /\ \/ doctor[marker].pc \in Probing \cup {"killed"}
       \/ doctor[marker].blocked /\ doctor[marker].pc \in {"records", "done"}

LogOk ==
  /\ now \in Nat /\ \E S : lines \in Seq(S)
  /\ \A k \in DOMAIN lines : lines[k].at \in 0..now

DirectoryOk ==
  /\ DOMAIN recordDir = {"kind", "linked", "space", "private"}
  /\ recordDir.kind \in {"absent", "directory", "symlink", "file", "unstatable"}

\* Invariant: what the doctors read, graded and found so far is true of a machine they saw.
HdInv ==
  /\ Machine(inst) /\ DirectoryOk /\ LogOk
  /\ DOMAIN doctor = Doctors /\ \A d \in Doctors : DoctorOk(doctor[d])
  /\ MarkerOk

\* A doctor that has not started, or was killed, claims nothing.
LEMMA WaitingOk ==
  ASSUME NEW r, DOMAIN r = DoctorFields, r.edited = 0, r.pc \in {"idle", "killed"}
  PROVE  DoctorOk(r)
BY DEF DoctorOk, SeenOk, ReadingOk, RoutedOk, GradeOk, StatusOk, ProbeOk, Reading

\* Before any doctor starts.
LEMMA HdInitInv ==
  ASSUME NEW machines \in SUBSET Installations, HdInit(machines)
  PROVE  HdInv
<1>1. PICK machine \in Installations : inst = machine.inst /\ recordDir = machine.dir
  BY DEF HdInit
<1>2. Machine(inst) /\ DirectoryOk
  BY <1>1, InstallationsAssumption DEF DirectoryOk
<1>3. PICK w : w = Waiting
  OBVIOUS
<1>4. DOMAIN w = DoctorFields /\ w.edited = 0 /\ w.pc = "idle"
  BY <1>3 DEF Waiting, DoctorFields
<1>5. DoctorOk(w)
  BY <1>4, WaitingOk
<1>6. DOMAIN doctor = Doctors /\ \A d \in Doctors : doctor[d] = w
  BY <1>3 DEF HdInit
<1>7. LogOk
  <2>1. lines = <<>> /\ now = 1
    BY DEF HdInit
  <2>2. lines \in Seq({}) /\ DOMAIN lines = {}
    BY <2>1
  <2> QED BY <2>1, <2>2 DEF LogOk
<1>8. MarkerOk
  BY DEF HdInit, MarkerOk
<1> QED BY <1>2, <1>5, <1>6, <1>7, <1>8 DEF HdInv

\* What is so of a doctor stays so while the log grows and the directory comes to be.
LEMMA DoctorKept ==
  ASSUME NEW r, DoctorOk(r), inst' = inst,
         \A k \in DOMAIN lines : k \in DOMAIN lines' /\ lines'[k] = lines[k],
         recordDir'.linked = recordDir.linked, recordDir'.space = recordDir.space,
         recordDir.kind = "directory" => recordDir'.kind = "directory"
  PROVE  DoctorOk(r)'
<1>1. SeenOk(r)'
  BY DEF DoctorOk, SeenOk
<1>2. ReadingOk(r)'
  BY DEF DoctorOk, ReadingOk, ToRead
<1>3. RoutedOk(r)'
  BY DEF DoctorOk, RoutedOk
<1>4. Clean(r) => Clean(r)'
  BY DEF Clean
<1>5. GradeOk(r)'
  BY <1>4 DEF DoctorOk, GradeOk
<1>6. ProbeOk(r)'
  BY DEF DoctorOk, ProbeOk
<1> QED BY <1>1, <1>2, <1>3, <1>5, <1>6 DEF DoctorOk, StatusOk

\* A step of one doctor.
LEMMA DoctorStep ==
  ASSUME HdInv, NEW d \in Doctors, NEW n, doctor' = [doctor EXCEPT ![d] = n], DoctorOk(n),
         UNCHANGED <<inst, recordDir, lines, now>>,
         \/ /\ marker' = marker
            /\ marker = d /\ d # "none" => \/ n.pc \in Probing \cup {"killed"}
                                           \/ n.blocked /\ n.pc \in {"records", "done"}
         \/ marker' = "none"
         \/ marker' = d /\ n.pc \in Probing
  PROVE  HdInv'
<1>1. /\ DOMAIN doctor' = Doctors /\ doctor'[d] = n
      /\ \A e \in Doctors : e # d => doctor'[e] = doctor[e]
  BY DEF HdInv
<1>2. ASSUME NEW e \in Doctors PROVE DoctorOk(doctor[e])'
  <2>1. PICK r : r = doctor'[e] /\ DoctorOk(r)
    BY <1>1 DEF HdInv
  <2>2. DoctorOk(r)'
    BY <2>1, DoctorKept
  <2> QED BY <2>1, <2>2
<1>3. MarkerOk'
  <2>1. CASE marker' = marker /\ (marker # d \/ d = "none")
    BY <1>1, <2>1 DEF HdInv, MarkerOk
  <2>2. CASE marker' = d
    BY <1>1, <2>2 DEF MarkerOk, HdInv
  <2>3. CASE marker' = "none"
    BY <2>3 DEF MarkerOk
  <2> QED BY <2>1, <2>2, <2>3
<1>4. Machine(inst)' /\ DirectoryOk' /\ LogOk'
  BY DEF HdInv, DirectoryOk, LogOk
<1> QED BY <1>1, <1>2, <1>3, <1>4 DEF HdInv

-----------------------------------------------------------------------------
(* The doctor's steps. *)

\* A doctor past its grade that concludes nothing new.
LEMMA Proceeding ==
  ASSUME NEW r, DoctorOk(r), r.pc \in {"directory", "create", "fill", "remove"},
         NEW n, DOMAIN n = DoctorFields, n.states = r.states, n.seen = r.seen, n.edited = r.edited,
         n.graded = r.graded, n.pc \in {"create", "fill", "remove"}, ProbeOk(n)
  PROVE  DoctorOk(n)
<1>1. GradeOk(n)
  <2>1. Clean(r) => Clean(n)
    BY DEF Clean
  <2> QED BY <2>1 DEF DoctorOk, GradeOk
<1>2. SeenOk(n) /\ ReadingOk(n) /\ RoutedOk(n) /\ StatusOk(n)
  BY DEF SeenOk, ReadingOk, RoutedOk, StatusOk, Reading
<1> QED BY <1>1, <1>2 DEF DoctorOk

\* The directory check's answer, which agrees with the sink.
LEMMA Establishing ==
  ASSUME NEW r, DoctorOk(r), r.pc \in {"directory", "create", "fill", "remove"},
         NEW state, state = "ok" => SinkAccepts(recordDir),
         NEW n, DOMAIN n = DoctorFields, n.states = r.states \cup {state}, n.seen = r.seen,
         n.edited = r.edited, n.graded = r.graded, n.pc = "records",
         state = "ok" => n.sink, state = "broken" => ~n.sink \/ n.blocked
  PROVE  DoctorOk(n)
<1>1. Clean(r) => Clean(n)
  BY DEF Clean
<1>2. GradeOk(n)
  <2>1. n.states \subseteq {"ok"} => r.states \subseteq {"ok"}
    OBVIOUS
  <2>2. "broken" \in n.states => "broken" \in r.states \/ state = "broken"
    OBVIOUS
  <2> QED BY <1>1, <2>1, <2>2 DEF DoctorOk, GradeOk
<1>3. StatusOk(n)
  <2>1. n.states \subseteq {"ok"} => state = "ok"
    OBVIOUS
  <2> QED BY <2>1 DEF StatusOk
<1>4. SeenOk(n) /\ ReadingOk(n) /\ RoutedOk(n) /\ ProbeOk(n)
  BY DEF SeenOk, ReadingOk, RoutedOk, ProbeOk, Reading
<1> QED BY <1>2, <1>3, <1>4 DEF DoctorOk

\* The fields of a doctor that has an answer for the directory.
LEMMA EstablishedFields ==
  ASSUME NEW d, NEW state, DOMAIN doctor[d] = DoctorFields, NEW n, n = Established(d, state)
  PROVE  /\ DOMAIN n = DoctorFields /\ n.states = doctor[d].states \cup {state}
         /\ n.seen = doctor[d].seen /\ n.edited = doctor[d].edited /\ n.graded = doctor[d].graded
         /\ n.pc = "records" /\ n.sink = SinkAccepts(recordDir)
<1>1. PICK r, g, s : r = doctor[d] /\ g = Goto(d, "records") /\ s = SinkAccepts(recordDir)
  OBVIOUS
<1>2. g = [r EXCEPT !.pc = "records"]
  BY <1>1 DEF Goto
<1>3. /\ DOMAIN g = DoctorFields /\ g.states = r.states /\ g.seen = r.seen /\ g.edited = r.edited
      /\ g.graded = r.graded /\ g.pc = "records"
  BY <1>1, <1>2 DEF DoctorFields
<1>4. n = [g EXCEPT !.states = @ \cup {state}, !.sink = s]
  BY <1>1 DEF Established
<1>5. /\ DOMAIN n = DoctorFields /\ n.states = g.states \cup {state} /\ n.seen = g.seen
      /\ n.edited = g.edited /\ n.graded = g.graded /\ n.pc = g.pc /\ n.sink = s
  BY <1>3, <1>4 DEF DoctorFields
<1> QED BY <1>1, <1>3, <1>5

\* The fields of a doctor that only moves on.
LEMMA GotoFields ==
  ASSUME NEW d, NEW pc, DOMAIN doctor[d] = DoctorFields, NEW n, n = Goto(d, pc)
  PROVE  /\ DOMAIN n = DoctorFields /\ n.pc = pc
         /\ n.files = doctor[d].files /\ n.entries = doctor[d].entries
         /\ n.plugged = doctor[d].plugged /\ n.managed = doctor[d].managed
         /\ n.routed = doctor[d].routed /\ n.states = doctor[d].states
         /\ n.graded = doctor[d].graded /\ n.seen = doctor[d].seen /\ n.edited = doctor[d].edited
         /\ n.blocked = doctor[d].blocked /\ n.sink = doctor[d].sink /\ n.status = doctor[d].status
BY DEF Goto, DoctorFields

\* A doctor starts: it has seen the machine as it is.
LEMMA HdStart ==
  ASSUME HdInv, NEW d \in Doctors, StartDoctor(d)
  PROVE  HdInv'
<1>1. PICK w, n : w = Waiting /\ n = [w EXCEPT !.pc = "settings", !.seen = {inst}]
  OBVIOUS
<1>2. /\ DOMAIN w = DoctorFields /\ w.files = <<>> /\ w.entries = <<>> /\ w.edited = 0
  BY <1>1 DEF Waiting, DoctorFields
<1>3. /\ DOMAIN n = DoctorFields /\ n.files = <<>> /\ n.entries = <<>> /\ n.edited = 0
      /\ n.pc = "settings" /\ n.seen = {inst}
  BY <1>1, <1>2 DEF DoctorFields
<1>4. ReadSoFar(n, inst) /\ ToRead(n, inst) /\ Machine(inst)
  <2>1. hookSettingsScopes(inst) \in Seq(SettingsNames)
    BY ScopesOf DEF HdInv, Machine
  <2>2. <<>> \in Seq({}) /\ DOMAIN <<>> = {} /\ Len(<<>>) = 0
    OBVIOUS
  <2>3. FilesRead(<<>>, inst) /\ EntriesOk(<<>>, <<>>)
    BY <2>1, <2>2 DEF FilesRead, EntriesOk
  <2> QED BY <1>3, <2>3 DEF ReadSoFar, ToRead, Alike, HdInv
<1>5. DoctorOk(n)
  BY <1>3, <1>4 DEF DoctorOk, SeenOk, ReadingOk, RoutedOk, GradeOk, StatusOk, ProbeOk
<1>6. /\ doctor' = [doctor EXCEPT ![d] = n] /\ UNCHANGED <<inst, recordDir, lines, marker, now>>
  BY <1>1 DEF StartDoctor
<1>7. marker # d \/ d = "none"
  <2>1. doctor[d].pc = "idle"
    BY DEF StartDoctor
  <2> QED BY <2>1 DEF HdInv, MarkerOk, Probing
<1> QED BY <1>5, <1>6, <1>7, DoctorStep

\* Machines that are alike have the same scopes and show the same plugins.
LEMMA AlikePlugged ==
  ASSUME NEW i, NEW j, Alike(i, j)
  PROVE  PluggedOf(i) = PluggedOf(j) /\ hookSettingsScopes(i) = hookSettingsScopes(j)
<1>1. PICK I, J : I = pluginHookManifests(i) /\ J = pluginHookManifests(j)
  OBVIOUS
<1>2. {k \in DOMAIN i.plugins : /\ i.plugins[k].root \in i.resolved /\ i.plugins[k].marker
                                /\ i.plugins[k].manifest.state # "absent"}
      = {k \in DOMAIN j.plugins : /\ j.plugins[k].root \in j.resolved /\ j.plugins[k].marker
                                  /\ j.plugins[k].manifest.state # "absent"}
  BY DEF Alike
<1>3. I = J
  BY <1>1, <1>2 DEF pluginHookManifests
<1>4. I \subseteq DOMAIN i.plugins
  BY <1>1 DEF pluginHookManifests
<1>5. \A k \in I : i.plugins[k].manifest = j.plugins[k].manifest
  BY <1>4 DEF Alike
<1>6. UNION {ToSet(hookEntries(i.plugins[k].manifest)) : k \in I}
      = UNION {ToSet(hookEntries(j.plugins[k].manifest)) : k \in I}
  BY <1>5
<1>7. PluggedOf(i) = PluggedOf(j)
  BY <1>1, <1>3, <1>6 DEF PluggedOf
<1> QED BY <1>7 DEF hookSettingsScopes, Alike

\* A doctor that has come to read on, whatever it had read.
LEMMA Reads ==
  ASSUME HdInv, NEW d \in Doctors, doctor[d].pc \in Reading, NEW n,
         doctor' = [doctor EXCEPT ![d] = n], UNCHANGED <<inst, recordDir, lines, marker, now>>,
         DOMAIN n = DoctorFields, n.seen = doctor[d].seen, n.edited = doctor[d].edited,
         n.pc \in {"settings", "plugins", "managed", "log"},
         \A i : Machine(i) /\ ReadSoFar(doctor[d], i) /\ ToRead(doctor[d], i)
                  => ReadSoFar(n, i) /\ (n.pc \in Reading => ToRead(n, i))
  PROVE  HdInv'
<1>1. PICK r : r = doctor[d] /\ DoctorOk(r)
  BY DEF HdInv
<1>2. SeenOk(n)
  BY <1>1 DEF DoctorOk, SeenOk
<1>3. ReadingOk(n)
  <2> SUFFICES ASSUME n.edited < 2
               PROVE  \E i \in n.seen : Machine(i) /\ ReadSoFar(n, i) /\ (n.pc \in Reading => ToRead(n, i))
    BY DEF ReadingOk
  <2>1. PICK i \in r.seen : Machine(i) /\ ReadSoFar(r, i) /\ ToRead(r, i)
    BY <1>1 DEF DoctorOk, ReadingOk
  <2> QED BY <1>1, <2>1
<1>4. RoutedOk(n) /\ GradeOk(n) /\ StatusOk(n) /\ ProbeOk(n)
  BY DEF RoutedOk, GradeOk, StatusOk, ProbeOk
<1>5. DoctorOk(n)
  BY <1>1, <1>2, <1>3, <1>4 DEF DoctorOk
<1>6. marker # d \/ d = "none"
  BY DEF HdInv, MarkerOk, Probing, Reading
<1> QED BY <1>5, <1>6, DoctorStep

\* It reads the next scope, or turns to the plugins.
LEMMA HdReadSettings ==
  ASSUME HdInv, NEW d \in Doctors, ReadSettings(d)
  PROVE  HdInv'
<1>1. PICK r : r = doctor[d] /\ DOMAIN r = DoctorFields /\ r.pc = "settings"
  BY DEF HdInv, DoctorOk, ReadSettings
<1>2. PICK sc, at : sc = hookSettingsScopes(inst) /\ at = Len(r.files) + 1
  OBVIOUS
<1>3. sc \in Seq(SettingsNames)
  BY <1>2, ScopesOf DEF HdInv, Machine
<1>4. PICK f, e : f = inst.settings[sc[at]] /\ e = hookEntries(f)
  OBVIOUS
<1>5. PICK n : n = IF at > Len(sc) THEN Goto(d, "plugins")
                   ELSE [r EXCEPT !.files = Append(@, f), !.entries = @ \o e]
  OBVIOUS
<1>6. /\ doctor' = [doctor EXCEPT ![d] = n] /\ UNCHANGED <<inst, recordDir, lines, marker, now>>
  BY <1>1, <1>2, <1>4, <1>5 DEF ReadSettings
<1>7. CASE at > Len(sc)
  <2>1. /\ DOMAIN n = DoctorFields /\ n.pc = "plugins" /\ n.files = r.files /\ n.entries = r.entries
        /\ n.seen = r.seen /\ n.edited = r.edited
    BY <1>1, <1>5, <1>7, GotoFields
  <2>2. ASSUME NEW i, Machine(i), ReadSoFar(r, i), ToRead(r, i)
        PROVE  ReadSoFar(n, i) /\ ToRead(n, i)
    <3>1. hookSettingsScopes(i) = sc
      BY <1>2, <2>2, AlikePlugged DEF ToRead
    <3>2. PICK fs, S : fs = r.files /\ fs \in Seq(S) /\ Len(fs) <= Len(sc)
      BY <2>2, <3>1 DEF ReadSoFar, FilesRead
    <3>3. Len(r.files) = Len(sc)
      BY <1>2, <1>3, <1>7, <3>2
    <3> QED BY <2>1, <2>2, <3>1, <3>3 DEF ReadSoFar, ToRead
  <2> QED BY <1>1, <1>6, <2>1, <2>2, Reads DEF Reading
<1>8. CASE ~(at > Len(sc))
  <2>1. n = [r EXCEPT !.files = Append(r.files, f), !.entries = r.entries \o e]
    BY <1>5, <1>8
  <2>2. /\ DOMAIN n = DoctorFields /\ n.pc = "settings" /\ n.files = Append(r.files, f)
        /\ n.entries = r.entries \o e /\ n.seen = r.seen /\ n.edited = r.edited
    BY <1>1, <2>1 DEF DoctorFields
  <2>3. ASSUME NEW i, Machine(i), ReadSoFar(r, i), ToRead(r, i)
        PROVE  ReadSoFar(n, i) /\ ToRead(n, i)
    <3>1. hookSettingsScopes(i) = sc
      BY <1>2, <2>3, AlikePlugged DEF ToRead
    <3>2. PICK fs : fs = r.files
      OBVIOUS
    <3>3. PICK S : fs \in Seq(S)
      BY <2>3, <3>2 DEF ReadSoFar, FilesRead
    <3>4. PICK m \in Nat : m = Len(fs) /\ DOMAIN fs = 1..m /\ at = m + 1
      BY <1>2, <3>2, <3>3
    <3>5. PICK gs : gs = Append(fs, f)
      OBVIOUS
    <3>6. /\ gs \in Seq(S \cup {f}) /\ Len(gs) = m + 1 /\ DOMAIN gs = 1..(m + 1)
          /\ gs[m + 1] = f /\ \A k \in 1..m : gs[k] = fs[k]
      BY <3>3, <3>4, <3>5
    <3>7. at \in DOMAIN sc /\ m + 1 <= Len(sc) /\ sc[at] \in SettingsNames
      BY <1>3, <1>8, <3>4
    <3>8. i.settings[sc[at]] = f
      BY <1>4, <2>3, <3>1, <3>2, <3>4, <3>7 DEF ToRead
    <3>9. FilesRead(gs, i)
      <4>1. \A k \in 1..m : fs[k] = i.settings[sc[k]]
        BY <2>3, <3>1, <3>2, <3>4 DEF ReadSoFar, FilesRead
      <4>2. \A k \in 1..(m + 1) : gs[k] = i.settings[sc[k]]
        BY <3>4, <3>6, <3>8, <4>1
      <4> QED BY <3>1, <3>6, <3>7, <4>2 DEF FilesRead
    <3>10. EntriesOk(gs, r.entries \o e)
      <4>1. SettingsFile(f)
        BY <1>4, <3>7 DEF HdInv, Machine, SettingsNames
      <4>2. EntriesOk(fs, r.entries)
        BY <2>3, <3>2 DEF ReadSoFar
      <4> QED BY <1>4, <3>3, <3>5, <4>1, <4>2, EntriesMore
    <3>11. ReadSoFar(n, i)
      BY <2>2, <3>2, <3>5, <3>9, <3>10 DEF ReadSoFar
    <3>12. ToRead(n, i)
      <4>1. \A k \in DOMAIN sc : k > m + 1 => i.settings[sc[k]] = inst.settings[sc[k]]
        <5>1. \A k \in DOMAIN sc : k > m => i.settings[sc[k]] = inst.settings[sc[k]]
          BY <2>3, <3>1, <3>2, <3>4 DEF ToRead
        <5>2. \A k \in DOMAIN sc : k \in Nat
          BY <1>3
        <5> QED BY <5>1, <5>2, <3>4
      <4> QED BY <2>2, <2>3, <3>1, <3>2, <3>5, <3>6, <4>1 DEF ToRead
    <3> QED BY <3>11, <3>12
  <2> QED BY <1>1, <1>6, <2>2, <2>3, Reads DEF Reading
<1> QED BY <1>7, <1>8

\* It reads the plugins' manifests.
LEMMA HdReadPlugins ==
  ASSUME HdInv, NEW d \in Doctors, readPluginHookManifests(d)
  PROVE  HdInv'
<1>1. PICK r : r = doctor[d] /\ DOMAIN r = DoctorFields /\ r.pc = "plugins"
  BY DEF HdInv, DoctorOk, readPluginHookManifests
<1>2. PICK g, p : g = Goto(d, "managed") /\ p = PluggedOf(inst)
  OBVIOUS
<1>3. PICK n : n = [g EXCEPT !.plugged = p]
  OBVIOUS
<1>4. /\ doctor' = [doctor EXCEPT ![d] = n] /\ UNCHANGED <<inst, recordDir, lines, marker, now>>
  BY <1>2, <1>3 DEF readPluginHookManifests, PluggedOf
<1>5. /\ DOMAIN g = DoctorFields /\ g.pc = "managed" /\ g.files = r.files /\ g.entries = r.entries
      /\ g.seen = r.seen /\ g.edited = r.edited
  BY <1>1, <1>2, GotoFields
<1>6. /\ DOMAIN n = DoctorFields /\ n.pc = "managed" /\ n.files = r.files /\ n.entries = r.entries
      /\ n.seen = r.seen /\ n.edited = r.edited /\ n.plugged = p
  BY <1>3, <1>5 DEF DoctorFields
<1>7. ASSUME NEW i, Machine(i), ReadSoFar(r, i), ToRead(r, i)
      PROVE  ReadSoFar(n, i) /\ ToRead(n, i)
  <2>1. PluggedOf(i) = p
    BY <1>2, <1>7, AlikePlugged DEF ToRead
  <2> QED BY <1>1, <1>6, <1>7, <2>1 DEF ReadSoFar, ToRead
<1> QED BY <1>1, <1>4, <1>6, <1>7, Reads DEF Reading

\* It reads the managed policy.
LEMMA HdReadManaged ==
  ASSUME HdInv, NEW d \in Doctors, readManagedSettings(d)
  PROVE  HdInv'
<1>1. PICK r : r = doctor[d] /\ DOMAIN r = DoctorFields /\ r.pc = "managed"
  BY DEF HdInv, DoctorOk, readManagedSettings
<1>2. PICK g : g = Goto(d, "log")
  OBVIOUS
<1>3. PICK n : n = [g EXCEPT !.managed = inst.managed]
  OBVIOUS
<1>4. /\ doctor' = [doctor EXCEPT ![d] = n] /\ UNCHANGED <<inst, recordDir, lines, marker, now>>
  BY <1>2, <1>3 DEF readManagedSettings
<1>5. /\ DOMAIN g = DoctorFields /\ g.pc = "log" /\ g.files = r.files /\ g.entries = r.entries
      /\ g.seen = r.seen /\ g.edited = r.edited /\ g.plugged = r.plugged
  BY <1>1, <1>2, GotoFields
<1>6. /\ DOMAIN n = DoctorFields /\ n.pc = "log" /\ n.files = r.files /\ n.entries = r.entries
      /\ n.seen = r.seen /\ n.edited = r.edited /\ n.plugged = r.plugged /\ n.managed = inst.managed
  BY <1>3, <1>5 DEF DoctorFields
<1>7. ASSUME NEW i, Machine(i), ReadSoFar(r, i), ToRead(r, i)
      PROVE  ReadSoFar(n, i)
  BY <1>1, <1>6, <1>7 DEF ReadSoFar, ToRead
<1>8. n.pc \notin Reading
  BY <1>6 DEF Reading
<1> QED BY <1>1, <1>4, <1>6, <1>7, <1>8, Reads DEF Reading

\* A line that counts for the routed evidence stands in the log.
LEMMA RoutedLine ==
  ASSUME LogOk, summarizeRoutedDecisions > 0
  PROVE  \E k \in DOMAIN lines : lines[k].kind = "routed" /\ lines[k].at = summarizeRoutedDecisions
<1>1. PICK S : lines \in Seq(S) /\ now \in Nat
  BY DEF LogOk
<1>2. PICK V : V = {l \in Visited : SessionBearing(l)}
  OBVIOUS
<1>3. PICK A : A = {l.at : l \in V}
  OBVIOUS
<1>4. summarizeRoutedDecisions = IF V = {} THEN 0 ELSE Max(A)
  BY <1>2, <1>3 DEF summarizeRoutedDecisions, Newest
<1>5. ASSUME NEW l \in V PROVE \E k \in DOMAIN lines : lines[k] = l /\ l.kind = "routed"
  <2>1. l \in Visited /\ l.kind = "routed"
    BY <1>2 DEF SessionBearing
  <2>2. PICK n : n = IF Oversized = {} THEN Len(lines) ELSE Min(Oversized) - 1
    OBVIOUS
  <2>3. n \in Nat /\ n <= Len(lines)
    <3>1. Oversized \subseteq 1..Len(lines)
      BY <1>1 DEF Oversized
    <3>2. Oversized # {} => Min(Oversized) \in Oversized
      <4>1. Oversized \subseteq Nat
        BY <3>1
      <4> QED BY <4>1, LeastInIt
    <3>3. Len(lines) \in Nat
      BY <1>1
    <3>4. CASE Oversized = {}
      BY <2>2, <3>3, <3>4
    <3>5. CASE Oversized # {}
      <4>1. PICK m : m = Min(Oversized) /\ m \in 1..Len(lines)
        BY <3>1, <3>2, <3>5
      <4>2. n = m - 1
        BY <2>2, <3>5, <4>1
      <4> QED BY <3>3, <4>1, <4>2
    <3> QED BY <3>4, <3>5
  <2>4. PICK k \in 1..n : l = lines[k]
    BY <2>1, <2>2 DEF Visited
  <2>5. k \in DOMAIN lines
    BY <1>1, <2>3, <2>4
  <2> QED BY <2>1, <2>4, <2>5
<1>6. V # {}
  BY <1>4
<1>7. A \subseteq 0..now /\ A # {}
  BY <1>3, <1>5, <1>6 DEF LogOk
<1>8. Max(A) \in A
  <2>1. \E x \in A : \A y \in A : x >= y
    BY <1>1, <1>7, GreatestIn
  <2>2. Max(A) = CHOOSE x \in A : \A y \in A : x >= y
    BY DEF Max
  <2> QED BY <2>1, <2>2
<1>9. PICK l \in V : l.at = Max(A)
  BY <1>3, <1>8
<1> QED BY <1>4, <1>5, <1>6, <1>9

\* It scans the log for routed decisions.
LEMMA HdScanRouted ==
  ASSUME HdInv, NEW d \in Doctors, ScanRouted(d)
  PROVE  HdInv'
<1>1. PICK r : r = doctor[d] /\ DoctorOk(r) /\ r.pc = "log"
  BY DEF HdInv, ScanRouted
<1>2. PICK g, x : g = Goto(d, "grade") /\ x = summarizeRoutedDecisions
  OBVIOUS
<1>3. PICK n : n = [g EXCEPT !.routed = x]
  OBVIOUS
<1>4. /\ doctor' = [doctor EXCEPT ![d] = n] /\ UNCHANGED <<inst, recordDir, lines, marker, now>>
  BY <1>2, <1>3 DEF ScanRouted
<1>5. /\ DOMAIN g = DoctorFields /\ g.pc = "grade" /\ g.files = r.files /\ g.entries = r.entries
      /\ g.seen = r.seen /\ g.edited = r.edited /\ g.plugged = r.plugged /\ g.managed = r.managed
  BY <1>1, <1>2, GotoFields DEF DoctorOk
<1>6. /\ DOMAIN n = DoctorFields /\ n.pc = "grade" /\ n.files = r.files /\ n.entries = r.entries
      /\ n.seen = r.seen /\ n.edited = r.edited /\ n.plugged = r.plugged /\ n.managed = r.managed
      /\ n.routed = x
  BY <1>3, <1>5 DEF DoctorFields
<1>7. ASSUME NEW i, ReadSoFar(r, i) PROVE ReadSoFar(n, i)
  BY <1>1, <1>6, <1>7 DEF ReadSoFar
<1>8. ReadingOk(n)
  <2> SUFFICES ASSUME n.edited < 2
               PROVE  \E i \in n.seen : Machine(i) /\ ReadSoFar(n, i)
    BY <1>6 DEF ReadingOk, Reading
  <2>1. PICK i \in r.seen : Machine(i) /\ ReadSoFar(r, i)
    BY <1>1, <1>6 DEF DoctorOk, ReadingOk
  <2> QED BY <1>6, <1>7, <2>1
<1>9. RoutedOk(n)
  BY <1>2, <1>6, RoutedLine DEF RoutedOk, HdInv
<1>10. SeenOk(n) /\ GradeOk(n) /\ StatusOk(n) /\ ProbeOk(n)
  BY <1>6 DEF SeenOk, GradeOk, StatusOk, ProbeOk, Reading
<1>11. DoctorOk(n)
  BY <1>1, <1>6, <1>8, <1>9, <1>10 DEF DoctorOk
<1>12. marker # d \/ d = "none"
  BY <1>1 DEF HdInv, MarkerOk, Probing
<1> QED BY <1>4, <1>11, <1>12, DoctorStep

\* It grades what it read.
LEMMA HdGrade ==
  ASSUME HdInv, NEW d \in Doctors, Grade(d)
  PROVE  HdInv'
<1>1. PICK r : r = doctor[d] /\ DoctorOk(r) /\ r.pc = "grade"
  BY DEF HdInv, Grade
<1>2. PICK w, c : w = Waiting /\ c = registrationCheck(r, now)
  OBVIOUS
<1>3. PICK v, p : v = (IF inst.stamped THEN "ok" ELSE "warn") /\ p = peerCheck(r)
  OBVIOUS
<1>4. v # "broken" /\ p # "broken"
  BY <1>3 DEF peerCheck
<1>5. PICK n : n = [w EXCEPT !.pc = "directory", !.seen = r.seen, !.edited = r.edited,
                             !.states = {v, c, p}, !.graded = now]
  OBVIOUS
<1>6. /\ doctor' = [doctor EXCEPT ![d] = n] /\ UNCHANGED <<inst, recordDir, lines, marker, now>>
  BY <1>1, <1>2, <1>3, <1>5 DEF Grade
<1>7. DOMAIN w = DoctorFields
  BY <1>2 DEF Waiting, DoctorFields
<1>8. /\ DOMAIN n = DoctorFields /\ n.pc = "directory" /\ n.seen = r.seen /\ n.edited = r.edited
      /\ n.states = {v, c, p} /\ n.graded = now
  BY <1>5, <1>7 DEF DoctorFields
<1>9. GradeOk(n)
  <2> SUFFICES ASSUME n.edited < 2
               PROVE  /\ c = "ok" => Clean(n)
                      /\ c = "broken" => \E i \in n.seen : Faulty(i)
    BY <1>4, <1>8 DEF GradeOk
  <2>1. PICK i \in r.seen : Machine(i) /\ ReadSoFar(r, i)
    BY <1>1, <1>8 DEF DoctorOk, ReadingOk
  <2>2. ReadAll(r, i)
    BY <1>1, <2>1 DEF ReadSoFar, ReadAll
  <2>3. c = "broken" => Faulty(i)
    BY <1>2, <2>1, <2>2, GradedBroken
  <2>4. ASSUME c = "ok" PROVE Clean(n)
    <3>1. fresh(r.routed, now) \/ RoutedTools(i) = Governed \/ ~ManagedRead(i.managed) \/ HiddenSettings(i)
      BY <1>2, <2>1, <2>2, <2>4, GradedOk
    <3>2. CASE fresh(r.routed, now)
      <4>1. r.routed > 0 /\ now - r.routed <= RoutedEvidenceWindow
        BY <3>2 DEF fresh
      <4>2. PICK k \in DOMAIN lines : lines[k].kind = "routed" /\ lines[k].at = r.routed
        BY <1>1, <4>1 DEF DoctorOk, RoutedOk
      <4> QED BY <1>8, <4>1, <4>2 DEF Clean
    <3> QED BY <1>8, <2>1, <3>1, <3>2 DEF Clean
  <2> QED BY <1>8, <2>1, <2>3, <2>4
<1>10. SeenOk(n) /\ ReadingOk(n) /\ RoutedOk(n) /\ StatusOk(n) /\ ProbeOk(n)
  BY <1>8 DEF SeenOk, ReadingOk, RoutedOk, StatusOk, ProbeOk, Reading
<1>11. DoctorOk(n)
  BY <1>1, <1>8, <1>9, <1>10 DEF DoctorOk
<1>12. marker # d \/ d = "none"
  BY <1>1 DEF HdInv, MarkerOk, Probing
<1> QED BY <1>6, <1>11, <1>12, DoctorStep

\* It looks at the record directory,
LEMMA HdInspect ==
  ASSUME HdInv, NEW d \in Doctors, InspectDirectory(d)
  PROVE  HdInv'
<1>1. PICK r : r = doctor[d] /\ DoctorOk(r) /\ r.pc = "directory" /\ DOMAIN r = DoctorFields
  BY DEF HdInv, InspectDirectory, DoctorOk
<1>2. marker # d \/ d = "none"
  BY <1>1 DEF HdInv, MarkerOk, Probing
<1>3. UNCHANGED <<inst, recordDir, lines, marker, now>>
  BY DEF InspectDirectory
<1>4. ASSUME NEW state \in {"warn", "unknown", "broken"}, doctor' = [doctor EXCEPT ![d] = Established(d, state)],
             state = "broken" => ~SinkAccepts(recordDir)
      PROVE  HdInv'
  <2>1. PICK n : n = Established(d, state)
    OBVIOUS
  <2>2. /\ DOMAIN n = DoctorFields /\ n.states = r.states \cup {state} /\ n.seen = r.seen
        /\ n.edited = r.edited /\ n.graded = r.graded /\ n.pc = "records" /\ n.sink = SinkAccepts(recordDir)
    BY <1>1, <2>1, EstablishedFields
  <2>3. DoctorOk(n)
    BY <1>1, <1>4, <2>2, Establishing
  <2> QED BY <1>2, <1>3, <1>4, <2>1, <2>3, DoctorStep
<1>5. CASE recordDir.kind = "absent"
  BY <1>1, <1>4, <1>5 DEF InspectDirectory
<1>6. CASE recordDir.kind = "unstatable"
  BY <1>1, <1>4, <1>6 DEF InspectDirectory
<1>7. CASE \/ recordDir.kind \in {"symlink", "file"}
           \/ recordDir.linked /\ recordDir.kind \notin {"absent", "unstatable"}
  <2>1. ~SinkAccepts(recordDir)
    BY <1>7 DEF SinkAccepts
  <2> QED BY <1>1, <1>4, <1>7, <2>1 DEF InspectDirectory
<1>8. CASE recordDir.kind = "directory" /\ ~recordDir.linked
  <2>1. PICK g : g = Goto(d, "create")
    OBVIOUS
  <2>2. PICK n : n = [g EXCEPT !.private = recordDir.private]
    OBVIOUS
  <2>3. doctor' = [doctor EXCEPT ![d] = n]
    BY <1>8, <2>1, <2>2 DEF InspectDirectory
  <2>4. /\ DOMAIN g = DoctorFields /\ g.states = r.states /\ g.seen = r.seen
        /\ g.edited = r.edited /\ g.graded = r.graded /\ g.pc = "create"
    BY <1>1, <2>1, GotoFields
  <2>5. /\ DOMAIN n = DoctorFields /\ n.states = r.states /\ n.seen = r.seen
        /\ n.edited = r.edited /\ n.graded = r.graded /\ n.pc = "create"
    BY <2>2, <2>4 DEF DoctorFields
  <2>6. ProbeOk(n)
    BY <1>8, <2>5 DEF ProbeOk
  <2>7. DoctorOk(n)
    BY <1>1, <2>5, <2>6, Proceeding
  <2> QED BY <1>2, <1>3, <2>3, <2>7, DoctorStep
<1> QED BY <1>5, <1>6, <1>7, <1>8 DEF HdInv, DirectoryOk

\* creates its marker there,
LEMMA HdCreate ==
  ASSUME HdInv, NEW d \in Doctors, CreateMarker(d)
  PROVE  HdInv'
<1>1. PICK r : r = doctor[d] /\ DoctorOk(r) /\ r.pc = "create" /\ DOMAIN r = DoctorFields
  BY DEF HdInv, CreateMarker, DoctorOk
<1>2. UNCHANGED <<inst, recordDir, lines, now>>
  BY DEF CreateMarker
<1>3. CASE marker = "none"
  <2>1. PICK n : n = Goto(d, "fill")
    OBVIOUS
  <2>2. doctor' = [doctor EXCEPT ![d] = n] /\ marker' = d
    BY <1>3, <2>1 DEF CreateMarker
  <2>3. /\ DOMAIN n = DoctorFields /\ n.states = r.states /\ n.seen = r.seen
        /\ n.edited = r.edited /\ n.graded = r.graded /\ n.pc = "fill"
    BY <1>1, <2>1, GotoFields
  <2>4. ProbeOk(n)
    BY <1>1, <2>3 DEF DoctorOk, ProbeOk
  <2>5. DoctorOk(n)
    BY <1>1, <2>3, <2>4, Proceeding
  <2>6. n.pc \in Probing
    BY <2>3 DEF Probing
  <2> QED BY <1>2, <2>2, <2>5, <2>6, DoctorStep
<1>4. CASE marker # "none"
  <2>0. PICK m : m = Established(d, "broken")
    OBVIOUS
  <2>1. PICK n : n = [m EXCEPT !.blocked = TRUE]
    OBVIOUS
  <2>2. doctor' = [doctor EXCEPT ![d] = n] /\ marker' = marker
    BY <1>4, <2>0, <2>1 DEF CreateMarker
  <2>3. /\ DOMAIN n = DoctorFields /\ n.states = r.states \cup {"broken"} /\ n.seen = r.seen
        /\ n.edited = r.edited /\ n.graded = r.graded /\ n.pc = "records" /\ n.blocked
    <3>1. /\ DOMAIN m = DoctorFields /\ m.states = r.states \cup {"broken"} /\ m.seen = r.seen
          /\ m.edited = r.edited /\ m.graded = r.graded /\ m.pc = "records"
      BY <1>1, <2>0, EstablishedFields
    <3> QED BY <2>1, <3>1 DEF DoctorFields
  <2>4. DoctorOk(n)
    BY <1>1, <2>3, Establishing
  <2> QED BY <1>2, <2>2, <2>3, <2>4, DoctorStep
<1> QED BY <1>3, <1>4

\* writes it,
LEMMA HdFill ==
  ASSUME HdInv, NEW d \in Doctors, FillMarker(d)
  PROVE  HdInv'
<1>1. PICK r : r = doctor[d] /\ DoctorOk(r) /\ r.pc = "fill" /\ DOMAIN r = DoctorFields
  BY DEF HdInv, FillMarker, DoctorOk
<1>2. UNCHANGED <<inst, recordDir, lines, now>>
  BY DEF FillMarker
<1>3. CASE recordDir.space
  <2>1. PICK n : n = Goto(d, "remove")
    OBVIOUS
  <2>2. doctor' = [doctor EXCEPT ![d] = n] /\ marker' = marker
    BY <1>3, <2>1 DEF FillMarker
  <2>3. /\ DOMAIN n = DoctorFields /\ n.states = r.states /\ n.seen = r.seen
        /\ n.edited = r.edited /\ n.graded = r.graded /\ n.pc = "remove"
    BY <1>1, <2>1, GotoFields
  <2>4. ProbeOk(n)
    BY <1>1, <1>3, <2>3 DEF DoctorOk, ProbeOk
  <2>5. DoctorOk(n)
    BY <1>1, <2>3, <2>4, Proceeding
  <2>6. n.pc \in Probing
    BY <2>3 DEF Probing
  <2> QED BY <1>2, <2>2, <2>5, <2>6, DoctorStep
<1>4. CASE ~recordDir.space
  <2>1. PICK n : n = Established(d, "broken")
    OBVIOUS
  <2>2. doctor' = [doctor EXCEPT ![d] = n] /\ marker' = "none"
    BY <1>4, <2>1 DEF FillMarker
  <2>3. /\ DOMAIN n = DoctorFields /\ n.states = r.states \cup {"broken"} /\ n.seen = r.seen
        /\ n.edited = r.edited /\ n.graded = r.graded /\ n.pc = "records"
        /\ n.sink = SinkAccepts(recordDir)
    BY <1>1, <2>1, EstablishedFields
  <2>4. ~SinkAccepts(recordDir)
    BY <1>4 DEF SinkAccepts
  <2>5. DoctorOk(n)
    BY <1>1, <2>3, <2>4, Establishing
  <2> QED BY <1>2, <2>2, <2>5, DoctorStep
<1> QED BY <1>3, <1>4

\* and removes it again.
LEMMA HdRemove ==
  ASSUME HdInv, NEW d \in Doctors, RemoveMarker(d)
  PROVE  HdInv'
<1>1. PICK r : r = doctor[d] /\ DoctorOk(r) /\ r.pc = "remove" /\ DOMAIN r = DoctorFields
  BY DEF HdInv, RemoveMarker, DoctorOk
<1>2. UNCHANGED <<inst, recordDir, lines, now>>
  BY DEF RemoveMarker
<1>3. SinkAccepts(recordDir)
  BY <1>1 DEF DoctorOk, ProbeOk, SinkAccepts
<1>4. ASSUME marker' = "none",
             doctor' = [doctor EXCEPT ![d] = Established(d, IF doctor[d].private THEN "ok" ELSE "warn")]
      PROVE  HdInv'
  <2>1. PICK state \in {"ok", "warn"} : state = IF doctor[d].private THEN "ok" ELSE "warn"
    OBVIOUS
  <2>2. PICK n : n = Established(d, state)
    OBVIOUS
  <2>3. doctor' = [doctor EXCEPT ![d] = n]
    BY <1>4, <2>1, <2>2
  <2>4. /\ DOMAIN n = DoctorFields /\ n.states = r.states \cup {state} /\ n.seen = r.seen
        /\ n.edited = r.edited /\ n.graded = r.graded /\ n.pc = "records"
        /\ n.sink = SinkAccepts(recordDir)
    BY <1>1, <2>2, EstablishedFields
  <2>5. DoctorOk(n)
    BY <1>1, <1>3, <2>4, Establishing
  <2> QED BY <1>2, <1>4, <2>3, <2>5, DoctorStep
<1>5. ASSUME marker' = marker,
             doctor' = [doctor EXCEPT ![d] = [Established(d, "broken") EXCEPT !.blocked = TRUE]]
      PROVE  HdInv'
  <2>0. PICK m : m = Established(d, "broken")
    OBVIOUS
  <2>1. PICK n : n = [m EXCEPT !.blocked = TRUE]
    OBVIOUS
  <2>2. doctor' = [doctor EXCEPT ![d] = n]
    BY <1>5, <2>0, <2>1
  <2>3. /\ DOMAIN n = DoctorFields /\ n.states = r.states \cup {"broken"} /\ n.seen = r.seen
        /\ n.edited = r.edited /\ n.graded = r.graded /\ n.pc = "records" /\ n.blocked
    <3>1. /\ DOMAIN m = DoctorFields /\ m.states = r.states \cup {"broken"} /\ m.seen = r.seen
          /\ m.edited = r.edited /\ m.graded = r.graded /\ m.pc = "records"
      BY <1>1, <2>0, EstablishedFields
    <3> QED BY <2>1, <3>1 DEF DoctorFields
  <2>4. DoctorOk(n)
    BY <1>1, <2>3, Establishing
  <2> QED BY <1>2, <1>5, <2>2, <2>3, <2>4, DoctorStep
<1> QED BY <1>4, <1>5 DEF RemoveMarker

\* The state that leads a report is the worst of its states.
LEMMA WorstOf ==
  ASSUME NEW S, S # {}
  PROVE  worstState(S) \in S /\ (worstState(S) = "ok" => S \subseteq {"ok"})
<1>1. PICK T : T = {stateRank(s) : s \in S}
  OBVIOUS
<1>2. \A s : stateRank(s) \in 0..3
  BY DEF stateRank
<1>3. T \subseteq 0..3 /\ T # {}
  BY <1>1, <1>2
<1>4. PICK m \in T : \A k \in T : m >= k
  BY <1>3, GreatestIn
<1>5. PICK s \in S : stateRank(s) = m
  BY <1>1, <1>4
<1>6. \A t \in S : stateRank(t) <= stateRank(s)
  BY <1>1, <1>2, <1>4, <1>5
<1>7. worstState(S) \in S /\ \A t \in S : stateRank(t) <= stateRank(worstState(S))
  BY <1>5, <1>6 DEF worstState
<1>8. ASSUME worstState(S) = "ok", NEW t \in S PROVE t = "ok"
  <2>1. stateRank("ok") = 0
    BY DEF stateRank
  <2>2. stateRank(t) = 0
    BY <1>2, <1>7, <1>8, <2>1
  <2> QED BY <2>2 DEF stateRank
<1> QED BY <1>7, <1>8

\* It reports the worst of what it established.
LEMMA HdReport ==
  ASSUME HdInv, NEW d \in Doctors, Report(d)
  PROVE  HdInv'
<1>1. PICK r : r = doctor[d] /\ DoctorOk(r) /\ r.pc = "records" /\ DOMAIN r = DoctorFields
  BY DEF HdInv, Report, DoctorOk
<1>2. PICK c, g : c = recordsCheck(now) /\ g = Goto(d, "done")
  OBVIOUS
<1>3. PICK S : S = r.states \cup {c}
  OBVIOUS
<1>4. PICK x : x = worstState(S)
  OBVIOUS
<1>5. PICK n : n = [g EXCEPT !.status = x]
  OBVIOUS
<1>6. /\ doctor' = [doctor EXCEPT ![d] = n] /\ UNCHANGED <<inst, recordDir, lines, marker, now>>
  BY <1>1, <1>2, <1>3, <1>4, <1>5 DEF Report
<1>7. /\ DOMAIN g = DoctorFields /\ g.states = r.states /\ g.seen = r.seen /\ g.sink = r.sink
      /\ g.edited = r.edited /\ g.graded = r.graded /\ g.pc = "done" /\ g.blocked = r.blocked
  BY <1>1, <1>2, GotoFields
<1>8. /\ DOMAIN n = DoctorFields /\ n.states = r.states /\ n.seen = r.seen /\ n.sink = r.sink
      /\ n.edited = r.edited /\ n.graded = r.graded /\ n.pc = "done" /\ n.blocked = r.blocked
      /\ n.status = x
  BY <1>5, <1>7 DEF DoctorFields
<1>9. c # "broken"
  BY <1>2 DEF recordsCheck
<1>10. x \in S /\ (x = "ok" => S \subseteq {"ok"})
  BY <1>3, <1>4, WorstOf
<1>11. StatusOk(n)
  BY <1>1, <1>3, <1>8, <1>9, <1>10 DEF DoctorOk, StatusOk
<1>12. GradeOk(n)
  <2>1. Clean(r) => Clean(n)
    BY <1>8 DEF Clean
  <2> QED BY <1>1, <1>8, <2>1 DEF DoctorOk, GradeOk
<1>13. SeenOk(n) /\ ReadingOk(n) /\ RoutedOk(n) /\ ProbeOk(n)
  BY <1>8 DEF SeenOk, ReadingOk, RoutedOk, ProbeOk, Reading
<1>14. DoctorOk(n)
  BY <1>1, <1>8, <1>11, <1>12, <1>13 DEF DoctorOk
<1>15. marker = d /\ d # "none" => n.blocked
  BY <1>1, <1>8 DEF HdInv, MarkerOk, Probing
<1> QED BY <1>6, <1>8, <1>14, <1>15, DoctorStep

\* It is killed.
LEMMA HdKill ==
  ASSUME HdInv, NEW d \in Doctors, KillDoctor(d)
  PROVE  HdInv'
<1>1. PICK w, n : w = Waiting /\ n = [w EXCEPT !.pc = "killed"]
  OBVIOUS
<1>2. DOMAIN w = DoctorFields /\ w.edited = 0
  BY <1>1 DEF Waiting, DoctorFields
<1>3. DOMAIN n = DoctorFields /\ n.edited = 0 /\ n.pc = "killed"
  BY <1>1, <1>2 DEF DoctorFields
<1>4. DoctorOk(n)
  BY <1>3, WaitingOk
<1>5. /\ doctor' = [doctor EXCEPT ![d] = n] /\ UNCHANGED <<inst, recordDir, lines, marker, now>>
  BY <1>1 DEF KillDoctor
<1> QED BY <1>3, <1>4, <1>5, DoctorStep

-----------------------------------------------------------------------------
(* The steps of the others. *)

\* A hook appends to the log.
LEMMA HdAppends ==
  ASSUME HdInv, HookAppends
  PROVE  HdInv'
<1>0. PICK kind : lines' = Append(lines, [kind |-> kind, at |-> now])
  BY DEF HookAppends
<1>1. PICK l : l = [kind |-> kind, at |-> now]
  OBVIOUS
<1>2. lines' = Append(lines, l) /\ l.at = now
  BY <1>0, <1>1
<1>3. PICK S : lines \in Seq(S) /\ now \in Nat /\ \A k \in DOMAIN lines : lines[k].at \in 0..now
  BY DEF HdInv, LogOk
<1>4. /\ lines' \in Seq(S \cup {l}) /\ DOMAIN lines = 1..Len(lines) /\ DOMAIN lines' = 1..(Len(lines) + 1)
      /\ lines'[Len(lines) + 1] = l /\ \A k \in DOMAIN lines : lines'[k] = lines[k]
  BY <1>2, <1>3
<1>5. /\ recordDir' = [recordDir EXCEPT !.kind = "directory"]
      /\ UNCHANGED <<inst, marker, now, reconfigured, doctor>>
  BY DEF HookAppends
<1>6. /\ DOMAIN recordDir' = DOMAIN recordDir /\ recordDir'.kind = "directory"
      /\ recordDir'.linked = recordDir.linked /\ recordDir'.space = recordDir.space
  BY <1>5 DEF HdInv, DirectoryOk
<1>7. LogOk'
  <2>1. \A k \in DOMAIN lines' : k \in DOMAIN lines \/ k = Len(lines) + 1
    BY <1>3, <1>4
  <2>2. \A k \in DOMAIN lines' : lines'[k].at \in 0..now
    BY <1>2, <1>3, <1>4, <2>1
  <2> QED BY <1>3, <1>4, <1>5, <2>2 DEF LogOk
<1>8. \A k \in DOMAIN lines : k \in DOMAIN lines' /\ lines'[k] = lines[k]
  BY <1>3, <1>4
<1>9. ASSUME NEW d \in Doctors PROVE DoctorOk(doctor[d])'
  <2>1. PICK r : r = doctor[d] /\ DoctorOk(r)
    BY DEF HdInv
  <2>2. DoctorOk(r)'
    BY <1>5, <1>6, <1>8, <2>1, DoctorKept
  <2> QED BY <1>5, <2>1, <2>2
<1>10. DirectoryOk'
  BY <1>6 DEF HdInv, DirectoryOk
<1> QED BY <1>5, <1>7, <1>9, <1>10 DEF HdInv, MarkerOk

\* Time passes, or someone deletes a marker.
LEMMA HdElsewhere ==
  ASSUME HdInv, Tick \/ DeleteMarker
  PROVE  HdInv'
<1>1. UNCHANGED <<inst, recordDir, lines, doctor>> /\ (now' = now \/ now' = now + 1)
  BY DEF Tick, DeleteMarker
<1>2. ASSUME NEW d \in Doctors PROVE DoctorOk(doctor[d])'
  <2>1. PICK r : r = doctor[d] /\ DoctorOk(r)
    BY DEF HdInv
  <2>2. DoctorOk(r)'
    BY <1>1, <2>1, DoctorKept
  <2> QED BY <1>1, <2>1, <2>2
<1>3. MarkerOk'
  BY <1>1 DEF Tick, DeleteMarker, HdInv, MarkerOk
<1>4. LogOk'
  <2>1. now' \in Nat /\ \A x \in 0..now : x \in 0..now'
    BY <1>1 DEF HdInv, LogOk
  <2> QED BY <1>1, <2>1 DEF HdInv, LogOk
<1> QED BY <1>1, <1>2, <1>3, <1>4 DEF HdInv, DirectoryOk

\* What an edit may do to a machine: change one settings file, or none.
Edited(j) ==
  /\ Machine(j) /\ Alike(inst, j)
  /\ \/ j.settings = inst.settings
     \/ /\ j.managed = inst.managed
        /\ \E s : \A t \in DOMAIN inst.settings : t # s => j.settings[t] = inst.settings[t]

\* The operator's edits are of that kind.
LEMMA EditIsEdited ==
  ASSUME HdInv, EditSettings \/ TogglePlugins \/ TogglePolicy
  PROVE  Edited(inst')
<1>1. Machine(inst)
  BY DEF HdInv
<1>2. PICK j : j = inst'
  OBVIOUS
<1>3. ASSUME NEW s \in DOMAIN inst.settings, NEW f \in SettingsEdits, j = [inst EXCEPT !.settings[s] = f]
      PROVE  Edited(j)
  <2>1. PICK g : g = [inst.settings EXCEPT ![s] = f]
    OBVIOUS
  <2>2. j = [inst EXCEPT !.settings = g]
    BY <1>3, <2>1
  <2>3. /\ DOMAIN j = DOMAIN inst /\ j.settings = g /\ j.plugins = inst.plugins
        /\ j.managed = inst.managed /\ j.resolved = inst.resolved
    BY <1>1, <2>2 DEF Machine
  <2>4. /\ DOMAIN g = DOMAIN inst.settings /\ g[s] = f
        /\ \A t \in DOMAIN inst.settings : t # s => g[t] = inst.settings[t]
    BY <2>1
  <2>5. SettingsFile(f)
    BY InstallationsAssumption
  <2>6. \A t \in DOMAIN g : SettingsFile(g[t])
    BY <1>1, <2>4, <2>5 DEF Machine
  <2>7. Machine(j)
    BY <1>1, <2>3, <2>4, <2>6 DEF Machine
  <2>8. Alike(inst, j)
    BY <2>3 DEF Alike
  <2> QED BY <2>3, <2>4, <2>7, <2>8 DEF Edited
<1>4. ASSUME NEW ps, j = [inst EXCEPT !.plugins = ps],
             ps = [k \in DOMAIN inst.plugins |-> Toggled(inst.plugins[k])]
      PROVE  Edited(j)
  <2>1. /\ DOMAIN j = DOMAIN inst /\ j.settings = inst.settings /\ j.plugins = ps
        /\ j.managed = inst.managed /\ j.resolved = inst.resolved
    BY <1>1, <1>4 DEF Machine
  <2>2. PICK old : old = inst.plugins
    OBVIOUS
  <2>3. PICK S : old \in Seq(S)
    BY <1>1, <2>2 DEF Machine
  <2>4. PICK n \in Nat : DOMAIN old = 1..n
    BY <2>3
  <2>5. DOMAIN ps = 1..n /\ ps = [k \in 1..n |-> ps[k]]
    BY <1>4, <2>2, <2>4
  <2>6. ps \in Seq(ToSet(ps))
    <3>1. \A k \in 1..n : ps[k] \in ToSet(ps)
      BY <2>5 DEF ToSet
    <3>2. ps \in [1..n -> ToSet(ps)]
      BY <2>5, <3>1
    <3> QED BY <3>2
  <2>7. ASSUME NEW k \in 1..n
        PROVE  /\ DOMAIN ps[k] = {"root", "marker", "enabled", "manifest"} /\ SettingsFile(ps[k].manifest)
               /\ ps[k].root = old[k].root /\ ps[k].marker = old[k].marker /\ ps[k].manifest = old[k].manifest
    <3>1. PICK p : p = old[k]
      OBVIOUS
    <3>2. p \in ToSet(inst.plugins)
      BY <2>2, <2>4, <3>1 DEF ToSet
    <3>3. DOMAIN p = {"root", "marker", "enabled", "manifest"} /\ SettingsFile(p.manifest)
      BY <1>1, <3>2 DEF Machine
    <3>4. ps[k] = [p EXCEPT !.enabled = ~@]
      BY <1>4, <2>2, <2>4, <3>1 DEF Toggled
    <3>5. DOMAIN ps[k] = DOMAIN p /\ ps[k].root = p.root /\ ps[k].marker = p.marker /\ ps[k].manifest = p.manifest
      BY <3>3, <3>4
    <3> QED BY <3>1, <3>3, <3>5
  <2>8. ASSUME NEW p \in ToSet(ps)
        PROVE  DOMAIN p = {"root", "marker", "enabled", "manifest"} /\ SettingsFile(p.manifest)
    <3>1. PICK k \in DOMAIN ps : p = ps[k]
      BY DEF ToSet
    <3>2. k \in 1..n
      BY <2>5, <3>1
    <3> QED BY <2>7, <3>1, <3>2
  <2>9. Machine(j)
    BY <1>1, <2>1, <2>6, <2>8 DEF Machine
  <2>10. Alike(inst, j)
    BY <2>1, <2>2, <2>4, <2>5, <2>7 DEF Alike
  <2> QED BY <2>1, <2>9, <2>10 DEF Edited
<1>5. ASSUME j = [inst EXCEPT !.managed.disable = ~@]
      PROVE  Edited(j)
  <2>1. PICK m : m = [inst.managed EXCEPT !.disable = ~@]
    OBVIOUS
  <2>2. j = [inst EXCEPT !.managed = m]
    BY <1>5, <2>1
  <2>3. /\ DOMAIN j = DOMAIN inst /\ j.settings = inst.settings /\ j.plugins = inst.plugins
        /\ j.managed = m /\ j.resolved = inst.resolved
    BY <1>1, <2>2 DEF Machine
  <2>4. DOMAIN m = {"state", "disable", "only"}
    BY <1>1, <2>1 DEF Machine
  <2>5. Machine(j)
    BY <1>1, <2>3, <2>4 DEF Machine
  <2> QED BY <2>3, <2>5 DEF Edited, Alike
<1> QED BY <1>2, <1>3, <1>4, <1>5 DEF EditSettings, TogglePlugins, TogglePolicy

\* One edit while a doctor reads: what it read is of the machine before it, or of the one after.
LEMMA EditedOnce ==
  ASSUME HdInv, NEW j, Edited(j), NEW r, ReadSoFar(r, inst), ToRead(r, inst), r.pc \in Reading
  PROVE  \E i \in {inst, j} :
           /\ Machine(i) /\ ReadSoFar(r, i) /\ Alike(i, j) /\ i.managed = j.managed
           /\ \A k \in DOMAIN hookSettingsScopes(i) :
                k > Len(r.files) => i.settings[hookSettingsScopes(i)[k]] = j.settings[hookSettingsScopes(i)[k]]
<1>1. Machine(inst) /\ Machine(j) /\ Alike(inst, j) /\ Alike(j, j)
  BY DEF HdInv, Edited, Alike
<1>2. PICK sc : sc = hookSettingsScopes(inst) /\ sc = hookSettingsScopes(j)
  BY <1>1, AlikePlugged
<1>3. /\ sc \in Seq(SettingsNames)
      /\ \A k, m \in DOMAIN sc : sc[k] = sc[m] => k = m
  BY <1>1, <1>2, ScopesOf DEF Machine
<1>4. PICK fs : fs = r.files
  OBVIOUS
<1>5. PICK S : fs \in Seq(S) /\ Len(fs) <= Len(sc)
  BY <1>2, <1>4 DEF ReadSoFar, FilesRead
<1>6. DOMAIN inst.settings = SettingsNames
  BY <1>1 DEF Machine, SettingsNames
<1>7. \A k \in DOMAIN sc : sc[k] \in SettingsNames
  BY <1>3
<1>8. \A k \in DOMAIN fs : k \in DOMAIN sc /\ ~(k > Len(fs))
  BY <1>3, <1>5
<1>9. \A k \in DOMAIN fs : fs[k] = inst.settings[sc[k]]
  BY <1>2, <1>4 DEF ReadSoFar, FilesRead
<1>10. ASSUME \A k \in DOMAIN fs : inst.settings[sc[k]] = j.settings[sc[k]]
       PROVE  ReadSoFar(r, j)
  <2>1. \A k \in DOMAIN fs : fs[k] = j.settings[sc[k]]
    BY <1>9, <1>10
  <2>2. FilesRead(fs, j)
    BY <1>2, <1>5, <2>1 DEF FilesRead
  <2>3. PluggedOf(j) = PluggedOf(inst)
    BY <1>1, AlikePlugged
  <2>4. r.pc \notin {"log", "grade"}
    BY DEF Reading
  <2> QED BY <1>2, <1>4, <2>2, <2>3, <2>4 DEF ReadSoFar
<1>11. CASE j.settings = inst.settings
  BY <1>1, <1>10, <1>11
<1>12. CASE /\ j.managed = inst.managed
            /\ \E s : \A t \in DOMAIN inst.settings : t # s => j.settings[t] = inst.settings[t]
  <2>1. PICK s : \A t \in SettingsNames : t # s => j.settings[t] = inst.settings[t]
    BY <1>6, <1>12
  <2>2. CASE \E k \in DOMAIN fs : sc[k] = s
    <3>1. \A m \in DOMAIN sc : m > Len(fs) => sc[m] # s
      <4>1. PICK k \in DOMAIN fs : sc[k] = s
        BY <2>2
      <4>2. k \in DOMAIN sc /\ ~(k > Len(fs))
        BY <1>8, <4>1
      <4>3. \A m \in DOMAIN sc : sc[m] = s => m = k
        BY <1>3, <4>1, <4>2
      <4> QED BY <4>2, <4>3
    <3>2. \A m \in DOMAIN sc : m > Len(fs) => inst.settings[sc[m]] = j.settings[sc[m]]
      BY <1>7, <2>1, <3>1
    <3>3. \A m \in DOMAIN hookSettingsScopes(inst) : m > Len(r.files) =>
            inst.settings[hookSettingsScopes(inst)[m]] = j.settings[hookSettingsScopes(inst)[m]]
      BY <1>2, <1>4, <3>2
    <3> WITNESS inst \in {inst, j}
    <3> QED BY <1>1, <1>12, <3>3
  <2>3. CASE \A k \in DOMAIN fs : sc[k] # s
    <3>1. \A k \in DOMAIN fs : inst.settings[sc[k]] = j.settings[sc[k]]
      BY <1>7, <1>8, <2>1, <2>3
    <3> QED BY <1>1, <1>10, <3>1
  <2> QED BY <2>2, <2>3
<1> QED BY <1>11, <1>12 DEF Edited

\* The operator edits while doctors read.
LEMMA HdOperatorEdits ==
  ASSUME HdInv, OperatorEdits
  PROVE  HdInv'
<1>1. PICK j : j = inst'
  OBVIOUS
<1>2. Edited(j)
  BY <1>1, EditIsEdited DEF OperatorEdits
<1>3. UNCHANGED <<recordDir, lines, marker, now>>
  BY DEF OperatorEdits
<1>4. /\ DOMAIN doctor' = Doctors
      /\ \A d \in Doctors :
           doctor'[d] = IF doctor[d].pc \in Reading
                        THEN [doctor[d] EXCEPT !.seen = @ \cup {j}, !.edited = @ + 1] ELSE doctor[d]
  BY <1>1 DEF OperatorEdits
<1>5. ASSUME NEW d \in Doctors PROVE DoctorOk(doctor[d])' /\ doctor'[d].pc = doctor[d].pc
                                      /\ (doctor[d].pc \notin Reading => doctor'[d] = doctor[d])
  <2>1. PICK r : r = doctor[d] /\ DoctorOk(r) /\ DOMAIN r = DoctorFields
    BY DEF HdInv, DoctorOk
  <2>2. CASE r.pc \notin Reading
    <3>1. doctor'[d] = r
      BY <1>4, <2>1, <2>2
    <3>2. SeenOk(r)' /\ ReadingOk(r)'
      BY <2>1, <2>2 DEF DoctorOk, SeenOk, ReadingOk
    <3>3. Clean(r) => Clean(r)'
      BY <1>3 DEF Clean
    <3>4. RoutedOk(r)' /\ GradeOk(r)' /\ StatusOk(r)' /\ ProbeOk(r)'
      BY <1>3, <2>1, <3>3 DEF DoctorOk, RoutedOk, GradeOk, StatusOk, ProbeOk
    <3>5. DoctorOk(r)'
      BY <2>1, <3>2, <3>4 DEF DoctorOk
    <3> QED BY <2>1, <3>1, <3>5
  <2>3. CASE r.pc \in Reading
    <3>1. PICK n : n = [r EXCEPT !.seen = r.seen \cup {j}, !.edited = r.edited + 1]
      OBVIOUS
    <3>2. doctor'[d] = n
      BY <1>4, <2>1, <2>3, <3>1
    <3>3. /\ DOMAIN n = DoctorFields /\ n.pc = r.pc /\ n.files = r.files /\ n.entries = r.entries
          /\ n.plugged = r.plugged /\ n.managed = r.managed /\ n.seen = r.seen \cup {j}
          /\ n.edited = r.edited + 1
      BY <2>1, <3>1 DEF DoctorFields
    <3>4. r.edited \in Nat /\ n.edited \in Nat /\ n.edited # 0
      BY <2>1, <3>3 DEF DoctorOk
    <3>5. SeenOk(n)'
      BY <1>1, <3>3, <3>4 DEF SeenOk
    <3>6. ReadingOk(n)'
      <4> SUFFICES ASSUME n.edited < 2
                   PROVE  \E i \in n.seen : Machine(i) /\ ReadSoFar(n, i) /\ ToRead(n, i)'
        BY DEF ReadingOk
      <4>1. r.edited = 0
        BY <3>3, <3>4
      <4>2. r.seen = {inst}
        BY <2>1, <2>3, <4>1 DEF DoctorOk, SeenOk
      <4>3. ReadSoFar(r, inst) /\ ToRead(r, inst)
        BY <2>1, <2>3, <4>1, <4>2 DEF DoctorOk, ReadingOk
      <4>4. PICK i \in {inst, j} :
              /\ Machine(i) /\ ReadSoFar(r, i) /\ Alike(i, j) /\ i.managed = j.managed
              /\ \A k \in DOMAIN hookSettingsScopes(i) :
                   k > Len(r.files) => i.settings[hookSettingsScopes(i)[k]] = j.settings[hookSettingsScopes(i)[k]]
        BY <1>2, <2>3, <4>3, EditedOnce
      <4>5. i \in n.seen
        BY <3>3, <4>2
      <4>6. ReadSoFar(n, i)
        BY <3>3, <4>4 DEF ReadSoFar
      <4>7. ToRead(n, i)'
        <5>1. /\ Alike(i, j) /\ i.managed = j.managed
              /\ \A k \in DOMAIN hookSettingsScopes(i) :
                   k > Len(n.files) => i.settings[hookSettingsScopes(i)[k]] = j.settings[hookSettingsScopes(i)[k]]
          BY <3>3, <4>4
        <5> QED BY <1>1, <5>1 DEF ToRead
      <4> QED BY <4>4, <4>5, <4>6, <4>7
    <3>7. RoutedOk(n)' /\ GradeOk(n)' /\ StatusOk(n)' /\ ProbeOk(n)'
      BY <2>3, <3>3 DEF Reading, RoutedOk, GradeOk, StatusOk, ProbeOk
    <3>8. DoctorOk(n)'
      BY <3>3, <3>4, <3>5, <3>6, <3>7 DEF DoctorOk
    <3> QED BY <2>1, <2>3, <3>2, <3>3, <3>8
  <2> QED BY <2>2, <2>3
<1>6. MarkerOk'
  <2>1. CASE marker # "none"
    <3>1. marker \in Doctors
      BY <2>1 DEF HdInv, MarkerOk
    <3>2. doctor[marker].pc \notin Reading
      BY <2>1 DEF HdInv, MarkerOk, Reading, Probing
    <3>3. doctor'[marker] = doctor[marker]
      BY <1>5, <3>1, <3>2
    <3> QED BY <1>3, <3>3 DEF HdInv, MarkerOk
  <2> QED BY <1>3, <2>1 DEF MarkerOk
<1>7. Machine(inst)' /\ DirectoryOk' /\ LogOk'
  BY <1>1, <1>2, <1>3 DEF HdInv, Edited, DirectoryOk, LogOk
<1> QED BY <1>4, <1>5, <1>6, <1>7 DEF HdInv

\* Every step on hook installations.
LEMMA HdNextInv ==
  ASSUME HdInv, [HdNext]_hdVars
  PROVE  HdInv'
<1>1. CASE HdNext
  <2>1. CASE \E d \in Doctors :
          \/ StartDoctor(d) \/ ReadSettings(d) \/ readPluginHookManifests(d) \/ readManagedSettings(d)
          \/ ScanRouted(d) \/ Grade(d) \/ InspectDirectory(d) \/ CreateMarker(d) \/ FillMarker(d)
          \/ RemoveMarker(d) \/ Report(d) \/ KillDoctor(d)
    BY <2>1, HdStart, HdReadSettings, HdReadPlugins, HdReadManaged, HdScanRouted, HdGrade, HdInspect,
       HdCreate, HdFill, HdRemove, HdReport, HdKill
  <2>2. CASE OperatorEdits \/ HookAppends \/ Tick \/ DeleteMarker
    BY <2>2, HdOperatorEdits, HdAppends, HdElsewhere
  <2> QED BY <1>1, <2>1, <2>2 DEF HdNext
<1>2. CASE UNCHANGED hdVars
  <2>1. UNCHANGED <<inst, recordDir, lines, marker, now, doctor>>
    BY <1>2 DEF hdVars
  <2>2. ASSUME NEW d \in Doctors PROVE DoctorOk(doctor[d])'
    <3>1. PICK r : r = doctor[d] /\ DoctorOk(r)
      BY DEF HdInv
    <3>2. DoctorOk(r)'
      BY <2>1, <3>1, DoctorKept
    <3> QED BY <2>1, <3>1, <3>2
  <2> QED BY <2>1, <2>2 DEF HdInv, DirectoryOk, LogOk, MarkerOk
<1> QED BY <1>1, <1>2

\* The invariant gives what the doctor's report means.
LEMMA HdInvHonest ==
  ASSUME HdInv
  PROVE  DoctorHonest
<1>1. ASSUME NEW d \in Doctors, doctor[d].pc = "done", doctor[d].edited < 2, doctor[d].status = "ok"
      PROVE  /\ doctor[d].sink
             /\ \/ RecentlyRouted(d)
                \/ \E i \in doctor[d].seen :
                     RoutedTools(i) = Governed \/ ~ManagedRead(i.managed) \/ HiddenSettings(i)
  <2>1. PICK r : r = doctor[d] /\ DoctorOk(r)
    BY DEF HdInv
  <2>2. r.states \subseteq {"ok"} /\ r.sink
    BY <1>1, <2>1 DEF DoctorOk, StatusOk
  <2>3. Clean(r)
    BY <1>1, <2>1, <2>2 DEF DoctorOk, GradeOk
  <2> QED BY <2>1, <2>2, <2>3 DEF Clean, RecentlyRouted
<1>2. ASSUME NEW d \in Doctors, doctor[d].pc = "done", doctor[d].edited < 2, doctor[d].status = "broken"
      PROVE  \/ ~doctor[d].sink \/ doctor[d].blocked
             \/ \E i \in doctor[d].seen : Faulty(i)
  <2>1. PICK r : r = doctor[d] /\ DoctorOk(r)
    BY DEF HdInv
  <2>2. "broken" \in r.states
    BY <1>2, <2>1 DEF DoctorOk, StatusOk
  <2> QED BY <1>2, <2>1, <2>2 DEF DoctorOk, GradeOk
<1>3. marker # "none" => doctor[marker].pc \in Probing \cup {"killed"} \/ doctor[marker].blocked
  BY DEF HdInv, MarkerOk
<1> QED BY <1>1, <1>2, <1>3 DEF DoctorHonest, Faulty
-----------------------------------------------------------------------------
(* The verifiers side by side: one subject's steps leave the others alone. *)

\* What is kept by every step of its own, and by a step that changes none of its variables.
LEMMA InitInvs ==
  ASSUME Init
  PROVE  RcInv /\ WtInv /\ EvInv /\ VrfInv /\ HdInv
<1>1. {CHOOSE m \in Installations : TRUE} \in SUBSET Installations
  BY InstallationsAssumption
<1>2. HdInv
  BY <1>1, HdInitInv DEF Init
<1> QED BY <1>2, RcInitInv, WtInitInv, EvInitInv, VrfInitInv DEF Init

\* Records: a step of the verifiers keeps the invariant of the records.
LEMMA RcKept ==
  ASSUME RcInv, [Next]_vars
  PROVE  RcInv'
<1>1. CASE RcNext
  BY <1>1, RcNextInv
<1>2. CASE UNCHANGED rcVars
  <2>1. UNCHANGED <<emitted, file, given, verified, replayed>>
    BY <1>2 DEF rcVars
  <2> QED BY <2>1 DEF RcInv, SignedBefore, Reproduced
<1> QED BY <1>1, <1>2 DEF Next, vars

\* Witnessed bundles: likewise.
LEMMA WtKept ==
  ASSUME WtInv, [Next]_vars
  PROVE  WtInv'
<1>1. CASE WtNext
  BY <1>1, WtNextInv
<1>2. CASE UNCHANGED wtVars
  <2>1. UNCHANGED <<logs, heads, cosigned, exports, bundle, outcome>>
    BY <1>2 DEF wtVars
  <2>2. \A b : BundleOk(b) => BundleOk(b)'
    BY <2>1 DEF BundleOk, FilesOk, HeadSigned, CosignaturesOk
  <2>3. \A h \in heads : HeadOk(h)'
    BY <2>1 DEF WtInv, HeadOk
  <2> QED BY <2>1, <2>2, <2>3 DEF WtInv, AnswerOk
<1> QED BY <1>1, <1>2 DEF Next, vars

\* Evidence bundles: likewise.
LEMMA EvKept ==
  ASSUME EvInv, VrfInv, [Next]_vars
  PROVE  EvInv' /\ VrfInv'
<1>1. CASE EvNext
  BY <1>1, EvNextInv, VrfNextInv
<1>2. CASE UNCHANGED evVars
  BY <1>2 DEF evVars, EvInv, VrfInv
<1> QED BY <1>1, <1>2 DEF Next, vars

\* Hook installations: likewise.
LEMMA HdKept ==
  ASSUME HdInv, [Next]_vars
  PROVE  HdInv'
<1>1. CASE HdNext \/ UNCHANGED hdVars
  BY <1>1, HdNextInv
<1> QED BY <1>1 DEF Next, vars

\* What the record verifier accepts reads the same to every reader; under Boundary's key it is
\* a record the pipeline emitted, and a replay that matches reproduced that one's decision.
THEOREM VerifiedRecordsAreEmitted == Spec => []VerifiedMeansEmitted
<1>1. Init => RcInv
  BY InitInvs
<1>2. RcInv /\ [Next]_vars => RcInv'
  BY RcKept
<1>3. RcInv => VerifiedMeansEmitted
  BY RcInvVerified
<1> QED BY <1>1, <1>2, <1>3, PTL DEF Spec

\* A witnessed bundle that is accepted under keys that are not the adversary's holds a decision that
\* stands in the log of the tenant it claims, and every witness that passes did cosign that log.
THEOREM AcceptedBundlesAreBound == Spec => []WitnessedBinding
<1>1. Init => WtInv
  BY InitInvs
<1>2. WtInv /\ [Next]_vars => WtInv'
  BY WtKept
<1>3. WtInv => WitnessedBinding
  BY WtInvBinding
<1> QED BY <1>1, <1>2, <1>3, PTL DEF Spec

\* A verification that passes read the manifest of a bundling that finished and registered every
\* file, and found in each file what was registered when it hashed it, whatever wrote meanwhile;
\* with no file changed since it read the manifest, that is what lies there.
THEOREM EvidencePassesWholeBundles == Spec => []EvidencePassMeansBundled
<1>1. Init => EvInv /\ VrfInv
  BY InitInvs
<1>2. EvInv /\ VrfInv /\ [Next]_vars => EvInv' /\ VrfInv'
  BY EvKept
<1>3. EvInv /\ VrfInv => EvidencePassMeansBundled
  BY PassedIsBundled
<1> QED BY <1>1, <1>2, <1>3, PTL DEF Spec

\* What a hook doctor reports, clean or broken, is so of a machine it saw, and a probe marker is
\* left only by a doctor that was killed or that reports it.
THEOREM DoctorReportsAreHonest == Spec => []DoctorHonest
<1>1. Init => HdInv
  BY InitInvs
<1>2. HdInv /\ [Next]_vars => HdInv'
  BY HdKept
<1>3. HdInv => DoctorHonest
  BY HdInvHonest
<1> QED BY <1>1, <1>2, <1>3, PTL DEF Spec
=============================================================================
