--------------------------- MODULE ServicesProofs ---------------------------
(***************************************************************************)
(* Proofs about the three services beside the pipeline: the accounting of  *)
(* audit deliveries, trust in Redis, and the bridge to human approval.     *)
(* Each is a specification of its own, with its own invariant.             *)
(***************************************************************************)
EXTENDS AuditDelivery, RedisTrust, Escalation, TLAPS

-----------------------------------------------------------------------------
(* Audit delivery, for any number of publishers and readers and any bounds.*)

Busy(p) == pub[p].pc # "idle"

\* The marks are the largest accounted tickets.
MarksAreMaxima ==
  /\ auditOKSeq \in okDone \cup {0} /\ \A t \in okDone : t <= auditOKSeq
  /\ auditFailSeq \in failDone \cup {0} /\ \A t \in failDone : t <= auditFailSeq

\* A publisher's loaded mark is a lower bound of the mark it will swap.
LoadsAreStale ==
  \A p \in Publishers : pub[p].pc = "swap" => pub[p].cur <= Mark(pub[p].ok)

\* A reader in mid-call has seen the outage or a mark that already clears it.
ReaderInv ==
  \A r \in Readers :
    /\ reader[r].pc = "half" => reader[r].everDegraded \/ reader[r].first <= auditOKSeq
    /\ reader[r].pc = "done" /\ reader[r].degraded => reader[r].everDegraded

AuditInv == AuditTypeOK /\ MarksAreMaxima /\ LoadsAreStale /\ ReaderInv
       /\ \A p \in Publishers : Busy(p) => pub[p].seq \in AuditTickets

\* The initial marks are those of an empty history.
LEMMA AuditInitInv == AuditInit => AuditInv
  BY DeliveryBounds DEF AuditInit, AuditInv, AuditTypeOK, MarksAreMaxima, LoadsAreStale, ReaderInv,
     NotPublishing, NotReading, Publication, Reading, Busy

\* Drawing a ticket disturbs no mark.
LEMMA DrawInv ==
  ASSUME AuditInv, NEW p \in Publishers, Draw(p)
  PROVE  AuditInv'
<1> DEFINE x == [pc |-> "deliver", seq |-> auditSeq + 1, ok |-> FALSE, cur |-> 0]
<1>1. auditSeq + 1 \in AuditTickets
  BY DeliveryBounds DEF AuditInv, AuditTypeOK, Draw, AuditTickets
<1>2. x \in Publication /\ x.seq = auditSeq + 1 /\ x.pc = "deliver"
  <2>1. auditSeq + 1 \in 0..MaxTickets /\ 0 \in 0..MaxTickets
    BY <1>1, DeliveryBounds DEF AuditTickets
  <2> QED
    BY <2>1 DEF Publication
<1>3. /\ pub' = [pub EXCEPT ![p] = x] /\ auditSeq' = auditSeq + 1
      /\ UNCHANGED <<auditOKSeq, auditFailSeq, auditFailures, reader, reads, okDone, failDone>>
  BY DEF Draw
<1> HIDE DEF x
<1>4. \A q \in Publishers : pub'[q] = IF q = p THEN x ELSE pub[q]
  BY <1>3 DEF AuditInv, AuditTypeOK
<1>5. AuditTypeOK'
  BY <1>1, <1>2, <1>3 DEF AuditInv, AuditTypeOK, AuditTickets
<1>6. LoadsAreStale' /\ \A q \in Publishers : Busy(q)' => pub'[q].seq \in AuditTickets
  BY <1>1, <1>2, <1>3, <1>4 DEF AuditInv, LoadsAreStale, Mark, Busy
<1> QED
  BY <1>3, <1>5, <1>6 DEF AuditInv, MarksAreMaxima, ReaderInv, AuditTickets

\* Delivering, counting and loading a mark disturb no mark either.
LEMMA AuditQuietInv ==
  ASSUME AuditInv, NEW p \in Publishers, Deliver(p) \/ Count(p) \/ LoadMark(p)
  PROVE  AuditInv'
<1>1. /\ UNCHANGED <<auditSeq, auditOKSeq, auditFailSeq, reader, reads, okDone, failDone>>
      /\ auditFailures' \in Nat
      /\ Busy(p)
  BY DEF Deliver, Count, LoadMark, AuditInv, AuditTypeOK, Busy
<1>2. PICK x \in Publication :
        /\ pub' = [pub EXCEPT ![p] = x]
        /\ x.seq = pub[p].seq
        /\ x.pc = "swap" => x.cur = Mark(x.ok)
  <2>1. CASE Deliver(p)
    <3>1. PICK ok \in BOOLEAN :
            pub' = [pub EXCEPT ![p].ok = ok, ![p].pc = IF ok THEN "load" ELSE "count"]
      BY <2>1 DEF Deliver
    <3> DEFINE x == [pub[p] EXCEPT !.ok = ok, !.pc = IF ok THEN "load" ELSE "count"]
    <3>2. x \in Publication /\ x.seq = pub[p].seq /\ x.pc # "swap"
      BY DEF AuditInv, AuditTypeOK, Publication
    <3>3. pub' = [pub EXCEPT ![p] = x]
      BY <3>1 DEF AuditInv, AuditTypeOK
    <3> QED
      BY <3>2, <3>3
  <2>2. CASE Count(p)
    <3> DEFINE x == [pub[p] EXCEPT !.pc = "load"]
    <3>1. x \in Publication /\ x.seq = pub[p].seq /\ x.pc # "swap"
      BY DEF AuditInv, AuditTypeOK, Publication
    <3>2. pub' = [pub EXCEPT ![p] = x]
      BY <2>2 DEF Count, AuditInv, AuditTypeOK
    <3> QED
      BY <3>1, <3>2
  <2>3. CASE LoadMark(p)
    <3> DEFINE x == [pub[p] EXCEPT !.cur = Mark(pub[p].ok), !.pc = "swap"]
    <3>1. x \in Publication /\ x.seq = pub[p].seq /\ x.cur = Mark(x.ok)
      BY DEF AuditInv, AuditTypeOK, Publication, Mark
    <3>2. pub' = [pub EXCEPT ![p] = x]
      BY <2>3 DEF LoadMark, AuditInv, AuditTypeOK
    <3> QED
      BY <3>1, <3>2
  <2> QED
    BY <2>1, <2>2, <2>3
<1>3. \A q \in Publishers : pub'[q] = IF q = p THEN x ELSE pub[q]
  BY <1>2 DEF AuditInv, AuditTypeOK
<1>4. AuditTypeOK'
  BY <1>1, <1>2 DEF AuditInv, AuditTypeOK
<1>5. LoadsAreStale'
  BY <1>1, <1>2, <1>3 DEF AuditInv, LoadsAreStale, Mark, AuditTypeOK
<1>6. \A q \in Publishers : Busy(q)' => pub'[q].seq \in AuditTickets
  BY <1>1, <1>2, <1>3 DEF AuditInv, Busy
<1> QED
  BY <1>1, <1>4, <1>5, <1>6 DEF AuditInv, MarksAreMaxima, ReaderInv, AuditTickets

\* The compare-and-swap keeps each mark the maximum of its history, and only
\* ever raises it.
LEMMA StoreMaxInv ==
  ASSUME AuditInv, NEW p \in Publishers, StoreMax(p)
  PROVE  AuditInv' /\ auditOKSeq' >= auditOKSeq /\ auditFailSeq' >= auditFailSeq
<1> DEFINE v == Mark(pub[p].ok)
           n == pub[p].seq
<1>1. /\ n \in AuditTickets /\ v \in 0..MaxTickets /\ pub[p].cur \in 0..MaxTickets
      /\ pub[p].cur <= v /\ pub[p].ok \in BOOLEAN /\ pub[p].pc = "swap"
  BY DEF StoreMax, AuditInv, AuditTypeOK, LoadsAreStale, Busy, Mark, Publication
<1>2. CASE Lost(p, v)
  <2>1. /\ pub' = [pub EXCEPT ![p].pc = "load"]
        /\ UNCHANGED <<auditOKSeq, auditFailSeq, reader, okDone, failDone, auditSeq, auditFailures, reads>>
    BY <1>2 DEF StoreMax
  <2>2. \A q \in Publishers : pub'[q] = IF q = p THEN [pub[p] EXCEPT !.pc = "load"] ELSE pub[q]
    BY <2>1 DEF AuditInv, AuditTypeOK
  <2>3. AuditTypeOK'
    BY <2>1, <2>2 DEF AuditInv, AuditTypeOK, Publication
  <2>4. LoadsAreStale' /\ \A q \in Publishers : Busy(q)' => pub'[q].seq \in AuditTickets
    BY <1>1, <2>1, <2>2 DEF AuditInv, LoadsAreStale, Mark, Busy, AuditTypeOK, Publication
  <2> QED
    BY <2>1, <2>3, <2>4 DEF AuditInv, MarksAreMaxima, ReaderInv, AuditTickets, AuditTypeOK
<1>3. CASE ~Lost(p, v)
  <2>1. /\ Settle(p)
        /\ auditOKSeq' = IF pub[p].ok THEN SwapMark(p, v) ELSE auditOKSeq
        /\ auditFailSeq' = IF pub[p].ok THEN auditFailSeq ELSE SwapMark(p, v)
        /\ reader' = Witness
        /\ UNCHANGED <<auditSeq, auditFailures, reads>>
    BY <1>3 DEF StoreMax
  <2>2. SwapMark(p, v) \in 0..MaxTickets /\ SwapMark(p, v) \in {v, n}
        /\ n <= SwapMark(p, v) /\ v <= SwapMark(p, v)
    BY <1>1, <1>3 DEF SwapMark, Lost, AuditTickets
  <2>3. \A q \in Publishers : pub'[q] = IF q = p THEN NotPublishing ELSE pub[q]
    BY <2>1 DEF Settle, AuditInv, AuditTypeOK
  <2>4. /\ okDone' = IF pub[p].ok THEN okDone \cup {n} ELSE okDone
        /\ failDone' = IF pub[p].ok THEN failDone ELSE failDone \cup {n}
    BY <2>1 DEF Settle
  <2>5. auditOKSeq' >= auditOKSeq /\ auditFailSeq' >= auditFailSeq
        /\ auditOKSeq' \in 0..MaxTickets /\ auditFailSeq' \in 0..MaxTickets
    BY <2>1, <2>2 DEF Mark, AuditInv, AuditTypeOK
  <2>6. MarksAreMaxima'
    <3>1. CASE pub[p].ok
      BY <1>1, <2>1, <2>2, <2>4, <3>1 DEF MarksAreMaxima, AuditInv, AuditTypeOK, Mark, AuditTickets
    <3>2. CASE ~pub[p].ok
      BY <1>1, <2>1, <2>2, <2>4, <3>2 DEF MarksAreMaxima, AuditInv, AuditTypeOK, Mark, AuditTickets
    <3> QED
      BY <3>1, <3>2
  <2>7. LoadsAreStale' /\ \A q \in Publishers : Busy(q)' => pub'[q].seq \in AuditTickets
    BY <2>3, <2>5 DEF AuditInv, LoadsAreStale, Mark, Busy, AuditTypeOK, Publication, NotPublishing
  <2>8. reader' \in [Readers -> Reading]
    BY <2>1, <2>5 DEF Witness, AuditInv, AuditTypeOK, Reading
  <2>9. AuditTypeOK'
    <3>1. pub' \in [Publishers -> Publication]
      BY <2>1, DeliveryBounds DEF Settle, AuditInv, AuditTypeOK, Publication, NotPublishing
    <3>2. okDone' \subseteq AuditTickets /\ failDone' \subseteq AuditTickets
      BY <1>1, <2>4 DEF AuditInv, AuditTypeOK
    <3> QED
      BY <2>1, <2>5, <2>8, <3>1, <3>2 DEF AuditInv, AuditTypeOK, AuditTickets
  <2>10. ReaderInv'
    <3> SUFFICES ASSUME NEW r \in Readers
                 PROVE  /\ reader'[r].pc = "half" => reader'[r].everDegraded
                                                     \/ reader'[r].first <= auditOKSeq'
                        /\ reader'[r].pc = "done" /\ reader'[r].degraded => reader'[r].everDegraded
      BY DEF ReaderInv
    <3>1. reader[r] \in Reading
      BY DEF AuditInv, AuditTypeOK
    <3>2. CASE reader[r].pc = "half"
      <4>1. reader'[r] = [reader[r] EXCEPT !.everDegraded = @ \/ auditFailSeq' > auditOKSeq']
        BY <2>1, <3>2 DEF Witness
      <4>2. /\ reader'[r].pc = "half" /\ reader'[r].first = reader[r].first
            /\ reader[r].everDegraded => reader'[r].everDegraded
        BY <3>1, <3>2, <4>1 DEF Reading
      <4> QED
        BY <2>5, <3>1, <3>2, <4>2 DEF AuditInv, ReaderInv, AuditTypeOK, Reading
    <3>3. CASE reader[r].pc # "half"
      BY <2>1, <3>3 DEF Witness, AuditInv, ReaderInv
    <3> QED
      BY <3>2, <3>3
  <2> QED
    BY <2>5, <2>6, <2>7, <2>9, <2>10 DEF AuditInv
<1> QED
  BY <1>2, <1>3

\* A reader's two loads.
LEMMA ReadInv ==
  ASSUME AuditInv, NEW r \in Readers, LoadFirst(r) \/ LoadSecond(r)
  PROVE  AuditInv'
<1>1. UNCHANGED <<auditSeq, auditOKSeq, auditFailSeq, auditFailures, pub, okDone, failDone>>
  BY DEF LoadFirst, LoadSecond
<1>2. CASE LoadFirst(r)
  <2> DEFINE x == [pc |-> "half", first |-> auditFailSeq, degraded |-> FALSE,
                   everDegraded |-> DegradedNow]
  <2>0. DegradedNow \in BOOLEAN
    BY DEF DegradedNow
  <2>1. reads' \in 0..MaxReads /\ reader' = [reader EXCEPT ![r] = x] /\ x \in Reading
    <3>1. reads' \in 0..MaxReads /\ reader' = [reader EXCEPT ![r] = x]
      BY <1>2, DeliveryBounds DEF LoadFirst, AuditInv, AuditTypeOK
    <3>2. x \in Reading
      BY <2>0 DEF Reading, AuditInv, AuditTypeOK
    <3> QED
      BY <3>1, <3>2
  <2>2. \A q \in Readers : reader'[q] = IF q = r THEN x ELSE reader[q]
    BY <2>1 DEF AuditInv, AuditTypeOK
  <2>3. x.everDegraded \/ x.first <= auditOKSeq
    <3>1. DegradedNow \/ auditFailSeq <= auditOKSeq
      BY DEF DegradedNow, AuditInv, AuditTypeOK
    <3>2. x.everDegraded = DegradedNow /\ x.first = auditFailSeq
      OBVIOUS
    <3> QED
      BY <3>1, <3>2
  <2>4. ReaderInv'
    BY <1>1, <2>2, <2>3 DEF ReaderInv, AuditInv
  <2>5. AuditTypeOK'
    BY <1>1, <2>1 DEF AuditInv, AuditTypeOK, AuditTickets
  <2> QED
    BY <1>1, <2>4, <2>5 DEF AuditInv, MarksAreMaxima, LoadsAreStale, Mark, Busy, AuditTickets
<1>3. CASE LoadSecond(r)
  <2> DEFINE x == [reader[r] EXCEPT !.pc = "done", !.degraded = Conclude(reader[r].first)]
  <2>1. reads' = reads /\ reader' = [reader EXCEPT ![r] = x] /\ x \in Reading
    <3>1. reads' = reads /\ reader' = [reader EXCEPT ![r] = x]
      BY <1>3 DEF LoadSecond, AuditInv, AuditTypeOK
    <3>2. Conclude(reader[r].first) \in BOOLEAN
      BY DEF Conclude
    <3>3. x \in Reading
      BY <3>2 DEF AuditInv, AuditTypeOK, Reading
    <3> QED
      BY <3>1, <3>3
  <2>2. \A q \in Readers : reader'[q] = IF q = r THEN x ELSE reader[q]
    BY <2>1 DEF AuditInv, AuditTypeOK
  <2>3. x.pc = "done" /\ (x.degraded => x.everDegraded)
    BY <1>3 DEF LoadSecond, Conclude, AuditInv, ReaderInv, AuditTypeOK, Reading
  <2>4. ReaderInv'
    BY <1>1, <2>2, <2>3 DEF ReaderInv, AuditInv
  <2>5. AuditTypeOK'
    BY <1>1, <2>1 DEF AuditInv, AuditTypeOK, AuditTickets
  <2> QED
    BY <1>1, <2>4, <2>5 DEF AuditInv, MarksAreMaxima, LoadsAreStale, Mark, Busy, AuditTickets
<1> QED
  BY <1>2, <1>3

\* Every step keeps the invariant and no step lowers a mark.
LEMMA AuditNextInv ==
  ASSUME AuditInv, [AuditNext]_auditVars
  PROVE  AuditInv' /\ auditOKSeq' >= auditOKSeq /\ auditFailSeq' >= auditFailSeq
<1>0. auditOKSeq \in Int /\ auditFailSeq \in Int
  BY DEF AuditInv, AuditTypeOK
<1>1. ASSUME NEW p \in Publishers, PublishAudit(p) PROVE AuditInv' /\ auditOKSeq' >= auditOKSeq /\ auditFailSeq' >= auditFailSeq
  <2>1. CASE Draw(p)
    <3>1. AuditInv'
      BY <2>1, DrawInv
    <3>2. auditOKSeq' = auditOKSeq /\ auditFailSeq' = auditFailSeq
      BY <2>1 DEF Draw
    <3> QED
      BY <1>0, <3>1, <3>2
  <2>2. CASE Deliver(p) \/ Count(p) \/ LoadMark(p)
    <3>1. AuditInv'
      BY <2>2, AuditQuietInv
    <3>2. auditOKSeq' = auditOKSeq /\ auditFailSeq' = auditFailSeq
      BY <2>2 DEF Deliver, Count, LoadMark
    <3> QED
      BY <1>0, <3>1, <3>2
  <2>3. CASE StoreMax(p)
    BY <2>3, StoreMaxInv
  <2> QED
    BY <1>1, <2>1, <2>2, <2>3 DEF PublishAudit
<1>2. ASSUME NEW r \in Readers, LoadFirst(r) \/ LoadSecond(r) PROVE AuditInv' /\ auditOKSeq' >= auditOKSeq /\ auditFailSeq' >= auditFailSeq
  BY <1>0, <1>2, ReadInv DEF LoadFirst, LoadSecond
<1>3. CASE UNCHANGED auditVars
  BY <1>0, <1>3 DEF auditVars, AuditInv, AuditTypeOK, MarksAreMaxima, LoadsAreStale, ReaderInv, Busy, Mark
<1> QED
  BY <1>1, <1>2, <1>3 DEF AuditNext

\* The inductive invariant of the delivery accounting.
THEOREM DeliveryInvariant == AuditSpec => []AuditInv
<1>1. AuditInv /\ [AuditNext]_auditVars => AuditInv'
  BY AuditNextInv
<1> QED
  BY <1>1, AuditInitInv, PTL DEF AuditSpec

\* Degraded's marks decide by the latest-sequenced accounted delivery, for
\* any number of concurrent publishers.
THEOREM DeliveryLatestDecides == AuditSpec => []LatestDeliveryDecides
<1>1. AuditInv => LatestDeliveryDecides
  BY DEF AuditInv, AuditTypeOK, MarksAreMaxima, LatestDeliveryDecides, DegradedNow, AuditTickets
<1> QED
  BY <1>1, DeliveryInvariant, PTL

\* storeMaxInt64 never lowers a mark.
THEOREM DeliveryMarksMonotone == AuditSpec => MarksMonotone
<1>1. AuditInv /\ [AuditNext]_auditVars => [auditOKSeq' >= auditOKSeq /\ auditFailSeq' >= auditFailSeq]_auditVars
  BY AuditNextInv
<1> QED
  BY <1>1, DeliveryInvariant, PTL DEF AuditSpec, MarksMonotone

\* A Degraded() call that reports an outage overlapped one.
THEOREM DeliveryOutageReal == AuditSpec => []DegradedReportHonest
<1>1. AuditInv => DegradedReportHonest
  BY DEF AuditInv, ReaderInv, DegradedReportHonest
<1> QED
  BY <1>1, DeliveryInvariant, PTL

-----------------------------------------------------------------------------
(* Trust in Redis, for any number of evaluations and operators and any     *)
(* pattern of store faults, external writes and expiries.                  *)

\* A state t that contradicts nothing put since the last put.
Respects(t) == IF held = "clear" THEN t \notin Blocking ELSE t = held

Window == {"recordScore", "writeState"}

\* A RecordDecision in its window read the key after the last put.
WindowInv ==
  \A w \in Evals : ~raced /\ eval[w].pc \in Window => Respects(eval[w].snap.state)

RedisInv == RedisTypeOK /\ BlockHoldsUnlessRaced /\ WindowInv

\* The snapshot of an agent with no record is a snapshot.
LEMMA UnknownType == Unknown \in Snapshot /\ Unknown.state = "TRUSTED"
  BY DEF Unknown, Snapshot, States, Scores

\* A parsed state makes a snapshot of that state.
LEMMA FoundType ==
  ASSUME NEW s \in States
  PROVE  Found(s) \in Snapshot /\ Found(s).state = s
<1>1. TrustScoreForState(s) \in Scores
  BY DEF TrustScoreForState, Scores
<1> QED
  BY <1>1 DEF Found, Snapshot

\* Reading the score leaves the state of a snapshot alone.
LEMMA ScoredType ==
  ASSUME NEW snap \in Snapshot, NEW fault, score \in Scores \cup {Absent}
  PROVE  Scored(snap, fault) \in Snapshot /\ Scored(snap, fault).state = snap.state
<1>1. CASE fault \/ score = Absent
  BY <1>1 DEF Scored
<1>2. CASE ~(fault \/ score = Absent)
  <2>1. score \in Scores
    BY <1>2
  <2>2. Scored(snap, fault) = [snap EXCEPT !.score = score]
    BY <1>2 DEF Scored
  <2> QED
    BY <2>1, <2>2 DEF Snapshot
<1> QED
  BY <1>1, <1>2

\* An outcome moves TRUSTED only, so it contradicts no put.
LEMMA AfterOutcomeRespects ==
  ASSUME NEW snap \in Snapshot, NEW outcome, held \in Blocking \cup {"clear"}
  PROVE  /\ AfterOutcome(snap, outcome) \in Snapshot
         /\ Respects(snap.state) => Respects(AfterOutcome(snap, outcome).state)
<1>1. CASE outcome = "failure" /\ snap.state = "TRUSTED"
  <2> DEFINE x == [snap EXCEPT !.state = "EVALUATING", !.score = "0.5"]
  <2>1. AfterOutcome(snap, outcome) = x
    BY <1>1 DEF AfterOutcome
  <2>2. "EVALUATING" \in States /\ "0.5" \in Scores
    BY DEF States, Scores
  <2>3. x \in Snapshot /\ x.state = "EVALUATING"
    BY <2>2 DEF Snapshot
  <2>4. Respects(snap.state) => Respects("EVALUATING")
    BY <1>1 DEF Respects, Blocking
  <2> QED
    BY <2>1, <2>3, <2>4
<1>2. CASE ~(outcome = "failure" /\ snap.state = "TRUSTED")
  BY <1>2 DEF AfterOutcome
<1> QED
  BY <1>1, <1>2

\* Initially nothing is stored and nothing was put.
LEMMA RedisInitInv == RedisInit => RedisInv
<1> SUFFICES ASSUME RedisInit PROVE RedisInv
  OBVIOUS
<1>1. NoEval \in Evaluation /\ NoEval.pc = "idle"
  BY UnknownType DEF NoEval, Evaluation
<1>2. RedisTypeOK
  <2>1. /\ state \in Stored /\ score \in Scores \cup {Absent}
        /\ held \in Blocking \cup {"clear"} /\ raced \in BOOLEAN
    BY Zenon DEF RedisInit, Stored
  <2>2. eval \in [Evals -> Evaluation]
    BY <1>1 DEF RedisInit
  <2> QED
    BY <2>1, <2>2, RedisBounds DEF RedisInit, RedisTypeOK
<1>3. BlockHoldsUnlessRaced /\ WindowInv
  BY <1>1 DEF RedisInit, BlockHoldsUnlessRaced, WindowInv, Window, Absent, Blocking
<1> QED
  BY <1>2, <1>3 DEF RedisInv

\* A step of one evaluation that leaves circuit_state alone keeps the
\* invariant when the new record is in the window only with a fresh snapshot.
LEMMA SetInv ==
  ASSUME RedisInv, NEW w \in Evals, NEW x \in Evaluation, eval' = [eval EXCEPT ![w] = x],
         UNCHANGED <<state, op, ops, external, expiries, held, raced>>,
         evals' \in 0..MaxEvals, score' \in Scores \cup {Absent},
         ~raced /\ x.pc \in Window => Respects(x.snap.state)
  PROVE  RedisInv'
<1>1. RedisTypeOK'
  BY DEF RedisInv, RedisTypeOK
<1>2. \A v \in Evals : eval'[v] = IF v = w THEN x ELSE eval[v]
  BY DEF RedisInv, RedisTypeOK
<1>3. WindowInv'
  BY <1>2 DEF RedisInv, WindowInv, Respects
<1> QED
  BY <1>1, <1>3 DEF RedisInv, BlockHoldsUnlessRaced

\* A put by an operator, the external evaluator or expiry: nobody is in the
\* window, or the put is marked raced.
LEMMA PutInv ==
  ASSUME RedisInv, NEW s \in Stored, Put(s), eval' = eval,
         op' \in [Operators -> {"idle", "terminateState", "terminateScore", "resetState", "resetScore"}],
         score' \in Scores \cup {Absent}, evals' \in 0..MaxEvals, ops' \in 0..MaxOps,
         external' \in 0..MaxExternal, expiries' \in 0..MaxExpiries
  PROVE  RedisInv'
<1>1. RedisTypeOK'
  BY DEF RedisInv, RedisTypeOK, Put
<1>2. BlockHoldsUnlessRaced'
  BY DEF Put, BlockHoldsUnlessRaced, Blocking
<1>3. WindowInv'
  BY DEF Put, WindowInv, Window, InWindow
<1> QED
  BY <1>1, <1>2, <1>3 DEF RedisInv

\* What every evaluation step starts from.
LEMMA EvalFacts ==
  ASSUME RedisInv, NEW w \in Evals
  PROVE  /\ eval[w] \in Evaluation /\ eval[w].snap \in Snapshot
         /\ evals \in 0..MaxEvals /\ score \in Scores \cup {Absent} /\ state \in Stored
         /\ held \in Blocking \cup {"clear"}
  BY DEF RedisInv, RedisTypeOK, Evaluation

\* A readable stored state is one of the four states.
LEMMA ReadableState ==
  ASSUME state \in Stored, state # Garbage, state # Absent
  PROVE  state \in States
  BY DEF Stored

\* A step of one evaluation outside the window keeps the invariant.
LEMMA QuietSet ==
  ASSUME RedisInv, NEW w \in Evals, NEW x \in Evaluation, x.pc \notin Window,
         eval' = [eval EXCEPT ![w] = x],
         UNCHANGED <<state, score, op, evals, ops, external, expiries, held, raced>>
  PROVE  RedisInv'
<1>1. evals' \in 0..MaxEvals /\ score' \in Scores \cup {Absent}
  BY EvalFacts
<1> QED
  BY <1>1, SetInv

\* The lookup's end, with a snapshot or a fault, is outside the window.
LEMMA LookupInv ==
  ASSUME RedisInv, NEW w \in Evals, NEW snap \in Snapshot, LookedUp(w, snap) \/ LookupFault(w) \/ Refuse(w),
         UNCHANGED <<state, score, op, evals, ops, external, expiries, held, raced>>
  PROVE  RedisInv'
<1>1. eval[w] \in Evaluation
  BY EvalFacts
<1>2. CASE LookedUp(w, snap)
  <2> DEFINE b == snap.state \in Blocking
             x == [eval[w] EXCEPT !.snap = snap, !.pc = IF b THEN "idle" ELSE "outcome",
                                  !.result = IF b THEN "refused" ELSE @]
  <2>1. x \in Evaluation /\ x.pc \notin Window
    BY <1>1 DEF Evaluation, Window
  <2>2. eval' = [eval EXCEPT ![w] = x]
    BY <1>2 DEF LookedUp, RedisInv, RedisTypeOK
  <2> QED
    BY <2>1, <2>2, QuietSet
<1>3. CASE LookupFault(w)
  <2> DEFINE x == [eval[w] EXCEPT !.fault = TRUE, !.pc = IF FailClosed THEN "idle" ELSE "outcome",
                                  !.result = IF FailClosed THEN "refused" ELSE @]
  <2>1. x \in Evaluation /\ x.pc \notin Window
    BY <1>1 DEF Evaluation, Window
  <2>2. eval' = [eval EXCEPT ![w] = x]
    BY <1>3 DEF LookupFault, RedisInv, RedisTypeOK
  <2> QED
    BY <2>1, <2>2, QuietSet
<1>4. CASE Refuse(w)
  <2> DEFINE x == [eval[w] EXCEPT !.pc = "idle", !.result = "refused"]
  <2>1. x \in Evaluation /\ x.pc \notin Window
    BY <1>1 DEF Evaluation, Window
  <2>2. eval' = [eval EXCEPT ![w] = x]
    BY <1>4 DEF Refuse, RedisInv, RedisTypeOK
  <2> QED
    BY <2>1, <2>2, QuietSet
<1> QED
  BY <1>2, <1>3, <1>4

\* Begin, the lookup's reads and the call's outcome.
LEMMA BeforeRecordInv ==
  ASSUME RedisInv, NEW w \in Evals, Begin(w) \/ LookState(w) \/ LookScore(w) \/ DecideOutcome(w)
  PROVE  RedisInv'
<1>1. eval[w] \in Evaluation /\ eval[w].snap \in Snapshot
  BY EvalFacts
<1>2. CASE Begin(w)
  <2> DEFINE x == [pc |-> "lookState", snap |-> Unknown, outcome |-> "none",
                   fault |-> FALSE, result |-> "none"]
  <2>1. x \in Evaluation /\ x.pc \notin Window
    BY UnknownType DEF Evaluation, Window
  <2>2. evals' \in 0..MaxEvals
    BY <1>2, EvalFacts, RedisBounds DEF Begin
  <2>3. score' \in Scores \cup {Absent}
    BY <1>2, EvalFacts DEF Begin
  <2> QED
    BY <1>2, <2>1, <2>2, <2>3, SetInv DEF Begin
<1>3. CASE LookState(w)
  <2>1. UNCHANGED <<state, score, op, evals, ops, external, expiries, held, raced>>
    BY <1>3 DEF LookState, counters
  <2>2. CASE LookupFault(w) \/ LookedUp(w, Unknown)
    BY <2>1, <2>2, LookupInv, UnknownType
  <2>3. CASE state # Garbage /\ state # Absent
             /\ eval' = [eval EXCEPT ![w].pc = "lookScore", ![w].snap = Found(state)]
    <3> DEFINE x == [eval[w] EXCEPT !.pc = "lookScore", !.snap = Found(state)]
    <3>1. Found(state) \in Snapshot
      BY <2>3, EvalFacts, ReadableState, FoundType
    <3>2. x \in Evaluation /\ x.pc \notin Window
      BY <1>1, <3>1 DEF Evaluation, Window
    <3>3. eval' = [eval EXCEPT ![w] = x]
      BY <2>3 DEF RedisInv, RedisTypeOK
    <3> QED
      BY <2>1, <3>2, <3>3, QuietSet
  <2> QED
    BY <1>3, <2>2, <2>3 DEF LookState
<1>4. CASE LookScore(w)
  <2>1. UNCHANGED <<state, score, op, evals, ops, external, expiries, held, raced>>
    BY <1>4 DEF LookScore, counters
  <2>2. PICK fault \in Faults : LookedUp(w, Scored(eval[w].snap, fault))
    BY <1>4 DEF LookScore
  <2>3. Scored(eval[w].snap, fault) \in Snapshot
    BY <1>1, EvalFacts, ScoredType
  <2> QED
    BY <2>1, <2>2, <2>3, LookupInv
<1>5. CASE DecideOutcome(w)
  <2>1. UNCHANGED <<state, score, op, evals, ops, external, expiries, held, raced>>
    BY <1>5 DEF DecideOutcome, counters
  <2>2. PICK outcome \in {"failure", "other"}, result \in {"run", "refused"} :
          eval' = [eval EXCEPT ![w].pc = "recordState", ![w].outcome = outcome, ![w].result = result]
    BY <1>5 DEF DecideOutcome
  <2> DEFINE x == [eval[w] EXCEPT !.pc = "recordState", !.outcome = outcome, !.result = result]
  <2>3. x \in Evaluation /\ x.pc \notin Window
    BY <1>1 DEF Evaluation, Window
  <2>4. eval' = [eval EXCEPT ![w] = x]
    BY <2>2 DEF RedisInv, RedisTypeOK
  <2> QED
    BY <2>1, <2>3, <2>4, QuietSet
<1> QED
  BY <1>2, <1>3, <1>4, <1>5

\* RecordDecision's reads enter the window with what the key says now.
LEMMA RecordReadInv ==
  ASSUME RedisInv, NEW w \in Evals, RecordState(w) \/ RecordScore(w)
  PROVE  RedisInv'
<1>1. eval[w] \in Evaluation /\ eval[w].snap \in Snapshot
  BY EvalFacts
<1>2. /\ UNCHANGED <<state, score, op, evals, ops, external, expiries, held, raced>>
      /\ evals' \in 0..MaxEvals /\ score' \in Scores \cup {Absent}
  BY EvalFacts DEF RecordState, RecordScore, counters
<1>3. CASE RecordState(w)
  <2>1. CASE Refuse(w)
    BY <1>1, <1>2, <2>1, LookupInv
  <2>2. CASE state = Absent /\ eval' = [eval EXCEPT ![w].pc = "writeState", ![w].snap = Unknown]
    <3> DEFINE x == [eval[w] EXCEPT !.pc = "writeState", !.snap = Unknown]
    <3>1. x \in Evaluation /\ x.snap.state = "TRUSTED"
      BY <1>1, UnknownType DEF Evaluation
    <3>2. eval' = [eval EXCEPT ![w] = x]
      BY <2>2 DEF RedisInv, RedisTypeOK
    <3>3. ~raced => held = "clear"
      BY <2>2 DEF RedisInv, BlockHoldsUnlessRaced, RedisTypeOK, Absent, Blocking
    <3>4. ~raced => Respects(x.snap.state)
      BY <3>1, <3>3 DEF Respects, Blocking
    <3> QED
      BY <1>2, <3>1, <3>2, <3>4, SetInv
  <2>3. CASE state # Garbage /\ state # Absent
             /\ eval' = [eval EXCEPT ![w].pc = "recordScore", ![w].snap = Found(state)]
    <3> DEFINE x == [eval[w] EXCEPT !.pc = "recordScore", !.snap = Found(state)]
    <3>1. Found(state) \in Snapshot /\ Found(state).state = state
      BY <2>3, EvalFacts, ReadableState, FoundType
    <3>2. x \in Evaluation /\ x.snap.state = state
      BY <1>1, <3>1 DEF Evaluation
    <3>3. eval' = [eval EXCEPT ![w] = x]
      BY <2>3 DEF RedisInv, RedisTypeOK
    <3>4. ~raced => Respects(x.snap.state)
      BY <3>2 DEF RedisInv, BlockHoldsUnlessRaced, Respects
    <3> QED
      BY <1>2, <3>2, <3>3, <3>4, SetInv
  <2> QED
    BY <1>3, <2>1, <2>2, <2>3 DEF RecordState
<1>4. CASE RecordScore(w)
  <2>1. PICK fault \in Faults :
          eval' = [eval EXCEPT ![w].pc = "writeState", ![w].snap = Scored(@, fault)]
    BY <1>4 DEF RecordScore
  <2> DEFINE x == [eval[w] EXCEPT !.pc = "writeState", !.snap = Scored(eval[w].snap, fault)]
  <2>2. Scored(eval[w].snap, fault) \in Snapshot
        /\ Scored(eval[w].snap, fault).state = eval[w].snap.state
    BY <1>1, EvalFacts, ScoredType
  <2>3. x \in Evaluation /\ x.snap.state = eval[w].snap.state
    BY <1>1, <2>2 DEF Evaluation
  <2>4. eval' = [eval EXCEPT ![w] = x]
    BY <2>1 DEF RedisInv, RedisTypeOK
  <2>5. ~raced => Respects(x.snap.state)
    BY <1>4, <2>3 DEF RecordScore, RedisInv, WindowInv, Window
  <2> QED
    BY <1>2, <2>3, <2>4, <2>5, SetInv
<1> QED
  BY <1>3, <1>4

\* RecordDecision's SET of circuit_state writes what the window holds, moved
\* by the outcome, so it contradicts no put it did not race.
LEMMA WriteStateInv ==
  ASSUME RedisInv, NEW w \in Evals, WriteState(w)
  PROVE  RedisInv'
<1> DEFINE after == AfterOutcome(eval[w].snap, eval[w].outcome)
<1>1. eval[w] \in Evaluation /\ eval[w].snap \in Snapshot /\ eval[w].pc = "writeState"
      /\ held \in Blocking \cup {"clear"}
  BY EvalFacts DEF WriteState
<1>2. after \in Snapshot /\ after.state \in States
  BY <1>1, AfterOutcomeRespects DEF Snapshot
<1>3. ~raced => Respects(after.state)
  <2>1. ~raced => Respects(eval[w].snap.state)
    BY <1>1 DEF RedisInv, WindowInv, Window
  <2> QED
    BY <1>1, <2>1, AfterOutcomeRespects
<1>4. UNCHANGED <<score, op, evals, ops, external, expiries, held, raced>>
  BY DEF WriteState, counters
<1>5. state' \in {state, after.state}
  BY DEF WriteState
<1>6. PICK x \in Evaluation : eval' = [eval EXCEPT ![w] = x] /\ x.pc \notin Window
  <2>1. CASE Refuse(w)
    <3> DEFINE x == [eval[w] EXCEPT !.pc = "idle", !.result = "refused"]
    <3>1. x \in Evaluation /\ x.pc \notin Window
      BY <1>1 DEF Evaluation, Window
    <3>2. eval' = [eval EXCEPT ![w] = x]
      BY <2>1 DEF Refuse, RedisInv, RedisTypeOK
    <3> QED
      BY <3>1, <3>2
  <2>2. CASE eval' = [eval EXCEPT ![w].pc = "writeScore", ![w].snap = after]
    <3> DEFINE x == [eval[w] EXCEPT !.pc = "writeScore", !.snap = after]
    <3>1. x \in Evaluation /\ x.pc \notin Window
      BY <1>1, <1>2 DEF Evaluation, Window
    <3>2. eval' = [eval EXCEPT ![w] = x]
      BY <2>2 DEF RedisInv, RedisTypeOK
    <3> QED
      BY <3>1, <3>2
  <2> QED
    BY <2>1, <2>2 DEF WriteState
<1> HIDE DEF after
<1>7. \A v \in Evals : eval'[v] = IF v = w THEN x ELSE eval[v]
  BY <1>6 DEF RedisInv, RedisTypeOK
<1>8. RedisTypeOK'
  BY <1>2, <1>4, <1>5, <1>6 DEF RedisInv, RedisTypeOK, Stored
<1>9. BlockHoldsUnlessRaced'
  BY <1>3, <1>4, <1>5 DEF RedisInv, BlockHoldsUnlessRaced, Respects
<1>10. WindowInv'
  BY <1>4, <1>6, <1>7 DEF RedisInv, WindowInv, Respects
<1> QED
  BY <1>8, <1>9, <1>10 DEF RedisInv

\* RecordDecision's SET of trust_score.
LEMMA WriteScoreInv ==
  ASSUME RedisInv, NEW w \in Evals, WriteScore(w)
  PROVE  RedisInv'
<1>1. eval[w] \in Evaluation /\ eval[w].snap.score \in Scores
  BY EvalFacts DEF Evaluation, Snapshot
<1>2. UNCHANGED <<state, op, evals, ops, external, expiries, held, raced>>
  BY DEF WriteScore, counters
<1>3. score' \in Scores \cup {Absent} /\ evals' \in 0..MaxEvals
  BY <1>1, <1>2, EvalFacts DEF WriteScore
<1>4. PICK x \in Evaluation : eval' = [eval EXCEPT ![w] = x] /\ x.pc \notin Window
  <2>1. CASE Refuse(w)
    <3> DEFINE x == [eval[w] EXCEPT !.pc = "idle", !.result = "refused"]
    <3>1. x \in Evaluation /\ x.pc \notin Window
      BY <1>1 DEF Evaluation, Window
    <3>2. eval' = [eval EXCEPT ![w] = x]
      BY <2>1 DEF Refuse, RedisInv, RedisTypeOK
    <3> QED
      BY <3>1, <3>2
  <2>2. CASE eval' = [eval EXCEPT ![w].pc = "idle"]
    <3> DEFINE x == [eval[w] EXCEPT !.pc = "idle"]
    <3>1. x \in Evaluation /\ x.pc \notin Window
      BY <1>1 DEF Evaluation, Window
    <3>2. eval' = [eval EXCEPT ![w] = x]
      BY <2>2 DEF RedisInv, RedisTypeOK
    <3> QED
      BY <3>1, <3>2
  <2> QED
    BY <2>1, <2>2 DEF WriteScore
<1> QED
  BY <1>2, <1>3, <1>4, SetInv

\* The operator's commands: a put, or nothing the invariant reads.
LEMMA OperatorInv ==
  ASSUME RedisInv, NEW o \in Operators, BeginTerminate(o) \/ BeginReset(o) \/ Operate(o)
  PROVE  RedisInv'
<1> DEFINE OpPCs == {"idle", "terminateState", "terminateScore", "resetState", "resetScore"}
<1>0. /\ op \in [Operators -> OpPCs] /\ score \in Scores \cup {Absent} /\ evals \in 0..MaxEvals
      /\ ops \in 0..MaxOps /\ external \in 0..MaxExternal /\ expiries \in 0..MaxExpiries
  BY DEF RedisInv, RedisTypeOK
<1>1. ASSUME NEW s \in {"TERMINATED", Absent}, NEW next \in {"terminateScore", "resetScore"},
             OperateState(o, s, next)
      PROVE  RedisInv'
  <2>1. eval' = eval /\ score' = score /\ UNCHANGED <<evals, ops, external, expiries>>
    BY <1>1 DEF OperateState, counters
  <2>2. op' \in [Operators -> OpPCs]
    BY <1>0, <1>1 DEF OperateState
  <2>3. s \in Stored
    BY DEF Stored, States, Blocking
  <2>4. CASE Put(s)
    BY <1>0, <2>1, <2>2, <2>3, <2>4, PutInv
  <2>5. CASE UNCHANGED <<state, held, raced>>
    BY <2>1, <2>2, <2>5 DEF RedisInv, RedisTypeOK, BlockHoldsUnlessRaced, WindowInv, Respects
  <2> QED
    BY <1>1, <2>4, <2>5 DEF OperateState
<1>2. ASSUME NEW s \in {"0", Absent}, OperateScore(o, s)
      PROVE  RedisInv'
  <2>1. UNCHANGED <<state, eval, evals, ops, external, expiries, held, raced>>
    BY <1>2 DEF OperateScore, counters
  <2>2. op' \in [Operators -> OpPCs]
    BY <1>0, <1>2 DEF OperateScore
  <2>3. score' \in Scores \cup {Absent}
    BY <1>0, <1>2 DEF OperateScore, Scores
  <2> QED
    BY <2>1, <2>2, <2>3 DEF RedisInv, RedisTypeOK, BlockHoldsUnlessRaced, WindowInv, Respects
<1>3. ASSUME NEW pc \in {"terminateState", "resetState"}, Start(o, pc) PROVE RedisInv'
  <2>1. UNCHANGED <<state, score, eval, evals, external, expiries, held, raced>>
    BY <1>3 DEF Start
  <2>2. op' \in [Operators -> OpPCs] /\ ops' \in 0..MaxOps
    BY <1>0, <1>3, RedisBounds DEF Start
  <2> QED
    BY <2>1, <2>2 DEF RedisInv, RedisTypeOK, BlockHoldsUnlessRaced, WindowInv, Respects
<1> QED
  BY <1>1, <1>2, <1>3 DEF BeginTerminate, BeginReset, Operate, TerminateState, ResetState,
     TerminateScore, ResetScore

\* The external evaluator and expiry.
LEMMA OutsideInv ==
  ASSUME RedisInv, ExternalWrite \/ ExpireState \/ ExpireScore
  PROVE  RedisInv'
<1>0. /\ score \in Scores \cup {Absent} /\ evals \in 0..MaxEvals /\ ops \in 0..MaxOps
      /\ external \in 0..MaxExternal /\ expiries \in 0..MaxExpiries
      /\ op \in [Operators -> {"idle", "terminateState", "terminateScore", "resetState", "resetScore"}]
  BY DEF RedisInv, RedisTypeOK
<1>1. CASE ExternalWrite
  <2>1. PICK s \in States \cup {Garbage} : Put(s) /\ score' = TrustScoreForState(s)
    BY <1>1 DEF ExternalWrite
  <2>2. s \in Stored /\ score' \in Scores
    BY <2>1 DEF Stored, TrustScoreForState, Scores
  <2>3. external' \in 0..MaxExternal /\ UNCHANGED <<eval, op, evals, ops, expiries>>
    BY <1>0, <1>1, RedisBounds DEF ExternalWrite
  <2> QED
    BY <1>0, <2>1, <2>2, <2>3, PutInv
<1>2. CASE ExpireState
  <2>1. expiries' \in 0..MaxExpiries /\ UNCHANGED <<score, eval, op, evals, ops, external>>
    BY <1>0, <1>2, RedisBounds DEF ExpireState
  <2>2. Put(Absent) /\ Absent \in Stored
    BY <1>2 DEF ExpireState, Stored
  <2> QED
    BY <1>0, <2>1, <2>2, PutInv
<1>3. CASE ExpireScore
  <2>1. /\ expiries' \in 0..MaxExpiries /\ score' = Absent
        /\ UNCHANGED <<state, eval, op, evals, ops, external, held, raced>>
    BY <1>0, <1>3, RedisBounds DEF ExpireScore
  <2> QED
    BY <2>1 DEF RedisInv, RedisTypeOK, BlockHoldsUnlessRaced, WindowInv, Respects
<1> QED
  BY <1>1, <1>2, <1>3

\* Every step keeps the invariant.
LEMMA RedisNextInv == RedisInv /\ [RedisNext]_redisVars => RedisInv'
<1> SUFFICES ASSUME RedisInv, [RedisNext]_redisVars PROVE RedisInv'
  OBVIOUS
<1>1. ASSUME NEW w \in Evals, Begin(w) \/ Evaluate(w) PROVE RedisInv'
  BY <1>1, BeforeRecordInv, RecordReadInv, WriteStateInv, WriteScoreInv DEF Evaluate
<1>2. ASSUME NEW o \in Operators, BeginTerminate(o) \/ BeginReset(o) \/ Operate(o) PROVE RedisInv'
  BY <1>2, OperatorInv
<1>3. CASE ExternalWrite \/ ExpireState \/ ExpireScore
  BY <1>3, OutsideInv
<1>4. CASE UNCHANGED redisVars
  BY <1>4 DEF redisVars, RedisInv, RedisTypeOK, BlockHoldsUnlessRaced, WindowInv, Respects
<1> QED
  BY <1>1, <1>2, <1>3, <1>4 DEF RedisNext

\* The inductive invariant: no window holds a snapshot older than the last put
\* unless the put is marked raced.
THEOREM RedisInvariant == RedisSpec => []RedisInv
<1>1. RedisInit => RedisInv
  BY RedisInitInv
<1>2. RedisInv /\ [RedisNext]_redisVars => RedisInv'
  BY RedisNextInv
<1> QED
  BY <1>1, <1>2, PTL DEF RedisSpec

\* A termination or isolation that races no RecordDecision holds until it is
\* lifted, for any number of evaluations and whatever the store loses.
THEOREM RedisBlockHolds == RedisSpec => []BlockHoldsUnlessRaced
<1>1. RedisInv => BlockHoldsUnlessRaced
  BY DEF RedisInv
<1> QED
  BY <1>1, RedisInvariant, PTL

-----------------------------------------------------------------------------
(* The escalation bridge, for any number of callers, callbacks and closers,*)
(* any request ids and any bounds.                                         *)

CallRecord == [pc : CallPCs, id : Ids \cup {"none"}, ticket : Tickets \cup {NoTicket},
               msg : Message \cup {NoMessage}, result : Results, mode : CallMode]

DispRecord == [pc : {"idle", "lookup", "send"}, msg : Message \cup {NoMessage},
               ch : Tickets \cup {NoTicket}]

\* The types of the handler's fields and of the transport's subscription.
HandlerOK ==
  /\ once \in {"fresh", "running", "done"}
  /\ subErr \in {"none", "closed", "subscribe failed"}
  /\ unsubscribe \in BOOLEAN /\ closed \in BOOLEAN /\ active \in BOOLEAN

\* The types of the rest.
TablesOK ==
  /\ waiters \in [Ids -> Tickets \cup {NoTicket}]
  /\ slot \in [Tickets -> Message \cup {NoMessage}]
  /\ first \in [Tickets -> Message \cup {NoMessage}]
  /\ call \in [Callers -> CallRecord]
  /\ disp \in [Callbacks -> DispRecord]
  /\ closer \in [Closers -> {"idle", "unsub", "done"}]
  /\ calls \in 0..MaxCalls
  /\ sent \subseteq [ticket : Tickets, id : Ids]
  /\ wire \subseteq Message

\* The call has its channel and has taken nothing from it yet.
Unresolved == CallPCs \ {"idle", "deregister"}

\* A call in progress has a ticket and an id of its own.
CallsNamed ==
  \A c \in Callers :
    /\ call[c].ticket <= calls
    /\ call[c].pc # "idle" => call[c].ticket \in Tickets /\ call[c].id \in Ids

TicketsDistinct ==
  \A c, d \in Callers :
    c # d /\ call[c].ticket # NoTicket => call[c].ticket # call[d].ticket

\* No channel was touched before its call began.
FreshUntouched ==
  /\ \A t \in Tickets : t > calls => slot[t] = NoMessage /\ first[t] = NoMessage
  /\ \A i \in Ids : waiters[i] <= calls
  /\ \A k \in Callbacks : disp[k].ch <= calls

\* Until a call takes a message its channel holds the first one delivered; the
\* one it took is the first one delivered.
ChannelHoldsFirst ==
  \A c \in Callers :
    /\ call[c].pc \in Unresolved =>
         call[c].msg = NoMessage /\ slot[call[c].ticket] = first[call[c].ticket]
    /\ call[c].msg # NoMessage =>
         call[c].ticket \in Tickets /\ call[c].msg = first[call[c].ticket]

\* An envelope and its answers carry the id of the call they are about.
Addressed(t, i) == t <= calls /\ \A c \in Callers : call[c].ticket = t => call[c].id = i

MailAddressed ==
  /\ \A e \in sent : Addressed(e.ticket, e.id)
  /\ \A m \in wire : Addressed(m.to, m.id)
  /\ \A k \in Callbacks :
       /\ disp[k].pc # "idle" => disp[k].msg \in wire
       /\ disp[k].pc = "send" => disp[k].ch \in Tickets

EscalationInv == HandlerOK /\ TablesOK /\ CallsNamed /\ TicketsDistinct /\ FreshUntouched /\ ChannelHoldsFirst
       /\ MailAddressed /\ WaiterIntact


-----------------------------------------------------------------------------
\* The two halves are the type invariant.
LEMMA TypesSplit == HandlerOK /\ TablesOK <=> EscalationTypeOK
  BY DEF HandlerOK, TablesOK, EscalationTypeOK, CallRecord, DispRecord

\* Nothing is registered, delivered or sent at the start.
LEMMA EscalationInitInv == EscalationInit => EscalationInv
<1> SUFFICES ASSUME EscalationInit PROVE EscalationInv
  OBVIOUS
<1>1. Idle \in CallRecord /\ NotCalled \in DispRecord
  BY DEF Idle, NotCalled, CallRecord, DispRecord, CallPCs, Results, CallMode
<1>2. HandlerOK
  BY DEF EscalationInit, HandlerOK
<1>3. TablesOK
  BY <1>1, EscalationBounds DEF EscalationInit, TablesOK
<1> QED
  BY <1>2, <1>3, EscalationBounds DEF EscalationInit, EscalationInv, CallsNamed, TicketsDistinct, FreshUntouched,
     ChannelHoldsFirst, MailAddressed, WaiterIntact, Idle, NotCalled, Unresolved, Registered, NoTicket

\* The bookkeeping of a caller whose step keeps its call's identity and leaves
\* waiters, channels and mail alone.
LEMMA LocalStep ==
  ASSUME EscalationInv, NEW c \in Callers, NEW x \in CallRecord,
         call' = [call EXCEPT ![c] = x],
         x.ticket = call[c].ticket, x.id = call[c].id, x.msg = call[c].msg,
         x.pc \in Registered => call[c].pc \in Registered,
         x.pc \in Unresolved => call[c].pc \in Unresolved,
         call[c].pc # "idle",
         HandlerOK',
         UNCHANGED <<waiters, slot, disp, closer, calls, wire, first>>,
         sent' \in SUBSET (sent \cup {[ticket |-> call[c].ticket, id |-> call[c].id]})
  PROVE  EscalationInv'
<1>1. \A d \in Callers : call'[d] = IF d = c THEN x ELSE call[d]
  BY DEF EscalationInv, TablesOK
<1>2. call[c].ticket \in Tickets /\ call[c].id \in Ids
  BY DEF EscalationInv, CallsNamed
<1>3. TablesOK'
  BY <1>2 DEF EscalationInv, TablesOK
<1>4. CallsNamed' /\ TicketsDistinct'
  BY <1>1, <1>2 DEF EscalationInv, CallsNamed, TicketsDistinct
<1>5. ChannelHoldsFirst'
  BY <1>1, <1>2 DEF EscalationInv, ChannelHoldsFirst
<1>6. WaiterIntact'
  BY <1>1, <1>2 DEF EscalationInv, WaiterIntact
<1>7. MailAddressed'
  <2>1. Addressed(call[c].ticket, call[c].id)
    BY <1>2 DEF EscalationInv, CallsNamed, TicketsDistinct, Addressed, Tickets, NoTicket
  <2>2. ASSUME NEW t, NEW i, Addressed(t, i) PROVE Addressed(t, i)'
    BY <1>1, <2>2 DEF Addressed
  <2>3. \A e \in sent' : Addressed(e.ticket, e.id)
    BY <2>1 DEF EscalationInv, MailAddressed
  <2> QED
    BY <2>2, <2>3 DEF EscalationInv, MailAddressed
<1>8. FreshUntouched'
  BY DEF EscalationInv, FreshUntouched
<1> QED
  BY <1>3, <1>4, <1>5, <1>6, <1>7, <1>8 DEF EscalationInv

\* What a caller's quiet step writes to its own record.
Moved(c, p, r, m) == [call[c] EXCEPT !.pc = p, !.result = r, !.mode = m]

LEMMA MovedType ==
  ASSUME EscalationInv, NEW c \in Callers, NEW p \in CallPCs, NEW r \in Results, NEW m \in CallMode
  PROVE  /\ Moved(c, p, r, m) \in CallRecord
         /\ Moved(c, p, r, m).ticket = call[c].ticket
         /\ Moved(c, p, r, m).id = call[c].id
         /\ Moved(c, p, r, m).msg = call[c].msg
         /\ Moved(c, p, r, m).pc = p
  BY DEF EscalationInv, TablesOK, CallRecord, Moved

\* The two shapes of quiet step as one.
LEMMA Shapes ==
  ASSUME EscalationInv, NEW c \in Callers
  PROVE  /\ call[c].result \in Results /\ call[c].mode \in CallMode
         /\ \A p : Go(c, p) => call' = [call EXCEPT ![c] = Moved(c, p, call[c].result, call[c].mode)]
         /\ Fault(c) => call' = [call EXCEPT ![c] = Moved(c, "idle", "fault", call[c].mode)]
         /\ FaultThenDeregister(c) =>
              call' = [call EXCEPT ![c] = Moved(c, "deregister", "fault", call[c].mode)]
         /\ GiveUp(c) =>
              call' = [call EXCEPT ![c] = Moved(c, "deregister", "deny", "deterministic")]
  BY DEF EscalationInv, TablesOK, CallRecord, Moved, Go, Fault, FaultThenDeregister, GiveUp

\* Running the once function moves the caller to its error check, never out
\* of the calls without a channel content.
LEMMA OnceInv ==
  ASSUME EscalationInv, NEW c \in Callers,
         EnterOnce(c) \/ CheckClosed(c) \/ Subscribe(c) \/ Install(c) \/ Release(c)
  PROVE  EscalationInv'
<1>1. PICK p \in {"checkClosed", "subscribe", "install", "release", "subErr"} : Go(c, p)
  BY DEF EnterOnce, CheckClosed, Subscribe, Install, Release, LeaveOnce
<1>2. /\ call[c].pc \in {"once", "checkClosed", "subscribe", "install", "release"}
      /\ UNCHANGED <<waiters, slot, disp, closer, calls, sent, wire, first>>
  BY DEF EnterOnce, CheckClosed, Subscribe, Install, Release
<1>3. HandlerOK'
  BY DEF EscalationInv, HandlerOK, EnterOnce, CheckClosed, Subscribe, Install, Release, LeaveOnce
<1> DEFINE x == Moved(c, p, call[c].result, call[c].mode)
<1>4. x \in CallRecord /\ x.ticket = call[c].ticket /\ x.id = call[c].id
      /\ x.msg = call[c].msg /\ x.pc = p /\ call' = [call EXCEPT ![c] = x]
  <2>1. p \in CallPCs
    BY DEF CallPCs
  <2> QED
    BY <1>1, <2>1, MovedType, Shapes
<1>5. x.pc \notin Registered /\ call[c].pc \in Unresolved /\ call[c].pc # "idle"
  BY <1>2, <1>4 DEF Registered, Unresolved, CallPCs
<1> HIDE DEF x
<1>6. sent' \in SUBSET (sent \cup {[ticket |-> call[c].ticket, id |-> call[c].id]})
  BY <1>2
<1> QED
  BY <1>2, <1>3, <1>4, <1>5, <1>6, LocalStep

\* A refused call leaves; a call whose window elapses leaves the channel as it
\* is; an envelope carries the id of its call.
LEMMA EscalationQuietInv ==
  ASSUME EscalationInv, NEW c \in Callers, ReadSubErr(c) \/ Publish(c) \/ PublishReturns(c) \/ GiveUp(c)
  PROVE  EscalationInv'
<1>1. /\ UNCHANGED <<handler, waiters, active, slot, disp, closer, calls, wire, first>>
      /\ sent' \in SUBSET (sent \cup {[ticket |-> call[c].ticket, id |-> call[c].id]})
      /\ call[c].pc \in {"subErr", "publish", "published", "await"}
  BY DEF ReadSubErr, Publish, PublishReturns, GiveUp
<1>2. HandlerOK'
  BY <1>1 DEF EscalationInv, HandlerOK, handler
<1>3. PICK p \in CallPCs, r \in Results, m \in CallMode :
        /\ call' = [call EXCEPT ![c] = Moved(c, p, r, m)]
        /\ p \in Registered => call[c].pc \in Registered
  <2>1. CASE ReadSubErr(c)
    <3>1. Go(c, "register") \/ Fault(c)
      BY <2>1 DEF ReadSubErr
    <3>2. "register" \notin Registered /\ "idle" \notin Registered
          /\ {"register", "idle"} \subseteq CallPCs /\ "fault" \in Results
      BY DEF Registered, CallPCs, Results
    <3> QED
      BY <3>1, <3>2, Shapes
  <2>2. CASE Publish(c) \/ PublishReturns(c)
    <3>1. /\ call[c].pc \in {"publish", "published"}
          /\ Go(c, "published") \/ Go(c, "await") \/ FaultThenDeregister(c)
      BY <2>2 DEF Publish, PublishReturns
    <3>2. {"publish", "published", "await", "deregister"} \subseteq Registered
          /\ {"published", "await", "deregister"} \subseteq CallPCs /\ "fault" \in Results
      BY DEF Registered, CallPCs, Results
    <3> QED
      BY <3>1, <3>2, Shapes
  <2>3. CASE GiveUp(c)
    <3>1. call[c].pc = "await" /\ {"await", "deregister"} \subseteq Registered
          /\ "deregister" \in CallPCs /\ "deny" \in Results /\ "deterministic" \in CallMode
      BY <2>3 DEF GiveUp, Registered, CallPCs, Results, CallMode
    <3> QED
      BY <2>3, <3>1, Shapes
  <2> QED
    BY <2>1, <2>2, <2>3
<1> DEFINE x == Moved(c, p, r, m)
<1>4. x \in CallRecord /\ x.ticket = call[c].ticket /\ x.id = call[c].id
      /\ x.msg = call[c].msg /\ x.pc = p /\ call' = [call EXCEPT ![c] = x]
  BY <1>3, MovedType
<1>5. call[c].pc \in Unresolved /\ call[c].pc # "idle"
  BY <1>1 DEF Unresolved, CallPCs
<1> HIDE DEF x
<1> QED
  BY <1>1, <1>2, <1>3, <1>4, <1>5, LocalStep

\* A call begins with a ticket nobody has used.
LEMMA BeginEscalateInv ==
  ASSUME EscalationInv, NEW c \in Callers, BeginEscalate(c)
  PROVE  EscalationInv'
<1>1. PICK i \in Ids :
        call' = [call EXCEPT ![c] = [pc |-> "once", id |-> i, ticket |-> calls + 1,
                                     msg |-> NoMessage, result |-> "none", mode |-> "none"]]
  BY DEF BeginEscalate
<1>2. /\ UNCHANGED <<handler, waiters, active, slot, disp, closer, sent, wire, first>>
      /\ calls' = calls + 1 /\ calls < MaxCalls
  BY DEF BeginEscalate
<1>3. calls \in Nat /\ calls + 1 \in Tickets /\ calls' \in 0..MaxCalls
  BY <1>2, EscalationBounds DEF EscalationInv, TablesOK, Tickets
<1> DEFINE x == [pc |-> "once", id |-> i, ticket |-> calls + 1,
                 msg |-> NoMessage, result |-> "none", mode |-> "none"]
<1>4. /\ x \in CallRecord /\ x.pc = "once" /\ x.id = i /\ x.ticket = calls + 1
      /\ x.msg = NoMessage
  BY <1>3 DEF CallRecord, CallPCs, Results, CallMode
<1>5. call' = [call EXCEPT ![c] = x]
  BY <1>1
<1> HIDE DEF x
<1>6. \A d \in Callers : call'[d] = IF d = c THEN x ELSE call[d]
  BY <1>5 DEF EscalationInv, TablesOK
<1>7. "once" \notin Registered /\ "once" \in Unresolved
  BY DEF Registered, Unresolved, CallPCs
<1>8. \A d \in Callers : call[d].ticket \in Nat /\ call[d].ticket <= calls
  BY EscalationBounds DEF EscalationInv, TablesOK, CallsNamed, CallRecord, Tickets, NoTicket
<1>9. HandlerOK' /\ TablesOK'
  <2>1. HandlerOK'
    BY <1>2 DEF EscalationInv, HandlerOK, handler
  <2>2. TablesOK'
    BY <1>2, <1>3, <1>4, <1>5 DEF EscalationInv, TablesOK
  <2> QED
    BY <2>1, <2>2
<1>10. CallsNamed'
  BY <1>2, <1>3, <1>4, <1>6, <1>8 DEF EscalationInv, CallsNamed
<1>11. TicketsDistinct'
  BY <1>3, <1>4, <1>6, <1>8 DEF EscalationInv, TicketsDistinct
<1>12. FreshUntouched'
  <2>1. \A t \in Tickets : t \in Nat /\ (t > calls' => t > calls)
    BY <1>2, <1>3, EscalationBounds DEF Tickets
  <2>2. (\A j \in Ids : waiters[j] \in Nat) /\ (\A k \in Callbacks : disp[k].ch \in Nat)
    BY EscalationBounds DEF EscalationInv, TablesOK, DispRecord, Tickets, NoTicket
  <2> QED
    BY <1>2, <1>3, <2>1, <2>2 DEF EscalationInv, FreshUntouched
<1>13. ChannelHoldsFirst'
  <2>1. slot[calls + 1] = first[calls + 1]
    BY <1>3 DEF EscalationInv, FreshUntouched
  <2> QED
    BY <1>2, <1>4, <1>6, <2>1 DEF EscalationInv, ChannelHoldsFirst
<1>14. WaiterIntact'
  BY <1>2, <1>4, <1>6, <1>7 DEF EscalationInv, WaiterIntact
<1>15. MailAddressed'
  <2>1. ASSUME NEW t \in Nat, NEW j, Addressed(t, j) PROVE Addressed(t, j)'
    BY <1>2, <1>3, <1>4, <1>6, <2>1 DEF Addressed
  <2>2. (\A e \in sent : e.ticket \in Nat) /\ (\A m \in wire : m.to \in Nat)
    BY EscalationBounds DEF EscalationInv, TablesOK, Message, Tickets
  <2> QED
    BY <1>2, <2>1, <2>2 DEF EscalationInv, MailAddressed
<1> QED
  BY <1>9, <1>10, <1>11, <1>12, <1>13, <1>14, <1>15 DEF EscalationInv

\* Registration takes a free entry only; deregistration empties its own.
LEMMA RegisterInv ==
  ASSUME EscalationInv, NEW c \in Callers, Register(c) \/ Deregister(c)
  PROVE  EscalationInv'
<1>1. /\ UNCHANGED <<handler, active, slot, disp, closer, calls, sent, wire, first>>
      /\ call[c].pc \in {"register", "deregister"}
  BY DEF Register, Deregister
<1>2. call[c].ticket \in Tickets /\ call[c].id \in Ids
  BY <1>1 DEF EscalationInv, CallsNamed
<1>3. PICK p \in {"idle", "publish"}, r \in Results, w \in {NoTicket, call[c].ticket, waiters[call[c].id]} :
        /\ call' = [call EXCEPT ![c] = Moved(c, p, r, call[c].mode)]
        /\ waiters' = [waiters EXCEPT ![call[c].id] = w]
        /\ p = "publish" => call[c].pc = "register" /\ waiters[call[c].id] = NoTicket
                            /\ w = call[c].ticket
        /\ p = "idle" => w = waiters[call[c].id] \/ (w = NoTicket /\ call[c].pc = "deregister")
  <2>1. CASE Register(c) /\ (closed \/ waiters[call[c].id] # NoTicket)
    <3>1. Fault(c) /\ waiters' = waiters
      BY <2>1 DEF Register
    <3>2. waiters' = [waiters EXCEPT ![call[c].id] = waiters[call[c].id]]
      BY <1>2, <3>1 DEF EscalationInv, TablesOK
    <3>3. "fault" \in Results
      BY DEF Results
    <3> QED
      BY <3>1, <3>2, <3>3, Shapes
  <2>2. CASE Register(c) /\ ~(closed \/ waiters[call[c].id] # NoTicket)
    <3>1. /\ Go(c, "publish") /\ waiters' = [waiters EXCEPT ![call[c].id] = call[c].ticket]
          /\ call[c].pc = "register"
      BY <2>2 DEF Register
    <3> QED
      BY <2>2, <3>1, Shapes
  <2>3. CASE Deregister(c)
    <3>1. /\ Go(c, "idle") /\ waiters' = [waiters EXCEPT ![call[c].id] = NoTicket]
          /\ call[c].pc = "deregister"
      BY <2>3 DEF Deregister
    <3> QED
      BY <3>1, Shapes
  <2> QED
    BY <2>1, <2>2, <2>3
<1> DEFINE x == Moved(c, p, r, call[c].mode)
<1>4. x \in CallRecord /\ x.ticket = call[c].ticket /\ x.id = call[c].id
      /\ x.msg = call[c].msg /\ x.pc = p /\ call' = [call EXCEPT ![c] = x]
  <2>1. p \in CallPCs /\ call[c].mode \in CallMode
    BY Shapes DEF CallPCs
  <2> QED
    BY <1>3, <2>1, MovedType
<1> HIDE DEF x
<1>5. \A d \in Callers : call'[d] = IF d = c THEN x ELSE call[d]
  BY <1>4 DEF EscalationInv, TablesOK
<1>6. \A j \in Ids : waiters'[j] = IF j = call[c].id THEN w ELSE waiters[j]
  BY <1>3 DEF EscalationInv, TablesOK
<1>7. /\ "idle" \notin Registered /\ "idle" \notin Unresolved
      /\ "register" \in Unresolved /\ "deregister" \in Registered /\ "register" \notin Registered
  BY DEF Registered, Unresolved, CallPCs
<1>8. HandlerOK' /\ TablesOK'
  <2>1. HandlerOK'
    BY <1>1 DEF EscalationInv, HandlerOK, handler
  <2>2. w \in Tickets \cup {NoTicket}
    BY <1>2 DEF EscalationInv, TablesOK
  <2>3. TablesOK'
    BY <1>1, <1>3, <1>4, <2>2 DEF EscalationInv, TablesOK
  <2> QED
    BY <2>1, <2>3
<1>9. CallsNamed' /\ TicketsDistinct'
  BY <1>1, <1>2, <1>4, <1>5 DEF EscalationInv, CallsNamed, TicketsDistinct
<1>10. FreshUntouched'
  BY <1>1, <1>2, <1>6, EscalationBounds DEF EscalationInv, FreshUntouched, CallsNamed, TablesOK, NoTicket
<1>11. ChannelHoldsFirst'
  BY <1>1, <1>3, <1>4, <1>5, <1>7 DEF EscalationInv, ChannelHoldsFirst
<1>12. WaiterIntact'
  <2> SUFFICES ASSUME NEW d \in Callers, call'[d].pc \in Registered
               PROVE  waiters'[call'[d].id] = call'[d].ticket
    BY DEF WaiterIntact
  <2>1. CASE d = c
    BY <1>2, <1>3, <1>4, <1>5, <1>6, <1>7, <2>1
  <2>2. CASE d # c
    <3>1. call'[d] = call[d] /\ waiters[call[d].id] = call[d].ticket
      BY <1>5, <2>2 DEF EscalationInv, WaiterIntact
    <3>2. call[d].pc # "idle"
      BY <1>7, <3>1
    <3>3. call[d].ticket \in Tickets /\ call[d].id \in Ids /\ call[d].ticket # NoTicket
      BY <3>2, EscalationBounds DEF EscalationInv, CallsNamed, Tickets, NoTicket
    <3>4. call[d].ticket # call[c].ticket
      BY <2>2, <3>3 DEF EscalationInv, TicketsDistinct
    <3>5. call[c].pc = "deregister" => waiters[call[c].id] = call[c].ticket
      BY <1>7 DEF EscalationInv, WaiterIntact
    <3> QED
      BY <1>3, <1>6, <3>1, <3>3, <3>4, <3>5
  <2> QED
    BY <2>1, <2>2
<1>13. MailAddressed'
  <2>1. ASSUME NEW t, NEW j, Addressed(t, j) PROVE Addressed(t, j)'
    BY <1>1, <1>4, <1>5, <2>1 DEF Addressed
  <2> QED
    BY <1>1, <2>1 DEF EscalationInv, MailAddressed
<1> QED
  BY <1>8, <1>9, <1>10, <1>11, <1>12, <1>13 DEF EscalationInv

\* The message a held call takes is the one its channel held, which is the
\* first one delivered.
LEMMA ResolvedInv ==
  ASSUME EscalationInv, NEW c \in Callers, Resolved(c)
  PROVE  EscalationInv'
<1> DEFINE t == call[c].ticket
           m == slot[t]
<1>1. /\ UNCHANGED <<handler, waiters, active, disp, closer, calls, sent, wire, first>>
      /\ call[c].pc = "await" /\ m # NoMessage
      /\ slot' = [slot EXCEPT ![t] = NoMessage]
  BY DEF Resolved
<1>2. t \in Tickets /\ call[c].id \in Ids
  BY <1>1 DEF EscalationInv, CallsNamed
<1>3. Decide(m).result \in Results /\ Decide(m).mode \in CallMode
  BY DEF Decide, Results, CallMode
<1> DEFINE x == [call[c] EXCEPT !.pc = "deregister", !.msg = m,
                                !.result = Decide(m).result, !.mode = Decide(m).mode]
<1>4. x \in CallRecord /\ x.ticket = t /\ x.id = call[c].id /\ x.msg = m /\ x.pc = "deregister"
  <2>1. m \in Message \cup {NoMessage} /\ "deregister" \in CallPCs /\ call[c] \in CallRecord
    BY <1>2 DEF EscalationInv, TablesOK, CallPCs
  <2> QED
    BY <1>3, <2>1 DEF CallRecord
<1>5. call' = [call EXCEPT ![c] = x]
  BY DEF Resolved, EscalationInv, TablesOK
<1> HIDE DEF x
<1>6. \A d \in Callers : call'[d] = IF d = c THEN x ELSE call[d]
  BY <1>5 DEF EscalationInv, TablesOK
<1>7. \A u \in Tickets : slot'[u] = IF u = t THEN NoMessage ELSE slot[u]
  BY <1>1 DEF EscalationInv, TablesOK
<1>8. /\ "deregister" \notin Unresolved /\ "await" \in Unresolved /\ "idle" \notin Unresolved
      /\ "await" \in Registered
  BY DEF Registered, Unresolved, CallPCs
<1>9. HandlerOK' /\ TablesOK'
  <2>1. HandlerOK'
    BY <1>1 DEF EscalationInv, HandlerOK, handler
  <2>2. TablesOK'
    BY <1>1, <1>4, <1>5 DEF EscalationInv, TablesOK
  <2> QED
    BY <2>1, <2>2
<1>10. CallsNamed' /\ TicketsDistinct'
  BY <1>1, <1>2, <1>4, <1>6 DEF EscalationInv, CallsNamed, TicketsDistinct
<1>11. FreshUntouched'
  BY <1>1, <1>7 DEF EscalationInv, FreshUntouched
<1>12. ChannelHoldsFirst'
  <2> SUFFICES ASSUME NEW d \in Callers
               PROVE  /\ call'[d].pc \in Unresolved =>
                           call'[d].msg = NoMessage /\ slot'[call'[d].ticket] = first'[call'[d].ticket]
                      /\ call'[d].msg # NoMessage =>
                           call'[d].ticket \in Tickets /\ call'[d].msg = first'[call'[d].ticket]
    BY DEF ChannelHoldsFirst
  <2>1. CASE d = c
    BY <1>1, <1>2, <1>4, <1>6, <1>8, <2>1 DEF EscalationInv, ChannelHoldsFirst
  <2>2. CASE d # c
    <3>1. call'[d] = call[d]
      BY <1>6, <2>2
    <3>2. call[d].pc \in Unresolved => call[d].ticket \in Tickets /\ call[d].ticket # t
      BY <1>2, <1>8, <2>2, EscalationBounds DEF EscalationInv, CallsNamed, TicketsDistinct, Tickets, NoTicket
    <3> QED
      BY <1>1, <1>7, <3>1, <3>2 DEF EscalationInv, ChannelHoldsFirst
  <2> QED
    BY <2>1, <2>2
<1>13. WaiterIntact'
  BY <1>1, <1>4, <1>6, <1>8 DEF EscalationInv, WaiterIntact
<1>14. MailAddressed'
  <2>1. ASSUME NEW u, NEW j, Addressed(u, j) PROVE Addressed(u, j)'
    BY <1>1, <1>4, <1>6, <2>1 DEF Addressed
  <2> QED
    BY <1>1, <2>1 DEF EscalationInv, MailAddressed
<1> QED
  BY <1>9, <1>10, <1>11, <1>12, <1>13, <1>14 DEF EscalationInv

\* An answer carries the call and the id of the envelope it answers.
LEMMA AnswerInv ==
  ASSUME EscalationInv, NEW s \in Statuses, Answer(s)
  PROVE  EscalationInv'
<1>1. PICK e \in sent : wire' = wire \cup {[id |-> e.id, status |-> s, to |-> e.ticket]}
  BY DEF Answer
<1>2. UNCHANGED <<handler, waiters, active, slot, call, disp, closer, calls, sent, first>>
  BY DEF Answer
<1> DEFINE m == [id |-> e.id, status |-> s, to |-> e.ticket]
<1>3. m \in Message /\ m.to = e.ticket /\ m.id = e.id
  BY DEF EscalationInv, TablesOK, Message
<1>4. Addressed(m.to, m.id)
  BY <1>3 DEF EscalationInv, MailAddressed
<1>5. wire' = wire \cup {m}
  BY <1>1
<1> HIDE DEF m
<1>6. HandlerOK'
  BY <1>2 DEF EscalationInv, HandlerOK, handler
<1>7. TablesOK'
  BY <1>2, <1>3, <1>5 DEF EscalationInv, TablesOK
<1>8. MailAddressed'
  BY <1>2, <1>4, <1>5 DEF EscalationInv, MailAddressed, Addressed
<1> QED
  BY <1>2, <1>6, <1>7, <1>8 DEF EscalationInv, CallsNamed, TicketsDistinct, FreshUntouched,
     ChannelHoldsFirst, WaiterIntact

\* A callback holds a resolution of the wire, and then the channel its id is
\* registered for.
LEMMA CallbackInv ==
  ASSUME EscalationInv, NEW k \in Callbacks, Receive(k) \/ Lookup(k)
  PROVE  EscalationInv'
<1>1. UNCHANGED <<handler, waiters, active, slot, call, closer, calls, sent, wire, first>>
  BY DEF Receive, Lookup
<1>2. PICK x \in DispRecord :
        /\ disp' = [disp EXCEPT ![k] = x]
        /\ x.pc # "idle" => x.msg \in wire
        /\ x.pc = "send" => x.ch \in Tickets
        /\ x.ch = NoTicket \/ \E i \in Ids : x.ch = waiters[i]
  <2>1. CASE Receive(k)
    <3>1. PICK m \in wire : disp' = [disp EXCEPT ![k] = [pc |-> "lookup", msg |-> m, ch |-> NoTicket]]
      BY <2>1 DEF Receive
    <3> DEFINE x == [pc |-> "lookup", msg |-> m, ch |-> NoTicket]
    <3>2. x \in DispRecord /\ x.pc = "lookup" /\ x.msg = m /\ x.ch = NoTicket
      BY DEF EscalationInv, TablesOK, DispRecord
    <3> QED
      BY <3>1, <3>2
  <2>2. CASE Lookup(k)
    <3> DEFINE ch == IF StatusKnown(disp[k].msg) THEN waiters[disp[k].msg.id] ELSE NoTicket
               x == IF ch = NoTicket THEN NotCalled
                    ELSE [pc |-> "send", msg |-> disp[k].msg, ch |-> ch]
    <3>1. disp' = [disp EXCEPT ![k] = x] /\ disp[k].pc = "lookup"
      BY <2>2 DEF Lookup
    <3>2. disp[k].msg \in wire /\ disp[k].msg \in Message /\ disp[k].msg.id \in Ids
      BY <3>1 DEF EscalationInv, MailAddressed, TablesOK, Message
    <3>3. ch \in Tickets \cup {NoTicket} /\ (ch = NoTicket \/ \E i \in Ids : ch = waiters[i])
      BY <3>2 DEF EscalationInv, TablesOK
    <3>4. CASE ch = NoTicket
      <4>1. x = NotCalled
        BY <3>4
      <4>2. NotCalled \in DispRecord /\ NotCalled.pc = "idle" /\ NotCalled.ch = NoTicket
        BY DEF NotCalled, DispRecord
      <4> HIDE DEF x, ch
      <4> QED
        BY <3>1, <4>1, <4>2
    <3>5. CASE ch # NoTicket
      <4>1. x = [pc |-> "send", msg |-> disp[k].msg, ch |-> ch]
        BY <3>5
      <4> HIDE DEF x, ch
      <4>2. x \in DispRecord /\ x.pc = "send" /\ x.ch = ch /\ x.msg = disp[k].msg
        BY <3>2, <3>3, <4>1 DEF DispRecord
      <4> QED
        BY <3>1, <3>2, <3>3, <3>5, <4>2
    <3> QED
      BY <3>4, <3>5
  <2> QED
    BY <2>1, <2>2
<1>3. \A j \in Callbacks : disp'[j] = IF j = k THEN x ELSE disp[j]
  BY <1>2 DEF EscalationInv, TablesOK
<1>4. HandlerOK'
  BY <1>1 DEF EscalationInv, HandlerOK, handler
<1>5. TablesOK'
  BY <1>1, <1>2 DEF EscalationInv, TablesOK
<1>6. FreshUntouched'
  <2>1. x.ch <= calls
    BY <1>2, EscalationBounds DEF EscalationInv, FreshUntouched, NoTicket, TablesOK
  <2> QED
    BY <1>1, <1>3, <2>1 DEF EscalationInv, FreshUntouched
<1>7. MailAddressed'
  BY <1>1, <1>2, <1>3 DEF EscalationInv, MailAddressed, Addressed
<1> QED
  BY <1>1, <1>4, <1>5, <1>6, <1>7 DEF EscalationInv, CallsNamed, TicketsDistinct, ChannelHoldsFirst,
     WaiterIntact

\* A send fills an empty channel and leaves a full one; the history is filled
\* together with it as long as nothing was taken.
LEMMA SendInv ==
  ASSUME EscalationInv, NEW k \in Callbacks, Send(k)
  PROVE  EscalationInv'
<1> DEFINE t == disp[k].ch
           m == disp[k].msg
<1>1. /\ UNCHANGED <<handler, waiters, active, call, closer, calls, sent, wire>>
      /\ slot' = [slot EXCEPT ![t] = SlotAfter(t, m)]
      /\ first' = IF first[t] = NoMessage THEN [first EXCEPT ![t] = m] ELSE first
      /\ disp' = [disp EXCEPT ![k] = NotCalled]
      /\ disp[k].pc = "send"
  BY DEF Send
<1>2. t \in Tickets /\ m \in Message /\ t <= calls
  BY <1>1 DEF EscalationInv, MailAddressed, TablesOK, FreshUntouched
<1>3. NotCalled \in DispRecord /\ NotCalled.pc = "idle" /\ NotCalled.ch = NoTicket
  BY DEF NotCalled, DispRecord
<1> HIDE DEF t, m
<1>4. \A u \in Tickets :
        /\ slot'[u] = IF u = t /\ slot[u] = NoMessage THEN m ELSE slot[u]
        /\ first'[u] = IF u = t /\ first[u] = NoMessage THEN m ELSE first[u]
  BY <1>1, <1>2 DEF EscalationInv, TablesOK, SlotAfter
<1>5. \A j \in Callbacks : disp'[j] = IF j = k THEN NotCalled ELSE disp[j]
  BY <1>1 DEF EscalationInv, TablesOK
<1>6. HandlerOK'
  BY <1>1 DEF EscalationInv, HandlerOK, handler
<1>7. TablesOK'
  <2>1. slot' \in [Tickets -> Message \cup {NoMessage}]
    BY <1>1, <1>2 DEF EscalationInv, TablesOK, SlotAfter
  <2>2. first' \in [Tickets -> Message \cup {NoMessage}]
    BY <1>1, <1>2 DEF EscalationInv, TablesOK
  <2>3. disp' \in [Callbacks -> DispRecord]
    BY <1>1, <1>3 DEF EscalationInv, TablesOK
  <2> QED
    BY <1>1, <2>1, <2>2, <2>3 DEF EscalationInv, TablesOK
<1>8. FreshUntouched'
  <2>1. \A u \in Tickets : u > calls => u # t
    BY <1>2, EscalationBounds DEF Tickets, EscalationInv, TablesOK
  <2>2. NoTicket <= calls
    BY EscalationBounds DEF NoTicket, EscalationInv, TablesOK
  <2> QED
    BY <1>1, <1>3, <1>4, <1>5, <2>1, <2>2 DEF EscalationInv, FreshUntouched
<1>9. ChannelHoldsFirst'
  <2>1. \A c \in Callers : call[c].pc \in Unresolved => call[c].ticket \in Tickets
    BY DEF EscalationInv, CallsNamed, Unresolved
  <2> QED
    BY <1>1, <1>4, <2>1 DEF EscalationInv, ChannelHoldsFirst
<1>10. MailAddressed'
  BY <1>1, <1>3, <1>5 DEF EscalationInv, MailAddressed, Addressed
<1> QED
  BY <1>1, <1>6, <1>7, <1>8, <1>9, <1>10 DEF EscalationInv, CallsNamed, TicketsDistinct, WaiterIntact

\* Close touches no held call.
LEMMA CloseInv ==
  ASSUME EscalationInv, NEW k \in Closers, Close(k) \/ Unsub(k)
  PROVE  EscalationInv'
<1>1. UNCHANGED <<waiters, slot, call, disp, calls, sent, wire, first>>
  BY DEF Close, Unsub
<1>2. HandlerOK'
  BY DEF EscalationInv, HandlerOK, handler, Close, Unsub
<1>3. closer' \in [Closers -> {"idle", "unsub", "done"}]
  BY DEF EscalationInv, TablesOK, Close, Unsub
<1>4. TablesOK'
  BY <1>1, <1>3 DEF EscalationInv, TablesOK
<1> QED
  BY <1>1, <1>2, <1>4 DEF EscalationInv, CallsNamed, TicketsDistinct, FreshUntouched,
     ChannelHoldsFirst, WaiterIntact, MailAddressed, Addressed

\* A step that changes nothing keeps everything.
LEMMA StutterInv == ASSUME EscalationInv, UNCHANGED escalationVars PROVE EscalationInv'
<1>1. HandlerOK'
  BY DEF EscalationInv, HandlerOK, escalationVars
<1> QED
  BY <1>1 DEF EscalationInv, escalationVars, TablesOK, CallsNamed, TicketsDistinct, FreshUntouched,
     ChannelHoldsFirst, WaiterIntact, MailAddressed, Addressed

\* Every step of every caller, callback, reviewer and closer.
LEMMA EscalationNextInv == EscalationInv /\ [EscalationNext]_escalationVars => EscalationInv'
<1> SUFFICES ASSUME EscalationInv, [EscalationNext]_escalationVars PROVE EscalationInv'
  OBVIOUS
<1>1. ASSUME NEW c \in Callers, BeginEscalate(c) \/ Escalate(c) PROVE EscalationInv'
  BY <1>1, BeginEscalateInv, OnceInv, EscalationQuietInv, RegisterInv, ResolvedInv DEF Escalate
<1>2. ASSUME NEW s \in Statuses, Answer(s) PROVE EscalationInv'
  BY <1>2, AnswerInv
<1>3. ASSUME NEW k \in Callbacks, Receive(k) \/ Lookup(k) \/ Send(k) PROVE EscalationInv'
  BY <1>3, CallbackInv, SendInv
<1>4. ASSUME NEW k \in Closers, Close(k) \/ Unsub(k) PROVE EscalationInv'
  BY <1>4, CloseInv
<1> QED
  BY <1>1, <1>2, <1>3, <1>4, StutterInv DEF EscalationNext

-----------------------------------------------------------------------------
\* The inductive invariant of the escalation bridge: calls in progress own
\* distinct channels, a channel holds the first resolution delivered until it
\* is taken, and envelopes and answers carry their call's id (Escalate,
\* register, dispatch).
THEOREM EscalationInvariant == EscalationSpec => []EscalationInv
<1> QED
  BY EscalationInitInv, EscalationNextInv, PTL DEF EscalationSpec

\* The variables of the bridge keep their types (AwaitingEscalationHandler).
THEOREM EscalationTypes == EscalationSpec => []EscalationTypeOK
<1>1. EscalationInv => EscalationTypeOK
  BY TypesSplit DEF EscalationInv
<1> QED
  BY <1>1, EscalationInvariant, PTL

\* A held call's waiter entry is its own until it deregisters, whatever
\* duplicate calls, callbacks and Close do (register, deregister).
THEOREM EscalationWaiterIntact == EscalationSpec => []WaiterIntact
<1>1. EscalationInv => WaiterIntact
  BY DEF EscalationInv
<1> QED
  BY <1>1, EscalationInvariant, PTL

\* The resolution that decides a call is the first one delivered to it
\* (dispatch's non-blocking send into the one-place channel).
THEOREM EscalationFirstWins == EscalationSpec => []FirstResolutionWins
<1>1. EscalationInv => FirstResolutionWins
  BY DEF EscalationInv, ChannelHoldsFirst, FirstResolutionWins
<1> QED
  BY <1>1, EscalationInvariant, PTL

\* The call's envelope is not out yet.
Unsent == {"once", "checkClosed", "subscribe", "install", "release", "subErr", "register", "publish"}

\* No envelope and no answer is about a call that has not published.
NotAnswered ==
  \A c \in Callers :
    call[c].pc \in Unsent => /\ \A e \in sent : e.ticket # call[c].ticket
                            /\ \A m \in wire : m.to # call[c].ticket

\* A callback about to send the resolution of a held call has that call's channel.
RightChannel ==
  \A k \in Callbacks, c \in Callers :
    disp[k].pc = "send" /\ call[c].pc \in Registered /\ call[c].ticket = disp[k].msg.to
      => disp[k].ch = call[c].ticket

MailInv == EscalationInv /\ NotAnswered /\ RightChannel

\* A step of a caller that keeps the call's ticket.
LEMMA MailCallerStep ==
  ASSUME MailInv, NEW c \in Callers, NEW x,
         call' = [call EXCEPT ![c] = x], x.ticket = call[c].ticket,
         x.pc \in Registered => call[c].pc \in Registered \cup {"register"},
         x.pc \in Unsent => call[c].pc \in Unsent /\ sent' = sent,
         call[c].pc # "idle",
         UNCHANGED <<disp, wire>>,
         sent' \in SUBSET (sent \cup {[ticket |-> call[c].ticket, id |-> call[c].id]})
  PROVE  NotAnswered' /\ RightChannel'
<1>1. \A d \in Callers : call'[d] = IF d = c THEN x ELSE call[d]
  BY DEF MailInv, EscalationInv, TablesOK
<1>2. call[c].ticket # NoTicket
  BY EscalationBounds DEF MailInv, EscalationInv, CallsNamed, Tickets, NoTicket
<1>3. NotAnswered'
  <2> SUFFICES ASSUME NEW d \in Callers, call'[d].pc \in Unsent
               PROVE  /\ \A e \in sent' : e.ticket # call'[d].ticket
                      /\ \A m \in wire : m.to # call'[d].ticket
    BY DEF NotAnswered
  <2>1. CASE d = c
    BY <1>1, <2>1 DEF MailInv, NotAnswered
  <2>2. CASE d # c
    <3>1. call'[d] = call[d] /\ call[d].ticket # call[c].ticket
      BY <1>1, <1>2, <2>2 DEF MailInv, EscalationInv, TicketsDistinct
    <3> QED
      BY <3>1 DEF MailInv, NotAnswered
  <2> QED
    BY <2>1, <2>2
<1>4. RightChannel'
  <2> SUFFICES ASSUME NEW k \in Callbacks, NEW d \in Callers, disp[k].pc = "send",
                      call'[d].pc \in Registered, call'[d].ticket = disp[k].msg.to
               PROVE  disp[k].ch = call'[d].ticket
    BY DEF RightChannel
  <2>1. disp[k].msg \in wire
    BY DEF MailInv, EscalationInv, MailAddressed
  <2>2. CASE d = c /\ call[c].pc = "register"
    BY <1>1, <2>1, <2>2 DEF MailInv, NotAnswered, Unsent
  <2>3. CASE ~(d = c /\ call[c].pc = "register")
    BY <1>1, <2>3 DEF MailInv, RightChannel
  <2> QED
    BY <2>2, <2>3
<1> QED
  BY <1>3, <1>4

\* Callers, one kind of step after another.
LEMMA MailCallerInv ==
  ASSUME MailInv, NEW c \in Callers, Escalate(c)
  PROVE  NotAnswered' /\ RightChannel'
<1>1. /\ UNCHANGED <<disp, wire>> /\ call[c].pc # "idle"
      /\ sent' \in SUBSET (sent \cup {[ticket |-> call[c].ticket, id |-> call[c].id]})
  BY DEF Escalate, EnterOnce, CheckClosed, Subscribe, Install, Release, ReadSubErr, Register, Publish,
     PublishReturns, Resolved, GiveUp, Deregister
<1>2. call[c] \in CallRecord
  BY DEF MailInv, EscalationInv, TablesOK
<1> DEFINE Moves(x) == /\ call' = [call EXCEPT ![c] = x] /\ x.ticket = call[c].ticket
                       /\ x.pc \in Registered => call[c].pc \in Registered \cup {"register"}
                       /\ x.pc \in Unsent => call[c].pc \in Unsent /\ sent' = sent
<1>3. \E x : Moves(x)
  <2>1. CASE EnterOnce(c) \/ CheckClosed(c) \/ Subscribe(c) \/ Install(c) \/ Release(c)
    <3>1. PICK p \in {"checkClosed", "subscribe", "install", "release", "subErr"} : Go(c, p)
      BY <2>1 DEF EnterOnce, CheckClosed, Subscribe, Install, Release, LeaveOnce
    <3>2. sent' = sent /\ call[c].pc \in Unsent
      BY <2>1 DEF EnterOnce, CheckClosed, Subscribe, Install, Release, Unsent
    <3>3. Moves([call[c] EXCEPT !.pc = p])
      BY <1>2, <3>1, <3>2 DEF CallRecord, Go, Registered
    <3> QED
      BY <3>3
  <2>2. CASE ReadSubErr(c) \/ Register(c)
    <3>1. PICK p \in {"idle", "register", "publish"}, r \in Results :
            /\ call' = [call EXCEPT ![c] = [call[c] EXCEPT !.pc = p, !.result = r]]
            /\ p = "publish" => call[c].pc = "register"
      <4>1. Go(c, "register") \/ (Go(c, "publish") /\ call[c].pc = "register") \/ Fault(c)
        BY <2>2 DEF ReadSubErr, Register
      <4>2. \A p : Go(c, p) => call' = [call EXCEPT ![c] = [call[c] EXCEPT !.pc = p, !.result = call[c].result]]
        BY <1>2 DEF CallRecord, Go
      <4>3. Fault(c) => call' = [call EXCEPT ![c] = [call[c] EXCEPT !.pc = "idle", !.result = "fault"]]
        BY <1>2 DEF CallRecord, Fault, MailInv, EscalationInv, TablesOK
      <4>4. call[c].result \in Results /\ "fault" \in Results
        BY <1>2 DEF CallRecord, Results
      <4> QED
        BY <4>1, <4>2, <4>3, <4>4
    <3>2. sent' = sent /\ call[c].pc \in Unsent
      BY <2>2 DEF ReadSubErr, Register, Unsent
    <3>3. Moves([call[c] EXCEPT !.pc = p, !.result = r])
      BY <1>2, <3>1, <3>2 DEF CallRecord, Registered
    <3> QED
      BY <3>3
  <2>3. CASE Publish(c) \/ PublishReturns(c) \/ Resolved(c) \/ GiveUp(c) \/ Deregister(c)
    <3>1. PICK x : call' = [call EXCEPT ![c] = x] /\ x.ticket = call[c].ticket
                   /\ x.pc \in {"published", "await", "deregister", "idle"}
      <4>1. CASE Publish(c) \/ PublishReturns(c) \/ Deregister(c)
        <5>1. \/ \E p \in {"published", "await", "idle"} : Go(c, p)
              \/ FaultThenDeregister(c)
          BY <4>1 DEF Publish, PublishReturns, Deregister
        <5>2. ASSUME NEW p \in {"published", "await", "idle"}, Go(c, p)
              PROVE  call' = [call EXCEPT ![c] = [call[c] EXCEPT !.pc = p]]
          BY <5>2 DEF Go
        <5>3. ASSUME FaultThenDeregister(c)
              PROVE  call' = [call EXCEPT ![c] = [call[c] EXCEPT !.pc = "deregister", !.result = "fault"]]
          BY <5>3 DEF FaultThenDeregister, MailInv, EscalationInv, TablesOK
        <5>4. \A p : [call[c] EXCEPT !.pc = p].ticket = call[c].ticket /\ [call[c] EXCEPT !.pc = p].pc = p
          BY <1>2 DEF CallRecord
        <5>5. /\ [call[c] EXCEPT !.pc = "deregister", !.result = "fault"].ticket = call[c].ticket
              /\ [call[c] EXCEPT !.pc = "deregister", !.result = "fault"].pc = "deregister"
          BY <1>2 DEF CallRecord
        <5> QED
          BY <5>1, <5>2, <5>3, <5>4, <5>5
      <4>2. CASE GiveUp(c)
        <5> DEFINE x == [call[c] EXCEPT !.pc = "deregister", !.result = "deny", !.mode = "deterministic"]
        <5>1. x.ticket = call[c].ticket /\ x.pc = "deregister"
          BY <1>2 DEF CallRecord
        <5>2. call' = [call EXCEPT ![c] = x]
          BY <4>2 DEF GiveUp, MailInv, EscalationInv, TablesOK
        <5> QED
          BY <5>1, <5>2
      <4>3. CASE Resolved(c)
        <5> DEFINE m == slot[call[c].ticket]
                   x == [call[c] EXCEPT !.pc = "deregister", !.msg = m,
                                        !.result = Decide(m).result, !.mode = Decide(m).mode]
        <5>1. x.ticket = call[c].ticket /\ x.pc = "deregister"
          BY <1>2 DEF CallRecord
        <5>2. call' = [call EXCEPT ![c] = x]
          BY <4>3 DEF Resolved, MailInv, EscalationInv, TablesOK
        <5> QED
          BY <5>1, <5>2
      <4> QED
        BY <2>3, <4>1, <4>2, <4>3
    <3>2. call[c].pc \in Registered
      BY <2>3 DEF Publish, PublishReturns, Resolved, GiveUp, Deregister, Registered
    <3>3. Moves(x)
      BY <3>1, <3>2 DEF Unsent
    <3> QED
      BY <3>3
  <2> QED
    BY <2>1, <2>2, <2>3 DEF Escalate
<1>4. PICK x : Moves(x)
  BY <1>3
<1> QED
  BY <1>1, <1>4, MailCallerStep

\* A new call's ticket is on no envelope.
LEMMA MailBeginInv ==
  ASSUME MailInv, NEW c \in Callers, BeginEscalate(c)
  PROVE  NotAnswered' /\ RightChannel'
<1>1. PICK x : /\ call' = [call EXCEPT ![c] = x] /\ x.ticket = calls + 1 /\ x.pc = "once"
               /\ UNCHANGED <<disp, sent, wire>>
  BY DEF BeginEscalate
<1>2. \A d \in Callers : call'[d] = IF d = c THEN x ELSE call[d]
  BY <1>1 DEF MailInv, EscalationInv, TablesOK
<1>3. /\ \A e \in sent : e.ticket # calls + 1
      /\ \A m \in wire : m.to # calls + 1
  <2>1. calls \in Nat
    BY EscalationBounds DEF MailInv, EscalationInv, TablesOK
  <2>2. (\A e \in sent : e.ticket \in Nat) /\ (\A m \in wire : m.to \in Nat)
    BY EscalationBounds DEF MailInv, EscalationInv, TablesOK, Message, Tickets
  <2> QED
    BY <2>1, <2>2 DEF MailInv, EscalationInv, MailAddressed, Addressed
<1>4. "once" \notin Registered
  BY DEF Registered
<1> QED
  BY <1>1, <1>2, <1>3, <1>4 DEF MailInv, NotAnswered, RightChannel

\* A lookup finds the channel of the call its resolution answers.
LEMMA MailCallbackInv ==
  ASSUME MailInv, NEW k \in Callbacks, Receive(k) \/ Lookup(k) \/ Send(k)
  PROVE  NotAnswered' /\ RightChannel'
<1>1. UNCHANGED <<call, sent, wire, waiters>>
  BY DEF Receive, Lookup, Send
<1>2. PICK y : disp' = [disp EXCEPT ![k] = y]
  BY DEF Receive, Lookup, Send
<1>3. \A j \in Callbacks : disp'[j] = IF j = k THEN y ELSE disp[j]
  BY <1>2 DEF MailInv, EscalationInv, TablesOK
<1>4. ASSUME NEW c \in Callers, disp'[k].pc = "send", call[c].pc \in Registered,
             call[c].ticket = disp'[k].msg.to
      PROVE  disp'[k].ch = call[c].ticket
  <2>1. disp'[k] = y
    BY <1>3
  <2>2. Lookup(k)
    <3>1. ASSUME Receive(k) PROVE disp'[k].pc = "lookup"
      <4>1. PICK m \in wire : disp' = [disp EXCEPT ![k] = [pc |-> "lookup", msg |-> m, ch |-> NoTicket]]
        BY <3>1 DEF Receive
      <4> QED
        BY <4>1 DEF MailInv, EscalationInv, TablesOK
    <3>2. ASSUME Send(k) PROVE disp'[k].pc = "idle"
      BY <3>2 DEF Send, NotCalled, MailInv, EscalationInv, TablesOK
    <3> QED
      BY <1>4, <3>1, <3>2
  <2> DEFINE ch == IF StatusKnown(disp[k].msg) THEN waiters[disp[k].msg.id] ELSE NoTicket
  <2>3. /\ disp[k].pc = "lookup"
        /\ disp'[k] = IF ch = NoTicket THEN NotCalled
                      ELSE [pc |-> "send", msg |-> disp[k].msg, ch |-> ch]
    BY <2>2 DEF Lookup, MailInv, EscalationInv, TablesOK
  <2>4. disp'[k] = [pc |-> "send", msg |-> disp[k].msg, ch |-> ch] /\ ch # NoTicket
    BY <1>4, <2>3 DEF NotCalled
  <2>5. disp'[k].ch = waiters[disp[k].msg.id] /\ disp'[k].msg = disp[k].msg
    BY <2>4
  <2>6. Addressed(disp[k].msg.to, disp[k].msg.id)
    BY <2>3 DEF MailInv, EscalationInv, MailAddressed
  <2>7. call[c].id = disp[k].msg.id
    BY <1>4, <2>5, <2>6 DEF Addressed
  <2> QED
    BY <1>4, <2>5, <2>7 DEF MailInv, EscalationInv, WaiterIntact
<1>5. RightChannel'
  BY <1>1, <1>3, <1>4 DEF MailInv, RightChannel
<1> QED
  BY <1>1, <1>5 DEF MailInv, NotAnswered

\* Answers are to envelopes that are out; Close touches neither.
LEMMA MailNextInv == MailInv /\ [EscalationNext]_escalationVars => MailInv'
<1> SUFFICES ASSUME MailInv, [EscalationNext]_escalationVars PROVE MailInv'
  OBVIOUS
<1>1. EscalationInv'
  BY EscalationNextInv DEF MailInv
<1>2. ASSUME NEW s \in Statuses, Answer(s) PROVE NotAnswered' /\ RightChannel'
  <2>1. PICK e \in sent : wire' = wire \cup {[id |-> e.id, status |-> s, to |-> e.ticket]}
    BY <1>2 DEF Answer
  <2>2. UNCHANGED <<call, disp, sent>>
    BY <1>2 DEF Answer
  <2> QED
    BY <2>1, <2>2 DEF MailInv, NotAnswered, RightChannel
<1>3. ASSUME UNCHANGED <<call, disp, sent, wire>> PROVE NotAnswered' /\ RightChannel'
  BY <1>3 DEF MailInv, NotAnswered, RightChannel
<1>4. ASSUME NEW k \in Closers, Close(k) \/ Unsub(k) PROVE UNCHANGED <<call, disp, sent, wire>>
  BY <1>4 DEF Close, Unsub
<1>5. UNCHANGED escalationVars => UNCHANGED <<call, disp, sent, wire>>
  BY DEF escalationVars
<1>6. NotAnswered' /\ RightChannel'
  BY <1>2, <1>3, <1>4, <1>5, MailBeginInv, MailCallerInv, MailCallbackInv DEF EscalationNext
<1> QED
  BY <1>1, <1>6 DEF MailInv

\* Every callback is about to fill the right channel, and no answer runs ahead
\* of its envelope (Escalate, dispatch).
THEOREM EscalationMail == EscalationSpec => []MailInv
<1>1. EscalationInit => MailInv
  <2>1. EscalationInit => NotAnswered /\ RightChannel
    BY DEF EscalationInit, NotAnswered, RightChannel, Idle, NotCalled, Unsent, Registered
  <2> QED
    BY <2>1, EscalationInitInv DEF MailInv
<1> QED
  BY <1>1, MailNextInv, PTL DEF EscalationSpec

\* A callback is through with a known verdict that answers a held call only
\* when that call's channel is full, with this resolution or with an earlier
\* one: nothing is dropped for want of a waiter or of a reader (register,
\* dispatch).
THEOREM EscalationNeverMissed == EscalationSpec => NeverMissed
<1> DEFINE P == \A k \in Callbacks, c \in Callers :
       disp[k].pc # "idle" /\ disp'[k].pc = "idle" /\ StatusKnown(disp[k].msg) /\ Answers(k, c) =>
         /\ slot'[call[c].ticket] # NoMessage
         /\ slot'[call[c].ticket] # disp[k].msg => slot'[call[c].ticket] = slot[call[c].ticket]
<1>1. ASSUME MailInv, EscalationNext PROVE P
  <2> SUFFICES ASSUME NEW k \in Callbacks, NEW c \in Callers,
                      disp[k].pc # "idle", disp'[k].pc = "idle", StatusKnown(disp[k].msg), Answers(k, c)
               PROVE  /\ slot'[call[c].ticket] # NoMessage
                      /\ slot'[call[c].ticket] # disp[k].msg => slot'[call[c].ticket] = slot[call[c].ticket]
    OBVIOUS
  <2>0. EscalationInv
    BY <1>1 DEF MailInv
  <2>1. disp' # disp
    OBVIOUS
  <2>2. PICK j \in Callbacks : Receive(j) \/ Lookup(j) \/ Send(j)
    BY <1>1, <2>1 DEF EscalationNext, BeginEscalate, Escalate, EnterOnce, CheckClosed, Subscribe, Install, Release,
       ReadSubErr, Register, Publish, PublishReturns, Resolved, GiveUp, Deregister, Answer, Close, Unsub
  <2>3. j = k
    <3>1. \E y : disp' = [disp EXCEPT ![j] = y]
      BY <2>2 DEF Receive, Lookup, Send
    <3> QED
      BY <2>0, <3>1 DEF EscalationInv, TablesOK
  <2>4. /\ call[c].ticket = disp[k].msg.to /\ call[c].pc \in Registered
        /\ call[c].pc # "idle" /\ disp[k].msg \in Message
    BY <2>0 DEF Answers, Registered, EscalationInv, MailAddressed, TablesOK
  <2>5. call[c].ticket \in Tickets
    BY <2>0, <2>4 DEF EscalationInv, CallsNamed
  <2>6. ~Receive(k)
    BY DEF Receive
  <2>7. ~Lookup(k)
    <3> SUFFICES ASSUME Lookup(k) PROVE FALSE
      OBVIOUS
    <3> DEFINE ch == waiters[disp[k].msg.id]
    <3>1. disp' = [disp EXCEPT ![k] = IF ch = NoTicket THEN NotCalled
                                      ELSE [pc |-> "send", msg |-> disp[k].msg, ch |-> ch]]
      BY DEF Lookup
    <3>2. ch = NoTicket
      BY <2>0, <3>1 DEF EscalationInv, TablesOK
    <3>3. Addressed(disp[k].msg.to, disp[k].msg.id)
      BY <2>0 DEF EscalationInv, MailAddressed
    <3>4. call[c].id = disp[k].msg.id
      BY <2>4, <3>3 DEF Addressed
    <3>5. ch = call[c].ticket
      BY <2>0, <2>4, <3>4 DEF EscalationInv, WaiterIntact
    <3> QED
      BY <2>5, <3>2, <3>5, EscalationBounds DEF Tickets, NoTicket
  <2>8. Send(k)
    BY <2>2, <2>3, <2>6, <2>7
  <2>9. disp[k].ch = call[c].ticket
    BY <1>1, <2>4, <2>8 DEF Send, MailInv, RightChannel
  <2>10. slot'[call[c].ticket] = SlotAfter(call[c].ticket, disp[k].msg)
    BY <2>0, <2>5, <2>8, <2>9 DEF Send, EscalationInv, TablesOK
  <2>11. disp[k].msg # NoMessage
    BY <2>4, EscalationBounds DEF Message, NoMessage, Tickets, NoTicket
  <2> QED
    BY <2>10, <2>11 DEF SlotAfter
<1>2. MailInv /\ [EscalationNext]_escalationVars => [P]_escalationVars
  BY <1>1
<1> QED
  BY <1>2, EscalationMail, PTL DEF EscalationSpec, NeverMissed
=============================================================================
