--------------------------- MODULE AuditDelivery ----------------------------
(***************************************************************************)
(* Evidence-delivery accounting of the pipeline: publishAudit draws a      *)
(* ticket, delivers the event, and raises one of two high-water marks with *)
(* a compare-and-swap loop (storeMaxInt64); Degraded() compares the marks  *)
(* with two separate atomic loads; AuditFailures() counts.                 *)
(*                                                                         *)
(* Every atomic operation is a step.  okDone and failDone are history: the *)
(* tickets whose accounting has completed.                                 *)
(***************************************************************************)
EXTENDS Integers, FiniteSets

CONSTANTS
  Publishers,  \* goroutines inside publishAudit
  Readers,     \* goroutines inside Degraded
  MaxTickets,  \* bound: events published in all
  MaxReads     \* bound: Degraded calls in all

ASSUME DeliveryBounds == MaxTickets \in Nat /\ MaxReads \in Nat

VARIABLES
  auditSeq, auditOKSeq, auditFailSeq, auditFailures,
  pub,             \* per publisher: where it is and the ticket it holds
  reader,          \* per reader: the first mark it loaded
  reads,
  okDone, failDone

auditVars == <<auditSeq, auditOKSeq, auditFailSeq, auditFailures, pub, reader, reads, okDone, failDone>>

AuditTickets == 1..MaxTickets

\* pc: idle, delivering, counting a failure, loading a mark, swapping it.
Publication == [pc : {"idle", "deliver", "count", "load", "swap"},
                seq : 0..MaxTickets, ok : BOOLEAN, cur : 0..MaxTickets]
NotPublishing == [pc |-> "idle", seq |-> 0, ok |-> FALSE, cur |-> 0]

\* everDegraded: the marks said degraded at some instant since the call began.
Reading == [pc : {"idle", "half", "done"}, first : 0..MaxTickets, degraded : BOOLEAN,
            everDegraded : BOOLEAN]
NotReading == [pc |-> "idle", first |-> 0, degraded |-> FALSE,
               everDegraded |-> FALSE]

DegradedNow == auditFailSeq > auditOKSeq

AuditInit ==
  /\ auditSeq = 0 /\ auditOKSeq = 0 /\ auditFailSeq = 0 /\ auditFailures = 0
  /\ pub = [p \in Publishers |-> NotPublishing]
  /\ reader = [r \in Readers |-> NotReading]
  /\ reads = 0
  /\ okDone = {} /\ failDone = {}

\* Every step shows the readers in mid-call the marks it leaves behind.
Witness ==
  [r \in Readers |->
     IF reader[r].pc = "half"
     THEN [reader[r] EXCEPT !.everDegraded = @ \/ auditFailSeq' > auditOKSeq']
     ELSE reader[r]]

\* auditSeq.Add(1).
Draw(p) ==
  /\ pub[p].pc = "idle" /\ auditSeq < MaxTickets
  /\ auditSeq' = auditSeq + 1
  /\ pub' = [pub EXCEPT ![p] = [pc |-> "deliver", seq |-> auditSeq + 1, ok |-> FALSE, cur |-> 0]]
  /\ UNCHANGED <<auditOKSeq, auditFailSeq, auditFailures, reader, reads, okDone, failDone>>

\* The publisher delivers, or reports an error, or panics and is recovered.
Deliver(p) ==
  /\ pub[p].pc = "deliver"
  /\ \E ok \in BOOLEAN :
       pub' = [pub EXCEPT ![p].ok = ok, ![p].pc = IF ok THEN "load" ELSE "count"]
  /\ UNCHANGED <<auditSeq, auditOKSeq, auditFailSeq, auditFailures, reader, reads, okDone, failDone>>

\* auditFailures.Add(1).
Count(p) ==
  /\ pub[p].pc = "count"
  /\ auditFailures' = auditFailures + 1
  /\ pub' = [pub EXCEPT ![p].pc = "load"]
  /\ UNCHANGED <<auditSeq, auditOKSeq, auditFailSeq, reader, reads, okDone, failDone>>

\* The mark a publication raises.
Mark(ok) == IF ok THEN auditOKSeq ELSE auditFailSeq

\* storeMaxInt64: v.Load().
LoadMark(p) ==
  /\ pub[p].pc = "load"
  /\ pub' = [pub EXCEPT ![p].cur = Mark(pub[p].ok), ![p].pc = "swap"]
  /\ UNCHANGED <<auditSeq, auditOKSeq, auditFailSeq, auditFailures, reader, reads, okDone, failDone>>

\* Publication p is accounted for: its ticket joins the history.
Settle(p) ==
  /\ pub' = [pub EXCEPT ![p] = NotPublishing]
  /\ okDone' = IF pub[p].ok THEN okDone \cup {pub[p].seq} ELSE okDone
  /\ failDone' = IF pub[p].ok THEN failDone ELSE failDone \cup {pub[p].seq}

\* What the compare-and-swap leaves in a mark.
StoreAnyway(p, v) == pub[p].seq
SwapMark(p, v) == IF pub[p].seq > pub[p].cur THEN pub[p].seq ELSE v

\* The compare-and-swap is tried and finds the mark moved since the load.
SpinLost(p, v) == pub[p].seq <= pub[p].cur \/ v # pub[p].cur
Lost(p, v) == pub[p].seq > pub[p].cur /\ v # pub[p].cur

\* storeMaxInt64: return when the mark is already higher, else CompareAndSwap
\* and go round again when another publisher moved the mark in between.
StoreMax(p) ==
  /\ pub[p].pc = "swap"
  /\ LET v == Mark(pub[p].ok)
     IN  \/ /\ Lost(p, v)
            /\ pub' = [pub EXCEPT ![p].pc = "load"]
            /\ UNCHANGED <<auditOKSeq, auditFailSeq, reader, okDone, failDone>>
         \/ /\ ~Lost(p, v)
            /\ Settle(p)
            /\ auditOKSeq' = IF pub[p].ok THEN SwapMark(p, v) ELSE auditOKSeq
            /\ auditFailSeq' = IF pub[p].ok THEN auditFailSeq ELSE SwapMark(p, v)
            /\ reader' = Witness
  /\ UNCHANGED <<auditSeq, auditFailures, reads>>

\* Degraded() compares the mark it loaded first with the one it loads now.
ConcludeLoosely(mark) == mark >= auditOKSeq
Conclude(mark) == mark > auditOKSeq

\* Degraded(): the left operand's atomic load.
LoadFirst(r) ==
  /\ reader[r].pc \in {"idle", "done"} /\ reads < MaxReads
  /\ reads' = reads + 1
  /\ reader' = [reader EXCEPT ![r] =
                  [pc |-> "half", first |-> auditFailSeq, degraded |-> FALSE,
                   everDegraded |-> DegradedNow]]
  /\ UNCHANGED <<auditSeq, auditOKSeq, auditFailSeq, auditFailures, pub, okDone, failDone>>

\* Degraded(): the right operand's atomic load, and the comparison.
LoadSecond(r) ==
  /\ reader[r].pc = "half"
  /\ reader' = [reader EXCEPT ![r].pc = "done", ![r].degraded = Conclude(reader[r].first)]
  /\ UNCHANGED <<auditSeq, auditOKSeq, auditFailSeq, auditFailures, pub, reads, okDone, failDone>>

PublishAudit(p) == Draw(p) \/ Deliver(p) \/ Count(p) \/ LoadMark(p) \/ StoreMax(p)
Account(p) == Deliver(p) \/ Count(p) \/ LoadMark(p) \/ StoreMax(p)

AuditNext ==
  \/ \E p \in Publishers : PublishAudit(p)
  \/ \E r \in Readers : LoadFirst(r) \/ LoadSecond(r)

AuditSpec == AuditInit /\ [][AuditNext]_auditVars

\* A goroutine that has drawn a ticket is scheduled until it is done; the
\* auditor's own call is bounded by its context.
AuditFairSpec == AuditSpec /\ \A p \in Publishers : WF_auditVars(Account(p))

-----------------------------------------------------------------------------
(* Properties *)

AuditTypeOK ==
  /\ auditSeq \in 0..MaxTickets /\ auditOKSeq \in 0..MaxTickets
  /\ auditFailSeq \in 0..MaxTickets /\ auditFailures \in Nat
  /\ pub \in [Publishers -> Publication]
  /\ reader \in [Readers -> Reading]
  /\ reads \in 0..MaxReads
  /\ okDone \subseteq AuditTickets /\ failDone \subseteq AuditTickets

\* The marks say degraded exactly when the latest-sequenced delivery that has
\* been accounted for failed, in whatever order the accounting happened: a
\* success sequenced before a failure cannot mask it, and one sequenced after
\* it clears it (Degraded, storeMaxInt64).
LatestDeliveryDecides ==
  DegradedNow <=> \E t \in failDone : \A u \in okDone : u < t

\* A mark never goes down: a stale update cannot lower the high-water mark.
MarksMonotone ==
  [][auditOKSeq' >= auditOKSeq /\ auditFailSeq' >= auditFailSeq]_auditVars

\* A reported outage was real: the marks said degraded during the call.
DegradedReportHonest ==
  \A r \in Readers : reader[r].pc = "done" /\ reader[r].degraded => reader[r].everDegraded

\* The retry loop of storeMaxInt64 ends: every drawn ticket is accounted for.
TicketsSettle == \A p \in Publishers : pub[p].pc # "idle" ~> pub[p].pc = "idle"
=============================================================================
