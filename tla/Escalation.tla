----------------------------- MODULE Escalation -----------------------------
(***************************************************************************)
(* kernel.AwaitingEscalationHandler: Escalate holds a governed call until  *)
(* a reviewer's resolution arrives, its window elapses or its context      *)
(* ends.                                                                   *)
(*                                                                         *)
(* Three kinds of goroutine share the handler: callers inside Escalate,    *)
(* subscription callbacks inside dispatch, and operators inside Close.     *)
(* Each critical section of h.mu, each call to the transport and each      *)
(* channel operation is one step.  The transport may lose, duplicate,      *)
(* delay and reorder resolutions: a resolution stays on the wire and a     *)
(* callback may pick it up at any time, any number of times, or never.     *)
(***************************************************************************)
EXTENDS Integers, FiniteSets

CONSTANTS
  Callers,    \* goroutines calling Escalate
  Callbacks,  \* concurrent invocations of dispatch
  Closers,    \* goroutines calling Close
  Ids,        \* request ids
  MaxCalls,   \* bound: Escalate calls in all
  MaxAnswers  \* bound: resolutions published in all

ASSUME EscalationBounds == MaxCalls \in Nat /\ MaxAnswers \in Nat

VARIABLES
  once,     \* subscribeOnce: "fresh", "running", "done"
  subErr, unsubscribe, closed, waiters,   \* the handler's fields
  active,   \* the transport holds our subscription
  slot,     \* per call: the one-place buffer of its channel
  call,     \* per caller
  disp,     \* per callback
  closer,   \* per closer
  calls,    \* Escalate calls started; the number names the call
  sent,     \* envelopes published: call and request id
  wire,     \* resolutions published
  first     \* history: the first resolution put into each call's channel

escalationVars == <<once, subErr, unsubscribe, closed, waiters, active, slot, call, disp, closer,
          calls, sent, wire, first>>

handler == <<once, subErr, unsubscribe, closed>>

Tickets == 1..MaxCalls
NoTicket == 0
Statuses == {"approved", "denied", "expired", "pending"}
Message == [id : Ids, status : Statuses, to : Tickets]
NoMessage == [id |-> "none", status |-> "none", to |-> NoTicket]

StatusKnown(m) == m.status \in {"approved", "denied", "expired"}

CallPCs == {"idle", "once", "checkClosed", "subscribe", "install", "release", "subErr",
            "register", "publish", "published", "await", "deregister"}
Results == {"none", "fault", "allow", "deny"}
CallMode == {"none", "deterministic", "human_approved"}

Idle == [pc |-> "idle", id |-> "none", ticket |-> NoTicket,
         msg |-> NoMessage, result |-> "none", mode |-> "none"]

NotCalled == [pc |-> "idle", msg |-> NoMessage, ch |-> NoTicket]

EscalationInit ==
  /\ once = "fresh" /\ subErr = "none" /\ unsubscribe = FALSE /\ closed = FALSE
  /\ waiters = [i \in Ids |-> NoTicket]
  /\ active = FALSE
  /\ slot = [t \in Tickets |-> NoMessage]
  /\ call = [c \in Callers |-> Idle]
  /\ disp = [k \in Callbacks |-> NotCalled]
  /\ closer = [k \in Closers |-> "idle"]
  /\ calls = 0 /\ sent = {} /\ wire = {}
  /\ first = [t \in Tickets |-> NoMessage]

Go(c, pc) == call' = [call EXCEPT ![c].pc = pc]
Fault(c)  == call' = [call EXCEPT ![c].pc = "idle", ![c].result = "fault"]
FaultThenDeregister(c) == call' = [call EXCEPT ![c].pc = "deregister", ![c].result = "fault"]

-----------------------------------------------------------------------------
(* Escalate *)

BeginEscalate(c) ==
  /\ call[c].pc = "idle" /\ calls < MaxCalls
  /\ calls' = calls + 1
  /\ \E i \in Ids :
       call' = [call EXCEPT ![c] = [pc |-> "once", id |-> i, ticket |-> calls + 1,
                                    msg |-> NoMessage, result |-> "none", mode |-> "none"]]
  /\ UNCHANGED <<handler, waiters, active, slot, disp, closer, sent, wire, first>>

\* subscribeOnce.Do: one caller runs the function, the others wait for it.
EnterOnce(c) ==
  /\ call[c].pc = "once"
  /\ \/ once = "fresh" /\ once' = "running" /\ Go(c, "checkClosed")
     \/ once = "done" /\ UNCHANGED once /\ Go(c, "subErr")
  /\ UNCHANGED <<subErr, unsubscribe, closed, waiters, active, slot, disp, closer, calls, sent, wire, first>>

\* The once function ends with this error (or none).
LeaveOnce(c, err) == once' = "done" /\ subErr' = err /\ Go(c, "subErr")

CheckClosed(c) ==
  /\ call[c].pc = "checkClosed"
  /\ \/ closed /\ LeaveOnce(c, "closed")
     \/ ~closed /\ Go(c, "subscribe") /\ UNCHANGED <<once, subErr>>
  /\ UNCHANGED <<unsubscribe, closed, waiters, active, slot, disp, closer, calls, sent, wire, first>>

Subscribe(c) ==
  /\ call[c].pc = "subscribe"
  /\ \/ active' = TRUE /\ Go(c, "install") /\ UNCHANGED <<once, subErr>>
     \/ LeaveOnce(c, "subscribe failed") /\ UNCHANGED active
  /\ UNCHANGED <<unsubscribe, closed, waiters, slot, disp, closer, calls, sent, wire, first>>

InstallBlindly(c) ==
  /\ call[c].pc = "install"
  /\ LeaveOnce(c, "none") /\ unsubscribe' = TRUE
  /\ UNCHANGED <<closed, waiters, active, slot, disp, closer, calls, sent, wire, first>>

\* The locked section after Subscribe: Close may have run in between.
Install(c) ==
  /\ call[c].pc = "install"
  /\ \/ closed /\ Go(c, "release") /\ UNCHANGED <<once, subErr, unsubscribe>>
     \/ ~closed /\ LeaveOnce(c, "none") /\ unsubscribe' = TRUE
  /\ UNCHANGED <<closed, waiters, active, slot, disp, closer, calls, sent, wire, first>>

\* Close raced the lazy subscribe: unsub() and refuse.
Release(c) ==
  /\ call[c].pc = "release"
  /\ active' = FALSE
  /\ LeaveOnce(c, "closed")
  /\ UNCHANGED <<unsubscribe, closed, waiters, slot, disp, closer, calls, sent, wire, first>>

ReadSubErr(c) ==
  /\ call[c].pc = "subErr"
  /\ IF subErr = "none" THEN Go(c, "register") ELSE Fault(c)
  /\ UNCHANGED <<handler, waiters, active, slot, disp, closer, calls, sent, wire, first>>

RegisterThenAlwaysDefer(c) ==
  /\ call[c].pc = "register"
  /\ IF closed \/ waiters[call[c].id] # NoTicket
     THEN FaultThenDeregister(c) /\ UNCHANGED waiters
     ELSE /\ waiters' = [waiters EXCEPT ![call[c].id] = call[c].ticket]
          /\ Go(c, "publish")
  /\ UNCHANGED <<handler, active, slot, disp, closer, calls, sent, wire, first>>

\* register: a closed handler and an id already in flight are faults.
Register(c) ==
  /\ call[c].pc = "register"
  /\ IF closed \/ waiters[call[c].id] # NoTicket
     THEN Fault(c) /\ UNCHANGED waiters
     ELSE /\ waiters' = [waiters EXCEPT ![call[c].id] = call[c].ticket]
          /\ Go(c, "publish")
  /\ UNCHANGED <<handler, active, slot, disp, closer, calls, sent, wire, first>>

\* The envelope reaches the reviewer, who may answer before the caller is back
\* from Publish, or it does not.
Publish(c) ==
  /\ call[c].pc = "publish"
  /\ \/ /\ sent' = sent \cup {[ticket |-> call[c].ticket, id |-> call[c].id]}
        /\ Go(c, "published")
     \/ FaultThenDeregister(c) /\ UNCHANGED sent
  /\ UNCHANGED <<handler, waiters, active, slot, disp, closer, calls, wire, first>>

\* An envelope that went out may still be reported as failed.
PublishReturns(c) ==
  /\ call[c].pc = "published"
  /\ Go(c, "await") \/ FaultThenDeregister(c)
  /\ UNCHANGED <<handler, waiters, active, slot, disp, closer, calls, sent, wire, first>>

\* decide: approved and denied are a human's; expired is mechanical.
Decide(m) ==
  CASE m.status = "approved" -> [result |-> "allow", mode |-> "human_approved"]
    [] m.status = "denied"   -> [result |-> "deny", mode |-> "human_approved"]
    [] OTHER                 -> [result |-> "deny", mode |-> "deterministic"]

\* select, case msg := <-ch.
Resolved(c) ==
  /\ call[c].pc = "await"
  /\ LET m == slot[call[c].ticket]
     IN  /\ m # NoMessage
         /\ slot' = [slot EXCEPT ![call[c].ticket] = NoMessage]
         /\ call' = [call EXCEPT ![c].pc = "deregister", ![c].msg = m,
                                 ![c].result = Decide(m).result, ![c].mode = Decide(m).mode]
  /\ UNCHANGED <<handler, waiters, active, disp, closer, calls, sent, wire, first>>

WaitForSlot(c) ==
  /\ call[c].pc = "await" /\ slot[call[c].ticket] # NoMessage
  /\ call' = [call EXCEPT ![c].pc = "deregister", ![c].result = "deny", ![c].mode = "deterministic"]
  /\ UNCHANGED <<handler, waiters, active, slot, disp, closer, calls, sent, wire, first>>

\* select, the timer or ctx.Done(): ready even when a resolution is too.
GiveUp(c) ==
  /\ call[c].pc = "await"
  /\ call' = [call EXCEPT ![c].pc = "deregister", ![c].result = "deny", ![c].mode = "deterministic"]
  /\ UNCHANGED <<handler, waiters, active, slot, disp, closer, calls, sent, wire, first>>

Deregister(c) ==
  /\ call[c].pc = "deregister"
  /\ waiters' = [waiters EXCEPT ![call[c].id] = NoTicket]
  /\ Go(c, "idle")
  /\ UNCHANGED <<handler, active, slot, disp, closer, calls, sent, wire, first>>

-----------------------------------------------------------------------------
(* The reviewer, dispatch and Close *)

\* External: the reviewer answers an envelope, more than once if it likes.
Answer(s) ==
  /\ Cardinality(wire) < MaxAnswers
  /\ \E e \in sent : wire' = wire \cup {[id |-> e.id, status |-> s, to |-> e.ticket]}
  /\ UNCHANGED <<handler, waiters, active, slot, call, disp, closer, calls, sent, first>>

\* External: the transport invokes the callback while subscribed.
Receive(k) ==
  /\ disp[k].pc = "idle" /\ active
  /\ \E m \in wire : disp' = [disp EXCEPT ![k] = [pc |-> "lookup", msg |-> m, ch |-> NoTicket]]
  /\ UNCHANGED <<handler, waiters, active, slot, call, closer, calls, sent, wire, first>>

\* dispatch: unknown statuses are ignored; the waiter is looked up under h.mu.
Lookup(k) ==
  /\ disp[k].pc = "lookup"
  /\ LET ch == IF StatusKnown(disp[k].msg) THEN waiters[disp[k].msg.id] ELSE NoTicket
     IN  disp' = [disp EXCEPT ![k] = IF ch = NoTicket THEN NotCalled
                                     ELSE [pc |-> "send", msg |-> disp[k].msg, ch |-> ch]]
  /\ UNCHANGED <<handler, waiters, active, slot, call, closer, calls, sent, wire, first>>

\* What a send leaves in the channel's buffer.
LatestSlot(t, m) == m
UnbufferedSlot(t, m) ==
  IF \E c \in Callers : call[c].ticket = t /\ call[c].pc = "await" THEN m ELSE slot[t]
SlotAfter(t, m) == IF slot[t] = NoMessage THEN m ELSE slot[t]

\* dispatch, outside the lock: the non-blocking send.
Send(k) ==
  /\ disp[k].pc = "send"
  /\ LET t == disp[k].ch
         m == disp[k].msg
     IN  /\ slot' = [slot EXCEPT ![t] = SlotAfter(t, m)]
         /\ first' = IF first[t] = NoMessage THEN [first EXCEPT ![t] = m] ELSE first
  /\ disp' = [disp EXCEPT ![k] = NotCalled]
  /\ UNCHANGED <<handler, waiters, active, call, closer, calls, sent, wire>>

\* Close: the locked section, then unsub() outside the lock.
Close(k) ==
  /\ closer[k] = "idle"
  /\ closed' = TRUE
  /\ unsubscribe' = FALSE
  /\ closer' = [closer EXCEPT ![k] = IF unsubscribe THEN "unsub" ELSE "done"]
  /\ UNCHANGED <<once, subErr, waiters, active, slot, call, disp, calls, sent, wire, first>>

Unsub(k) ==
  /\ closer[k] = "unsub"
  /\ active' = FALSE
  /\ closer' = [closer EXCEPT ![k] = "done"]
  /\ UNCHANGED <<handler, waiters, slot, call, disp, calls, sent, wire, first>>

Escalate(c) ==
  \/ EnterOnce(c) \/ CheckClosed(c) \/ Subscribe(c) \/ Install(c) \/ Release(c)
  \/ ReadSubErr(c) \/ Register(c) \/ Publish(c) \/ PublishReturns(c)
  \/ Resolved(c) \/ GiveUp(c) \/ Deregister(c)

EscalationNext ==
  \/ \E c \in Callers : BeginEscalate(c) \/ Escalate(c)
  \/ \E s \in Statuses : Answer(s)
  \/ \E k \in Callbacks : Receive(k) \/ Lookup(k) \/ Send(k)
  \/ \E k \in Closers : Close(k) \/ Unsub(k)

EscalationSpec == EscalationInit /\ [][EscalationNext]_escalationVars

\* A call in progress keeps running: transport calls are bounded by their
\* context and the window's timer fires.  A Close in progress finishes.
EscalationFairSpec == /\ EscalationSpec
            /\ \A c \in Callers : WF_escalationVars(Escalate(c))
            /\ \A k \in Closers : WF_escalationVars(Unsub(k))

-----------------------------------------------------------------------------
(* Properties *)

\* The types of the variables.
EscalationTypeOK ==
  /\ once \in {"fresh", "running", "done"}
  /\ subErr \in {"none", "closed", "subscribe failed"}
  /\ unsubscribe \in BOOLEAN /\ closed \in BOOLEAN /\ active \in BOOLEAN
  /\ waiters \in [Ids -> Tickets \cup {NoTicket}]
  /\ slot \in [Tickets -> Message \cup {NoMessage}]
  /\ first \in [Tickets -> Message \cup {NoMessage}]
  /\ call \in [Callers -> [pc : CallPCs, id : Ids \cup {"none"}, ticket : Tickets \cup {NoTicket},
                           msg : Message \cup {NoMessage},
                           result : Results, mode : CallMode]]
  /\ disp \in [Callbacks -> [pc : {"idle", "lookup", "send"}, msg : Message \cup {NoMessage},
                             ch : Tickets \cup {NoTicket}]]
  /\ closer \in [Closers -> {"idle", "unsub", "done"}]
  /\ calls \in 0..MaxCalls
  /\ sent \subseteq [ticket : Tickets, id : Ids]
  /\ wire \subseteq Message

Registered == {"publish", "published", "await", "deregister"}

\* A held call stays reachable: its waiter entry is its own until it
\* deregisters, whatever duplicate calls for the same id, callbacks and Close
\* do meanwhile (register, deregister).
WaiterIntact ==
  \A c \in Callers : call[c].pc \in Registered => waiters[call[c].id] = call[c].ticket

\* The resolution callback k handles answers a call that is still held.
Answers(k, c) == call[c].ticket = disp[k].msg.to /\ call[c].pc \in {"published", "await"}

\* A held call never misses its resolution: when a callback is through with one
\* of a known verdict, whichever way it left, the channel of the held call it
\* answers is full, with that resolution or with one delivered before, even
\* while the call is still inside Publish.  The one delivered before may be a
\* late one of an earlier call: resolutions are matched by request id alone.
NeverMissed ==
  [][\A k \in Callbacks, c \in Callers :
       disp[k].pc # "idle" /\ disp'[k].pc = "idle" /\ StatusKnown(disp[k].msg) /\ Answers(k, c) =>
         /\ slot'[call[c].ticket] # NoMessage
         /\ slot'[call[c].ticket] # disp[k].msg => slot'[call[c].ticket] = slot[call[c].ticket]
    ]_escalationVars

\* The first resolution delivered to a call decides it: a duplicate or a
\* contradiction that arrives later does not.
FirstResolutionWins ==
  \A c \in Callers : call[c].msg # NoMessage => call[c].msg = first[call[c].ticket]

\* Every Escalate returns, as no caller is stuck behind the once and the window
\* bounds the hold; and a closed handler ends up without a subscription for
\* good, however Close and the subscribing call interleave.
BridgeQuiesces ==
  /\ \A c \in Callers : call[c].pc # "idle" ~> call[c].pc = "idle"
  /\ closed ~> [](~active)
=============================================================================
