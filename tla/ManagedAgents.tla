--------------------------- MODULE ManagedAgents -----------------------------
(***************************************************************************)
(* The Managed Agents session proxy (adapters/managedagents).  Each proxy  *)
(* follows one event stream of a session; several share a ThreadTracker    *)
(* with the session's budget.  A tool event is evaluated, its estimated    *)
(* cost reserved, the confirmation sent upstream and the event handed to   *)
(* the customer; an error ends the proxy where it stands.                  *)
(***************************************************************************)
EXTENDS Integers, Sequences, FiniteSets

CONSTANTS
  Proxies,      \* session proxies sharing the tracker
  Streams,      \* the event streams a proxy may follow
  Threads,      \* thread identifiers, RootThread among them
  RootThread,
  rootBudget,   \* the session's budget
  Distrusted    \* threads an operator may block

\* A stream has events; each belongs to a known thread.  What it reports of its
\* usage, its estimated cost and its limit may be any number.
ASSUME StreamsAssumption ==
  /\ RootThread \in Threads
  /\ rootBudget \in Int
  /\ \A s \in Streams :
       /\ Len(s) \in Nat \ {0}
       /\ \A i \in 1..Len(s) : /\ s[i].thread \in Threads
                              /\ s[i].usage \in Int /\ s[i].estimate \in Int /\ s[i].limit \in Int

VARIABLES
  threads,    \* [thread -> [limit, used, blocked]]; an unknown thread is all zero
  proxy,      \* [proxy -> its progress]
  confirmed,  \* confirmations that reached upstream: [p, i, result, cost]
  emitted     \* events handed to the customer: <<proxy, index, allowed>>

maVars == <<threads, proxy, confirmed, emitted>>

\* An event: thread created (with a limit), tool use (with cost and verdict) or another (with usage).
Event(p) == proxy[p].stream[proxy[p].i]

IsTool(e) == e.type = "tool"

\* A cost that is not positive counts for nothing.
Positive(cost) == IF cost > 0 THEN cost ELSE 0

-----------------------------------------------------------------------------
(* The tracker: each operator is one locked section.                       *)

ensureThread(ts, id, limit) ==
  [ts EXCEPT ![id].limit = IF limit > 0 THEN limit ELSE @]

TrackEvent(ts, e) ==
  IF e.type = "created" THEN ensureThread(ts, e.thread, e.limit)
  ELSE [ts EXCEPT ![e.thread].used = @ + Positive(e.usage)]

\* The cost of a tool event: the usage it reports, or else its estimate.
estimatedCost(e) == IF e.usage > 0 THEN e.usage ELSE Positive(e.estimate)

Exceeds(t, cost) == t.limit > 0 /\ t.used + cost > t.limit

ThreadChargedOnly(ts, id, cost) ==
  LET rooted == ensureThread(ts, RootThread, rootBudget)
  IN  IF cost > 0 /\ (ts[id].blocked \/ Exceeds(ts[id], cost) \/ Exceeds(rooted[RootThread], cost))
      THEN [ok |-> FALSE, ts |-> rooted]
      ELSE [ok |-> TRUE, ts |-> [rooted EXCEPT ![id].used = @ + cost]]

\* A reservation is charged to its thread and to the session; the session's limit is put back.
Reserve(ts, id, cost) ==
  LET rooted == ensureThread(ts, RootThread, rootBudget)
  IN  CASE cost <= 0 -> [ok |-> TRUE, ts |-> ts]
        [] cost > 0 /\ (ts[id].blocked \/ Exceeds(ts[id], cost)) -> [ok |-> FALSE, ts |-> ts]
        [] cost > 0 /\ ~ts[id].blocked /\ ~Exceeds(ts[id], cost) ->
             IF Exceeds(rooted[RootThread], cost) THEN [ok |-> FALSE, ts |-> rooted]
             ELSE [ok |-> TRUE,
                   ts |-> [t \in Threads |-> IF t \in {id, RootThread}
                                             THEN [rooted[t] EXCEPT !.used = @ + cost] ELSE rooted[t]]]

-----------------------------------------------------------------------------
(* The proxies' steps.                                                     *)

Advance(p) ==
  IF proxy[p].i = Len(proxy[p].stream) THEN [proxy[p] EXCEPT !.pc = "ended"]
  ELSE [proxy[p] EXCEPT !.pc = "next", !.i = @ + 1]

To(p, pc) == proxy' = [proxy EXCEPT ![p].pc = pc]

\* The next event is tracked; a tool event that does not parse ends the proxy.
Next_(p) ==
  /\ proxy[p].pc = "next"
  /\ threads' = TrackEvent(threads, Event(p))
  /\ To(p, IF ~IsTool(Event(p)) THEN "emit" ELSE IF Event(p).parses THEN "evaluate" ELSE "ended")
  /\ UNCHANGED <<confirmed, emitted>>

EvaluateTool(p) ==
  /\ proxy[p].pc = "evaluate"
  /\ proxy' = [proxy EXCEPT ![p].allowed = Event(p).verdict # "deny",
                            ![p].pc = IF Event(p).verdict # "deny" THEN "reserve" ELSE "confirm"]
  /\ UNCHANGED <<threads, confirmed, emitted>>

\* A refused reservation turns the decision into a denial, after its audit event.
ReserveCost(p) ==
  /\ proxy[p].pc = "reserve"
  /\ LET r == Reserve(threads, Event(p).thread, estimatedCost(Event(p)))
     IN  /\ threads' = r.ts
         /\ proxy' = [proxy EXCEPT ![p].pc = "confirm", ![p].allowed = r.ok]
  /\ UNCHANGED <<confirmed, emitted>>

\* A failed send ends the proxy and keeps the reservation; upstream may have got it or not.
SendConfirmation(p) ==
  /\ proxy[p].pc = "confirm"
  /\ \E received, acknowledged \in BOOLEAN :
       /\ acknowledged => received
       /\ confirmed' = IF received
                       THEN confirmed \cup {[p |-> p, i |-> proxy[p].i, allowed |-> proxy[p].allowed,
                                             cost |-> estimatedCost(Event(p))]}
                       ELSE confirmed
       /\ To(p, IF acknowledged THEN "emit" ELSE "ended")
  /\ UNCHANGED <<threads, emitted>>

EmitEvent(p) ==
  /\ proxy[p].pc = "emit"
  /\ \/ /\ emitted' = emitted \cup {<<p, proxy[p].i>>}
        /\ proxy' = [proxy EXCEPT ![p] = Advance(p)]
     \/ To(p, "ended") /\ UNCHANGED emitted
  /\ UNCHANGED <<threads, confirmed>>

SetTrust(t) ==
  /\ t \in Distrusted /\ ~threads[t].blocked
  /\ threads' = [threads EXCEPT ![t].blocked = TRUE]
  /\ UNCHANGED <<proxy, confirmed, emitted>>

-----------------------------------------------------------------------------
MaInit ==
  /\ threads = [t \in Threads |-> [limit |-> IF t = RootThread THEN rootBudget ELSE 0,
                                   used |-> 0, blocked |-> FALSE]]
  /\ proxy \in [Proxies -> {[pc |-> "next", i |-> 1, stream |-> s, allowed |-> FALSE] : s \in Streams}]
  /\ confirmed = {} /\ emitted = {}

MaNext ==
  \/ \E p \in Proxies : Next_(p) \/ EvaluateTool(p) \/ ReserveCost(p) \/ SendConfirmation(p) \/ EmitEvent(p)
  \/ \E t \in Threads : SetTrust(t)

-----------------------------------------------------------------------------
(* Properties.                                                             *)

\* The cost of the confirmations C, unit by unit: an event is confirmed once, so
\* there are as many units as the costs add up to.
CostUnits(C) == UNION {{<<c.p, c.i>>} \X (1..c.cost) : c \in C}

AllowedCost == Cardinality(CostUnits({c \in confirmed : c.allowed}))

\* The tools upstream was told to run never cost more together than the session's budget,
\* however the proxies of the session interleave, whatever limits its threads announce and
\* wherever a proxy breaks off; and the customer sees a tool event only after upstream has
\* its confirmation.
BudgetHolds ==
  /\ rootBudget > 0 => AllowedCost <= rootBudget
  /\ \A e \in emitted : IsTool(proxy[e[1]].stream[e[2]]) =>
       \E c \in confirmed : c.p = e[1] /\ c.i = e[2]
=============================================================================
