--------------------------- MODULE AdaptersProofs ---------------------------
(***************************************************************************)
(* Proofs about the adapters: the Secure GitHub profile, the code          *)
(* execution adapter, the gateways and the managed agents, for any number  *)
(* of calls, executions, handlers and proxies, any traffic, policy,        *)
(* listing, event streams and sandbox configuration.                       *)
(***************************************************************************)
EXTENDS Adapters, FiniteSetTheorems, TLAPS

-----------------------------------------------------------------------------
(* The Secure GitHub profile. *)

Repos == {t.repo : t \in GhTraffic} \cup {NoRepo}

AdapterPcs == {"bind", "judge", "send", "sent", "return"}
RoutePcs == {"route", "deny", "canary", "forward", "reading", "event"}
GhAnswers == {"none", "unsupported", "denied", "error", "answered", "no session", "no evidence"}

GhPcs == {"free", "done"} \cup AdapterPcs \cup RoutePcs

GhCall == [pc : GhPcs, t : GhTraffic \cup {NoRepo},
           stale : BOOLEAN, violation : BOOLEAN,
           reply : {"none", "result", "odd"}, answer : GhAnswers]

GhTypes ==
  /\ store \in [GhSessions -> [bound : Repos, tainted : BOOLEAN]]
  /\ call \in [GhCalls -> GhCall]
  /\ read \in [GhSessions -> BOOLEAN]

\* A write that a tainted session may not make.
Protected(t) == t.tool \in Writes \cup Merges /\ SinkClass(t) = "private_repo"

\* A call that the adapter let through: bound to its session's repository, and
\* no protected write after untrusted content.
Cleared(k) == /\ store[k.t.session].bound = k.t.repo
              /\ ~(k.stale /\ Protected(k.t))

\* A call of the adapter on its way: what its session knows covers what it was
\* judged on.
OnAdapter(k) ==
  /\ k.pc \in AdapterPcs => k.t.via = "adapter"
  /\ k.pc \in {"bind", "judge"} /\ k.stale => store[k.t.session].tainted
  /\ k.pc = "judge" => /\ k.t.tool \in Supported
                       /\ ~k.violation => store[k.t.session].bound = k.t.repo
  /\ k.pc \in {"send", "sent", "return"} => Cleared(k)
  /\ k.pc = "return" /\ TaintsEnvelope(k.t) => store[k.t.session].tainted

\* A call of the route on its way: only a permitted read goes on, and it taints
\* before its evidence is written.
OnRoute(c, k) ==
  /\ k.pc \in RoutePcs => k.t.via = "route"
  /\ k.pc \in {"deny", "canary"} => RouteDenies(k.t)
  /\ k.pc = "canary" => c \in decisions
  /\ k.pc \in {"forward", "reading", "event"} => ~RouteDenies(k.t)
  /\ k.pc = "event" => k.t.session \in marked

Answered(c, k) ==
  /\ k.pc \notin {"reading", "event", "done"} => k.reply = "none"
  /\ k.pc # "done" => k.answer = "none" /\ c \notin forwards
  /\ k.answer = "denied" /\ k.t.via = "route" => c \in decisions /\ c \in forwards
  /\ k.answer = "answered" /\ k.reply = "result" => c \in forwards /\ k.t.session \in marked
  /\ k.answer = "no evidence" /\ k.reply = "result" => k.t.session \in marked

CallInv(c, k) ==
  /\ k.pc # "free" => k.t \in GhTraffic
  /\ OnAdapter(k) /\ OnRoute(c, k) /\ Answered(c, k)

\* Untrusted content reaches an adapter's agent only after its session is tainted.
ReadsTaint == \A t \in GhTraffic : t.via = "adapter" /\ read[t.session] => store[t.session].tainted

\* Whatever reached GitHub was cleared by the adapter or is the route's read.
SentInv(g) ==
  /\ g.c \in GhCalls /\ call[g.c].pc \in {"sent", "return", "reading", "event", "done"}
  /\ g.session = call[g.c].t.session /\ g.tool = call[g.c].t.tool /\ g.repo = call[g.c].t.repo
  /\ call[g.c].t.via = "adapter" => Cleared(call[g.c])
  /\ call[g.c].t.via = "route" => ~RouteDenies(call[g.c].t)

GhInv ==
  /\ GhTypes /\ ReadsTaint
  /\ \A c \in GhCalls : CallInv(c, call[c])
  /\ \A g \in github : SentInv(g)

\* A call not yet arrived is well formed.
LEMMA WaitingType == Waiting \in GhCall
  BY DEF Waiting, GhCall, GhPcs, GhAnswers

\* The profile starts with nothing read, bound or sent.
LEMMA GhInitInv == GhInit => GhInv
<1> SUFFICES ASSUME GhInit PROVE GhInv
  OBVIOUS
<1>0. NoRepo \in Repos
  BY DEF Repos
<1>1. GhTypes
  <2>1. store \in [GhSessions -> [bound : Repos, tainted : BOOLEAN]]
    BY <1>0 DEF GhInit
  <2>2. read \in [GhSessions -> BOOLEAN]
    BY DEF GhInit
  <2> QED
    BY <2>1, <2>2, WaitingType DEF GhInit, GhTypes
<1>2. ReadsTaint
  BY GhTrafficAssumption DEF GhInit, ReadsTaint
<1>3. \A c \in GhCalls : CallInv(c, call[c])
  BY DEF GhInit, CallInv, OnAdapter, OnRoute, Answered, Waiting, AdapterPcs, RoutePcs
<1> QED
  BY <1>1, <1>2, <1>3 DEF GhInit, GhInv

\* What the sessions know only grows.
Grows ==
  /\ marked \subseteq marked' /\ decisions \subseteq decisions'
  /\ \A s \in GhSessions : /\ store[s].tainted => store'[s].tainted
                           /\ store[s].bound # NoRepo => store'[s].bound = store[s].bound

\* A step of call c that moves it to k and lets the sessions only learn.
LEMMA GhStep ==
  ASSUME GhInv, NEW c \in GhCalls, NEW k, GhTypes', Grows, ReadsTaint',
         call' = [call EXCEPT ![c] = k],
         CallInv(c, k)',
         \A d \in GhCalls : d # c => (d \in forwards' <=> d \in forwards),
         call[c].pc # "free" => k.t = call[c].t /\ k.stale = call[c].stale,
         call[c].pc \in {"sent", "return", "reading", "event", "done"} =>
           k.pc \in {"sent", "return", "reading", "event", "done"},
         \A g \in github' : g \in github \/ (g.c = c /\ SentInv(g)')
  PROVE  GhInv'
<1>1. \A d \in GhCalls : call'[d] = IF d = c THEN k ELSE call[d]
  BY DEF GhInv, GhTypes
<1>2. ASSUME NEW d \in GhCalls PROVE CallInv(d, call[d])'
  <2>1. CASE d = c
    BY <1>1, <2>1
  <2>2. CASE d # c
    <3>1. call'[d] = call[d] /\ CallInv(d, call[d]) /\ (d \in forwards' <=> d \in forwards)
      BY <1>1, <2>2 DEF GhInv
    <3>2. call[d].pc # "free" => call[d].t \in GhTraffic /\ call[d].t.session \in GhSessions
                                 /\ call[d].t.repo # NoRepo
      BY <3>1, GhTrafficAssumption DEF CallInv
    <3>3. OnAdapter(call[d])'
      BY <3>1, <3>2 DEF CallInv, OnAdapter, Cleared, Grows, AdapterPcs
    <3>4. OnRoute(d, call[d])'
      BY <3>1 DEF CallInv, OnRoute, Grows
    <3>5. Answered(d, call[d])'
      BY <3>1 DEF CallInv, Answered, Grows
    <3> QED
      BY <3>1, <3>3, <3>4, <3>5 DEF CallInv
  <2> QED
    BY <2>1, <2>2
<1>3. ASSUME NEW g \in github' PROVE SentInv(g)'
  <2>1. CASE g \in github
    <3>1. SentInv(g) /\ g.c \in GhCalls /\ call[g.c].pc # "free"
      BY <2>1 DEF GhInv, SentInv
    <3>2. CallInv(g.c, call[g.c])
      BY <3>1 DEF GhInv
    <3>3. call[g.c].t.session \in GhSessions /\ call[g.c].t.repo # NoRepo
      BY <3>1, <3>2, GhTrafficAssumption DEF CallInv
    <3>4. call'[g.c].t = call[g.c].t /\ call'[g.c].stale = call[g.c].stale
          /\ call'[g.c].pc \in {"sent", "return", "reading", "event", "done"}
      BY <1>1, <3>1 DEF SentInv
    <3> QED
      BY <3>1, <3>3, <3>4 DEF SentInv, Cleared, Grows
  <2> QED
    BY <1>3, <2>1
<1> QED
  BY <1>2, <1>3 DEF GhInv

\* A call that arrives finds its session as the reads before it left it.
LEMMA ArriveInv ==
  ASSUME GhInv, NEW c \in GhCalls, NEW t \in GhTraffic, Arrive(c, t)
  PROVE  GhInv'
<1>0. GhTypes /\ ReadsTaint /\ t.session \in GhSessions /\ t.via \in {"adapter", "route"}
      /\ CallInv(c, call[c]) /\ read[t.session] \in BOOLEAN
  BY GhTrafficAssumption DEF GhInv, GhTypes
<1>1. PICK k : k = [Waiting EXCEPT !.t = t, !.stale = read[t.session],
                                   !.pc = IF t.via = "adapter" THEN "bind" ELSE "route"]
  OBVIOUS
<1>2. call' = [call EXCEPT ![c] = k] /\ call[c].pc = "free"
      /\ UNCHANGED <<store, joined, marked, github, read, decisions, forwards>>
  BY <1>1 DEF Arrive
<1>3. /\ k.pc \in {"bind", "route"} /\ (k.pc = "bind" <=> t.via = "adapter")
      /\ k.t = t /\ k.stale = read[t.session] /\ k.answer = "none" /\ k.reply = "none"
  BY <1>1 DEF Waiting
<1>4. k \in GhCall
  BY <1>0, <1>1, WaitingType DEF GhCall, GhPcs, AdapterPcs, RoutePcs
<1>5. GhTypes' /\ Grows /\ ReadsTaint'
  BY <1>0, <1>2, <1>4 DEF GhTypes, Grows, ReadsTaint
<1>6. CallInv(c, k)'
  <2>1. c \notin forwards'
    BY <1>0, <1>2 DEF CallInv, Answered
  <2>2. OnAdapter(k)'
    BY <1>0, <1>2, <1>3 DEF OnAdapter, AdapterPcs, ReadsTaint
  <2>3. OnRoute(c, k)' /\ Answered(c, k)'
    BY <1>0, <1>3, <2>1 DEF OnRoute, Answered, RoutePcs
  <2> QED
    BY <1>3, <2>2, <2>3 DEF CallInv
<1> QED
  BY <1>2, <1>5, <1>6, GhStep

\* What a call on its way is known to be.
LEMMA CallFacts ==
  ASSUME GhInv, NEW c \in GhCalls, call[c].pc # "free"
  PROVE  /\ GhTypes /\ ReadsTaint /\ call[c] \in GhCall /\ CallInv(c, call[c])
         /\ call[c].t \in GhTraffic /\ call[c].t.session \in GhSessions
         /\ call[c].t.via \in {"adapter", "route"} /\ call[c].t.repo # NoRepo
         /\ store[call[c].t.session] \in [bound : Repos, tainted : BOOLEAN]
  BY GhTrafficAssumption DEF GhInv, GhTypes, CallInv

\* A call that moves on keeps what it is.
LEMMA Moved ==
  ASSUME GhInv, NEW c \in GhCalls, NEW to \in GhPcs, Step(c, to)
  PROVE  \E k \in GhCall : /\ call' = [call EXCEPT ![c] = k]
                           /\ k.pc = to /\ k.t = call[c].t /\ k.stale = call[c].stale /\ k.reply = call[c].reply
                           /\ k.violation = call[c].violation /\ k.answer = call[c].answer
<1>1. call[c] \in GhCall
  BY DEF GhInv, GhTypes
<1>2. PICK k : k = [call[c] EXCEPT !.pc = to]
  OBVIOUS
<1>3. /\ k \in GhCall /\ k.pc = to /\ k.t = call[c].t /\ k.stale = call[c].stale /\ k.reply = call[c].reply
      /\ k.violation = call[c].violation /\ k.answer = call[c].answer
  BY <1>1, <1>2 DEF GhCall
<1>4. call' = [call EXCEPT ![c] = k]
  BY <1>2 DEF Step
<1> QED
  BY <1>3, <1>4

\* A call that is answered keeps what it is.
LEMMA Finished ==
  ASSUME GhInv, NEW c \in GhCalls, NEW answer \in GhAnswers, Finish(c, answer)
  PROVE  \E k \in GhCall : /\ call' = [call EXCEPT ![c] = k]
                           /\ k.pc = "done" /\ k.t = call[c].t /\ k.stale = call[c].stale /\ k.reply = call[c].reply
                           /\ k.violation = call[c].violation /\ k.answer = answer
<1>1. call[c] \in GhCall /\ call \in [GhCalls -> GhCall]
  BY DEF GhInv, GhTypes
<1>2. PICK k : k = [call[c] EXCEPT !.pc = "done", !.answer = answer]
  OBVIOUS
<1>3. /\ k \in GhCall /\ k.pc = "done" /\ k.t = call[c].t /\ k.stale = call[c].stale /\ k.reply = call[c].reply
      /\ k.violation = call[c].violation /\ k.answer = answer
  BY <1>1, <1>2 DEF GhCall, GhPcs
<1>4. call' = [call EXCEPT ![c] = k]
  BY <1>1, <1>2 DEF Finish
<1> QED
  BY <1>3, <1>4

\* Steps that touch neither the sessions nor GitHub.
LEMMA QuietStep ==
  ASSUME GhInv, NEW c \in GhCalls, NEW k \in GhCall, call' = [call EXCEPT ![c] = k],
         call[c].pc # "free", k.t = call[c].t, k.stale = call[c].stale,
         k.pc = "done" \/ call[c].pc \notin {"sent", "return", "reading", "event", "done"},
         UNCHANGED <<store, marked, github, read>>, decisions \subseteq decisions',
         \A d \in GhCalls : d # c => (d \in forwards' <=> d \in forwards),
         CallInv(c, k)'
  PROVE  GhInv'
<1>1. GhTypes' /\ Grows /\ ReadsTaint'
  BY DEF GhInv, GhTypes, Grows, ReadsTaint
<1>2. \A g \in github' : g \in github
  OBVIOUS
<1> QED
  BY <1>1, <1>2, GhStep

\* The adapter: a call is refused, or its session is bound to one repository.
LEMMA BindRepoInv ==
  ASSUME GhInv, NEW c \in GhCalls, BindRepo(c)
  PROVE  GhInv'
<1>0. call[c].pc = "bind" /\ UNCHANGED <<joined, marked, github, read, decisions, forwards>>
  BY DEF BindRepo
<1>1. /\ GhTypes /\ ReadsTaint /\ call[c] \in GhCall /\ CallInv(c, call[c])
      /\ call[c].t \in GhTraffic /\ call[c].t.session \in GhSessions
      /\ call[c].t.via \in {"adapter", "route"} /\ call[c].t.repo # NoRepo
      /\ store[call[c].t.session] \in [bound : Repos, tainted : BOOLEAN]
  BY <1>0, CallFacts
<1>2. CASE call[c].t.tool \notin Supported
  <2>1. Finish(c, "unsupported") /\ store' = store /\ "unsupported" \in GhAnswers
    BY <1>2 DEF BindRepo, GhAnswers
  <2>2. PICK k \in GhCall : /\ call' = [call EXCEPT ![c] = k]
                            /\ k.pc = "done" /\ k.t = call[c].t /\ k.stale = call[c].stale /\ k.reply = call[c].reply
                            /\ k.answer = "unsupported"
    BY <2>1, Finished
  <2>3. c \notin forwards'
    BY <1>0, <1>1 DEF CallInv, Answered
  <2>4. Answered(c, k)'
    BY <2>2, <2>3 DEF Answered
  <2>5. CallInv(c, k)'
    BY <1>1, <2>2, <2>4 DEF CallInv, OnAdapter, OnRoute, AdapterPcs, RoutePcs
  <2> QED
    BY <1>0, <2>1, <2>2, <2>5, QuietStep
<1>3. CASE call[c].t.tool \in Supported
  <2> DEFINE t == call[c].t
             old == store[t.session]
  <2>1. PICK s : s = t.session
    OBVIOUS
  <2>2. PICK new : new = [old EXCEPT !.bound = IF old.bound = NoRepo THEN t.repo ELSE old.bound]
    OBVIOUS
  <2>3. PICK k : k = [call[c] EXCEPT !.pc = "judge", !.violation = old.bound \notin {NoRepo, t.repo}]
    OBVIOUS
  <2>4. store' = [store EXCEPT ![s] = new]
    BY <1>1, <1>3, <2>1, <2>2 DEF BindRepo, GhTypes
  <2>5. call' = [call EXCEPT ![c] = k]
    BY <1>1, <1>3, <2>3 DEF BindRepo, GhTypes
  <2>6. /\ k \in GhCall /\ k.pc = "judge" /\ k.t = call[c].t /\ k.stale = call[c].stale /\ k.reply = call[c].reply
        /\ k.violation = (old.bound \notin {NoRepo, t.repo}) /\ k.answer = call[c].answer
    BY <1>1, <2>3 DEF GhCall, GhPcs, AdapterPcs
  <2>7. /\ new \in [bound : Repos, tainted : BOOLEAN]
        /\ new.tainted = old.tainted
        /\ new.bound = IF old.bound = NoRepo THEN t.repo ELSE old.bound
    BY <1>1, <2>2 DEF Repos
  <2>8. \A r \in GhSessions : store'[r] = IF r = s THEN new ELSE store[r]
    BY <1>1, <2>4 DEF GhTypes
  <2>9. GhTypes'
    BY <1>0, <1>1, <2>4, <2>5, <2>6, <2>7 DEF GhTypes
  <2>10. Grows
    BY <1>0, <2>1, <2>7, <2>8 DEF Grows
  <2>11. ReadsTaint'
    BY <1>0, <1>1, <2>1, <2>7, <2>8, GhTrafficAssumption DEF ReadsTaint
  <2>12. OnAdapter(k)'
    <3>1. k.t.via = "adapter" /\ (k.stale => old.tainted)
      BY <1>0, <1>1, <2>6 DEF CallInv, OnAdapter, AdapterPcs
    <3>2. store'[k.t.session] = new
      BY <1>1, <2>1, <2>6, <2>8
    <3> QED
      BY <1>3, <2>6, <2>7, <3>1, <3>2 DEF OnAdapter
  <2>13. OnRoute(c, k)' /\ Answered(c, k)'
    BY <1>0, <1>1, <2>6 DEF CallInv, OnRoute, Answered, RoutePcs
  <2>14. CallInv(c, k)'
    BY <1>1, <2>6, <2>12, <2>13 DEF CallInv
  <2> QED
    BY <1>0, <2>5, <2>6, <2>9, <2>10, <2>11, <2>14, GhStep
<1> QED
  BY <1>2, <1>3

\* The adapter: the pipeline judges a call on the taint its session has now.
LEMMA JudgeInv ==
  ASSUME GhInv, NEW c \in GhCalls, Judge(c)
  PROVE  GhInv'
<1>0. call[c].pc = "judge" /\ UNCHANGED <<store, joined, marked, github, read, decisions, forwards>>
  BY DEF Judge
<1>1. /\ call[c] \in GhCall /\ CallInv(c, call[c]) /\ call[c].t \in GhTraffic
  BY <1>0, CallFacts
<1>2. /\ call[c].t.via = "adapter" /\ call[c].t.tool \in Supported
      /\ call[c].stale => store[call[c].t.session].tainted
      /\ ~call[c].violation => store[call[c].t.session].bound = call[c].t.repo
      /\ call[c].answer = "none" /\ call[c].reply = "none" /\ c \notin forwards
  BY <1>0, <1>1 DEF CallInv, OnAdapter, Answered, AdapterPcs
<1>3. CASE DefaultPolicyDenies(call[c].t, call[c].violation, store[call[c].t.session].tainted)
  <2>1. PICK k \in GhCall : /\ call' = [call EXCEPT ![c] = k]
                            /\ k.pc = "done" /\ k.t = call[c].t /\ k.stale = call[c].stale /\ k.reply = call[c].reply
                            /\ k.answer = "denied"
    <3>1. Finish(c, "denied") /\ "denied" \in GhAnswers
      BY <1>3 DEF GhAnswers, Judge
    <3> QED
      BY <3>1, Finished
  <2>2. CallInv(c, k)'
    BY <1>0, <1>1, <1>2, <2>1 DEF CallInv, OnAdapter, OnRoute, Answered, AdapterPcs, RoutePcs
  <2> QED
    BY <1>0, <2>1, <2>2, QuietStep
<1>4. CASE ~DefaultPolicyDenies(call[c].t, call[c].violation, store[call[c].t.session].tainted)
  <2>0. Step(c, "send") /\ "send" \in GhPcs
    BY <1>4 DEF Judge, GhPcs, AdapterPcs
  <2>1. PICK k \in GhCall : /\ call' = [call EXCEPT ![c] = k]
                            /\ k.pc = "send" /\ k.t = call[c].t /\ k.stale = call[c].stale /\ k.reply = call[c].reply
                            /\ k.answer = call[c].answer
    BY <2>0, Moved
  <2>2. \A tool \in Supported : CapabilityClass(tool) \in {"W1", "W2"} <=> tool \in Writes \cup Merges
    BY DEF CapabilityClass, Supported, Reads, Writes, Creates, Merges
  <2>3. Cleared(k)
    BY <1>2, <1>4, <2>1, <2>2 DEF Cleared, Protected, DefaultPolicyDenies
  <2>4. OnAdapter(k)'
    BY <1>0, <1>2, <2>1, <2>3 DEF OnAdapter, AdapterPcs, Cleared
  <2>5. OnRoute(c, k)' /\ Answered(c, k)'
    BY <1>0, <1>2, <2>1 DEF OnRoute, Answered, RoutePcs
  <2>6. CallInv(c, k)'
    BY <1>1, <2>1, <2>4, <2>5 DEF CallInv
  <2> QED
    BY <1>0, <2>1, <2>6, QuietStep
<1> QED
  BY <1>3, <1>4

\* A call that ends with no denial and no content.
LEMMA EndsInv ==
  ASSUME GhInv, NEW c \in GhCalls, call[c].pc # "free", call[c].pc # "done",
         NEW answer \in GhAnswers, Finish(c, answer),
         answer \in {"unsupported", "error", "no session", "answered"},
         answer = "answered" => call[c].pc = "route",
         UNCHANGED <<store, marked, github, read, decisions, forwards>>
  PROVE  GhInv'
<1>1. call[c].t \in GhTraffic /\ CallInv(c, call[c])
  BY CallFacts
<1>2. PICK k \in GhCall : /\ call' = [call EXCEPT ![c] = k]
                          /\ k.pc = "done" /\ k.t = call[c].t /\ k.stale = call[c].stale /\ k.reply = call[c].reply
                          /\ k.answer = answer
  BY ONLY GhInv, c \in GhCalls, answer \in GhAnswers, Finish(c, answer), Finished
<1>3. Answered(c, k)'
  BY <1>1, <1>2 DEF CallInv, Answered
<1>4. CallInv(c, k)'
  BY <1>1, <1>2, <1>3 DEF CallInv, OnAdapter, OnRoute, AdapterPcs, RoutePcs
<1> QED
  BY <1>2, <1>4, QuietStep

\* A call that reaches GitHub is cleared by the adapter or the route's read.
LEMMA SendInv ==
  ASSUME GhInv, NEW c \in GhCalls, NEW to,
         \/ call[c].pc = "send" /\ to = "sent"
         \/ call[c].pc = "forward" /\ to = "reading",
         github' = github \cup {[c |-> c, session |-> call[c].t.session,
                                 tool |-> call[c].t.tool, repo |-> call[c].t.repo]},
         NEW reply \in {"none", "result", "odd"}, reply = "none" \/ to = "reading",
         call' = [call EXCEPT ![c] = [call[c] EXCEPT !.pc = to, !.reply = reply]],
         UNCHANGED <<store, marked, read, decisions, forwards>>
  PROVE  GhInv'
<1>0. call[c].pc # "free" /\ to \in GhPcs
  BY DEF GhPcs, AdapterPcs, RoutePcs
<1>1. GhTypes /\ ReadsTaint /\ CallInv(c, call[c]) /\ call[c].t \in GhTraffic
  BY <1>0, CallFacts
<1>2. PICK k \in GhCall : /\ call' = [call EXCEPT ![c] = k]
                          /\ k.pc = to /\ k.t = call[c].t /\ k.stale = call[c].stale
                          /\ k.answer = call[c].answer /\ k.reply = reply
  <2>1. [call[c] EXCEPT !.pc = to, !.reply = reply] \in GhCall
    BY <1>0, <1>1 DEF GhTypes, GhCall
  <2>2. PICK k : k = [call[c] EXCEPT !.pc = to, !.reply = reply]
    OBVIOUS
  <2>3. /\ k.pc = to /\ k.t = call[c].t /\ k.stale = call[c].stale
        /\ k.answer = call[c].answer /\ k.reply = reply
    BY <1>1, <2>2 DEF GhTypes, GhCall
  <2> QED
    BY <2>1, <2>2, <2>3
<1>3. /\ to = "sent" => k.t.via = "adapter" /\ Cleared(k)
      /\ to = "reading" => k.t.via = "route" /\ ~RouteDenies(k.t)
  BY <1>1, <1>2 DEF CallInv, OnAdapter, OnRoute, AdapterPcs, RoutePcs, Cleared
<1>4. CallInv(c, k)'
  <2>1. OnAdapter(k)' /\ OnRoute(c, k)'
    BY <1>0, <1>2, <1>3 DEF OnAdapter, OnRoute, AdapterPcs, RoutePcs, Cleared
  <2>2. Answered(c, k)'
    BY <1>1, <1>2 DEF CallInv, Answered
  <2> QED
    BY <1>1, <1>2, <2>1, <2>2 DEF CallInv
<1>5. GhTypes' /\ Grows /\ ReadsTaint'
  BY <1>1, <1>2 DEF GhTypes, Grows, ReadsTaint
<1>6. call'[c] = k
  BY <1>1, <1>2 DEF GhTypes
<1>7. ASSUME NEW g \in github' PROVE g \in github \/ (g.c = c /\ SentInv(g)')
  <2>1. CASE g = [c |-> c, session |-> call[c].t.session, tool |-> call[c].t.tool, repo |-> call[c].t.repo]
    <3>1. g.c = c /\ g.session = k.t.session /\ g.tool = k.t.tool /\ g.repo = k.t.repo
      BY <1>2, <2>1
    <3>2. Cleared(k)' <=> Cleared(k)
      BY DEF Cleared
    <3> QED
      BY <1>2, <1>3, <1>6, <3>1, <3>2 DEF SentInv
  <2> QED
    BY <1>7, <2>1
<1> QED
  BY <1>0, <1>2, <1>4, <1>5, <1>7, GhStep

\* The adapter: the session is tainted before the content goes back.
LEMMA MarkTaintedInv ==
  ASSUME GhInv, NEW c \in GhCalls, MarkTainted(c)
  PROVE  GhInv'
<1>0. /\ call[c].pc = "sent" /\ UNCHANGED <<joined, marked, github, read, decisions, forwards>>
      /\ Step(c, "return") /\ "return" \in GhPcs
  BY DEF MarkTainted, GhPcs, AdapterPcs
<1>1. /\ GhTypes /\ ReadsTaint /\ call[c] \in GhCall /\ CallInv(c, call[c])
      /\ call[c].t \in GhTraffic /\ call[c].t.session \in GhSessions
      /\ store[call[c].t.session] \in [bound : Repos, tainted : BOOLEAN]
  BY <1>0, CallFacts
<1>2. PICK k \in GhCall : /\ call' = [call EXCEPT ![c] = k]
                          /\ k.pc = "return" /\ k.t = call[c].t /\ k.stale = call[c].stale /\ k.reply = call[c].reply
                          /\ k.answer = call[c].answer
  BY <1>0, Moved
<1>3. PICK s, old, new : /\ s = call[c].t.session /\ old = store[s]
                         /\ new = [old EXCEPT !.tainted = old.tainted \/ TaintsEnvelope(call[c].t)]
  OBVIOUS
<1>4. store' = [store EXCEPT ![s] = new]
  BY <1>1, <1>3 DEF MarkTainted, GhTypes
<1>5. /\ new \in [bound : Repos, tainted : BOOLEAN] /\ new.bound = old.bound
      /\ new.tainted = (old.tainted \/ TaintsEnvelope(call[c].t))
  BY <1>1, <1>3
<1>6. \A r \in GhSessions : store'[r] = IF r = s THEN new ELSE store[r]
  BY <1>1, <1>4 DEF GhTypes
<1>7. GhTypes'
  BY <1>0, <1>1, <1>2, <1>4, <1>5 DEF GhTypes
<1>8. Grows
  BY <1>0, <1>3, <1>5, <1>6 DEF Grows
<1>9. ReadsTaint'
  BY <1>0, <1>1, <1>3, <1>5, <1>6, GhTrafficAssumption DEF ReadsTaint
<1>10. OnAdapter(k)'
  <2>1. k.t.via = "adapter" /\ Cleared(k)
    BY <1>0, <1>1, <1>2 DEF CallInv, OnAdapter, AdapterPcs, Cleared
  <2>2. store'[k.t.session] = new /\ store[k.t.session] = old
    BY <1>1, <1>2, <1>3, <1>6
  <2> QED
    BY <1>2, <1>5, <2>1, <2>2 DEF OnAdapter, Cleared
<1>11. OnRoute(c, k)' /\ Answered(c, k)'
  BY <1>0, <1>1, <1>2 DEF CallInv, OnRoute, Answered, RoutePcs
<1>12. CallInv(c, k)'
  BY <1>1, <1>2, <1>10, <1>11 DEF CallInv
<1> QED
  BY <1>0, <1>2, <1>7, <1>8, <1>9, <1>12, GhStep

\* The adapter: content goes back once the session is tainted.
LEMMA ReturnInv ==
  ASSUME GhInv, NEW c \in GhCalls, Return(c)
  PROVE  GhInv'
<1>0. /\ call[c].pc = "return" /\ UNCHANGED <<store, joined, marked, github, decisions, forwards>>
      /\ Finish(c, "answered") /\ "answered" \in GhAnswers
      /\ read' = [read EXCEPT ![call[c].t.session] = @ \/ TaintsEnvelope(call[c].t)]
  BY DEF Return, GhAnswers
<1>1. /\ GhTypes /\ ReadsTaint /\ CallInv(c, call[c])
      /\ call[c].t \in GhTraffic /\ call[c].t.session \in GhSessions
  BY <1>0, CallFacts
<1>2. PICK k \in GhCall : /\ call' = [call EXCEPT ![c] = k]
                          /\ k.pc = "done" /\ k.t = call[c].t /\ k.stale = call[c].stale /\ k.reply = call[c].reply
                          /\ k.answer = "answered"
  BY <1>0, Finished
<1>3. /\ call[c].t.via = "adapter" /\ c \notin forwards /\ call[c].reply = "none"
      /\ TaintsEnvelope(call[c].t) => store[call[c].t.session].tainted
  BY <1>0, <1>1 DEF CallInv, OnAdapter, Answered, AdapterPcs
<1>4. GhTypes' /\ Grows
  BY <1>0, <1>1, <1>2 DEF GhTypes, Grows, TaintsEnvelope
<1>5. ReadsTaint'
  BY <1>0, <1>1, <1>3 DEF ReadsTaint, GhTypes
<1>6. CallInv(c, k)'
  BY <1>0, <1>1, <1>2, <1>3 DEF CallInv, OnAdapter, OnRoute, Answered, AdapterPcs, RoutePcs
<1> QED
  BY <1>0, <1>2, <1>4, <1>5, <1>6, GhStep

\* The route: a call is denied, with evidence still to be written, or forwarded.
LEMMA GovernToolInv ==
  ASSUME GhInv, NEW c \in GhCalls, GovernTool(c)
  PROVE  GhInv'
<1> DEFINE to == IF RouteDenies(call[c].t) THEN "deny" ELSE "forward"
<1>0. /\ call[c].pc = "route" /\ UNCHANGED <<store, joined, marked, github, read, decisions, forwards>>
      /\ Step(c, to)
  BY DEF GovernTool
<1>1. PICK pc \in {"deny", "forward"} : Step(c, pc) /\ (pc = "deny" <=> RouteDenies(call[c].t))
  BY <1>0
<1>2. CallInv(c, call[c]) /\ call[c].t \in GhTraffic /\ pc \in GhPcs
  BY <1>0, CallFacts DEF GhPcs, RoutePcs
<1>3. PICK k \in GhCall : /\ call' = [call EXCEPT ![c] = k]
                          /\ k.pc = pc /\ k.t = call[c].t /\ k.stale = call[c].stale /\ k.reply = call[c].reply
                          /\ k.answer = call[c].answer
  BY <1>1, <1>2, Moved
<1>4. OnAdapter(k)' /\ OnRoute(c, k)'
  BY <1>0, <1>1, <1>2, <1>3 DEF CallInv, OnAdapter, OnRoute, AdapterPcs, RoutePcs
<1>5. CallInv(c, k)'
  BY <1>0, <1>2, <1>3, <1>4 DEF CallInv, Answered
<1> QED
  BY <1>0, <1>3, <1>5, QuietStep

\* The route: a denial is reported as one only with both lines on disk.
LEMMA EmitDecisionInv ==
  ASSUME GhInv, NEW c \in GhCalls, EmitDecision(c)
  PROVE  GhInv'
<1>0. call[c].pc = "deny" /\ UNCHANGED <<store, joined, marked, github, read, forwards>>
  BY DEF EmitDecision
<1>1. CallInv(c, call[c]) /\ call[c].t \in GhTraffic /\ "canary" \in GhPcs /\ "no evidence" \in GhAnswers
  BY <1>0, CallFacts DEF GhPcs, RoutePcs, GhAnswers
<1>2. /\ call[c].t.via = "route" /\ RouteDenies(call[c].t) /\ c \notin forwards
      /\ call[c].answer = "none" /\ call[c].reply = "none"
  BY <1>0, <1>1 DEF CallInv, OnRoute, Answered, RoutePcs
<1>3. CASE decisions' = decisions \cup {c} /\ Step(c, "canary")
  <2>1. PICK k \in GhCall : /\ call' = [call EXCEPT ![c] = k]
                            /\ k.pc = "canary" /\ k.t = call[c].t /\ k.stale = call[c].stale /\ k.reply = call[c].reply
                            /\ k.answer = call[c].answer
    <3>1. Step(c, "canary") /\ "canary" \in GhPcs
      BY <1>1, <1>3
    <3> QED
      BY <3>1, Moved
  <2>2. CallInv(c, k)'
    BY <1>0, <1>1, <1>2, <1>3, <2>1 DEF CallInv, OnAdapter, OnRoute, Answered, AdapterPcs, RoutePcs
  <2> QED
    BY <1>0, <1>3, <2>1, <2>2, QuietStep
<1>4. CASE Finish(c, "no evidence") /\ decisions' = decisions
  <2>1. PICK k \in GhCall : /\ call' = [call EXCEPT ![c] = k]
                            /\ k.pc = "done" /\ k.t = call[c].t /\ k.stale = call[c].stale /\ k.reply = call[c].reply
                            /\ k.answer = "no evidence"
    BY <1>1, <1>4, Finished
  <2>2. CallInv(c, k)'
    BY <1>0, <1>1, <1>2, <2>1 DEF CallInv, OnAdapter, OnRoute, Answered, AdapterPcs, RoutePcs
  <2> QED
    BY <1>0, <1>4, <2>1, <2>2, QuietStep
<1> QED
  BY <1>3, <1>4 DEF EmitDecision

\* A refusal is answered once its evidence is complete; without it the answer is an error.
LEMMA EmitForwardEventInv ==
  ASSUME GhInv, NEW c \in GhCalls, EmitForwardEvent(c)
  PROVE  GhInv'
<1>0. call[c].pc = "canary" /\ UNCHANGED <<store, joined, marked, github, read, decisions>>
  BY DEF EmitForwardEvent
<1>1. PICK answer \in {"denied", "no evidence"} :
        /\ Finish(c, answer)
        /\ \/ answer = "denied" /\ forwards' = forwards \cup {c}
           \/ answer = "no evidence" /\ forwards' = forwards
  BY DEF EmitForwardEvent
<1>2. CallInv(c, call[c]) /\ call[c].t \in GhTraffic /\ answer \in GhAnswers
  BY <1>0, CallFacts DEF GhAnswers
<1>3. c \in decisions /\ RouteDenies(call[c].t) /\ call[c].reply = "none"
  BY <1>0, <1>2 DEF CallInv, OnRoute, Answered
<1>4. PICK k \in GhCall : /\ call' = [call EXCEPT ![c] = k]
                          /\ k.pc = "done" /\ k.t = call[c].t /\ k.stale = call[c].stale /\ k.reply = call[c].reply
                          /\ k.answer = answer
  BY <1>1, <1>2, Finished
<1>5. Answered(c, k)'
  BY <1>0, <1>1, <1>3, <1>4 DEF Answered
<1>6. CallInv(c, k)'
  BY <1>2, <1>4, <1>5 DEF CallInv, OnAdapter, OnRoute, AdapterPcs, RoutePcs
<1>7. \A d \in GhCalls : d # c => (d \in forwards' <=> d \in forwards)
  BY <1>1
<1> QED
  BY <1>0, <1>4, <1>6, <1>7, QuietStep

\* The route: a validated read taints its session first of all.
LEMMA MarkRouteTaintedInv ==
  ASSUME GhInv, NEW c \in GhCalls, MarkRouteTainted(c)
  PROVE  GhInv'
<1>0. /\ call[c].pc = "reading" /\ UNCHANGED <<store, joined, github, read, decisions, forwards>>
      /\ marked' = marked \cup {call[c].t.session} /\ Step(c, "event") /\ "event" \in GhPcs
  BY DEF MarkRouteTainted, GhPcs, RoutePcs
<1>1. GhTypes /\ ReadsTaint /\ CallInv(c, call[c]) /\ call[c].t \in GhTraffic
  BY <1>0, CallFacts
<1>2. PICK k \in GhCall : /\ call' = [call EXCEPT ![c] = k]
                          /\ k.pc = "event" /\ k.t = call[c].t /\ k.stale = call[c].stale /\ k.reply = call[c].reply
                          /\ k.answer = call[c].answer
  BY <1>0, Moved
<1>3. GhTypes' /\ Grows /\ ReadsTaint'
  BY <1>0, <1>1, <1>2 DEF GhTypes, Grows, ReadsTaint
<1>4. OnAdapter(k)' /\ OnRoute(c, k)'
  BY <1>0, <1>1, <1>2 DEF CallInv, OnAdapter, OnRoute, AdapterPcs, RoutePcs
<1>5. CallInv(c, k)'
  BY <1>0, <1>1, <1>2, <1>4 DEF CallInv, Answered
<1> QED
  BY <1>0, <1>2, <1>3, <1>5, GhStep

\* The route: content goes back, with its evidence or as an odd answer; the
\* adapter's sessions are none of the route's.
LEMMA RouteAnswersInv ==
  ASSUME GhInv, NEW c \in GhCalls, call[c].pc \in {"reading", "event"},
         NEW answer \in GhAnswers, Finish(c, answer), answer \in {"answered", "no evidence"},
         read' = read \/ read' = [read EXCEPT ![call[c].t.session] = TRUE],
         UNCHANGED <<store, marked, github, decisions>>,
         \/ call[c].pc = "event" /\ answer = "answered" /\ forwards' = forwards \cup {c}
         \/ call[c].pc = "event" /\ answer = "no evidence" /\ forwards' = forwards
         \/ call[c].reply = "odd" /\ answer = "answered" /\ forwards' = forwards
  PROVE  GhInv'
<1>1. /\ GhTypes /\ ReadsTaint /\ CallInv(c, call[c]) /\ call[c].t \in GhTraffic
      /\ call[c].t.session \in GhSessions
  BY CallFacts
<1>2. PICK k \in GhCall : /\ call' = [call EXCEPT ![c] = k]
                          /\ k.pc = "done" /\ k.t = call[c].t /\ k.stale = call[c].stale /\ k.reply = call[c].reply
                          /\ k.answer = answer
  BY ONLY GhInv, c \in GhCalls, answer \in GhAnswers, Finish(c, answer), Finished
<1>3. /\ call[c].t.via = "route" /\ c \notin forwards
      /\ call[c].pc = "event" => call[c].t.session \in marked
  BY <1>1 DEF CallInv, OnRoute, Answered, RoutePcs
<1>4. GhTypes' /\ Grows
  BY <1>1, <1>2 DEF GhTypes, Grows
<1>5. ReadsTaint'
  BY <1>1, <1>3, GhTrafficAssumption DEF ReadsTaint, GhTypes
<1>6. Answered(c, k)'
  BY <1>2, <1>3 DEF Answered
<1>7. CallInv(c, k)'
  BY <1>1, <1>2, <1>6 DEF CallInv, OnAdapter, OnRoute, AdapterPcs, RoutePcs
<1>8. \A d \in GhCalls : d # c => (d \in forwards' <=> d \in forwards)
  OBVIOUS
<1> QED
  BY <1>2, <1>4, <1>5, <1>7, <1>8, GhStep

\* Every step of the profile keeps its invariant.
LEMMA GhNextInv == GhInv /\ GhNext => GhInv'
<1> SUFFICES ASSUME GhInv, NEW c \in GhCalls,
               \/ \E t \in GhTraffic : Arrive(c, t)
               \/ BindRepo(c) \/ Judge(c) \/ CallGitHub(c) \/ GitHubFails(c) \/ MarkTainted(c) \/ Return(c)
               \/ Initialize(c) \/ UnknownSession(c) \/ ForwardProtocol(c) \/ GovernTool(c)
               \/ EmitDecision(c) \/ EmitForwardEvent(c)
               \/ ForwardRead(c) \/ ReadFails(c) \/ PassOddAnswer(c) \/ MarkRouteTainted(c) \/ RecordRead(c)
             PROVE  GhInv'
  BY DEF GhNext
<1>1. CASE CallGitHub(c)
  <2>1. call[c].pc = "send" /\ call[c] \in GhCall /\ call[c].reply = "none"
    BY <1>1, CallFacts DEF CallGitHub, CallInv, Answered
  <2>2. [call[c] EXCEPT !.pc = "sent", !.reply = "none"] = [call[c] EXCEPT !.pc = "sent"]
    BY <2>1 DEF GhCall
  <2>3. call' = [call EXCEPT ![c] = [call[c] EXCEPT !.pc = "sent", !.reply = "none"]]
    BY <1>1, <2>2 DEF CallGitHub, Step, GhInv, GhTypes
  <2> QED
    BY <1>1, <2>3, SendInv DEF CallGitHub
<1>2. CASE ForwardRead(c)
  <2>1. PICK reply \in {"result", "odd"} :
          call' = [call EXCEPT ![c].pc = "reading", ![c].reply = reply]
    BY <1>2 DEF ForwardRead
  <2>2. call' = [call EXCEPT ![c] = [call[c] EXCEPT !.pc = "reading", !.reply = reply]]
    BY <2>1 DEF GhInv, GhTypes
  <2> QED
    BY <1>2, <2>2, SendInv DEF ForwardRead
<1>3. CASE GitHubFails(c) \/ UnknownSession(c) \/ ReadFails(c)
  <2>1. \E answer \in {"error", "no session"} :
          /\ Finish(c, answer) /\ call[c].pc \in {"sent", "route", "reading"}
          /\ UNCHANGED <<store, marked, github, read, decisions, forwards>>
    BY <1>3 DEF GitHubFails, UnknownSession, ReadFails
  <2> QED
    BY <2>1, EndsInv DEF GhAnswers
<1>4. CASE Initialize(c) \/ ForwardProtocol(c)
  <2>1. \E answer \in {"answered", "error"} :
          /\ Finish(c, answer) /\ call[c].pc = "route"
          /\ UNCHANGED <<store, marked, github, read, decisions, forwards>>
    BY <1>4 DEF Initialize, ForwardProtocol
  <2> QED
    BY <2>1, EndsInv DEF GhAnswers
<1>5. CASE PassOddAnswer(c)
  BY <1>5, RouteAnswersInv DEF PassOddAnswer, GhAnswers
<1>6. CASE RecordRead(c)
  <2>1. \E answer \in {"answered", "no evidence"} :
          /\ Finish(c, answer) /\ call[c].pc = "event"
          /\ read' = read \/ read' = [read EXCEPT ![call[c].t.session] = TRUE]
          /\ \/ answer = "answered" /\ forwards' = forwards \cup {c}
             \/ answer = "no evidence" /\ forwards' = forwards
          /\ UNCHANGED <<store, marked, github, decisions>>
    BY <1>6 DEF RecordRead
  <2> QED
    BY <2>1, RouteAnswersInv DEF GhAnswers
<1> QED
  BY <1>1, <1>2, <1>3, <1>4, <1>5, <1>6, ArriveInv, BindRepoInv, JudgeInv, MarkTaintedInv, ReturnInv,
     GovernToolInv, EmitDecisionInv, EmitForwardEventInv, MarkRouteTaintedInv

\* A deployment of another adapter leaves the profile alone.
LEMMA GhRestsInv == GhInv /\ UNCHANGED ghVars => GhInv'
<1> SUFFICES ASSUME GhInv, UNCHANGED ghVars PROVE GhInv'
  OBVIOUS
<1>0. UNCHANGED <<store, marked, call, github, read, decisions, forwards>>
  BY DEF ghVars
<1>1. GhTypes' /\ ReadsTaint'
  BY <1>0 DEF GhInv, GhTypes, ReadsTaint
<1>2. ASSUME NEW c \in GhCalls PROVE CallInv(c, call[c])'
  BY <1>0 DEF GhInv, CallInv, OnAdapter, OnRoute, Answered, Cleared
<1>3. ASSUME NEW g \in github' PROVE SentInv(g)'
  BY <1>0 DEF GhInv, SentInv, Cleared
<1> QED
  BY <1>1, <1>2, <1>3 DEF GhInv

\* The profile's invariant holds in every reachable state.
THEOREM GithubInvariant == Spec => []GhInv
<1>1. Init => GhInv
  BY GhInitInv DEF Init
<1>2. GhInv /\ [Next]_vars => GhInv'
  BY GhNextInv, GhRestsInv DEF Next, vars
<1> QED
  BY <1>1, <1>2, PTL DEF Spec

\* Once untrusted content was handed over, no protected write reaches a private
\* repository, and a session's calls go to one repository (SessionStore,
\* GovernToolCall, the MCP route's rules).
THEOREM GithubNoWriteAfterTaint == Spec => []NoWriteAfterTaint
<1>1. GhInv => NoWriteAfterTaint
  <2> SUFFICES ASSUME GhInv, NEW g \in github
               PROVE  /\ ~ /\ call[g.c].stale
                           /\ g.tool \in Writes \cup Merges /\ SinkClass(call[g.c].t) = "private_repo"
                      /\ call[g.c].t.via = "route" => g.tool = "issue_read"
                      /\ \A o \in github : o.session = g.session /\ call[o.c].t.via = "adapter"
                                           /\ call[g.c].t.via = "adapter" => o.repo = g.repo
    BY DEF NoWriteAfterTaint
  <2>1. SentInv(g) /\ \A o \in github : SentInv(o)
    BY DEF GhInv
  <2>2. call[g.c].t.via \in {"adapter", "route"}
    BY <2>1, CallFacts DEF SentInv
  <2>3. call[g.c].t.via = "route" => g.tool = "issue_read"
    BY <2>1 DEF SentInv, RouteDenies, Exposed
  <2>4. ~(call[g.c].stale /\ g.tool \in Writes \cup Merges /\ SinkClass(call[g.c].t) = "private_repo")
    BY <2>1, <2>2, <2>3 DEF SentInv, Cleared, Protected, Writes, Merges
  <2>5. ASSUME NEW o \in github, o.session = g.session, call[o.c].t.via = "adapter",
               call[g.c].t.via = "adapter"
        PROVE  o.repo = g.repo
    BY <2>1, <2>5 DEF SentInv, Cleared
  <2> QED
    BY <2>3, <2>4, <2>5
<1> QED
  BY <1>1, GithubInvariant, PTL

\* The MCP route reports a denial only with both of its files written, hands a
\* tool result over only with its forward event written and the session
\* tainted, and has tainted the session of a result it holds back (handleToolCall,
\* emitDenial).  Answers that are no tool result are passed on with neither.
THEOREM GithubEvidenceBeforeAnswer == Spec => []EvidenceBeforeAnswer
<1>1. GhInv => EvidenceBeforeAnswer
  BY DEF GhInv, CallInv, Answered, EvidenceBeforeAnswer
<1> QED
  BY <1>1, GithubInvariant, PTL

-----------------------------------------------------------------------------
(* The code execution adapter. *)

SbPcs == {"free", "container", "local", "exited", "deadline", "canceled", "cleanup", "done"}
SbAnswers == {"none", "error", "denied", "blocked", "reported"}
ExitCodes == {0, 1, 125}
Fates == {"none", "requested", "live", "gone"}

\* The requests an execution may hold; Idle's stands for none.
SbRequests == CodeRequests \cup {Idle.req}

SbExecution == [pc : SbPcs, req : SbRequests, code : ExitCodes, signature : BOOLEAN,
                answer : SbAnswers]

SbTypes ==
  /\ box \in {"container", "local", "unconfigured"}
  /\ execution \in [Executions -> SbExecution]
  /\ container \in [Executions -> Fates]

\* An execution, its container and its cidfile: what is answered for it is
\* borne out by what became of its own container.
SbInvOf(x) ==
  /\ execution[x].pc = "free" => container[x] = "none"
  /\ execution[x].pc = "local" => container[x] = "none"
  /\ execution[x].pc \in {"free", "container", "local", "exited", "deadline", "canceled"} =>
       execution[x].answer = "none"
  /\ execution[x].pc = "exited" =>
       \/ container[x] \in {"live", "gone"}
       \/ execution[x].code = 125 /\ execution[x].signature /\ x \notin cidfile
  /\ x \in cidfile => container[x] \in {"live", "gone"}
  /\ execution[x].answer = "reported" => container[x] \in {"live", "gone"}
  /\ execution[x].answer = "denied" => container[x] = "none" /\ execution[x].pc = "done"

SbInv ==
  /\ SbTypes
  /\ \A x \in Executions : SbInvOf(x)
  /\ \A r \in removals : r[1] = r[2]

\* A fresh execution is well formed.
LEMMA IdleType == Idle \in SbExecution
  BY DEF Idle, SbExecution, SbPcs, SbAnswers, SbRequests, ExitCodes

\* Nothing runs yet.
LEMMA SbInitInv == SbInit => SbInv
<1> SUFFICES ASSUME SbInit PROVE SbInv
  OBVIOUS
<1>1. SbTypes
  <2>1. box \in {"container", "local", "unconfigured"}
    BY DEF SbInit, NewSandbox
  <2>2. container \in [Executions -> Fates]
    BY DEF SbInit, Fates
  <2> QED
    BY <2>1, <2>2, IdleType DEF SbInit, SbTypes
<1>2. \A x \in Executions : SbInvOf(x)
  BY DEF SbInit, SbInvOf, Idle
<1> QED
  BY <1>1, <1>2 DEF SbInit, SbInv

\* Two executions never share a container's name: the suffix is their own.
LEMMA NamesDiffer ==
  ASSUME NEW x \in Executions, NEW y \in Executions, Name(x) = Name(y)
  PROVE  x = y
  BY DEF Name, sandboxContainerName

\* A step of execution x that leaves the others alone.
LEMMA SbStep ==
  ASSUME SbInv, NEW x \in Executions, NEW k \in SbExecution, NEW f \in Fates,
         execution' = [execution EXCEPT ![x] = k], container' = [container EXCEPT ![x] = f],
         \A y \in Executions : y # x => (y \in cidfile' <=> y \in cidfile),
         \A r \in removals' : r \in removals \/ r[1] = r[2], box' = box,
         k.pc = "free" => f = "none",
         k.pc = "local" => f = "none",
         k.pc \in {"free", "container", "local", "exited", "deadline", "canceled"} => k.answer = "none",
         k.pc = "exited" => \/ f \in {"live", "gone"}
                            \/ k.code = 125 /\ k.signature /\ x \notin cidfile',
         x \in cidfile' => f \in {"live", "gone"},
         k.answer = "reported" => f \in {"live", "gone"},
         k.answer = "denied" => f = "none" /\ k.pc = "done"
  PROVE  SbInv'
<1>0. SbTypes
  BY DEF SbInv
<1>1. /\ \A y \in Executions : execution'[y] = IF y = x THEN k ELSE execution[y]
      /\ \A y \in Executions : container'[y] = IF y = x THEN f ELSE container[y]
  BY <1>0 DEF SbTypes
<1>2. SbTypes'
  BY <1>0 DEF SbTypes
<1>3. ASSUME NEW y \in Executions PROVE SbInvOf(y)'
  <2>1. CASE y = x
    BY <1>1, <2>1 DEF SbInvOf
  <2>2. CASE y # x
    <3>1. SbInvOf(y)
      BY DEF SbInv
    <3> QED
      BY <1>1, <2>2, <3>1 DEF SbInvOf
  <2> QED
    BY <2>1, <2>2
<1> QED
  BY <1>2, <1>3 DEF SbInv

\* What an execution is known to be.
LEMMA SbFacts ==
  ASSUME SbInv, NEW x \in Executions
  PROVE  /\ SbTypes /\ execution[x] \in SbExecution /\ container[x] \in Fates /\ SbInvOf(x)
         /\ execution \in [Executions -> SbExecution]
         /\ container \in [Executions -> Fates]
         /\ container = [container EXCEPT ![x] = container[x]]
  BY DEF SbInv, SbTypes

\* An execution settles on an answer, or leaves its command line.
LEMMA Settled ==
  ASSUME SbInv, NEW x \in Executions, NEW answer \in SbAnswers, Settle(x, answer)
  PROVE  \E k \in SbExecution : /\ execution' = [execution EXCEPT ![x] = k]
                                /\ k.pc = "cleanup" /\ k.answer = answer
<1>1. execution[x] \in SbExecution /\ execution \in [Executions -> SbExecution]
  BY SbFacts
<1>2. PICK k : k = [execution[x] EXCEPT !.pc = "cleanup", !.answer = answer]
  OBVIOUS
<1>3. k \in SbExecution /\ k.pc = "cleanup" /\ k.answer = answer
  BY <1>1, <1>2 DEF SbExecution, SbPcs
<1>4. execution' = [execution EXCEPT ![x] = k]
  BY <1>1, <1>2 DEF Settle
<1> QED
  BY <1>3, <1>4

\* An execution leaves its run with an exit code, nothing answered yet.
LEMMA Left ==
  ASSUME SbInv, NEW x \in Executions, NEW pc \in SbPcs, NEW code \in ExitCodes,
         NEW signature \in BOOLEAN, Leave(x, pc, code, signature)
  PROVE  \E k \in SbExecution :
           /\ execution' = [execution EXCEPT ![x] = k]
           /\ k.pc = pc /\ k.code = code /\ k.signature = signature /\ k.answer = execution[x].answer
<1>1. execution[x] \in SbExecution /\ execution \in [Executions -> SbExecution]
  BY SbFacts
<1>2. PICK k : k = [execution[x] EXCEPT !.pc = pc, !.code = code, !.signature = signature]
  OBVIOUS
<1>3. k \in SbExecution /\ k.pc = pc /\ k.code = code /\ k.signature = signature
      /\ k.answer = execution[x].answer
  BY <1>1, <1>2 DEF SbExecution
<1>4. execution' = [execution EXCEPT ![x] = k]
  <2>1. execution' = [execution EXCEPT ![x].pc = pc, ![x].code = code, ![x].signature = signature]
    BY DEF Leave
  <2>2. \A y \in Executions : execution'[y] = IF y = x THEN k ELSE execution[y]
    BY <1>1, <1>2, <2>1
  <2> QED
    BY <1>1, <2>1, <2>2
<1> QED
  BY <1>3, <1>4

\* A request is refused before anything is started, or handed to the executor.
LEMMA GovernCodeInv ==
  ASSUME SbInv, NEW x \in Executions, NEW r \in CodeRequests, GovernCode(x, r)
  PROVE  SbInv'
<1>0. /\ execution[x].pc = "free" /\ UNCHANGED <<box, container, cidfile, removals>>
  BY DEF GovernCode
<1>1. /\ SbTypes /\ execution[x] \in SbExecution /\ container[x] = "none" /\ x \notin cidfile
      /\ container' = [container EXCEPT ![x] = "none"] /\ "none" \in Fates
  BY <1>0, SbFacts DEF SbInvOf, Fates
<1>2. Disposition(r) \in {"error", "denied", "blocked", "run"}
      /\ (Disposition(r) = "run" => box \in {"container", "local"})
  BY <1>1 DEF Disposition, SbTypes
<1>3. PICK k : k = [Idle EXCEPT !.req = r,
                    !.answer = IF Disposition(r) = "run" THEN "none" ELSE Disposition(r),
                    !.pc = IF Disposition(r) = "run" THEN box ELSE "done"]
  OBVIOUS
<1>4. execution' = [execution EXCEPT ![x] = k]
  BY <1>3 DEF GovernCode
<1>5. /\ k.answer = IF Disposition(r) = "run" THEN "none" ELSE Disposition(r)
      /\ k.pc = IF Disposition(r) = "run" THEN box ELSE "done"
  BY <1>3 DEF Idle
<1>6. k \in SbExecution
  BY <1>2, <1>3, IdleType DEF SbExecution, SbPcs, SbAnswers, SbRequests
<1>7. k.pc \in {"container", "local", "done"} /\ k.answer # "reported"
      /\ (k.pc # "done" => k.answer = "none")
  BY <1>2, <1>5
<1> QED
  BY <1>0, <1>1, <1>4, <1>6, <1>7, SbStep

\* The container comes up, or goes, under an execution that stands where it is.
LEMMA ContainerInv ==
  ASSUME SbInv, NEW x \in Executions, execution' = execution, removals' = removals, box' = box,
         NEW f \in Fates, container' = [container EXCEPT ![x] = f],
         execution[x].pc \notin {"free", "local"}, execution[x].answer # "denied" \/ f = "none",
         container[x] \in {"live", "gone"} => f \in {"live", "gone"},
         cidfile' = cidfile \/ (cidfile' = cidfile \cup {x} /\ f \in {"live", "gone"})
  PROVE  SbInv'
<1>1. execution[x] \in SbExecution /\ SbInvOf(x) /\ execution \in [Executions -> SbExecution]
  BY SbFacts
<1>2. execution' = [execution EXCEPT ![x] = execution[x]]
  BY <1>1
<1>3. \A y \in Executions : y # x => (y \in cidfile' <=> y \in cidfile)
  OBVIOUS
<1>4. PICK k \in SbExecution : k = execution[x]
  BY <1>1
<1>5. /\ k.pc = "exited" => \/ f \in {"live", "gone"}
                            \/ k.code = 125 /\ k.signature /\ x \notin cidfile'
      /\ x \in cidfile' => f \in {"live", "gone"}
      /\ k.answer = "reported" => f \in {"live", "gone"}
      /\ k.answer = "denied" => f = "none" /\ k.pc = "done"
      /\ k.pc \in {"free", "container", "local", "exited", "deadline", "canceled"} => k.answer = "none"
  <2>1. k.pc = "exited" => \/ f \in {"live", "gone"}
                           \/ k.code = 125 /\ k.signature /\ x \notin cidfile'
    BY <1>1, <1>4 DEF SbInvOf
  <2>2. x \in cidfile' => f \in {"live", "gone"}
    BY <1>1 DEF SbInvOf
  <2>3. /\ k.answer = "reported" => f \in {"live", "gone"}
        /\ k.answer = "denied" => f = "none" /\ k.pc = "done"
    BY <1>1, <1>4 DEF SbInvOf
  <2>4. k.pc \in {"free", "container", "local", "exited", "deadline", "canceled"} => k.answer = "none"
    BY <1>1, <1>4 DEF SbInvOf
  <2> QED
    BY <2>1, <2>2, <2>3, <2>4
<1>6. execution' = [execution EXCEPT ![x] = k] /\ k.pc \notin {"free", "local"}
  BY <1>2, <1>4
<1>7. /\ \A r \in removals' : r \in removals \/ r[1] = r[2]
      /\ box' = box /\ container' = [container EXCEPT ![x] = f]
  OBVIOUS
<1> QED
  BY ONLY SbInv, x \in Executions, k \in SbExecution, f \in Fates, <1>3, <1>5, <1>6, <1>7, SbStep

\* An execution settles while nothing else changes.
LEMMA SettleInv ==
  ASSUME SbInv, NEW x \in Executions, NEW answer \in SbAnswers, Settle(x, answer),
         answer # "denied", answer = "reported" => container[x] \in {"live", "gone"},
         UNCHANGED <<box, container, cidfile, removals>>
  PROVE  SbInv'
<1>1. PICK k \in SbExecution : /\ execution' = [execution EXCEPT ![x] = k]
                               /\ k.pc = "cleanup" /\ k.answer = answer
  BY ONLY SbInv, x \in Executions, answer \in SbAnswers, Settle(x, answer), Settled
<1>2. container[x] \in Fates /\ SbInvOf(x) /\ container' = [container EXCEPT ![x] = container[x]]
  BY SbFacts
<1>3. PICK f \in Fates : f = container[x]
  BY <1>2
<1> QED
  BY <1>1, <1>2, <1>3, SbStep DEF SbInvOf

\* The command line ends, with the runtime's failure, the code's end, or a kill.
LEMMA LeaveInv ==
  ASSUME SbInv, NEW x \in Executions, execution[x].pc = "container",
         NEW pc \in SbPcs, NEW code \in ExitCodes, NEW signature \in BOOLEAN,
         Leave(x, pc, code, signature), pc \in {"exited", "deadline", "canceled"},
         NEW f \in Fates, container' = [container EXCEPT ![x] = f],
         cidfile' = cidfile \/ cidfile' = cidfile \ {x}, box' = box, removals' = removals,
         x \in cidfile' => f \in {"live", "gone"},
         pc = "exited" => f = "gone" \/ (code = 125 /\ signature /\ x \notin cidfile')
  PROVE  SbInv'
<1>1. PICK k \in SbExecution :
        /\ execution' = [execution EXCEPT ![x] = k]
        /\ k.pc = pc /\ k.code = code /\ k.signature = signature /\ k.answer = execution[x].answer
  BY ONLY SbInv, x \in Executions, pc \in SbPcs, code \in ExitCodes, signature \in BOOLEAN,
     Leave(x, pc, code, signature), Left
<1>2. execution[x].answer = "none"
  BY SbFacts DEF SbInvOf
<1>3. \A y \in Executions : y # x => (y \in cidfile' <=> y \in cidfile)
  OBVIOUS
<1> QED
  BY <1>1, <1>2, <1>3, SbStep

\* The deferred removal reaches no container but the execution's own.
LEMMA RemoveInv ==
  ASSUME SbInv, NEW x \in Executions, removeOwnedContainer(x)
  PROVE  SbInv'
<1> DEFINE target == IF x \in cidfile THEN {x} ELSE {y \in Executions : Name(y) = Name(x)}
<1>0. /\ execution[x].pc = "cleanup" /\ cidfile' = cidfile \ {x} /\ box' = box
      /\ execution' = [execution EXCEPT ![x].pc = "done"]
  BY DEF removeOwnedContainer
<1>1. target = {x}
  BY NamesDiffer
<1>2. /\ execution[x] \in SbExecution /\ container[x] \in Fates /\ SbInvOf(x)
      /\ container \in [Executions -> Fates]
  BY SbFacts
<1>a. PICK f : f = container'[x]
  OBVIOUS
<1>3. /\ f \in Fates /\ container' = [container EXCEPT ![x] = f]
      /\ f = container[x] \/ (f = "gone" /\ container[x] = "live")
      /\ \A r \in removals' : r \in removals \/ r[1] = r[2]
  <2>1. CASE UNCHANGED <<container, removals>>
    BY <1>a, <1>2, <2>1
  <2>2. CASE /\ container' = [y \in Executions |-> IF y \in target \cap Live THEN "gone" ELSE container[y]]
             /\ removals' = removals \cup ({x} \X (target \cap Live))
    <3>1. target \cap Live = IF container[x] = "live" THEN {x} ELSE {}
      BY <1>1 DEF Live
    <3>2. \A r \in removals' : r \in removals \/ r[1] = r[2]
      BY <2>2, <3>1
    <3>3. f = IF container[x] = "live" THEN "gone" ELSE container[x]
      BY <1>a, <2>2, <3>1
    <3>4. container' = [container EXCEPT ![x] = f]
      BY <1>2, <2>2, <3>1, <3>3
    <3> QED
      BY <1>2, <3>2, <3>3, <3>4 DEF Fates
  <2> QED
    BY <2>1, <2>2 DEF removeOwnedContainer
<1>4. PICK k : k = [execution[x] EXCEPT !.pc = "done"]
  OBVIOUS
<1>5. k \in SbExecution /\ k.pc = "done" /\ k.answer = execution[x].answer
  BY <1>2, <1>4 DEF SbExecution, SbPcs
<1>6. execution' = [execution EXCEPT ![x] = k]
  BY <1>0, <1>4
<1>7. \A y \in Executions : y # x => (y \in cidfile' <=> y \in cidfile)
  BY <1>0
<1>8. /\ x \notin cidfile' /\ k.answer # "denied"
      /\ k.answer = "reported" => f \in {"live", "gone"}
  BY <1>0, <1>2, <1>3, <1>5 DEF SbInvOf
<1> QED
  BY <1>0, <1>3, <1>5, <1>6, <1>7, <1>8, SbStep

\* The local process ran, or never did; only one that ran is reported.
LEMMA LocalInv ==
  ASSUME SbInv, NEW x \in Executions, LocalExecute(x)
  PROVE  SbInv'
<1>0. execution[x].pc = "local" /\ UNCHANGED <<box, cidfile, removals>>
      /\ "reported" \in SbAnswers /\ "blocked" \in SbAnswers
  BY DEF LocalExecute, SbAnswers
<1>1. CASE Settle(x, "blocked") /\ container' = container
  BY <1>0, <1>1, SettleInv
<1>2. ASSUME container' = [container EXCEPT ![x] = "gone"], NEW answer \in SbAnswers,
             answer # "denied", Settle(x, answer)
      PROVE  SbInv'
  <2>1. PICK k \in SbExecution : /\ execution' = [execution EXCEPT ![x] = k]
                                 /\ k.pc = "cleanup" /\ k.answer = answer
    BY <1>2, Settled
  <2>2. "gone" \in Fates
    BY DEF Fates
  <2> QED
    BY <1>0, <1>2, <2>1, <2>2, SbStep
<1> QED
  BY <1>0, <1>1, <1>2 DEF LocalExecute

\* Every step of the adapter and of the container runtime keeps the invariant.
LEMMA SbNextInv == SbInv /\ SbNext => SbInv'
<1> SUFFICES ASSUME SbInv, NEW x \in Executions,
               \/ \E r \in CodeRequests : GovernCode(x, r)
               \/ RequestContainer(x) \/ CreateContainer(x) \/ RunFails(x) \/ InvocationFails(x)
               \/ WriteCid(x) \/ CodeExits(x) \/ CodeEndsUnseen(x) \/ Kill(x)
               \/ Classify(x) \/ AfterDeadline(x) \/ AfterCancel(x)
               \/ removeOwnedContainer(x) \/ LocalExecute(x)
             PROVE  SbInv'
  BY DEF SbNext
<1>0. /\ SbInvOf(x) /\ container[x] \in Fates /\ container \in [Executions -> Fates]
      /\ container = [container EXCEPT ![x] = container[x]]
      /\ "requested" \in Fates /\ "live" \in Fates /\ "gone" \in Fates /\ "none" \in Fates
      /\ "blocked" \in SbAnswers /\ "reported" \in SbAnswers
      /\ "exited" \in SbPcs /\ "deadline" \in SbPcs /\ "canceled" \in SbPcs
      /\ 0 \in ExitCodes /\ 125 \in ExitCodes
  BY SbFacts DEF Fates, SbAnswers, SbPcs, ExitCodes
<1>1. CASE RequestContainer(x)
  <2>1. /\ container' = [container EXCEPT ![x] = "requested"] /\ container[x] = "none"
        /\ execution[x].pc = "container" /\ UNCHANGED <<box, execution, cidfile, removals>>
    BY <1>1 DEF RequestContainer
  <2>2. execution[x].answer = "none"
    BY <1>0, <2>1 DEF SbInvOf
  <2> QED
    BY <1>0, <2>1, <2>2, ContainerInv
<1>2. CASE CreateContainer(x)
  <2>1. /\ container' = [container EXCEPT ![x] = "live"] /\ container[x] = "requested"
        /\ UNCHANGED <<box, execution, cidfile, removals>>
    BY <1>2 DEF CreateContainer
  <2>2. execution[x].pc \notin {"free", "local"} /\ execution[x].answer # "denied"
    BY <1>0, <2>1 DEF SbInvOf
  <2> QED
    BY <1>0, <2>1, <2>2, ContainerInv
<1>3. CASE WriteCid(x)
  <2>1. /\ container[x] = "live" /\ cidfile' = cidfile \cup {x} /\ execution[x].pc = "container"
        /\ UNCHANGED <<box, execution, container, removals>>
    BY <1>3 DEF WriteCid
  <2>2. execution[x].answer = "none" /\ container' = [container EXCEPT ![x] = "live"]
    BY <1>0, <2>1 DEF SbInvOf
  <2> QED
    BY <1>0, <2>1, <2>2, ContainerInv
<1>4. CASE CodeEndsUnseen(x)
  <2>1. /\ container[x] = "live" /\ container' = [container EXCEPT ![x] = "gone"]
        /\ execution[x].pc \in {"deadline", "canceled", "cleanup", "done"}
        /\ UNCHANGED <<box, execution, cidfile, removals>>
    BY <1>4 DEF CodeEndsUnseen
  <2>2. execution[x].answer # "denied"
    BY <1>0, <2>1 DEF SbInvOf
  <2> QED
    BY <1>0, <2>1, <2>2, ContainerInv
<1>5. CASE RunFails(x)
  <2>1. /\ execution[x].pc = "container" /\ container[x] \in {"none", "requested"}
        /\ container' = [container EXCEPT ![x] = "none"] /\ Leave(x, "exited", 125, TRUE)
        /\ UNCHANGED <<box, cidfile, removals>>
    BY <1>5 DEF RunFails
  <2>2. x \notin cidfile'
    BY <1>0, <2>1 DEF SbInvOf
  <2> QED
    BY <1>0, <2>1, <2>2, LeaveInv
<1>6. CASE CodeExits(x)
  <2>1. /\ execution[x].pc = "container" /\ container' = [container EXCEPT ![x] = "gone"]
        /\ cidfile' = cidfile \/ cidfile' = cidfile \ {x}
        /\ UNCHANGED <<box, removals>>
    BY <1>6 DEF CodeExits
  <2>2. PICK code \in ExitCodes : Leave(x, "exited", code, TRUE) \/ Leave(x, "exited", code, FALSE)
    BY <1>6 DEF CodeExits, ExitCodes
  <2> QED
    BY <1>0, <2>1, <2>2, LeaveInv
<1>7. CASE Kill(x)
  <2>1. /\ execution[x].pc = "container" /\ UNCHANGED <<box, cidfile, removals>>
    BY <1>7 DEF Kill
  <2>2. Leave(x, "deadline", 0, FALSE) \/ Leave(x, "canceled", 0, FALSE)
    BY <1>7 DEF Kill
  <2>3. PICK f : f = container'[x]
    OBVIOUS
  <2>4. /\ f \in Fates /\ container' = [container EXCEPT ![x] = f]
        /\ f = container[x] \/ (container[x] = "requested" /\ f = "none")
    BY <1>0, <1>7, <2>3 DEF Kill
  <2>5. x \in cidfile' => f \in {"live", "gone"}
    BY <1>0, <2>1, <2>4 DEF SbInvOf
  <2> QED
    BY <1>0, <2>1, <2>2, <2>4, <2>5, LeaveInv
<1>8. CASE InvocationFails(x) \/ AfterCancel(x)
  <2>1. Settle(x, "blocked") /\ UNCHANGED <<box, container, cidfile, removals>>
    BY <1>8 DEF InvocationFails, AfterCancel
  <2> QED
    BY <1>0, <2>1, SettleInv
<1>9. CASE AfterDeadline(x)
  <2>1. /\ UNCHANGED <<box, container, cidfile, removals>>
        /\ \/ Settle(x, "blocked") \/ (Settle(x, "reported") /\ container[x] = "live")
    BY <1>9 DEF AfterDeadline, Live
  <2> QED
    BY <1>0, <2>1, SettleInv
<1>10. CASE Classify(x)
  <2>1. /\ execution[x].pc = "exited" /\ UNCHANGED <<box, container, cidfile, removals>>
        /\ \/ Settle(x, "blocked")
           \/ /\ Settle(x, "reported")
              /\ ~(execution[x].code = 125 /\ x \notin cidfile /\ execution[x].signature)
    BY <1>10 DEF Classify
  <2>2. Settle(x, "blocked") \/ (Settle(x, "reported") /\ container[x] \in {"live", "gone"})
    BY <1>0, <2>1 DEF SbInvOf
  <2> QED
    BY <1>0, <2>1, <2>2, SettleInv
<1> QED
  BY <1>1, <1>2, <1>3, <1>4, <1>5, <1>6, <1>7, <1>8, <1>9, <1>10, GovernCodeInv, RemoveInv, LocalInv

\* A deployment of another adapter leaves the sandbox alone.
LEMMA SbRestsInv == SbInv /\ UNCHANGED sbVars => SbInv'
  BY DEF SbInv, sbVars, SbTypes, SbInvOf

\* The sandbox's invariant holds in every reachable state.
THEOREM SandboxInvariant == Spec => []SbInv
<1>1. Init => SbInv
  BY SbInitInv DEF Init
<1>2. SbInv /\ [Next]_vars => SbInv'
  BY SbNextInv, SbRestsInv DEF Next, vars
<1> QED
  BY <1>1, <1>2, PTL DEF Spec

\* Each execution answers for, and cleans up, its own container, however many
\* overlap (sandboxContainerName, removeOwnedContainer, the exit-code rules).
THEOREM SandboxEachItsOwn == Spec => []EachItsOwnContainer
<1>1. SbInv => EachItsOwnContainer
  BY DEF SbInv, SbInvOf, EachItsOwnContainer
<1> QED
  BY <1>1, SandboxInvariant, PTL

-----------------------------------------------------------------------------
(* The gateway adapters. *)

GwPcs == {"free", "message", "send", "wait", "filter", "done"}
Busy == {"message", "send", "wait", "filter"}
AnswerKinds ==
  {"rejected", "denied", "failed", "errored as deny", "decision", "recorded", "passed", "answered"}
GwTools == DOMAIN PolicyOf \cup {Nameless}
GwActions == {"none", "deny"} \cup {PolicyOf[t] : t \in DOMAIN PolicyOf}
Answers == [n : Nat, kind : AnswerKinds, shown : Seq(GwTools)]

Serving == [pc : GwPcs, req : Traffic \cup {Opaque}, n : Nat, verdict : GwActions,
            todo : Seq(GwTools), shown : Seq(GwTools), out : Seq(Answers)]

GwTypes == serve \in [Handlers -> Serving] /\ sent \in [Handlers -> Seq(Nat \X Nat)]

\* The journal J holds a decision on message m of the request that handler h
\* serves, one that allows it, one that refuses it.
DecidedIn(J, h, s, m) ==
  \E e \in J : e.by = h /\ e.n = m /\ e.kind = "decision" /\ e.tool = s.req.body[m].tool
AllowedIn(J, h, s, m) ==
  \E e \in J : /\ e.by = h /\ e.n = m /\ e.kind = "decision" /\ e.tool = s.req.body[m].tool
               /\ Allowed(e.action)
RefusedIn(J, h, s, m) ==
  \E e \in J : /\ e.by = h /\ e.n = m /\ e.kind = "decision" /\ e.tool = s.req.body[m].tool
               /\ ~Allowed(e.action)

AccountedIn(J, h, s, m) ==
  IF s.req.body[m].shape = "ok" THEN DecidedIn(J, h, s, m)
  ELSE s.req.route = "mcp" => Rejection(h, m) \in J

\* Where a handler stands in the body of its request.
Place(s) ==
  /\ s.pc # "free" => s.req \in Traffic
  /\ s.pc \in Busy => s.n \in 1..Len(s.req.body)
  /\ s.pc = "done" => s.n = Len(s.req.body)

\* What it sent: only allowed messages, none that is still to come, none twice.
SentOK(J, h, s, q) ==
  /\ s.pc = "free" => q = <<>>
  /\ s.pc \in {"send", "wait", "filter"} => AllowedIn(J, h, s, s.n)
  /\ \A i \in DOMAIN q : /\ q[i][1] <= s.n /\ AllowedIn(J, h, s, q[i][1])
                         /\ s.pc \in {"message", "send"} => q[i][1] < s.n
  /\ \A i, j \in DOMAIN q : q[i] = q[j] => i = j
  /\ \A i \in DOMAIN q : q[i][2] \in Transmissions(s.req, q[i][1])
  /\ s.pc = "wait" => /\ Len(q) > 0 /\ q[Len(q)][1] = s.n
                      /\ \A i \in DOMAIN q : q[i][1] = s.n => q[i][2] <= q[Len(q)][2]

\* What an answer says of its message: a denial is in the journal, and what is
\* denied or recorded was not sent.
Truthful(J, h, s, q, a) ==
  a.kind \in {"denied", "recorded"} =>
    /\ \A j \in DOMAIN q : q[j][1] # a.n
    /\ IF a.kind = "denied" THEN RefusedIn(J, h, s, a.n) ELSE DecidedIn(J, h, s, a.n)

OutOK(J, h, s, q) ==
  /\ s.pc = "free" => s.out = <<>>
  /\ \A i \in DOMAIN s.out : /\ s.out[i].n <= s.n /\ (s.pc \in Busy => s.out[i].n < s.n)
                             /\ Truthful(J, h, s, q, s.out[i])

\* What it is past is accounted for.
PastAccounted(J, h, s) ==
  /\ s.pc # "free" => \A m \in DOMAIN s.req.body :
                        m < s.n \/ (m = s.n /\ s.pc # "message") => AccountedIn(J, h, s, m)
  /\ s.pc = "done" /\ s.req.route = "mcp" /\ s.req.body = <<>> => Rejection(h, 0) \in J

HandlerInv(J, h, s, q) ==
  Place(s) /\ SentOK(J, h, s, q) /\ OutOK(J, h, s, q) /\ PastAccounted(J, h, s)

GwInv == GwTypes /\ \A h \in Handlers : HandlerInv(journal, h, serve[h], sent[h])

\* The journal only grows, so what it holds stays true.
LEMMA JournalGrows ==
  ASSUME NEW J, NEW K, J \subseteq K, NEW h, NEW s, NEW q, HandlerInv(J, h, s, q)
  PROVE  HandlerInv(K, h, s, q)
<1>1. /\ \A m : DecidedIn(J, h, s, m) => DecidedIn(K, h, s, m)
      /\ \A m : AllowedIn(J, h, s, m) => AllowedIn(K, h, s, m)
      /\ \A m : RefusedIn(J, h, s, m) => RefusedIn(K, h, s, m)
      /\ \A m : AccountedIn(J, h, s, m) => AccountedIn(K, h, s, m)
  BY DEF DecidedIn, AllowedIn, RefusedIn, AccountedIn
<1>2. SentOK(K, h, s, q)
  BY <1>1 DEF HandlerInv, SentOK
<1>3. OutOK(K, h, s, q)
  <2>1. \A a : Truthful(J, h, s, q, a) => Truthful(K, h, s, q, a)
    BY <1>1 DEF Truthful
  <2> QED
    BY <2>1 DEF HandlerInv, OutOK
<1>4. PastAccounted(K, h, s)
  BY <1>1 DEF HandlerInv, PastAccounted
<1> QED
  BY <1>2, <1>3, <1>4 DEF HandlerInv

\* A step of one handler leaves the others alone.
LEMMA GwStep ==
  ASSUME GwInv, NEW h \in Handlers, NEW s \in Serving, NEW q \in Seq(Nat \X Nat),
         serve' = [serve EXCEPT ![h] = s], sent' = [sent EXCEPT ![h] = q],
         journal \subseteq journal', HandlerInv(journal', h, s, q)
  PROVE  GwInv'
<1>1. GwTypes'
  BY DEF GwInv, GwTypes
<1>2. ASSUME NEW g \in Handlers PROVE HandlerInv(journal', g, serve'[g], sent'[g])
  <2>1. CASE g = h
    <3>1. serve'[g] = s /\ sent'[g] = q
      BY <2>1 DEF GwInv, GwTypes
    <3> QED
      BY <2>1, <3>1
  <2>2. CASE g # h
    <3>1. serve'[g] = serve[g] /\ sent'[g] = sent[g]
      BY <2>2 DEF GwInv, GwTypes
    <3>2. HandlerInv(journal, g, serve[g], sent[g])
      BY DEF GwInv
    <3> QED
      BY <3>1, <3>2, JournalGrows
  <2> QED
    BY <2>1, <2>2
<1> QED
  BY <1>1, <1>2 DEF GwInv

\* A free handler is well formed.
LEMMA FreeType == Free \in Serving
  <1>1. <<>> \in Seq(GwTools) /\ <<>> \in Seq(Answers)
    OBVIOUS
  <1> QED
    BY <1>1 DEF Free, Serving, GwPcs, GwActions

\* The adapters start idle.
LEMMA GwInitInv == GwInit => GwInv
<1> SUFFICES ASSUME GwInit PROVE GwInv
  OBVIOUS
<1>1. GwTypes
  <2>1. <<>> \in Seq(Nat \X Nat)
    OBVIOUS
  <2> QED
    BY <2>1, FreeType DEF GwInit, GwTypes
<1>2. ASSUME NEW h \in Handlers PROVE HandlerInv(journal, h, serve[h], sent[h])
  <2>1. serve[h] = Free /\ sent[h] = <<>> /\ Free.pc = "free" /\ Free.out = <<>>
    BY DEF GwInit, Free
  <2> QED
    BY <2>1 DEF HandlerInv, Place, SentOK, OutOK, PastAccounted, Busy
<1> QED
  BY <1>1, <1>2 DEF GwInv

\* What a handler that serves a request is known to be.
LEMMA GwFacts ==
  ASSUME GwInv, NEW h \in Handlers
  PROVE  /\ serve[h] \in Serving /\ sent[h] \in Seq(Nat \X Nat)
         /\ HandlerInv(journal, h, serve[h], sent[h])
         /\ serve \in [Handlers -> Serving] /\ sent \in [Handlers -> Seq(Nat \X Nat)]
         /\ sent = [sent EXCEPT ![h] = sent[h]]
         /\ serve[h].pc # "free" =>
              /\ serve[h].req \in Traffic /\ Request(serve[h].req)
              /\ serve[h].req.body \in Seq(Messages) /\ Len(serve[h].req.body) \in Nat
              /\ DOMAIN serve[h].req.body = 1..Len(serve[h].req.body)
<1>1. /\ serve[h] \in Serving /\ sent[h] \in Seq(Nat \X Nat)
      /\ HandlerInv(journal, h, serve[h], sent[h])
      /\ serve \in [Handlers -> Serving] /\ sent \in [Handlers -> Seq(Nat \X Nat)]
  BY DEF GwInv, GwTypes
<1>2. sent = [sent EXCEPT ![h] = sent[h]]
  BY <1>1
<1>3. ASSUME serve[h].pc # "free"
      PROVE  serve[h].req \in Traffic /\ Request(serve[h].req) /\ serve[h].req.body \in Seq(Messages)
  BY <1>1, <1>3, TrafficAssumption DEF HandlerInv, Place, Request
<1> QED
  BY <1>1, <1>2, <1>3

\* What the journal holds of a message depends on the request alone.
LEMMA SameRequest ==
  ASSUME NEW J, NEW h, NEW s, NEW t, t.req = s.req
  PROVE  /\ \A m : DecidedIn(J, h, t, m) <=> DecidedIn(J, h, s, m)
         /\ \A m : AllowedIn(J, h, t, m) <=> AllowedIn(J, h, s, m)
         /\ \A m : RefusedIn(J, h, t, m) <=> RefusedIn(J, h, s, m)
         /\ \A m : AccountedIn(J, h, t, m) <=> AccountedIn(J, h, s, m)
  BY DEF DecidedIn, AllowedIn, RefusedIn, AccountedIn

\* An answer ends the request or moves on to the next message of the body, and
\* adds at most itself to what the caller is told.
LEMMA AnswerShape ==
  ASSUME NEW s \in Serving, s.req \in Traffic, NEW kind \in AnswerKinds, NEW shown \in Seq(GwTools),
         s.n \in 1..Len(s.req.body), NEW t, t = Answer(s, kind, shown)
  PROVE  /\ t \in Serving /\ t.req = s.req /\ s.n \in Nat /\ Len(s.req.body) \in Nat
         /\ s.out \in Seq(Answers) /\ t.out \in Seq(Answers)
         /\ \/ t.pc = "done" /\ t.n = s.n /\ s.n = Len(s.req.body)
            \/ t.pc = "message" /\ t.n = s.n + 1 /\ s.n + 1 <= Len(s.req.body)
         /\ \/ t.out = s.out
            \/ t.out = Append(s.out, [n |-> s.n, kind |-> kind, shown |-> shown])
<1>1. Request(s.req) /\ s.req.body \in Seq(Messages)
  BY TrafficAssumption DEF Request
<1>2. Len(s.req.body) \in Nat
  BY <1>1
<1>3. s.n \in Nat /\ s.out \in Seq(Answers) /\ <<>> \in Seq(GwTools)
  BY DEF Serving
<1>4. [n |-> s.n, kind |-> kind, shown |-> shown] \in Answers
  BY <1>3 DEF Answers
<1> DEFINE new == [n |-> s.n, kind |-> kind, shown |-> shown]
<1>5. Append(s.out, new) \in Seq(Answers)
  BY <1>3, <1>4
<1> HIDE DEF new
<1>6. PICK o : /\ o = IF Emits(s.req, s.req.body[s.n]) THEN Append(s.out, new) ELSE s.out
               /\ o \in Seq(Answers)
  BY <1>3, <1>5
<1>7. PICK p : p = (IF s.n = Len(s.req.body) THEN "done" ELSE "message") /\ p \in GwPcs
  BY DEF GwPcs
<1>8. PICK m : m = (IF s.n = Len(s.req.body) THEN s.n ELSE s.n + 1) /\ m \in Nat
  BY <1>3
<1>9. t = [s EXCEPT !.out = o, !.pc = p, !.n = m, !.todo = <<>>, !.shown = <<>>]
  BY <1>6, <1>7, <1>8 DEF Answer, new, Serving
<1>10. t \in Serving /\ t.req = s.req /\ t.out = o /\ t.pc = p /\ t.n = m
  BY <1>3, <1>6, <1>7, <1>8, <1>9 DEF Serving
<1>11. (p = "done" /\ m = s.n /\ s.n = Len(s.req.body))
       \/ (p = "message" /\ m = s.n + 1 /\ s.n + 1 <= Len(s.req.body))
  BY <1>2, <1>3, <1>7, <1>8
<1> QED
  BY <1>2, <1>3, <1>6, <1>10, <1>11 DEF new

\* An answer that is true of its message, once the message is accounted for, keeps
\* what holds of the handler.
LEMMA AnswerInv ==
  ASSUME NEW J, NEW h, NEW s \in Serving, NEW q \in Seq(Nat \X Nat), NEW kind \in AnswerKinds,
         NEW shown \in Seq(GwTools), HandlerInv(J, h, s, q), s.pc \in Busy,
         AccountedIn(J, h, s, s.n),
         Truthful(J, h, s, q, [n |-> s.n, kind |-> kind, shown |-> shown])
  PROVE  Answer(s, kind, shown) \in Serving /\ HandlerInv(J, h, Answer(s, kind, shown), q)
<1>1. PICK new : new = [n |-> s.n, kind |-> kind, shown |-> shown] /\ new.n = s.n
  OBVIOUS
<1>2. s.pc # "free" /\ s.req \in Traffic /\ s.n \in 1..Len(s.req.body)
  BY DEF HandlerInv, Place, Busy
<1>3. PICK t : t = Answer(s, kind, shown)
  OBVIOUS
<1>4. /\ t \in Serving /\ t.req = s.req /\ s.n \in Nat /\ Len(s.req.body) \in Nat
      /\ s.out \in Seq(Answers) /\ t.out \in Seq(Answers)
      /\ \/ t.pc = "done" /\ t.n = s.n /\ s.n = Len(s.req.body)
         \/ t.pc = "message" /\ t.n = s.n + 1 /\ s.n + 1 <= Len(s.req.body)
      /\ t.out = s.out \/ t.out = Append(s.out, new)
  BY <1>1, <1>2, <1>3, AnswerShape
<1>5. /\ \A m : DecidedIn(J, h, t, m) <=> DecidedIn(J, h, s, m)
      /\ \A m : AllowedIn(J, h, t, m) <=> AllowedIn(J, h, s, m)
      /\ \A m : RefusedIn(J, h, t, m) <=> RefusedIn(J, h, s, m)
      /\ \A m : AccountedIn(J, h, t, m) <=> AccountedIn(J, h, s, m)
  BY <1>4, SameRequest
<1>6. \A a : Truthful(J, h, t, q, a) <=> Truthful(J, h, s, q, a)
  BY <1>5 DEF Truthful
<1>7. Place(t)
  BY <1>2, <1>4 DEF Place, Busy
<1>8. SentOK(J, h, t, q)
  <2>1. \A i \in DOMAIN q : q[i][1] \in Nat
    OBVIOUS
  <2> QED
    BY <1>4, <1>5, <2>1 DEF HandlerInv, SentOK
<1>9. OutOK(J, h, t, q)
  <2>1. \A i \in DOMAIN s.out : s.out[i].n \in Nat /\ s.out[i].n < s.n /\ Truthful(J, h, t, q, s.out[i])
    <3>1. \A a \in Answers : a.n \in Nat
      BY DEF Answers
    <3>2. \A i \in DOMAIN s.out : s.out[i] \in Answers
      BY <1>4
    <3>3. \A i \in DOMAIN s.out : s.out[i].n < s.n /\ Truthful(J, h, s, q, s.out[i])
      BY DEF HandlerInv, OutOK
    <3> QED
      BY <1>6, <3>1, <3>2, <3>3
  <2>2. Truthful(J, h, t, q, new)
    BY <1>1, <1>6
  <2>3. \A i \in DOMAIN t.out : t.out[i] = new \/ \E j \in DOMAIN s.out : t.out[i] = s.out[j]
    <3>1. CASE t.out = s.out
      BY <3>1
    <3>2. CASE t.out = Append(s.out, new)
      <4>1. s.out \in Seq(Answers) /\ Len(s.out) \in Nat /\ DOMAIN s.out = 1..Len(s.out)
        BY <1>4
      <4>2. new \in Answers
        BY <1>1, <1>4 DEF Answers
      <4>3. DOMAIN t.out = 1..(Len(s.out) + 1) /\ t.out[Len(s.out) + 1] = new
            /\ \A i \in 1..Len(s.out) : t.out[i] = s.out[i]
        BY ONLY t.out = Append(s.out, new), <4>1, <4>2, <3>2
      <4>4. \A i \in 1..(Len(s.out) + 1) : i = Len(s.out) + 1 \/ i \in 1..Len(s.out)
        <5>1. \A L \in Nat : \A i \in 1..(L + 1) : i = L + 1 \/ i \in 1..L
          OBVIOUS
        <5> QED
          BY ONLY <4>1, <5>1
      <4> QED
        <5> TAKE i \in DOMAIN t.out
        <5>1. CASE i = Len(s.out) + 1
          BY ONLY <5>1, <4>3
        <5>2. CASE i \in 1..Len(s.out)
          BY ONLY <5>2, <4>1, <4>3
        <5> QED
          BY <5>1, <5>2, <4>3, <4>4
    <3> QED
      BY <1>4, <3>1, <3>2
  <2>4. \A i \in DOMAIN t.out : t.out[i].n \in Nat /\ t.out[i].n <= s.n /\ Truthful(J, h, t, q, t.out[i])
    <3>1. new.n \in Nat /\ new.n <= s.n
      BY <1>1, <1>4
    <3>2. \A i \in DOMAIN s.out : s.out[i].n <= s.n
      BY <1>4, <2>1
    <3> QED
      BY ONLY <2>1, <2>2, <2>3, <3>1, <3>2
  <2> QED
    BY <1>4, <2>4 DEF OutOK, Busy
<1>10. PastAccounted(J, h, t)
  <2>1. \A m \in DOMAIN s.req.body : m < s.n => AccountedIn(J, h, s, m)
    BY <1>2 DEF HandlerInv, PastAccounted
  <2>2. DOMAIN s.req.body = 1..Len(s.req.body) /\ s.req.body # <<>>
    <3>1. s.req.body \in Seq(Messages)
      BY <1>2, TrafficAssumption DEF Request
    <3> QED
      BY <3>1, <1>2
  <2>3. \A m \in DOMAIN s.req.body : m <= s.n => AccountedIn(J, h, t, m)
    BY <1>4, <1>5, <2>1, <2>2
  <2> QED
    BY <1>4, <2>2, <2>3 DEF PastAccounted
<1> QED
  BY <1>3, <1>4, <1>7, <1>8, <1>9, <1>10 DEF HandlerInv

\* A request is taken, or rejected for an empty body.
LEMMA ReceiveInv ==
  ASSUME GwInv, NEW h \in Handlers, NEW r \in Traffic, Receive(h, r)
  PROVE  GwInv'
<1>1. /\ HandlerInv(journal, h, serve[h], sent[h]) /\ sent = [sent EXCEPT ![h] = sent[h]]
      /\ sent[h] \in Seq(Nat \X Nat)
  BY GwFacts
<1>2. sent[h] = <<>>
  BY <1>1 DEF Receive, HandlerInv, SentOK
<1>3. r.body \in Seq(Messages) /\ Request(r)
  BY TrafficAssumption DEF Request
<1>4. Free.n = 0 /\ Free.out = <<>> /\ Free \in Serving
  BY FreeType DEF Free
<1>5. CASE r.body = <<>>
  <2>1. PICK a : a = [n |-> 0, kind |-> "rejected", shown |-> <<>>] /\ a \in Answers /\ a.n = 0 /\ a.kind = "rejected"
    <3>1. 0 \in Nat /\ "rejected" \in AnswerKinds /\ <<>> \in Seq(GwTools)
      BY DEF AnswerKinds
    <3>2. [n |-> 0, kind |-> "rejected", shown |-> <<>>] \in Answers
      BY <3>1 DEF Answers
    <3> QED
      BY <3>2
  <2>2. PICK s : s = [Free EXCEPT !.req = r, !.pc = "done", !.out = <<a>>]
    OBVIOUS
  <2>3. serve' = [serve EXCEPT ![h] = s] /\ sent' = [sent EXCEPT ![h] = sent[h]] /\ PublishRejection(h, 0, r)
    BY <1>1, <1>5, <2>1, <2>2 DEF Receive, Proceed
  <2>4. "done" \in GwPcs /\ r \in Traffic \cup {Opaque} /\ <<a>> \in Seq(Answers)
    BY <2>1 DEF GwPcs
  <2>5. s \in Serving /\ s.req = r /\ s.pc = "done" /\ s.out = <<a>> /\ s.n = 0
    BY <1>4, <2>2, <2>4 DEF Serving
  <2>6. Place(s)
    BY <1>5, <2>5 DEF Place, Busy
  <2>7. SentOK(journal', h, s, sent[h])
    BY <1>2, <2>5 DEF SentOK
  <2>8. OutOK(journal', h, s, sent[h])
    <3>1. Truthful(journal', h, s, sent[h], a)
      BY <2>1 DEF Truthful
    <3>2. \A i \in DOMAIN s.out : s.out[i] = a
      BY <2>5
    <3> QED
      BY <2>1, <2>5, <3>1, <3>2 DEF OutOK, Busy
  <2>9. PastAccounted(journal', h, s)
    BY <1>5, <2>3, <2>5 DEF PastAccounted, PublishRejection
  <2>10. journal \subseteq journal'
    BY <2>3 DEF PublishRejection
  <2> QED
    BY <1>1, <2>3, <2>5, <2>6, <2>7, <2>8, <2>9, <2>10, GwStep DEF HandlerInv
<1>6. CASE r.body # <<>>
  <2>2. PICK s : s = [Free EXCEPT !.req = r, !.pc = "message", !.n = 1]
    OBVIOUS
  <2>3. serve' = [serve EXCEPT ![h] = s] /\ sent' = [sent EXCEPT ![h] = sent[h]] /\ journal' = journal
    BY <1>1, <1>6, <2>2 DEF Receive, Proceed
  <2>4. "message" \in GwPcs /\ r \in Traffic \cup {Opaque}
    BY DEF GwPcs
  <2>5. s \in Serving /\ s.req = r /\ s.pc = "message" /\ s.out = <<>> /\ s.n = 1
    BY <1>4, <2>2, <2>4 DEF Serving
  <2>6. Place(s)
    BY <1>3, <1>6, <2>5 DEF Place
  <2>7. SentOK(journal', h, s, sent[h])
    BY <1>2, <2>5 DEF SentOK
  <2>8. OutOK(journal', h, s, sent[h])
    BY <2>5 DEF OutOK
  <2>9. PastAccounted(journal', h, s)
    <3>1. \A m \in DOMAIN r.body : ~(m < 1)
      BY <1>3
    <3> QED
      BY <2>5, <3>1 DEF PastAccounted
  <2> QED
    BY <1>1, <2>3, <2>5, <2>6, <2>7, <2>8, <2>9, GwStep DEF HandlerInv
<1> QED
  BY <1>5, <1>6

\* An answer other than a denial or a record claims nothing of what was sent.
LEMMA PlainAnswer ==
  ASSUME NEW J, NEW h, NEW s, NEW q, NEW kind, kind \notin {"denied", "recorded"}, NEW shown
  PROVE  Truthful(J, h, s, q, [n |-> s.n, kind |-> kind, shown |-> shown])
  BY DEF Truthful

\* What does not parse is rejected, by the MCP gateway on the record.
LEMMA RejectInv ==
  ASSUME GwInv, NEW h \in Handlers, Reject(h)
  PROVE  GwInv'
<1>1. /\ serve[h] \in Serving /\ sent[h] \in Seq(Nat \X Nat)
      /\ HandlerInv(journal, h, serve[h], sent[h]) /\ sent = [sent EXCEPT ![h] = sent[h]]
  BY GwFacts
<1>2. /\ serve[h].pc \in Busy /\ serve[h].req.body[serve[h].n].shape # "ok"
      /\ PublishRejection(h, serve[h].n, serve[h].req) /\ sent' = sent
      /\ serve' = [serve EXCEPT ![h] = Answer(serve[h], "rejected", <<>>)]
  BY DEF Reject, Busy, Current, Proceed
<1>3. journal \subseteq journal'
  BY <1>2 DEF PublishRejection
<1>4. HandlerInv(journal', h, serve[h], sent[h])
  BY <1>1, <1>3, JournalGrows
<1>5. AccountedIn(journal', h, serve[h], serve[h].n)
  BY <1>2 DEF AccountedIn, PublishRejection
<1>6. "rejected" \in AnswerKinds /\ "rejected" \notin {"denied", "recorded"} /\ <<>> \in Seq(GwTools)
  BY DEF AnswerKinds
<1>7. Truthful(journal', h, serve[h], sent[h], [n |-> serve[h].n, kind |-> "rejected", shown |-> <<>>])
  BY <1>6, PlainAnswer
<1>8. /\ Answer(serve[h], "rejected", <<>>) \in Serving
      /\ HandlerInv(journal', h, Answer(serve[h], "rejected", <<>>), sent[h])
  BY <1>1, <1>2, <1>4, <1>5, <1>6, <1>7, AnswerInv
<1> QED
  BY <1>1, <1>2, <1>3, <1>8, GwStep

\* A message allowed by a published decision may go upstream.
LEMMA OnTheWay ==
  ASSUME NEW J, NEW h, NEW s \in Serving, NEW q \in Seq(Nat \X Nat), NEW action \in GwActions,
         HandlerInv(J, h, s, q), s.pc = "message", s.req.body[s.n].shape = "ok",
         AllowedIn(J, h, s, s.n), NEW t, t = [s EXCEPT !.pc = "send", !.verdict = action]
  PROVE  t \in Serving /\ HandlerInv(J, h, t, q)
<1>1. "send" \in GwPcs
  BY DEF GwPcs
<1>2. t \in Serving /\ t.pc = "send" /\ t.req = s.req /\ t.n = s.n /\ t.out = s.out
  BY <1>1 DEF Serving
<1>3. /\ \A m : DecidedIn(J, h, t, m) <=> DecidedIn(J, h, s, m)
      /\ \A m : AllowedIn(J, h, t, m) <=> AllowedIn(J, h, s, m)
      /\ \A m : RefusedIn(J, h, t, m) <=> RefusedIn(J, h, s, m)
      /\ \A m : AccountedIn(J, h, t, m) <=> AccountedIn(J, h, s, m)
  BY <1>2, SameRequest
<1>4. \A a : Truthful(J, h, t, q, a) <=> Truthful(J, h, s, q, a)
  BY <1>3 DEF Truthful
<1>5. Place(t)
  BY <1>2 DEF HandlerInv, Place, Busy
<1>6. SentOK(J, h, t, q)
  BY <1>2, <1>3 DEF HandlerInv, SentOK
<1>7. OutOK(J, h, t, q)
  BY <1>2, <1>4 DEF HandlerInv, OutOK, Busy
<1>8. PastAccounted(J, h, t)
  <2>1. AccountedIn(J, h, s, s.n)
    BY DEF AccountedIn, DecidedIn, AllowedIn
  <2> QED
    BY <1>2, <1>3, <2>1 DEF HandlerInv, PastAccounted
<1> QED
  BY <1>2, <1>5, <1>6, <1>7, <1>8 DEF HandlerInv

\* Whatever adapter it is, what follows a published verdict agrees with it.
LEMMA AfterVerdictInv ==
  ASSUME NEW J, NEW h, NEW s \in Serving, NEW q \in Seq(Nat \X Nat), NEW action \in GwActions,
         HandlerInv(J, h, s, q), s.pc = "message", s.req.body[s.n].shape = "ok",
         Allowed(action) => AllowedIn(J, h, s, s.n),
         ~Allowed(action) => RefusedIn(J, h, s, s.n)
  PROVE  AfterVerdict(s, action) \in Serving /\ HandlerInv(J, h, AfterVerdict(s, action), q)
<1> DEFINE Good(t) == t \in Serving /\ HandlerInv(J, h, t, q)
<1>1. DecidedIn(J, h, s, s.n) /\ AccountedIn(J, h, s, s.n)
  BY DEF AccountedIn, DecidedIn, AllowedIn, RefusedIn
<1>2. s.pc \in Busy /\ s.req \in Traffic /\ s.n \in Nat
  BY DEF Busy, HandlerInv, Place, Serving
<1>3. \A j \in DOMAIN q : q[j][1] # s.n
  <2>1. \A j \in DOMAIN q : q[j][1] \in Nat /\ q[j][1] < s.n
    BY DEF HandlerInv, SentOK
  <2> QED
    BY <1>2, <2>1
<1> DEFINE failure == Failure(s.req)
<1>4. /\ failure \in AnswerKinds /\ "decision" \in AnswerKinds /\ "denied" \in AnswerKinds
      /\ "recorded" \in AnswerKinds /\ <<>> \in Seq(GwTools)
      /\ failure \notin {"denied", "recorded"} /\ "decision" \notin {"denied", "recorded"}
  BY DEF AnswerKinds, Failure
<1> HIDE DEF failure
<1>5. Good(Answer(s, failure, <<>>)) /\ Good(Answer(s, "decision", <<>>))
  <2>1. /\ Truthful(J, h, s, q, [n |-> s.n, kind |-> failure, shown |-> <<>>])
        /\ Truthful(J, h, s, q, [n |-> s.n, kind |-> "decision", shown |-> <<>>])
    BY <1>4, PlainAnswer
  <2> QED
    BY <1>1, <1>2, <1>4, <2>1, AnswerInv
<1>6. Good(Answer(s, "recorded", <<>>))
  <2>1. Truthful(J, h, s, q, [n |-> s.n, kind |-> "recorded", shown |-> <<>>])
    BY <1>1, <1>3 DEF Truthful
  <2> QED
    BY <1>1, <1>2, <1>4, <2>1, AnswerInv
<1>7. ASSUME ~Allowed(action) PROVE Good(Answer(s, "denied", <<>>))
  <2>1. Truthful(J, h, s, q, [n |-> s.n, kind |-> "denied", shown |-> <<>>])
    BY <1>3, <1>7 DEF Truthful
  <2> QED
    BY <1>1, <1>2, <1>4, <2>1, AnswerInv
<1>8. ASSUME Allowed(action) PROVE Good([s EXCEPT !.pc = "send", !.verdict = action])
  BY <1>8, OnTheWay
<1>9. s.req.route \in Routes
  BY <1>2, TrafficAssumption DEF Request
<1> HIDE DEF Good
<1>10. Good(Onward(s, action, failure)) /\ Good(Onward(s, action, "decision"))
  BY <1>5, <1>7, <1>8 DEF Onward
<1>11. /\ Good(McpAfter(s, action)) /\ Good(A2aAfter(s, action)) /\ Good(HttpAfter(s, action))
       /\ Good(WebhookAfter(s, action))
  BY <1>6, <1>10 DEF McpAfter, A2aAfter, HttpAfter, WebhookAfter, failure
<1>12. Good(GrpcAfter(s, action)) /\ Good(CliAfter(s, action))
  BY <1>7, <1>8 DEF GrpcAfter, CliAfter
<1>13. Good(AfterVerdict(s, action))
  BY <1>9, <1>11, <1>12 DEF AfterVerdict, Routes
<1> QED
  BY <1>13 DEF Good

\* The verdict is published with the step that acts on it.
LEMMA EvaluateInv ==
  ASSUME GwInv, NEW h \in Handlers, Evaluate(h)
  PROVE  GwInv'
<1>1. /\ serve[h] \in Serving /\ sent[h] \in Seq(Nat \X Nat)
      /\ HandlerInv(journal, h, serve[h], sent[h]) /\ sent = [sent EXCEPT ![h] = sent[h]]
  BY GwFacts
<1>2. serve[h].pc = "message" /\ serve[h].req.body[serve[h].n].shape = "ok"
  BY DEF Evaluate, Current
<1>3. PICK tool : tool = serve[h].req.body[serve[h].n].tool
  OBVIOUS
<1>4. PICK action : action = Verdict(serve[h].req.agent, tool)
  OBVIOUS
<1>5. /\ journal' = journal \cup {Decision(h, serve[h].n, tool, action)} /\ sent' = sent
      /\ serve' = [serve EXCEPT ![h] = AfterVerdict(serve[h], action)]
  BY <1>3, <1>4 DEF Evaluate, Current, Proceed
<1>6. action \in GwActions
  <2>1. /\ serve[h].req \in Traffic /\ Request(serve[h].req)
        /\ DOMAIN serve[h].req.body = 1..Len(serve[h].req.body)
    BY <1>2, GwFacts
  <2>2. serve[h].n \in 1..Len(serve[h].req.body)
    BY <1>1, <1>2 DEF HandlerInv, Place, Busy
  <2>3. tool \in DOMAIN PolicyOf
    BY <1>2, <1>3, <2>1, <2>2 DEF Request
  <2> QED
    BY <1>4, <2>3 DEF Verdict, GwActions
<1>7. HandlerInv(journal', h, serve[h], sent[h])
  BY <1>1, <1>5, JournalGrows
<1>8. PICK e : e = Decision(h, serve[h].n, tool, action) /\ e \in journal'
  BY <1>5
<1>9. e.by = h /\ e.n = serve[h].n /\ e.kind = "decision" /\ e.tool = tool /\ e.action = action
  BY <1>8 DEF Decision
<1>10. /\ Allowed(action) => AllowedIn(journal', h, serve[h], serve[h].n)
       /\ ~Allowed(action) => RefusedIn(journal', h, serve[h], serve[h].n)
  BY <1>3, <1>8, <1>9 DEF AllowedIn, RefusedIn
<1>11. /\ AfterVerdict(serve[h], action) \in Serving
       /\ HandlerInv(journal', h, AfterVerdict(serve[h], action), sent[h])
  BY <1>1, <1>2, <1>6, <1>7, <1>10, AfterVerdictInv
<1> QED
  BY <1>1, <1>5, <1>11, GwStep

\* A sequence with one more element: every index is an old one or the last.
LEMMA LastOrEarlier ==
  ASSUME NEW L \in Nat
  PROVE  \A i \in 1..(L + 1) : i = L + 1 \/ i \in 1..L
  OBVIOUS

\* One more transmission of the current message, the first or a later one, when
\* nothing of it, or only earlier transmissions, went before it.
LEMMA SentOnce ==
  ASSUME NEW J, NEW h, NEW s \in Serving, NEW t \in Serving, NEW q \in Seq(Nat \X Nat),
         NEW p \in Seq(Nat \X Nat), NEW k \in Nat, HandlerInv(J, h, s, q),
         s.pc \in {"send", "wait"}, t.pc = "wait", t.req = s.req, t.n = s.n, t.out = s.out,
         p = Append(q, <<s.n, k>>),
         k \in Transmissions(s.req, s.n),
         \A i \in DOMAIN q : q[i][1] = s.n => q[i][2] < k
  PROVE  HandlerInv(J, h, t, p)
<1>1. s.n \in Nat /\ s.out \in Seq(Answers)
  BY DEF Serving
<1>2. /\ Len(q) \in Nat /\ Len(p) = Len(q) + 1 /\ DOMAIN q = 1..Len(q) /\ DOMAIN p = 1..(Len(q) + 1)
      /\ p[Len(q) + 1] = <<s.n, k>> /\ \A i \in 1..Len(q) : p[i] = q[i]
  BY <1>1
<1>3. \A i \in DOMAIN p : i = Len(q) + 1 \/ i \in 1..Len(q)
  BY <1>2, LastOrEarlier
<1>4. /\ \A m : DecidedIn(J, h, t, m) <=> DecidedIn(J, h, s, m)
      /\ \A m : AllowedIn(J, h, t, m) <=> AllowedIn(J, h, s, m)
      /\ \A m : RefusedIn(J, h, t, m) <=> RefusedIn(J, h, s, m)
      /\ \A m : AccountedIn(J, h, t, m) <=> AccountedIn(J, h, s, m)
  BY SameRequest
<1>5. \A i \in DOMAIN q : q[i][1] \in Nat /\ q[i][2] \in Nat /\ q[i][1] <= s.n
                          /\ AllowedIn(J, h, s, q[i][1])
  BY DEF HandlerInv, SentOK
<1>6. AllowedIn(J, h, s, s.n)
  BY DEF HandlerInv, SentOK
<1>7. Place(t)
  BY DEF HandlerInv, Place, Busy
<1>8. SentOK(J, h, t, p)
  <2>1. \A i \in DOMAIN p : p[i][1] <= s.n /\ AllowedIn(J, h, t, p[i][1])
    <3> SUFFICES ASSUME NEW i \in DOMAIN p PROVE p[i][1] <= s.n /\ AllowedIn(J, h, t, p[i][1])
      OBVIOUS
    <3>1. CASE i = Len(q) + 1
      BY <1>1, <1>2, <1>4, <1>6, <3>1
    <3>2. CASE i \in 1..Len(q)
      BY <1>2, <1>4, <1>5, <3>2
    <3> QED
      BY <1>3, <3>1, <3>2
  <2>2. \A i, j \in DOMAIN p : p[i] = p[j] => i = j
    <3>1. \A i \in 1..Len(q) : p[i] # <<s.n, k>>
      <4> SUFFICES ASSUME NEW i \in 1..Len(q), p[i] = <<s.n, k>> PROVE FALSE
        OBVIOUS
      <4>1. i \in DOMAIN q /\ q[i][1] = s.n /\ q[i][2] = k
        BY <1>2
      <4>2. \A j \in DOMAIN q : q[j][1] = s.n => q[j][2] < k
        OBVIOUS
      <4> QED
        BY ONLY <4>1, <4>2, k \in Nat
    <3>2. \A i, j \in 1..Len(q) : p[i] = p[j] => i = j
      BY <1>2 DEF HandlerInv, SentOK
    <3> SUFFICES ASSUME NEW i \in DOMAIN p, NEW j \in DOMAIN p, p[i] = p[j] PROVE i = j
      OBVIOUS
    <3>3. CASE i = Len(q) + 1 /\ j = Len(q) + 1
      BY <3>3
    <3>4. CASE i = Len(q) + 1 /\ j \in 1..Len(q)
      BY ONLY <1>2, <3>1, <3>4, p[i] = p[j]
    <3>5. CASE i \in 1..Len(q) /\ j = Len(q) + 1
      BY ONLY <1>2, <3>1, <3>5, p[i] = p[j]
    <3>6. CASE i \in 1..Len(q) /\ j \in 1..Len(q)
      BY ONLY <3>2, <3>6, p[i] = p[j]
    <3> QED
      BY ONLY <1>3, <3>3, <3>4, <3>5, <3>6, i \in DOMAIN p, j \in DOMAIN p
  <2>3. \A i \in DOMAIN p : p[i][1] = s.n => p[i][2] <= k
    <3> SUFFICES ASSUME NEW i \in DOMAIN p, p[i][1] = s.n PROVE p[i][2] <= k
      OBVIOUS
    <3>1. CASE i = Len(q) + 1
      BY <1>2, <3>1
    <3>2. CASE i \in 1..Len(q)
      BY <1>2, <1>5, <3>2
    <3> QED
      BY <1>3, <3>1, <3>2
  <2>4. p[Len(p)][1] = s.n /\ p[Len(p)][2] = k /\ Len(p) > 0
    BY <1>2
  <2>5. \A i \in DOMAIN p : p[i][2] \in Transmissions(t.req, p[i][1])
    <3>0. \A i \in DOMAIN q : q[i][2] \in Transmissions(s.req, q[i][1])
      BY DEF HandlerInv, SentOK
    <3> SUFFICES ASSUME NEW i \in DOMAIN p PROVE p[i][2] \in Transmissions(t.req, p[i][1])
      OBVIOUS
    <3>1. CASE i = Len(q) + 1
      BY <1>2, <3>1
    <3>2. CASE i \in 1..Len(q)
      BY <1>2, <3>0, <3>2
    <3> QED
      BY <1>3, <3>1, <3>2
  <2> QED
    BY <1>4, <1>6, <2>1, <2>2, <2>3, <2>4, <2>5 DEF SentOK
<1>9. OutOK(J, h, t, p)
  <2>1. \A i \in DOMAIN s.out : s.out[i].n \in Nat /\ s.out[i].n < s.n /\ Truthful(J, h, s, q, s.out[i])
    <3>1. \A a \in Answers : a.n \in Nat
      BY DEF Answers
    <3>2. \A i \in DOMAIN s.out : s.out[i] \in Answers
      BY <1>1
    <3>3. \A i \in DOMAIN s.out : s.out[i].n < s.n /\ Truthful(J, h, s, q, s.out[i])
      BY DEF HandlerInv, OutOK, Busy
    <3> QED
      BY <3>1, <3>2, <3>3
  <2>2. ASSUME NEW a, a.n \in Nat, a.n < s.n, Truthful(J, h, s, q, a)
        PROVE  Truthful(J, h, t, p, a)
    <3> SUFFICES ASSUME a.kind \in {"denied", "recorded"} PROVE Truthful(J, h, t, p, a)
      BY DEF Truthful
    <3>1. \A j \in DOMAIN q : q[j][1] # a.n
      BY <2>2 DEF Truthful
    <3>2. s.n # a.n
      BY <1>1, <2>2
    <3>3. \A j \in DOMAIN p : p[j][1] # a.n
      BY <1>2, <1>3, <3>1, <3>2
    <3> QED
      BY <1>4, <2>2, <3>3 DEF Truthful
  <2>3. \A i \in DOMAIN s.out : Truthful(J, h, t, p, s.out[i])
    BY ONLY <2>1, <2>2
  <2>4. \A i \in DOMAIN s.out : s.out[i].n <= s.n
    BY <1>1, <2>1
  <2> QED
    BY <2>1, <2>3, <2>4 DEF OutOK
<1>10. PastAccounted(J, h, t)
  BY <1>4 DEF HandlerInv, PastAccounted
<1> QED
  BY <1>7, <1>8, <1>9, <1>10 DEF HandlerInv

\* Every message has a first transmission.
LEMMA FirstTransmission ==
  ASSUME NEW J, NEW h, NEW s \in Serving, NEW q, HandlerInv(J, h, s, q), s.pc = "send"
  PROVE  1 \in Transmissions(s.req, s.n)
<1>1. s.req \in Traffic /\ s.n \in 1..Len(s.req.body)
  BY DEF HandlerInv, Place, Busy
<1>2. s.req.body \in Seq(Messages)
  BY <1>1, TrafficAssumption DEF Request
<1>3. s.req.body[s.n] \in Messages
  BY <1>1, <1>2
<1>4. s.req.body[s.n].segments \in Nat \ {0}
  BY <1>3 DEF Messages
<1> QED
  BY <1>4, PostsAssumption DEF Transmissions

\* A message is sent upstream: nothing of it was sent before.
LEMMA ForwardInv ==
  ASSUME GwInv, NEW h \in Handlers, Send(h)
  PROVE  GwInv'
<1>1. /\ serve[h] \in Serving /\ sent[h] \in Seq(Nat \X Nat)
      /\ HandlerInv(journal, h, serve[h], sent[h])
  BY GwFacts
<1>2. PICK s : s = serve[h] /\ s \in Serving /\ s.pc = "send" /\ s.n \in Nat
  BY <1>1 DEF Send, Serving
<1>3. PICK q : q = sent[h] /\ q \in Seq(Nat \X Nat)
  BY <1>1
<1>4. PICK t : t = [s EXCEPT !.pc = "wait"]
  OBVIOUS
<1>5. PICK p : p = Append(q, <<s.n, 1>>)
  OBVIOUS
<1>6. serve' = [serve EXCEPT ![h] = t] /\ sent' = [sent EXCEPT ![h] = p] /\ journal' = journal
  BY <1>2, <1>3, <1>4, <1>5 DEF Send, Proceed
<1>7. "wait" \in GwPcs
  BY DEF GwPcs
<1>8. t \in Serving /\ t.pc = "wait" /\ t.req = s.req /\ t.n = s.n /\ t.out = s.out
  BY <1>2, <1>4, <1>7 DEF Serving
<1>9. HandlerInv(journal, h, s, q)
  BY <1>1, <1>2, <1>3
<1>10. p \in Seq(Nat \X Nat)
  BY <1>2, <1>3, <1>5
<1>11. \A i \in DOMAIN q : q[i][1] \in Nat /\ q[i][2] \in Nat /\ q[i][1] < s.n
  BY <1>2, <1>3, <1>9 DEF HandlerInv, SentOK
<1>12. s.pc \in {"send", "wait"} /\ \A i \in DOMAIN q : q[i][1] = s.n => q[i][2] < 1
  BY <1>2, <1>11
<1>13. 1 \in Transmissions(s.req, s.n)
  BY <1>2, <1>9, FirstTransmission
<1>14. HandlerInv(journal, h, t, p)
  BY <1>2, <1>3, <1>5, <1>8, <1>9, <1>10, <1>12, <1>13, SentOnce
<1> QED
  BY <1>6, <1>8, <1>10, <1>14, GwStep

\* The next segment of a chain, or the next post of a redirected payload, follows the
\* last one sent.
LEMMA NextPartInv ==
  ASSUME GwInv, NEW h \in Handlers, NextSegment(h) \/ FollowRedirect(h)
  PROVE  GwInv'
<1>1. /\ serve[h] \in Serving /\ sent[h] \in Seq(Nat \X Nat)
      /\ HandlerInv(journal, h, serve[h], sent[h])
  BY GwFacts
<1>2. PICK s : s = serve[h] /\ s \in Serving /\ s.pc = "wait" /\ s.n \in Nat
  BY <1>1 DEF NextSegment, FollowRedirect, Serving
<1>3. PICK q : q = sent[h] /\ q \in Seq(Nat \X Nat)
  BY <1>1
<1>4. HandlerInv(journal, h, s, q)
  BY <1>1, <1>2, <1>3
<1>5. /\ Len(q) > 0 /\ q[Len(q)][1] = s.n
      /\ \A i \in DOMAIN q : q[i][1] = s.n => q[i][2] <= q[Len(q)][2]
  BY <1>2, <1>4 DEF HandlerInv, SentOK
<1>6. \A i \in DOMAIN q : q[i][2] \in Nat
  BY <1>3
<1>7. Len(q) \in DOMAIN q
  BY <1>3, <1>5
<1>8. PICK k : k = q[Len(q)][2] + 1 /\ k \in Nat
  BY <1>6, <1>7
<1>9. \A i \in DOMAIN q : q[i][1] = s.n => q[i][2] < k
  BY <1>5, <1>6, <1>7, <1>8
<1>10. PICK p : p = Append(q, <<s.n, k>>) /\ p \in Seq(Nat \X Nat)
  <2>1. <<s.n, k>> \in Nat \X Nat
    BY <1>2, <1>8
  <2>2. \A e \in Nat \X Nat : Append(q, e) \in Seq(Nat \X Nat)
    BY <1>3
  <2> QED
    BY ONLY <2>1, <2>2
<1>11. sent' = [sent EXCEPT ![h] = p] /\ journal' = journal /\ serve' = serve
  BY <1>2, <1>3, <1>8, <1>10 DEF NextSegment, FollowRedirect, LastPart
<1>12. serve' = [serve EXCEPT ![h] = s]
  <2>1. serve \in [Handlers -> Serving]
    BY GwFacts
  <2> QED
    BY <1>2, <1>11, <2>1
<1>13. s.pc \in {"send", "wait"}
  BY <1>2
<1>14. k \in Transmissions(s.req, s.n)
  <2>1. CASE NextSegment(h)
    <3>1. s.req.route = "cli" /\ q[Len(q)][2] < s.req.body[s.n].segments
      BY <1>2, <1>3, <2>1 DEF NextSegment, LastPart, Current
    <3>2. s.req \in Traffic /\ s.n \in 1..Len(s.req.body)
      BY <1>2, <1>4 DEF HandlerInv, Place, Busy
    <3>3. s.req.body \in Seq(Messages)
      BY <3>2, TrafficAssumption DEF Request
    <3>4. s.req.body[s.n] \in Messages
      BY <3>2, <3>3
    <3>5. s.req.body[s.n].segments \in Nat
      BY <3>4 DEF Messages
    <3>6. k \in 1..s.req.body[s.n].segments
      BY <1>6, <1>7, <1>8, <3>1, <3>5
    <3> QED
      BY <3>1, <3>6 DEF Transmissions
  <2>2. CASE FollowRedirect(h)
    <3>1. Posts(s.req) /\ s.req.route # "cli" /\ q[Len(q)][2] < MaxPosts
      BY <1>2, <1>3, <2>2 DEF FollowRedirect, LastPart, Posts
    <3>2. k \in 1..MaxPosts
      BY <1>6, <1>7, <1>8, <3>1, PostsAssumption
    <3> QED
      BY <3>1, <3>2 DEF Transmissions
  <2> QED
    BY <2>1, <2>2
<1>15. HandlerInv(journal, h, s, p)
  BY <1>2, <1>3, <1>4, <1>8, <1>9, <1>10, <1>13, <1>14, SentOnce
<1> QED
  BY <1>2, <1>10, <1>11, <1>12, <1>15, GwStep

\* Once a message was sent an answer that claims no denial may follow it.
LEMMA PlainAnswerInv ==
  ASSUME GwInv, NEW h \in Handlers, serve[h].pc \in {"wait", "filter"}, NEW kind \in AnswerKinds,
         kind \notin {"denied", "recorded"}, NEW shown \in Seq(GwTools),
         Proceed(h, Answer(serve[h], kind, shown)), journal' = journal, sent' = sent
  PROVE  GwInv'
<1>1. /\ serve[h] \in Serving /\ sent[h] \in Seq(Nat \X Nat)
      /\ HandlerInv(journal, h, serve[h], sent[h]) /\ sent = [sent EXCEPT ![h] = sent[h]]
      /\ DOMAIN serve[h].req.body = 1..Len(serve[h].req.body)
  BY GwFacts
<1>2. serve[h].pc \in Busy /\ serve[h].pc # "message" /\ serve[h].pc # "free"
  BY DEF Busy
<1>3. AccountedIn(journal, h, serve[h], serve[h].n)
  BY <1>1, <1>2 DEF HandlerInv, PastAccounted, Place
<1>4. Truthful(journal, h, serve[h], sent[h], [n |-> serve[h].n, kind |-> kind, shown |-> shown])
  BY PlainAnswer
<1>5. /\ Answer(serve[h], kind, shown) \in Serving
      /\ HandlerInv(journal, h, Answer(serve[h], kind, shown), sent[h])
  BY <1>1, <1>2, <1>3, <1>4, AnswerInv
<1> QED
  BY <1>1, <1>5, GwStep DEF Proceed

\* The listing is worked through, the handler staying at its message.
LEMMA FilteringInv ==
  ASSUME NEW J, NEW h, NEW s \in Serving, NEW q, HandlerInv(J, h, s, q), s.pc = "wait" \/ s.pc = "filter",
         NEW t, t.pc = "filter", t.req = s.req, t.n = s.n, t.out = s.out
  PROVE  HandlerInv(J, h, t, q)
<1>3. /\ \A m : DecidedIn(J, h, t, m) <=> DecidedIn(J, h, s, m)
      /\ \A m : AllowedIn(J, h, t, m) <=> AllowedIn(J, h, s, m)
      /\ \A m : RefusedIn(J, h, t, m) <=> RefusedIn(J, h, s, m)
      /\ \A m : AccountedIn(J, h, t, m) <=> AccountedIn(J, h, s, m)
  BY SameRequest
<1>4. \A a : Truthful(J, h, t, q, a) <=> Truthful(J, h, s, q, a)
  BY <1>3 DEF Truthful
<1>5. Place(t)
  BY DEF HandlerInv, Place, Busy
<1>6. SentOK(J, h, t, q)
  BY <1>3 DEF HandlerInv, SentOK
<1>7. OutOK(J, h, t, q)
  BY <1>4 DEF HandlerInv, OutOK, Busy
<1>8. PastAccounted(J, h, t)
  BY <1>3 DEF HandlerInv, PastAccounted
<1> QED
  BY <1>5, <1>6, <1>7, <1>8 DEF HandlerInv

\* The upstream answers, and a listing is kept for filtering.
LEMMA ReplyInv ==
  ASSUME GwInv, NEW h \in Handlers, Reply(h)
  PROVE  GwInv'
<1>1. serve[h].pc \in {"wait", "filter"} /\ journal' = journal /\ sent' = sent
  BY DEF Reply
<1>2. /\ "passed" \in AnswerKinds /\ "answered" \in AnswerKinds /\ <<>> \in Seq(GwTools)
      /\ "passed" \notin {"denied", "recorded"} /\ "answered" \notin {"denied", "recorded"}
  BY DEF AnswerKinds
<1>3. CASE Proceed(h, Answer(serve[h], "passed", <<>>))
  BY <1>1, <1>2, <1>3, PlainAnswerInv
<1>4. CASE Proceed(h, Answer(serve[h], "answered", <<>>))
  BY <1>1, <1>2, <1>4, PlainAnswerInv
<1>5. CASE \E listing \in Listings :
             listing # Opaque /\ Proceed(h, [serve[h] EXCEPT !.pc = "filter", !.todo = listing])
  <2>1. PICK listing \in Listings :
          listing # Opaque /\ Proceed(h, [serve[h] EXCEPT !.pc = "filter", !.todo = listing])
    BY <1>5
  <2>2. listing \in Seq(GwTools)
    BY <2>1, ListingsAssumption DEF GwTools
  <2>3. /\ serve[h] \in Serving /\ sent[h] \in Seq(Nat \X Nat)
        /\ HandlerInv(journal, h, serve[h], sent[h]) /\ sent = [sent EXCEPT ![h] = sent[h]]
    BY GwFacts
  <2>4. "filter" \in GwPcs
    BY DEF GwPcs
  <2>5. PICK t : t = [serve[h] EXCEPT !.pc = "filter", !.todo = listing]
    OBVIOUS
  <2>6. /\ t \in Serving /\ t.pc = "filter" /\ t.req = serve[h].req /\ t.n = serve[h].n
        /\ t.out = serve[h].out
    BY <2>2, <2>3, <2>4, <2>5 DEF Serving
  <2>7. HandlerInv(journal, h, t, sent[h])
    BY <1>1, <2>3, <2>6, FilteringInv
  <2> QED
    BY <1>1, <2>1, <2>3, <2>5, <2>6, <2>7, GwStep DEF Proceed
<1> QED
  BY <1>3, <1>4, <1>5 DEF Reply

\* An empty listing is one.
LEMMA NothingShown == <<>> \in Seq(GwTools)
  OBVIOUS

\* A broken connection and the forwarder's timeout are answered as failures.
LEMMA FailureInv ==
  ASSUME GwInv, NEW h \in Handlers, UpstreamFails(h) \/ Timeout(h)
  PROVE  GwInv'
<1>1. PICK kind \in {"failed", "errored as deny"} : Proceed(h, Answer(serve[h], kind, <<>>))
  BY DEF UpstreamFails, Timeout, Failure
<1>2. serve[h].pc \in {"wait", "filter"} /\ journal' = journal /\ sent' = sent
  BY DEF UpstreamFails, Timeout
<1>3. kind \in AnswerKinds /\ kind \notin {"denied", "recorded"}
  BY DEF AnswerKinds
<1> QED
  BY ONLY GwInv, h \in Handlers, <1>1, <1>2, <1>3, NothingShown, PlainAnswerInv

\* The filtered listing is the answer.
LEMMA ListingDoneInv ==
  ASSUME GwInv, NEW h \in Handlers, ListingDone(h)
  PROVE  GwInv'
<1>1. /\ serve[h].pc \in {"wait", "filter"} /\ journal' = journal /\ sent' = sent
      /\ Proceed(h, Answer(serve[h], "answered", serve[h].shown))
  BY DEF ListingDone
<1>2. serve[h] \in Serving
  BY GwFacts
<1>3. /\ "answered" \in AnswerKinds /\ serve[h].shown \in Seq(GwTools)
      /\ "answered" \notin {"denied", "recorded"}
  BY <1>2 DEF AnswerKinds, Serving
<1> QED
  BY <1>1, <1>3, PlainAnswerInv

\* A listed tool is evaluated, on the record.
LEMMA FilterToolInv ==
  ASSUME GwInv, NEW h \in Handlers, FilterTool(h)
  PROVE  GwInv'
<1>1. /\ serve[h] \in Serving /\ sent[h] \in Seq(Nat \X Nat)
      /\ HandlerInv(journal, h, serve[h], sent[h]) /\ sent = [sent EXCEPT ![h] = sent[h]]
  BY GwFacts
<1>2. PICK s : s = serve[h] /\ s \in Serving /\ s.pc = "filter" /\ s.todo # <<>> /\ sent' = sent
  BY <1>1 DEF FilterTool
<1>3. s.todo \in Seq(GwTools) /\ s.shown \in Seq(GwTools)
  BY <1>2 DEF Serving
<1>4. Head(s.todo) \in GwTools /\ Tail(s.todo) \in Seq(GwTools)
  BY <1>2, <1>3
<1>5. journal \subseteq journal'
  BY DEF FilterTool
<1>6. HandlerInv(journal', h, s, sent[h])
  BY <1>1, <1>2, <1>5, JournalGrows
<1>7. Append(s.shown, Head(s.todo)) \in Seq(GwTools)
  BY <1>3, <1>4
<1>8. \E shown \in Seq(GwTools) : Proceed(h, [s EXCEPT !.todo = Tail(s.todo), !.shown = shown])
  <2>1. CASE Head(s.todo) = Nameless
    <3>1. Proceed(h, [s EXCEPT !.todo = Tail(s.todo)])
      BY <1>2, <2>1 DEF FilterTool
    <3>2. [s EXCEPT !.todo = Tail(s.todo)] = [s EXCEPT !.todo = Tail(s.todo), !.shown = s.shown]
      BY <1>2 DEF Serving
    <3> QED
      BY <1>3, <3>1, <3>2
  <2>2. CASE Head(s.todo) # Nameless
    <3>1. PICK shown : shown = IF Allowed(Verdict(s.req.agent, Head(s.todo)))
                               THEN Append(s.shown, Head(s.todo)) ELSE s.shown
      OBVIOUS
    <3>2. Proceed(h, [s EXCEPT !.todo = Tail(s.todo), !.shown = shown])
      BY <1>2, <2>2, <3>1 DEF FilterTool
    <3> QED
      BY <1>3, <1>7, <3>1, <3>2
  <2> QED
    BY <2>1, <2>2
<1>9. PICK shown \in Seq(GwTools) : Proceed(h, [s EXCEPT !.todo = Tail(s.todo), !.shown = shown])
  BY <1>8
<1>10. PICK t : t = [s EXCEPT !.todo = Tail(s.todo), !.shown = shown]
  OBVIOUS
<1>11. t \in Serving /\ t.pc = "filter" /\ t.req = s.req /\ t.n = s.n /\ t.out = s.out
  BY <1>2, <1>4, <1>10 DEF Serving
<1>12. HandlerInv(journal', h, t, sent[h])
  BY <1>2, <1>6, <1>11, FilteringInv
<1> QED
  BY <1>1, <1>2, <1>5, <1>9, <1>10, <1>11, <1>12, GwStep DEF Proceed

\* Every step of the gateway adapters, and every step elsewhere, keeps the invariant.
LEMMA GwNextInv == GwInv /\ [Next]_vars => GwInv'
<1> SUFFICES ASSUME GwInv, [Next]_vars PROVE GwInv'
  OBVIOUS
<1>1. CASE UNCHANGED gwVars
  BY <1>1 DEF gwVars, GwInv, GwTypes
<1>2. CASE GwNext
  <2>1. PICK h \in Handlers : \/ \E r \in Traffic : Receive(h, r)
                              \/ Handle(h)
                              \/ NextSegment(h) \/ FollowRedirect(h) \/ Reply(h) \/ UpstreamFails(h)
    BY <1>2 DEF GwNext
  <2> QED
    BY <2>1, ReceiveInv, RejectInv, EvaluateInv, ForwardInv, NextPartInv, ReplyInv, FailureInv,
       FilterToolInv, ListingDoneInv DEF Handle
<1> QED
  BY <1>1, <1>2 DEF Next, vars

\* In every reachable state each handler has sent, published and answered consistently.
THEOREM GatewayInvariant == Spec => []GwInv
<1>1. Init => GwInv
  BY GwInitInv DEF Init
<1> QED
  BY <1>1, GwNextInv, PTL DEF Spec

\* A message is forwarded once and only on a published permission, its payload is
\* repeated for an upstream's redirects alone, and what the caller is answered with
\* a denial never went (gateway.go, GovernTask, HandlerWithConfig; the A2A error answer,
\* whose governance action reads deny, is no denial here).
THEOREM GatewayForwardsAsAnswered == Spec => []ForwardedExactlyAsAnswered
<1>1. GwInv => ForwardedExactlyAsAnswered
  <2> SUFFICES ASSUME GwInv, NEW h \in Handlers
               PROVE  /\ \A i, j \in DOMAIN sent[h] : sent[h][i] = sent[h][j] => i = j
                      /\ \A i \in DOMAIN sent[h] :
                           /\ \E e \in Decided(h, sent[h][i][1], serve[h].req.body[sent[h][i][1]].tool) :
                                Allowed(e.action)
                           /\ sent[h][i][2] \in Transmissions(serve[h].req, sent[h][i][1])
                      /\ \A i \in DOMAIN serve[h].out :
                           serve[h].out[i].kind \in {"denied", "recorded"} =>
                             /\ \A j \in DOMAIN sent[h] : sent[h][j][1] # serve[h].out[i].n
                             /\ \E e \in Decided(h, serve[h].out[i].n,
                                                 serve[h].req.body[serve[h].out[i].n].tool) :
                                  serve[h].out[i].kind = "denied" => ~Allowed(e.action)
    BY DEF ForwardedExactlyAsAnswered
  <2>1. HandlerInv(journal, h, serve[h], sent[h])
    BY GwFacts
  <2>2. \A i, j \in DOMAIN sent[h] : sent[h][i] = sent[h][j] => i = j
    BY <2>1 DEF HandlerInv, SentOK
  <2>3. \A i \in DOMAIN sent[h] : AllowedIn(journal, h, serve[h], sent[h][i][1])
    BY <2>1 DEF HandlerInv, SentOK
  <2>4. \A i \in DOMAIN serve[h].out : Truthful(journal, h, serve[h], sent[h], serve[h].out[i])
    BY <2>1 DEF HandlerInv, OutOK
  <2>5. ASSUME NEW i \in DOMAIN serve[h].out, serve[h].out[i].kind \in {"denied", "recorded"}
        PROVE  /\ \A j \in DOMAIN sent[h] : sent[h][j][1] # serve[h].out[i].n
               /\ \E e \in Decided(h, serve[h].out[i].n, serve[h].req.body[serve[h].out[i].n].tool) :
                    serve[h].out[i].kind = "denied" => ~Allowed(e.action)
    BY <2>4, <2>5 DEF Truthful, RefusedIn, DecidedIn, Decided
  <2>6. \A i \in DOMAIN sent[h] :
          \E e \in Decided(h, sent[h][i][1], serve[h].req.body[sent[h][i][1]].tool) : Allowed(e.action)
    BY <2>3 DEF AllowedIn, Decided
  <2>7. \A i \in DOMAIN sent[h] : sent[h][i][2] \in Transmissions(serve[h].req, sent[h][i][1])
    BY <2>1 DEF HandlerInv, SentOK
  <2> QED
    BY <2>2, <2>5, <2>6, <2>7
<1> QED
  BY <1>1, GatewayInvariant, PTL

\* No message of a finished request is missing from the audit.
THEOREM GatewayAccounts == Spec => []EveryMessageAccounted
<1>1. GwInv => EveryMessageAccounted
  <2> SUFFICES ASSUME GwInv, NEW h \in Handlers, serve[h].pc = "done"
               PROVE  /\ \A n \in DOMAIN serve[h].req.body :
                           IF serve[h].req.body[n].shape = "ok"
                           THEN Decided(h, n, serve[h].req.body[n].tool) # {}
                           ELSE serve[h].req.route = "mcp" => Rejection(h, n) \in journal
                      /\ serve[h].req.route = "mcp" /\ serve[h].req.body = <<>> =>
                           Rejection(h, 0) \in journal
    BY DEF EveryMessageAccounted
  <2>1. /\ HandlerInv(journal, h, serve[h], sent[h]) /\ Len(serve[h].req.body) \in Nat
        /\ DOMAIN serve[h].req.body = 1..Len(serve[h].req.body)
    BY GwFacts
  <2>2. serve[h].n = Len(serve[h].req.body)
    BY <2>1 DEF HandlerInv, Place
  <2>3. \A n \in DOMAIN serve[h].req.body : AccountedIn(journal, h, serve[h], n)
    <3>1. \A n \in DOMAIN serve[h].req.body : n < serve[h].n \/ n = serve[h].n
      BY <2>1, <2>2
    <3> QED
      BY <2>1, <3>1 DEF HandlerInv, PastAccounted
  <2>4. serve[h].req.route = "mcp" /\ serve[h].req.body = <<>> => Rejection(h, 0) \in journal
    BY <2>1 DEF HandlerInv, PastAccounted
  <2> QED
    BY <2>3, <2>4 DEF AccountedIn, DecidedIn, Decided
<1> QED
  BY <1>1, GatewayInvariant, PTL

-----------------------------------------------------------------------------
(* The Managed Agents session proxies. *)

MaPcs == {"next", "evaluate", "reserve", "confirm", "emit", "ended"}
ThreadState == [limit : Int, used : Nat, blocked : BOOLEAN]
Following == [pc : MaPcs, i : Nat, stream : Streams, allowed : BOOLEAN]
Confirmations == [p : Proxies, i : Nat, allowed : BOOLEAN, cost : Nat]

MaTypes ==
  /\ threads \in [Threads -> ThreadState]
  /\ proxy \in [Proxies -> Following]
  /\ \A p \in Proxies : proxy[p].i \in 1..Len(proxy[p].stream)
  /\ confirmed \subseteq Confirmations

\* The units of cost of event i of proxy p.
Units(p, i, cost) == {<<p, i>>} \X (1..cost)

\* The units upstream was told to spend, and those of the proxies in X that
\* hold an allowed reservation.
Spent(C) == UNION {Units(c.p, c.i, c.cost) : c \in {c \in C : c.allowed}}
Held(X) ==
  UNION {Units(p, X[p].i, estimatedCost(X[p].stream[X[p].i])) :
           p \in {p \in Proxies : X[p].pc = "confirm" /\ X[p].allowed}}

\* A set of units the session's budget has room for and the root thread was
\* charged with.
Affordable(U, used) ==
  /\ IsFiniteSet(U)
  /\ Cardinality(U) <= used
  /\ rootBudget > 0 => Cardinality(U) <= rootBudget

\* Upstream was told about event i of proxy p, if it is a tool event.
Told(C, X, p, i) == IsTool(X[p].stream[i]) => \E c \in C : c.p = p /\ c.i = i

\* What was told or is held is affordable; an event is handed on after it was
\* confirmed.
MaInv ==
  /\ MaTypes
  /\ Affordable(Spent(confirmed) \cup Held(proxy), threads[RootThread].used)
  /\ \A p \in Proxies : proxy[p].pc = "emit" => Told(confirmed, proxy, p, proxy[p].i)
  /\ \A e \in emitted : e[1] \in Proxies /\ Told(confirmed, proxy, e[1], e[2])

\* A cost has as many units as it says.
LEMMA UnitsCount ==
  ASSUME NEW p, NEW i, NEW cost \in Nat
  PROVE  IsFiniteSet(Units(p, i, cost)) /\ Cardinality(Units(p, i, cost)) = cost
<1>1. PICK S : S = {<<p, i>>}
  OBVIOUS
<1>2. PICK T : T = 1..cost
  OBVIOUS
<1>3. IsFiniteSet(S) /\ Cardinality(S) = 1
  BY <1>1, FS_Singleton
<1>4. IsFiniteSet(T) /\ Cardinality(T) = cost
  BY <1>2, FS_Interval
<1>5. IsFiniteSet(S \X T) /\ Cardinality(S \X T) = Cardinality(S) * Cardinality(T)
  BY ONLY <1>3, <1>4, FS_Product
<1>6. Cardinality(S) * Cardinality(T) = cost
  BY ONLY <1>3, <1>4, cost \in Nat
<1> QED BY <1>1, <1>2, <1>5, <1>6 DEF Units

\* More of a thing that was affordable, with the root charged no less.
LEMMA StillAffordable ==
  ASSUME NEW U, NEW V, V \subseteq U, NEW a \in Nat, NEW b \in Nat, a <= b, Affordable(U, a)
  PROVE  Affordable(V, b)
<1>1. IsFiniteSet(V) /\ Cardinality(V) <= Cardinality(U)
  BY FS_Subset DEF Affordable
<1>2. Cardinality(V) \in Nat /\ Cardinality(U) \in Nat
  BY <1>1, FS_CardinalityType DEF Affordable
<1> QED BY <1>1, <1>2, StreamsAssumption DEF Affordable

\* A reservation that fits adds its own cost and no more.
LEMMA ChargedAffordable ==
  ASSUME NEW U, NEW V, NEW p, NEW i, NEW cost \in Nat, V \subseteq U \cup Units(p, i, cost),
         NEW a \in Nat, Affordable(U, a), rootBudget > 0 => a + cost <= rootBudget
  PROVE  Affordable(V, a + cost)
<1>1. IsFiniteSet(U) /\ Cardinality(U) <= a /\ Cardinality(U) \in Nat
  BY FS_CardinalityType DEF Affordable
<1>2. IsFiniteSet(Units(p, i, cost)) /\ Cardinality(Units(p, i, cost)) = cost
  BY UnitsCount
<1>3. PICK W : W = U \cup Units(p, i, cost)
  OBVIOUS
<1>4. /\ IsFiniteSet(W)
      /\ Cardinality(W) = Cardinality(U) + cost - Cardinality(U \cap Units(p, i, cost))
  BY <1>1, <1>2, <1>3, FS_Union
<1>5. Cardinality(U \cap Units(p, i, cost)) \in Nat /\ Cardinality(W) \in Nat
  <2>1. IsFiniteSet(U \cap Units(p, i, cost))
    BY <1>1, FS_Subset
  <2> QED BY <1>4, <2>1, FS_CardinalityType
<1>6. Cardinality(W) <= a + cost
  BY <1>1, <1>4, <1>5
<1>7. Affordable(W, a + cost)
  BY <1>4, <1>5, <1>6, StreamsAssumption DEF Affordable
<1>8. V \subseteq W /\ a + cost \in Nat /\ a + cost <= a + cost
  BY <1>3
<1> QED BY <1>7, <1>8, StillAffordable

\* A cost is never negative.
LEMMA CostTyped ==
  ASSUME NEW s \in Streams, NEW i \in 1..Len(s)
  PROVE  /\ estimatedCost(s[i]) \in Nat /\ Positive(s[i].usage) \in Nat
         /\ s[i].thread \in Threads /\ s[i].limit \in Int
  BY StreamsAssumption DEF estimatedCost, Positive

\* A fresh session has spent nothing.
LEMMA MaInitInv == MaInit => MaInv
<1> SUFFICES ASSUME MaInit PROVE MaInv
  OBVIOUS
<1>1. threads \in [Threads -> ThreadState] /\ threads[RootThread].used = 0
  BY StreamsAssumption DEF MaInit, ThreadState
<1>2. ASSUME NEW p \in Proxies
      PROVE  proxy[p] \in Following /\ proxy[p].pc = "next" /\ proxy[p].i \in 1..Len(proxy[p].stream)
  <2>1. PICK s \in Streams : proxy[p] = [pc |-> "next", i |-> 1, stream |-> s, allowed |-> FALSE]
    BY DEF MaInit
  <2>2. Len(s) \in Nat \ {0}
    BY StreamsAssumption
  <2> QED BY <2>1, <2>2 DEF Following, MaPcs
<1>3. proxy \in [Proxies -> Following]
  BY <1>2 DEF MaInit
<1>4. MaTypes
  BY <1>1, <1>2, <1>3 DEF MaTypes, MaInit
<1>5. Spent(confirmed) \cup Held(proxy) = {}
  BY <1>2 DEF MaInit, Spent, Held
<1>6. Affordable({}, 0)
  BY FS_EmptySet, StreamsAssumption DEF Affordable
<1> QED BY <1>1, <1>2, <1>4, <1>5, <1>6 DEF MaInv, MaInit

\* What one step of proxy p may do: p goes on to x along its stream, and the
\* units it holds or was told grow by no more than V has room for.
LEMMA MaStep ==
  ASSUME MaInv, NEW p \in Proxies, NEW x \in Following, proxy' = [proxy EXCEPT ![p] = x],
         x.stream = proxy[p].stream, x.i \in 1..Len(x.stream),
         threads' \in [Threads -> ThreadState],
         confirmed \subseteq confirmed', confirmed' \subseteq Confirmations,
         Affordable(Spent(confirmed') \cup Held(proxy'), threads'[RootThread].used),
         x.pc = "emit" => Told(confirmed', proxy', p, x.i),
         \A e \in emitted' : e \in emitted \/ (e = <<p, proxy[p].i>> /\ proxy[p].pc = "emit")
  PROVE  MaInv'
<1>1. /\ proxy' \in [Proxies -> Following] /\ proxy'[p] = x
      /\ \A q \in Proxies \ {p} : proxy'[q] = proxy[q]
  BY DEF MaInv, MaTypes
<1>2. MaTypes'
  <2>1. ASSUME NEW q \in Proxies PROVE proxy'[q].i \in 1..Len(proxy'[q].stream)
    <3>1. CASE q = p
      BY <1>1, <3>1
    <3>2. CASE q # p
      BY <1>1, <3>2 DEF MaInv, MaTypes
    <3> QED BY <3>1, <3>2
  <2> QED BY <1>1, <2>1 DEF MaTypes
<1>3. ASSUME NEW q \in Proxies, NEW i, Told(confirmed, proxy, q, i) PROVE Told(confirmed', proxy', q, i)
  <2>1. proxy'[q].stream = proxy[q].stream
    BY <1>1
  <2> QED BY <1>3, <2>1 DEF Told
<1>4. ASSUME NEW q \in Proxies, proxy'[q].pc = "emit" PROVE Told(confirmed', proxy', q, proxy'[q].i)
  BY <1>1, <1>3, <1>4 DEF MaInv
<1>5. ASSUME NEW e \in emitted' PROVE e[1] \in Proxies /\ Told(confirmed', proxy', e[1], e[2])
  <2>1. CASE e \in emitted
    BY <1>3, <2>1 DEF MaInv
  <2>2. CASE e = <<p, proxy[p].i>> /\ proxy[p].pc = "emit"
    BY <1>3, <2>2 DEF MaInv
  <2> QED BY <2>1, <2>2
<1> QED BY <1>2, <1>4, <1>5 DEF MaInv

\* What is held after proxy p went on to x: what the others hold, and p's own.
LEMMA HeldAfter ==
  ASSUME MaInv, NEW p \in Proxies, NEW x \in Following, proxy' = [proxy EXCEPT ![p] = x]
  PROVE  /\ ~(x.pc = "confirm" /\ x.allowed) => Held(proxy') \subseteq Held(proxy)
         /\ Held(proxy') \subseteq Held(proxy) \cup Units(p, x.i, estimatedCost(x.stream[x.i]))
         /\ \A q \in Proxies : proxy'[q] \in Following
<1>1. /\ proxy' \in [Proxies -> Following] /\ proxy'[p] = x
      /\ \A q \in Proxies \ {p} : proxy'[q] = proxy[q]
  BY DEF MaInv, MaTypes
<1>2. ASSUME NEW u \in Held(proxy'), u \notin Held(proxy)
      PROVE  /\ x.pc = "confirm" /\ x.allowed
             /\ u \in Units(p, x.i, estimatedCost(x.stream[x.i]))
  <2>1. PICK q \in Proxies :
          /\ proxy'[q].pc = "confirm" /\ proxy'[q].allowed
          /\ u \in Units(q, proxy'[q].i, estimatedCost(proxy'[q].stream[proxy'[q].i]))
    BY DEF Held
  <2>2. q = p
    <3>1. SUFFICES ASSUME q # p PROVE FALSE
      OBVIOUS
    <3>2. proxy'[q] = proxy[q]
      BY <1>1, <3>1
    <3> QED BY <1>2, <2>1, <3>2 DEF Held
  <2> QED BY <1>1, <2>1, <2>2
<1> QED BY <1>1, <1>2

\* What a proxy and its event look like.
LEMMA MaFacts ==
  ASSUME MaInv, NEW p \in Proxies
  PROVE  /\ proxy \in [Proxies -> Following] /\ proxy[p] \in Following
         /\ proxy[p].i \in 1..Len(proxy[p].stream) /\ proxy[p].stream \in Streams
         /\ Event(p) = proxy[p].stream[proxy[p].i]
         /\ estimatedCost(Event(p)) \in Nat /\ Positive(Event(p).usage) \in Nat
         /\ Event(p).thread \in Threads /\ Event(p).limit \in Int
         /\ threads \in [Threads -> ThreadState] /\ confirmed \subseteq Confirmations
         /\ threads[RootThread].used \in Nat
<1>1. /\ proxy \in [Proxies -> Following] /\ proxy[p] \in Following
      /\ proxy[p].i \in 1..Len(proxy[p].stream)
      /\ threads \in [Threads -> ThreadState] /\ confirmed \subseteq Confirmations
  BY DEF MaInv, MaTypes
<1>2. proxy[p].stream \in Streams
  BY <1>1 DEF Following
<1>3. threads[RootThread].used \in Nat
  BY <1>1, StreamsAssumption DEF ThreadState
<1> QED BY <1>1, <1>2, <1>3, CostTyped DEF Event

\* A step of proxy p that takes no reservation and tells upstream nothing.
LEMMA MaQuietStep ==
  ASSUME MaInv, NEW p \in Proxies, NEW x \in Following, proxy' = [proxy EXCEPT ![p] = x],
         x.stream = proxy[p].stream, x.i \in 1..Len(x.stream),
         threads' \in [Threads -> ThreadState],
         threads[RootThread].used <= threads'[RootThread].used,
         confirmed' = confirmed, ~(x.pc = "confirm" /\ x.allowed),
         x.pc = "emit" => ~IsTool(x.stream[x.i]),
         \A e \in emitted' : e \in emitted \/ (e = <<p, proxy[p].i>> /\ proxy[p].pc = "emit")
  PROVE  MaInv'
<1>1. Held(proxy') \subseteq Held(proxy)
  BY HeldAfter
<1>2. threads[RootThread].used \in Nat /\ threads'[RootThread].used \in Nat
  BY MaFacts, StreamsAssumption DEF ThreadState
<1>3. Affordable(Spent(confirmed) \cup Held(proxy'), threads'[RootThread].used)
  BY <1>1, <1>2, StillAffordable DEF MaInv
<1>4. x.pc = "emit" => Told(confirmed', proxy', p, x.i)
  <2>1. proxy'[p] = x
    BY MaFacts
  <2> QED BY <2>1 DEF Told
<1>5. confirmed \subseteq confirmed' /\ confirmed' \subseteq Confirmations
  BY MaFacts
<1>6. Affordable(Spent(confirmed') \cup Held(proxy'), threads'[RootThread].used)
  BY <1>3
<1> QED BY <1>4, <1>5, <1>6, MaStep

\* Tracking an event charges a thread with what it used, and never less.
LEMMA TrackTyped ==
  ASSUME MaInv, NEW p \in Proxies
  PROVE  /\ TrackEvent(threads, Event(p)) \in [Threads -> ThreadState]
         /\ threads[RootThread].used <= TrackEvent(threads, Event(p))[RootThread].used
<1>1. PICK e : e = Event(p)
  OBVIOUS
<1>2. /\ e.thread \in Threads /\ e.limit \in Int /\ Positive(e.usage) \in Nat
      /\ threads \in [Threads -> ThreadState]
  BY <1>1, MaFacts
<1>3. CASE e.type = "created"
  <2>1. PICK y : y = [threads[e.thread] EXCEPT !.limit = IF e.limit > 0 THEN e.limit ELSE @]
    OBVIOUS
  <2>2. TrackEvent(threads, e) = [threads EXCEPT ![e.thread] = y]
    BY <1>2, <1>3, <2>1 DEF TrackEvent, ensureThread
  <2>3. y \in ThreadState /\ y.used = threads[e.thread].used
    BY <1>2, <2>1 DEF ThreadState
  <2>4. \A t \in Threads : threads[t].used \in Nat
    BY <1>2 DEF ThreadState
  <2> QED BY <1>1, <1>2, <2>2, <2>3, <2>4, StreamsAssumption
<1>4. CASE e.type # "created"
  <2>1. PICK n : n = Positive(e.usage)
    OBVIOUS
  <2>2. PICK y : y = [threads[e.thread] EXCEPT !.used = @ + n]
    OBVIOUS
  <2>3. TrackEvent(threads, e) = [threads EXCEPT ![e.thread] = y]
    BY <1>2, <1>4, <2>1, <2>2 DEF TrackEvent
  <2>4. n \in Nat
    BY <1>2, <2>1
  <2>5. y \in ThreadState /\ y.used = threads[e.thread].used + n
    BY <1>2, <2>2, <2>4 DEF ThreadState
  <2>6. \A t \in Threads : threads[t].used \in Nat
    BY <1>2 DEF ThreadState
  <2> QED BY <1>1, <1>2, <2>3, <2>4, <2>5, <2>6, StreamsAssumption
<1> QED BY <1>3, <1>4

\* The next event is tracked, and its proxy takes nothing yet.
LEMMA MaNextEventInv ==
  ASSUME MaInv, NEW p \in Proxies, Next_(p)
  PROVE  MaInv'
<1>1. PICK pc : pc = IF ~IsTool(Event(p)) THEN "emit" ELSE IF Event(p).parses THEN "evaluate" ELSE "ended"
  OBVIOUS
<1>2. pc \in MaPcs /\ pc # "confirm" /\ (pc = "emit" => ~IsTool(Event(p)))
  BY <1>1 DEF MaPcs
<1>3. PICK x : x = [proxy[p] EXCEPT !.pc = pc]
  OBVIOUS
<1>4. proxy' = [proxy EXCEPT ![p] = x] /\ threads' = TrackEvent(threads, Event(p))
  BY <1>1, <1>3, MaFacts DEF Next_, To
<1>5. x \in Following /\ x.pc = pc /\ x.stream = proxy[p].stream /\ x.i = proxy[p].i
  BY <1>2, <1>3, MaFacts DEF Following
<1>6. x.i \in 1..Len(x.stream) /\ x.stream[x.i] = Event(p)
  BY <1>5, MaFacts
<1>7. /\ threads' \in [Threads -> ThreadState]
      /\ threads[RootThread].used <= threads'[RootThread].used
  BY <1>4, TrackTyped
<1>8. confirmed' = confirmed /\ \A e \in emitted' : e \in emitted
  BY DEF Next_
<1> QED BY <1>2, <1>4, <1>5, <1>6, <1>7, <1>8, MaQuietStep

\* The threads are left alone.
LEMMA MaThreadsRest ==
  ASSUME MaInv, NEW p \in Proxies, threads' = threads
  PROVE  /\ threads' \in [Threads -> ThreadState]
         /\ threads[RootThread].used <= threads'[RootThread].used
  BY MaFacts

\* A verdict alone reserves nothing.
LEMMA MaEvaluateInv ==
  ASSUME MaInv, NEW p \in Proxies, EvaluateTool(p)
  PROVE  MaInv'
<1>1. PICK a : a = (Event(p).verdict # "deny")
  OBVIOUS
<1>2. PICK pc : pc = IF Event(p).verdict # "deny" THEN "reserve" ELSE "confirm"
  OBVIOUS
<1>3. a \in BOOLEAN /\ pc \in MaPcs /\ pc # "emit" /\ ~(pc = "confirm" /\ a)
  BY <1>1, <1>2 DEF MaPcs
<1>4. PICK x : x = [proxy[p] EXCEPT !.allowed = a, !.pc = pc]
  OBVIOUS
<1>5. proxy' = [proxy EXCEPT ![p] = x]
  BY <1>1, <1>2, <1>4, MaFacts DEF EvaluateTool
<1>6. x \in Following /\ x.pc = pc /\ x.allowed = a /\ x.stream = proxy[p].stream /\ x.i = proxy[p].i
  BY <1>3, <1>4, MaFacts DEF Following
<1>7. x.i \in 1..Len(x.stream)
  BY <1>6, MaFacts
<1>8. confirmed' = confirmed /\ threads' = threads /\ \A e \in emitted' : e \in emitted
  BY DEF EvaluateTool
<1> QED BY <1>3, <1>5, <1>6, <1>7, <1>8, MaThreadsRest, MaQuietStep

\* What is handed on was confirmed.
LEMMA MaEmitInv ==
  ASSUME MaInv, NEW p \in Proxies, EmitEvent(p)
  PROVE  MaInv'
<1>1. confirmed' = confirmed /\ threads' = threads /\ proxy[p].pc = "emit"
  BY DEF EmitEvent
<1>2. ASSUME NEW pc \in {"next", "ended"}, NEW i \in 1..Len(proxy[p].stream),
             proxy' = [proxy EXCEPT ![p] = [proxy[p] EXCEPT !.pc = pc, !.i = i]],
             emitted' = emitted \/ emitted' = emitted \cup {<<p, proxy[p].i>>}
      PROVE  MaInv'
  <2>1. PICK x : x = [proxy[p] EXCEPT !.pc = pc, !.i = i]
    OBVIOUS
  <2>2. x \in Following /\ x.pc = pc /\ x.stream = proxy[p].stream /\ x.i = i
    <3>1. i \in Nat /\ pc \in MaPcs
      BY MaFacts, StreamsAssumption DEF MaPcs
    <3> QED BY <2>1, <3>1, MaFacts DEF Following
  <2>3. proxy' = [proxy EXCEPT ![p] = x] /\ x.i \in 1..Len(x.stream)
    BY <1>2, <2>1, <2>2
  <2>4. \A e \in emitted' : e \in emitted \/ (e = <<p, proxy[p].i>> /\ proxy[p].pc = "emit")
    BY <1>1, <1>2
  <2>5. x.pc # "emit" /\ x.pc # "confirm"
    BY <2>2
  <2> QED BY <1>1, <2>2, <2>3, <2>4, <2>5, MaThreadsRest, MaQuietStep
<1>3. CASE To(p, "ended") /\ UNCHANGED emitted
  <2>1. proxy' = [proxy EXCEPT ![p] = [proxy[p] EXCEPT !.pc = "ended", !.i = proxy[p].i]]
    BY <1>3, MaFacts DEF To, Following
  <2> QED BY <1>2, <1>3, <2>1, MaFacts
<1>4. CASE emitted' = emitted \cup {<<p, proxy[p].i>>} /\ proxy' = [proxy EXCEPT ![p] = Advance(p)]
  <2>1. CASE proxy[p].i = Len(proxy[p].stream)
    <3>1. Advance(p) = [proxy[p] EXCEPT !.pc = "ended", !.i = proxy[p].i]
      BY <2>1, MaFacts DEF Advance, Following
    <3> QED BY <1>2, <1>4, <3>1, MaFacts
  <2>2. CASE proxy[p].i # Len(proxy[p].stream)
    <3>1. Advance(p) = [proxy[p] EXCEPT !.pc = "next", !.i = proxy[p].i + 1]
      BY <2>2, MaFacts DEF Advance, Following
    <3>2. Len(proxy[p].stream) \in Nat
      BY MaFacts, StreamsAssumption
    <3>3. proxy[p].i + 1 \in 1..Len(proxy[p].stream)
      BY <2>2, <3>2, MaFacts
    <3> QED BY <1>2, <1>4, <3>1, <3>3
  <2> QED BY <2>1, <2>2
<1> QED BY <1>3, <1>4 DEF EmitEvent

\* What Reserve answers: the root is charged with a positive cost that fits the
\* session's budget, or the reservation is refused.
LEMMA ReserveTyped ==
  ASSUME NEW ts \in [Threads -> ThreadState], NEW id \in Threads, NEW cost \in Nat
  PROVE  /\ Reserve(ts, id, cost).ts \in [Threads -> ThreadState]
         /\ Reserve(ts, id, cost).ok \in BOOLEAN
         /\ ~Reserve(ts, id, cost).ok \/ cost = 0 =>
              Reserve(ts, id, cost).ts[RootThread].used = ts[RootThread].used
         /\ Reserve(ts, id, cost).ok /\ cost # 0 =>
              /\ Reserve(ts, id, cost).ts[RootThread].used = ts[RootThread].used + cost
              /\ rootBudget > 0 => ts[RootThread].used + cost <= rootBudget
<1>1. PICK rooted : rooted = ensureThread(ts, RootThread, rootBudget)
  OBVIOUS
<1>2. RootThread \in Threads /\ rootBudget \in Int
  BY StreamsAssumption
<1>3. /\ rooted \in [Threads -> ThreadState]
      /\ rooted[RootThread].used = ts[RootThread].used
      /\ rootBudget > 0 => rooted[RootThread].limit = rootBudget
  <2>1. PICK y : y = [ts[RootThread] EXCEPT !.limit = IF rootBudget > 0 THEN rootBudget ELSE @]
    OBVIOUS
  <2>2. rooted = [ts EXCEPT ![RootThread] = y]
    BY <1>1, <1>2, <2>1 DEF ensureThread
  <2>3. /\ y \in ThreadState /\ y.used = ts[RootThread].used
        /\ rootBudget > 0 => y.limit = rootBudget
    BY <1>2, <2>1 DEF ThreadState
  <2> QED BY <1>2, <2>2, <2>3
<1>4. PICK over : over = (ts[id].blocked \/ Exceeds(ts[id], cost))
  OBVIOUS
<1>5. PICK charged : charged = [t \in Threads |-> IF t \in {id, RootThread}
                                  THEN [rooted[t] EXCEPT !.used = @ + cost] ELSE rooted[t]]
  OBVIOUS
<1>6. Reserve(ts, id, cost) =
        CASE cost <= 0 -> [ok |-> TRUE, ts |-> ts]
          [] cost > 0 /\ over -> [ok |-> FALSE, ts |-> ts]
          [] cost > 0 /\ ~over -> IF Exceeds(rooted[RootThread], cost) THEN [ok |-> FALSE, ts |-> rooted]
                                  ELSE [ok |-> TRUE, ts |-> charged]
  BY <1>1, <1>4, <1>5 DEF Reserve
<1>7. CASE cost = 0
  <2>1. Reserve(ts, id, cost) = [ok |-> TRUE, ts |-> ts]
    BY <1>6, <1>7
  <2>2. Reserve(ts, id, cost).ok = TRUE /\ Reserve(ts, id, cost).ts = ts
    BY <2>1
  <2> QED BY <1>7, <2>2
<1>8. CASE cost # 0 /\ over
  <2>1. Reserve(ts, id, cost) = [ok |-> FALSE, ts |-> ts]
    BY <1>6, <1>8
  <2> QED BY <2>1
<1>9. CASE cost # 0 /\ ~over /\ Exceeds(rooted[RootThread], cost)
  <2>1. Reserve(ts, id, cost) = [ok |-> FALSE, ts |-> rooted]
    BY <1>6, <1>9
  <2> QED BY <1>3, <2>1
<1>10. CASE cost # 0 /\ ~over /\ ~Exceeds(rooted[RootThread], cost)
  <2>1. Reserve(ts, id, cost) = [ok |-> TRUE, ts |-> charged]
    BY <1>6, <1>10
  <2>2. \A t \in Threads : [rooted[t] EXCEPT !.used = @ + cost] \in ThreadState
    BY <1>3 DEF ThreadState
  <2>3. charged \in [Threads -> ThreadState]
    BY <1>3, <1>5, <2>2
  <2>4. charged[RootThread].used = ts[RootThread].used + cost
    <3>1. charged[RootThread] = [rooted[RootThread] EXCEPT !.used = @ + cost]
      BY <1>2, <1>5
    <3> QED BY <1>2, <1>3, <3>1 DEF ThreadState
  <2>5. rootBudget > 0 => ts[RootThread].used + cost <= rootBudget
    <3>1. ts[RootThread].used \in Nat
      BY <1>2 DEF ThreadState
    <3> QED BY <1>2, <1>3, <1>10, <3>1 DEF Exceeds
  <2>6. Reserve(ts, id, cost).ok = TRUE /\ Reserve(ts, id, cost).ts = charged
    BY <2>1
  <2> QED BY <1>10, <2>3, <2>4, <2>5, <2>6
<1> QED BY <1>4, <1>7, <1>8, <1>9, <1>10

\* A reservation adds its cost to what is held, or is refused.
LEMMA MaReserveInv ==
  ASSUME MaInv, NEW p \in Proxies, ReserveCost(p)
  PROVE  MaInv'
<1>1. PICK cost : cost = estimatedCost(Event(p))
  OBVIOUS
<1>2. PICK r : r = Reserve(threads, Event(p).thread, cost)
  OBVIOUS
<1>3. cost \in Nat /\ threads[RootThread].used \in Nat
  BY <1>1, MaFacts
<1>4. /\ r.ts \in [Threads -> ThreadState] /\ r.ok \in BOOLEAN
      /\ ~r.ok \/ cost = 0 => r.ts[RootThread].used = threads[RootThread].used
      /\ r.ok /\ cost # 0 => /\ r.ts[RootThread].used = threads[RootThread].used + cost
                             /\ rootBudget > 0 => threads[RootThread].used + cost <= rootBudget
  BY <1>2, <1>3, MaFacts, ReserveTyped
<1>5. PICK x : x = [proxy[p] EXCEPT !.pc = "confirm", !.allowed = r.ok]
  OBVIOUS
<1>6. /\ proxy' = [proxy EXCEPT ![p] = x] /\ threads' = r.ts /\ confirmed' = confirmed
      /\ \A e \in emitted' : e \in emitted
  BY <1>1, <1>2, <1>5, MaFacts DEF ReserveCost
<1>7. "confirm" \in MaPcs
  BY DEF MaPcs
<1>8. /\ x \in Following /\ x.pc = "confirm" /\ x.allowed = r.ok
      /\ x.stream = proxy[p].stream /\ x.i = proxy[p].i
  BY <1>4, <1>5, <1>7, MaFacts DEF Following
<1>9. x.i \in 1..Len(x.stream) /\ estimatedCost(x.stream[x.i]) = cost
  BY <1>1, <1>8, MaFacts
<1>10. CASE ~r.ok
  <2>1. threads[RootThread].used <= threads'[RootThread].used
    BY <1>3, <1>4, <1>6, <1>10
  <2>2. x.pc # "emit" /\ ~(x.pc = "confirm" /\ x.allowed)
    BY <1>8, <1>10
  <2> QED BY <1>4, <1>6, <1>8, <1>9, <2>1, <2>2, MaQuietStep
<1>11. CASE r.ok
  <2>1. PICK U : U = Spent(confirmed) \cup Held(proxy)
    OBVIOUS
  <2>2. PICK V : V = Spent(confirmed) \cup Held(proxy')
    OBVIOUS
  <2>3. V \subseteq U \cup Units(p, x.i, cost)
    BY <1>6, <1>8, <1>9, <2>1, <2>2, HeldAfter
  <2>4. Affordable(U, threads[RootThread].used)
    BY <2>1 DEF MaInv
  <2>5. Affordable(V, threads'[RootThread].used)
    <3>1. CASE cost # 0
      <4>1. Affordable(V, threads[RootThread].used + cost)
        BY <1>3, <1>4, <1>11, <2>3, <2>4, <3>1, ChargedAffordable
      <4> QED BY <1>4, <1>6, <1>11, <3>1, <4>1
    <3>2. CASE cost = 0
      <4>1. Units(p, x.i, cost) = {}
        BY <3>2 DEF Units
      <4>2. V \subseteq U /\ threads[RootThread].used <= threads[RootThread].used
        BY <1>3, <2>3, <4>1
      <4> QED BY <1>3, <1>4, <1>6, <2>4, <3>2, <4>2, StillAffordable
    <3> QED BY <3>1, <3>2
  <2>6. /\ confirmed \subseteq confirmed' /\ confirmed' \subseteq Confirmations
        /\ threads' \in [Threads -> ThreadState] /\ x.pc # "emit"
        /\ Affordable(Spent(confirmed') \cup Held(proxy'), threads'[RootThread].used)
    BY <1>4, <1>6, <1>8, <2>2, <2>5, MaFacts
  <2> QED BY <1>6, <1>8, <1>9, <2>6, MaStep
<1> QED BY <1>10, <1>11

\* A confirmation moves what was held to what was told.
LEMMA MaConfirmInv ==
  ASSUME MaInv, NEW p \in Proxies, SendConfirmation(p)
  PROVE  MaInv'
<1>1. PICK received \in BOOLEAN, acknowledged \in BOOLEAN :
        /\ acknowledged => received
        /\ confirmed' = IF received
                        THEN confirmed \cup {[p |-> p, i |-> proxy[p].i, allowed |-> proxy[p].allowed,
                                              cost |-> estimatedCost(Event(p))]}
                        ELSE confirmed
        /\ To(p, IF acknowledged THEN "emit" ELSE "ended")
  BY DEF SendConfirmation
<1>2. PICK k : k = [p |-> p, i |-> proxy[p].i, allowed |-> proxy[p].allowed,
                    cost |-> estimatedCost(Event(p))]
  OBVIOUS
<1>3. k \in Confirmations
  BY <1>2, MaFacts DEF Confirmations, Following
<1>4. PICK pc : pc = IF acknowledged THEN "emit" ELSE "ended"
  OBVIOUS
<1>5. pc \in MaPcs /\ pc # "confirm" /\ (pc = "emit" => received)
  BY <1>1, <1>4 DEF MaPcs
<1>6. PICK x : x = [proxy[p] EXCEPT !.pc = pc]
  OBVIOUS
<1>7. proxy' = [proxy EXCEPT ![p] = x]
  BY <1>1, <1>4, <1>6, MaFacts DEF To
<1>8. x \in Following /\ x.pc = pc /\ x.stream = proxy[p].stream /\ x.i = proxy[p].i
  BY <1>5, <1>6, MaFacts DEF Following
<1>9. x.i \in 1..Len(x.stream)
  BY <1>8, MaFacts
<1>10. /\ confirmed \subseteq confirmed' /\ confirmed' \subseteq confirmed \cup {k}
       /\ received => k \in confirmed'
  BY <1>1, <1>2
<1>11. confirmed' \subseteq Confirmations
  BY <1>3, <1>10, MaFacts
<1>12. threads' = threads /\ emitted' = emitted /\ proxy[p].pc = "confirm"
  BY DEF SendConfirmation
<1>13. k.allowed => Units(k.p, k.i, k.cost) \subseteq Held(proxy)
  BY <1>2, <1>12, MaFacts DEF Held
<1>14. Spent(confirmed') \subseteq Spent(confirmed) \cup Held(proxy)
  BY <1>10, <1>13 DEF Spent
<1>15. Held(proxy') \subseteq Held(proxy)
  BY <1>5, <1>7, <1>8, HeldAfter
<1>16. Affordable(Spent(confirmed') \cup Held(proxy'), threads'[RootThread].used)
  <2>1. Spent(confirmed') \cup Held(proxy') \subseteq Spent(confirmed) \cup Held(proxy)
    BY <1>14, <1>15
  <2>2. threads[RootThread].used \in Nat /\ threads[RootThread].used <= threads[RootThread].used
    BY MaFacts
  <2> QED BY <1>12, <2>1, <2>2, StillAffordable DEF MaInv
<1>17. x.pc = "emit" => Told(confirmed', proxy', p, x.i)
  <2>1. k.p = p /\ k.i = x.i
    BY <1>2, <1>8
  <2> QED BY <1>5, <1>8, <1>10, <2>1 DEF Told
<1>18. threads' \in [Threads -> ThreadState]
  BY <1>12, MaFacts
<1>19. \A e \in emitted' : e \in emitted
  BY <1>12
<1> QED BY <1>7, <1>8, <1>9, <1>10, <1>11, <1>16, <1>17, <1>18, <1>19, MaStep

\* Blocking a thread leaves the accounts alone.
LEMMA MaTrustInv ==
  ASSUME MaInv, NEW t \in Threads, SetTrust(t)
  PROVE  MaInv'
<1>1. threads \in [Threads -> ThreadState]
  BY DEF MaInv, MaTypes
<1>2. PICK y : y = [threads[t] EXCEPT !.blocked = TRUE]
  OBVIOUS
<1>3. y \in ThreadState /\ y.used = threads[t].used
  BY <1>1, <1>2 DEF ThreadState
<1>4. threads' = [threads EXCEPT ![t] = y] /\ UNCHANGED <<proxy, confirmed, emitted>>
  BY <1>1, <1>2 DEF SetTrust
<1>5. threads' \in [Threads -> ThreadState] /\ threads'[RootThread].used = threads[RootThread].used
  BY <1>1, <1>3, <1>4, StreamsAssumption
<1> QED BY <1>4, <1>5 DEF MaInv, MaTypes

\* Every step of a proxy keeps the accounts.
LEMMA MaNextInv == MaInv /\ MaNext => MaInv'
  BY MaNextEventInv, MaEvaluateInv, MaReserveInv, MaConfirmInv, MaEmitInv, MaTrustInv DEF MaNext

\* So does a step of another adapter.
LEMMA MaRestsInv == MaInv /\ UNCHANGED maVars => MaInv'
  BY DEF maVars, MaInv, MaTypes

\* Accounts in order hold the budget.
LEMMA MaAffords ==
  ASSUME MaInv PROVE BudgetHolds
<1>1. CostUnits({c \in confirmed : c.allowed}) = Spent(confirmed)
  BY DEF CostUnits, Spent, Units
<1>2. rootBudget > 0 => AllowedCost <= rootBudget
  <2>1. threads[RootThread].used \in Nat
    BY StreamsAssumption DEF MaInv, MaTypes, ThreadState
  <2>2. Affordable(Spent(confirmed), threads[RootThread].used)
    BY <2>1, StillAffordable DEF MaInv
  <2> QED BY <1>1, <2>2 DEF Affordable, AllowedCost
<1> QED BY <1>2 DEF MaInv, Told, BudgetHolds

\* In every reachable state what upstream was told to run and what proxies hold
\* reserved fits the session's budget, and what was handed on was confirmed.
THEOREM AgentsInvariant == Spec => []MaInv
<1>1. Init => MaInv
  BY MaInitInv DEF Init
<1>2. MaInv /\ [Next]_vars => MaInv'
  BY MaNextInv, MaRestsInv DEF Next, vars
<1> QED
  BY <1>1, <1>2, PTL DEF Spec

\* The tools upstream was told to run never cost more together than the session's
\* budget, and a tool event is handed on only once upstream has its confirmation:
\* for any number of proxies sharing the tracker, any streams, limits and costs,
\* wherever a send or a sink fails (ThreadTracker.Reserve, ToolResolver.Resolve).
THEOREM AgentsBudgetHolds == Spec => []BudgetHolds
<1>1. MaInv => BudgetHolds
  BY MaAffords
<1> QED
  BY <1>1, AgentsInvariant, PTL
=============================================================================
