------------------------------- MODULE Gateway -------------------------------
(***************************************************************************)
(* The adapters that put the pipeline in front of an upstream: the MCP     *)
(* JSON-RPC gateway, the A2A task adapter, the gRPC interceptor, the       *)
(* webhook handler, the HTTP middleware and the CLI wrapper.  A handler    *)
(* serves one request; a request is a body of messages, several only in an *)
(* MCP batch.  Handlers run concurrently and share the pipeline, and with  *)
(* it the trust of the agents.                                             *)
(*                                                                         *)
(* Evaluate is one step here: its verdict, its audit event and the trust   *)
(* update (Pipeline.tla has its own interleavings).                        *)
(***************************************************************************)
EXTENDS TrustModel, SequencesExt

CONSTANTS
  Handlers,   \* requests being served
  Traffic,    \* requests that may arrive
  Listings,   \* what the upstream may answer to tools/list: sequences of tools, or Opaque
  Opaque,     \* a body that is no tools listing
  Nameless,   \* a listed tool without a name
  PolicyOf,   \* [tool -> the action the policies give a call of it]
  MaxPosts    \* posts an http.Client makes of one payload before it gives up redirects (10)

VARIABLES
  trust,      \* [agent -> what the trust backend holds]
  serve,      \* [handler -> its progress]
  journal,    \* the audit events published
  sent        \* [handler -> what it sent upstream, in order: <<message, transmission>>]

gwVars == <<trust, serve, journal, sent>>

Routes == {"mcp", "a2a", "grpc", "webhook", "http", "cli"}

\* What a message lacks when its adapter cannot parse it: the wire format, the JSON-RPC
\* version or method, readable parameters, or a field the adapter requires.
McpMisshapen == {"garbled", "unversioned", "badParams"}
A2aMisshapen == {"garbled", "incomplete"}
GrpcMisshapen == {"incomplete"}
WebhookMisshapen == {"garbled", "incomplete"}
HttpMisshapen == {"garbled"}
CliMisshapen == {"garbled", "incomplete"}

Misshapen ==
  [mcp |-> McpMisshapen, a2a |-> A2aMisshapen, grpc |-> GrpcMisshapen,
   webhook |-> WebhookMisshapen, http |-> HttpMisshapen, cli |-> CliMisshapen]

\* What a message may be; a tool the policies say nothing of has their default action.
Messages == [shape : {"ok", "garbled", "unversioned", "badParams", "incomplete"}, id : BOOLEAN,
             tool : DOMAIN PolicyOf \cup {""}, segments : Nat \ {0}]

\* A request: the adapter, the identity, whether there is something behind the adapter
\* (forwarder, forward URL, next handler), the webhook's mode, and the body: <<>> when
\* it is empty, over the limit, unreadable or an unreadable batch.
Request(r) ==
  /\ r.route \in Routes
  /\ r.upstream \in BOOLEAN /\ (r.route \in {"grpc", "cli"} => r.upstream)
  /\ r.mode \in {"execution", "informational"}
  /\ r.body \in Seq(Messages)
  /\ r.route # "mcp" => Len(r.body) <= 1
  /\ \A n \in DOMAIN r.body : /\ r.body[n].shape \in {"ok"} \cup Misshapen[r.route]
                             /\ r.body[n].shape = "ok" => r.body[n].tool \in DOMAIN PolicyOf

ASSUME TrafficAssumption == \A r \in Traffic : Request(r)
ASSUME ListingsAssumption ==
  \A l \in Listings : l # Opaque => l \in Seq(DOMAIN PolicyOf \cup {Nameless})

ASSUME PostsAssumption == MaxPosts \in Nat \ {0}

\* A message: whether it parses, carries an id, and what it asks for; segments is the
\* length of a CLI pipe chain.
Message(shape, id, tool, segments) ==
  [shape |-> shape, id |-> id, tool |-> tool, segments |-> segments]

\* A command line is a sequence of text, pipes and the two quotes; a quote hides what is
\* not the same quote, and quotes alone are no text.
SplitPipes(s, x) ==
  CASE s.quote # "" /\ x = s.quote              -> [s EXCEPT !.quote = ""]
    [] s.quote # "" /\ x # s.quote              -> [s EXCEPT !.text = TRUE]
    [] s.quote = "" /\ x \in {"single", "double"} -> [s EXCEPT !.quote = x]
    [] s.quote = "" /\ x = "pipe" -> [s EXCEPT !.n = @ + 1, !.blank = @ \/ ~s.text, !.text = FALSE]
    [] s.quote = "" /\ x = "text" -> [s EXCEPT !.text = TRUE]

ParseCommand(symbols, tool) ==
  LET s == FoldLeft(SplitPipes, [quote |-> "", text |-> FALSE, blank |-> FALSE, n |-> 1], symbols)
  IN  Message(IF s.quote # "" THEN "garbled" ELSE IF s.blank \/ ~s.text THEN "incomplete" ELSE "ok",
              TRUE, tool, s.n)

Free == [pc |-> "free", req |-> Opaque, n |-> 0, verdict |-> "none",
         todo |-> <<>>, shown |-> <<>>, out |-> <<>>]

Allowed(action) == action \in {"allow", "warn"}

-----------------------------------------------------------------------------
(* Evaluation.                                                             *)

Verdict(agent, tool) == IF Blocked(trust[agent].state) THEN "deny" ELSE PolicyOf[tool]

\* A denial for being blocked does not feed the trust again.
TrustAfter(agent, tool) ==
  IF Blocked(trust[agent].state) THEN trust
  ELSE [trust EXCEPT ![agent] = RecordDecision(@, PolicyOf[tool])]

Decision(h, n, tool, action) ==
  [by |-> h, n |-> n, kind |-> "decision", tool |-> tool, action |-> action]

\* Only the MCP gateway publishes what it could not parse.
Rejection(h, n) == [by |-> h, n |-> n, kind |-> "parse_rejected", tool |-> "", action |-> "deny"]

SilentRejection(h, n, r) ==
  journal' = IF r.route = "mcp" /\ n = 0 THEN journal \cup {Rejection(h, n)} ELSE journal

PublishRejection(h, n, r) ==
  journal' = IF r.route = "mcp" THEN journal \cup {Rejection(h, n)} ELSE journal

-----------------------------------------------------------------------------
(* Progress of a handler.                                                  *)

Current(h) == serve[h].req.body[serve[h].n]

\* A JSON-RPC message without an id gets no answer, unless it is no JSON-RPC request.
Emits(r, m) == r.route = "mcp" => m.id \/ m.shape \in {"garbled", "unversioned"}

Answer(s, kind, shown) ==
  LET last == s.n = Len(s.req.body)
      out  == IF Emits(s.req, s.req.body[s.n])
              THEN Append(s.out, [n |-> s.n, kind |-> kind, shown |-> shown]) ELSE s.out
  IN  [s EXCEPT !.out = out, !.pc = IF last THEN "done" ELSE "message",
                !.n = IF last THEN @ ELSE @ + 1, !.todo = <<>>, !.shown = <<>>]

Proceed(h, s) == serve' = [serve EXCEPT ![h] = s]

-----------------------------------------------------------------------------
(* The handlers' steps.                                                    *)

\* The body is read under the size limit; a batch is served message after message.
Receive(h, r) ==
  /\ serve[h].pc = "free"
  /\ IF r.body = <<>>
     THEN /\ PublishRejection(h, 0, r)
          /\ Proceed(h, [Free EXCEPT !.req = r, !.pc = "done",
                         !.out = <<[n |-> 0, kind |-> "rejected", shown |-> <<>>]>>])
     ELSE /\ Proceed(h, [Free EXCEPT !.req = r, !.pc = "message", !.n = 1])
          /\ UNCHANGED journal
  /\ UNCHANGED <<trust, sent>>

\* A message that does not parse, or lacks what its adapter requires, is not evaluated.
Reject(h) ==
  /\ serve[h].pc = "message" /\ Current(h).shape # "ok"
  /\ PublishRejection(h, serve[h].n, serve[h].req)
  /\ Proceed(h, Answer(serve[h], "rejected", <<>>))
  /\ UNCHANGED <<trust, sent>>

\* How a forward that failed is answered.  ErrorTaskResponse of the A2A adapter has status
\* error, and yet the governance action deny, whatever the verdict was and whether or not the
\* task went out; the other adapters answer with an error only.
Failure(r) == IF r.route = "a2a" THEN "errored as deny" ELSE "failed"

\* What follows the verdict: a refusal, the way upstream, or, with nothing behind the
\* adapter, an error (MCP, A2A) or the decision itself (webhook, middleware).
Onward(s, action, unconnected) ==
  IF ~Allowed(action) THEN Answer(s, "denied", <<>>)
  ELSE IF s.req.upstream THEN [s EXCEPT !.pc = "send", !.verdict = action]
  ELSE Answer(s, unconnected, <<>>)

McpAfter(s, action) == Onward(s, action, Failure(s.req))
A2aAfter(s, action) == Onward(s, action, Failure(s.req))
HttpAfter(s, action) == Onward(s, action, "decision")

\* The interceptor has the RPC's handler behind it, the wrapper its executor.
GrpcAfter(s, action) ==
  IF Allowed(action) THEN [s EXCEPT !.pc = "send", !.verdict = action] ELSE Answer(s, "denied", <<>>)
CliAfter(s, action) ==
  IF Allowed(action) THEN [s EXCEPT !.pc = "send", !.verdict = action] ELSE Answer(s, "denied", <<>>)

\* An informational webhook reports after the fact and never forwards.
WebhookAfter(s, action) ==
  IF s.req.mode = "informational" THEN Answer(s, "recorded", <<>>) ELSE Onward(s, action, "decision")

AfterVerdict(s, action) ==
  CASE s.req.route = "mcp"     -> McpAfter(s, action)
    [] s.req.route = "a2a"     -> A2aAfter(s, action)
    [] s.req.route = "grpc"    -> GrpcAfter(s, action)
    [] s.req.route = "webhook" -> WebhookAfter(s, action)
    [] s.req.route = "http"    -> HttpAfter(s, action)
    [] s.req.route = "cli"     -> CliAfter(s, action)

Evaluate(h) ==
  /\ serve[h].pc = "message" /\ Current(h).shape = "ok"
  /\ LET agent  == serve[h].req.agent
         tool   == Current(h).tool
         action == Verdict(agent, tool)
     IN  /\ Proceed(h, AfterVerdict(serve[h], action))
         /\ journal' = journal \cup {Decision(h, serve[h].n, tool, action)}
         /\ trust' = TrustAfter(agent, tool)
         /\ UNCHANGED sent

\* The payload goes upstream; a CLI chain starts its first segment.
Send(h) ==
  /\ serve[h].pc = "send"
  /\ sent' = [sent EXCEPT ![h] = Append(@, <<serve[h].n, 1>>)]
  /\ Proceed(h, [serve[h] EXCEPT !.pc = "wait"])
  /\ UNCHANGED <<trust, journal>>

LastPart(h) == sent[h][Len(sent[h])][2]

\* A segment that succeeds feeds the next; the first that fails ends the chain, and the
\* response carries its exit code.
NextSegment(h) ==
  /\ serve[h].pc = "wait" /\ serve[h].req.route = "cli"
  /\ LastPart(h) < Current(h).segments
  /\ sent' = [sent EXCEPT ![h] = Append(@, <<serve[h].n, LastPart(h) + 1>>)]
  /\ UNCHANGED <<trust, journal, serve>>

Posts(r) == r.route \in {"mcp", "webhook"}

\* The MCP forwarder and the webhook post with an http.Client, which answers a redirect that
\* keeps the method (307, 308) by posting the payload again, to where the upstream points it.
FollowRedirect(h) ==
  /\ serve[h].pc = "wait" /\ Posts(serve[h].req)
  /\ LastPart(h) < MaxPosts
  /\ sent' = [sent EXCEPT ![h] = Append(@, <<serve[h].n, LastPart(h) + 1>>)]
  /\ UNCHANGED <<trust, journal, serve>>

\* The upstream answers; a tools/list result is filtered when it is a listing.
Reply(h) ==
  /\ serve[h].pc = "wait"
  /\ IF serve[h].req.route = "mcp" /\ Current(h).tool = "tools/list"
     THEN \E listing \in Listings :
            Proceed(h, IF listing = Opaque THEN Answer(serve[h], "passed", <<>>)
                       ELSE [serve[h] EXCEPT !.pc = "filter", !.todo = listing])
     ELSE Proceed(h, Answer(serve[h], "answered", <<>>))
  /\ UNCHANGED <<trust, journal, sent>>

SendAgain(h) ==
  /\ serve[h].pc = "wait" /\ serve[h].req.route # "cli"
  /\ Proceed(h, [serve[h] EXCEPT !.pc = "send"])
  /\ UNCHANGED <<trust, journal, sent>>

FailureAsDenial(h) ==
  /\ serve[h].pc = "wait" /\ serve[h].req.route # "cli"
  /\ Proceed(h, Answer(serve[h], "denied", <<>>))
  /\ UNCHANGED <<trust, journal, sent>>

\* The connection breaks, the upstream or the handler fails, or there are too many redirects.
UpstreamFails(h) ==
  /\ serve[h].pc = "wait" /\ serve[h].req.route # "cli"
  /\ Proceed(h, Answer(serve[h], Failure(serve[h].req), <<>>))
  /\ UNCHANGED <<trust, journal, sent>>

NoTimeout(h) == FALSE /\ UNCHANGED gwVars

\* The MCP forwarder's client gives up after 30 seconds, redirects included.
Timeout(h) ==
  /\ serve[h].pc = "wait" /\ serve[h].req.route = "mcp"
  /\ Proceed(h, Answer(serve[h], "failed", <<>>))
  /\ UNCHANGED <<trust, journal, sent>>

\* Every listed tool is evaluated as a call of it: the listing publishes a decision for
\* each, and each feeds the agent's trust.
FilterTool(h) ==
  /\ serve[h].pc = "filter" /\ serve[h].todo # <<>>
  /\ LET s     == serve[h]
         agent == s.req.agent
         tool  == Head(s.todo)
     IN  IF tool = Nameless
         THEN /\ Proceed(h, [s EXCEPT !.todo = Tail(@)])
              /\ UNCHANGED <<trust, journal>>
         ELSE /\ Proceed(h, [s EXCEPT !.todo = Tail(@),
                             !.shown = IF Allowed(Verdict(agent, tool)) THEN Append(@, tool) ELSE @])
              /\ journal' = journal \cup {Decision(h, s.n, tool, Verdict(agent, tool))}
              /\ trust' = TrustAfter(agent, tool)
  /\ UNCHANGED sent

ListingDone(h) ==
  /\ serve[h].pc = "filter" /\ serve[h].todo = <<>>
  /\ Proceed(h, Answer(serve[h], "answered", serve[h].shown))
  /\ UNCHANGED <<trust, journal, sent>>

-----------------------------------------------------------------------------
GwInit ==
  /\ trust = [a \in {r.agent : r \in Traffic} |-> Unseen]
  /\ serve = [h \in Handlers |-> Free]
  /\ journal = {}
  /\ sent = [h \in Handlers |-> <<>>]

Handle(h) ==
  \/ Reject(h) \/ Evaluate(h) \/ Send(h)
  \/ FilterTool(h) \/ ListingDone(h) \/ Timeout(h)

GwNext ==
  \E h \in Handlers :
    \/ \E r \in Traffic : Receive(h, r)
    \/ Handle(h)
    \/ NextSegment(h) \/ FollowRedirect(h) \/ Reply(h) \/ UpstreamFails(h)

-----------------------------------------------------------------------------
(* Properties.                                                             *)

Decided(h, n, tool) == {e \in journal : e.by = h /\ e.n = n /\ e.kind = "decision" /\ e.tool = tool}

\* What a message may send upstream: the segments of a command; a payload, and again for
\* every redirect the upstream answers a post with; elsewhere one forward.
Transmissions(r, n) ==
  IF r.route = "cli" THEN 1..r.body[n].segments ELSE IF Posts(r) THEN 1..MaxPosts ELSE {1}

\* Audit, upstream and answer agree, whatever the order of handlers, the place in a batch and
\* whether an answer is wanted.  A message is forwarded at most once, and only when a
\* published decision on it allows it; its payload is repeated at most for the redirects
\* of an upstream the adapter posts to.  A caller answered with a denial (StatusDenied, the
\* JSON-RPC denial, 403) can rely on it: nothing of its message reached the upstream, and the
\* denial is in the audit.  An informational webhook, which reports what already happened,
\* reaches no upstream at all.  The A2A error answer, whose governance action reads deny
\* although the task may have gone out, is no denial in this sense.
ForwardedExactlyAsAnswered ==
  \A h \in Handlers :
    /\ \A i, j \in DOMAIN sent[h] : sent[h][i] = sent[h][j] => i = j
    /\ \A i \in DOMAIN sent[h] :
         LET n == sent[h][i][1]
         IN  /\ \E e \in Decided(h, n, serve[h].req.body[n].tool) : Allowed(e.action)
             /\ sent[h][i][2] \in Transmissions(serve[h].req, n)
    /\ \A i \in DOMAIN serve[h].out :
         LET a == serve[h].out[i]
         IN  a.kind \in {"denied", "recorded"} =>
               /\ \A j \in DOMAIN sent[h] : sent[h][j][1] # a.n
               /\ \E e \in Decided(h, a.n, serve[h].req.body[a.n].tool) :
                    a.kind = "denied" => ~Allowed(e.action)

\* No message passes unrecorded: when a request is done, every message of it has its
\* decision in the audit, and in the MCP gateway what could not be read has its rejection,
\* notifications and the rest of a batch included.
EveryMessageAccounted ==
  \A h \in Handlers :
    serve[h].pc = "done" =>
      /\ \A n \in DOMAIN serve[h].req.body :
           IF serve[h].req.body[n].shape = "ok"
           THEN Decided(h, n, serve[h].req.body[n].tool) # {}
           ELSE serve[h].req.route = "mcp" => Rejection(h, n) \in journal
      /\ serve[h].req.route = "mcp" /\ serve[h].req.body = <<>> => Rejection(h, 0) \in journal

\* A request to the MCP gateway is answered although the upstream never is heard of again:
\* the forwarder's timeout ends the wait for every message of a batch.
GatewayAnswers ==
  \A h \in Handlers :
    (serve[h].pc # "free" /\ serve[h].req.route = "mcp") ~> (serve[h].pc = "done")
=============================================================================
