---------------------------- MODULE SecureGithub -----------------------------
(***************************************************************************)
(* The Secure GitHub profile (adapters/securegithub).  GovernToolCall of   *)
(* the adapter classifies a call, binds the session to one repository,     *)
(* takes the session's taint into the request, has the pipeline decide and *)
(* calls GitHub; a read of untrusted content taints the session.  The MCP  *)
(* route does the same for an upstream MCP server with two exposed tools,  *)
(* and keeps evidence of what it decided and forwarded in two files.       *)
(* Calls of a session overlap freely; GitHub and the files may fail.       *)
(***************************************************************************)
EXTENDS Naturals

CONSTANTS
  GhCalls,      \* calls being served
  GhTraffic,    \* calls that may arrive
  GhSessions,   \* session identifiers; the adapter and the route have their own
  NoRepo,       \* a session not bound yet
  SourceRepo    \* the repository whose issues the MCP route may read

\* The owner and the repository of a call default to the configured ones, and a session
\* identifier belongs to the adapter or to the route.
ASSUME GhTrafficAssumption ==
  /\ \A t \in GhTraffic :
       t.via \in {"adapter", "route"} /\ t.session \in GhSessions /\ t.repo # NoRepo
  /\ \A t, u \in GhTraffic : t.via # u.via => t.session # u.session

VARIABLES
  store,      \* the adapter's sessions: [session -> [bound, tainted]]
  joined,     \* the MCP route's sessions that exist
  marked,     \* the MCP route's sessions that are tainted
  call,       \* [call -> its progress]
  github,     \* calls that reached GitHub: [c, session, tool, repo]
  read,       \* [session -> untrusted content was handed to the agent]
  decisions,  \* calls with a line in the decision file
  forwards    \* calls with a line in the forward-event file

ghVars == <<store, joined, marked, call, github, read, decisions, forwards>>

-----------------------------------------------------------------------------
(* Classification.  A call names its tool, its repository, and the source  *)
(* and sink its arguments claim ("" when they claim none).                 *)

Reads == {"get_issue", "get_pull_request", "get_file_contents"}
Writes == {"create_or_update_file", "push_files"}
Creates == {"create_issue", "create_pull_request"}
Merges == {"merge_pull_request"}
Supported == Reads \cup Writes \cup Creates \cup Merges

Untrusted == {"external_collaborator", "public_resource"}

CapabilityClass(tool) ==
  CASE tool \in Reads   -> "R0"
    [] tool \in Creates -> "W0"
    [] tool \in Writes  -> "W1"
    [] tool \in Merges  -> "W2"

SourceClass(t) ==
  IF t.source # "" THEN t.source
  ELSE IF t.tool \in {"get_issue", "get_pull_request"} THEN "external_collaborator"
  ELSE IF t.tool = "get_file_contents" THEN "allowlisted_resource"
  ELSE "agent_generated"

SinkClass(t) ==
  IF t.tool \in Reads THEN "none" ELSE IF t.sink # "" THEN t.sink ELSE "private_repo"

TaintsEnvelope(t) == t.tool \in Reads /\ SourceClass(t) \in Untrusted

\* The default rules: no second repository, no protected write to a private one once tainted.
DefaultPolicyDenies(t, violation, tainted) ==
  \/ violation
  \/ /\ tainted /\ SinkClass(t) = "private_repo"
     /\ CapabilityClass(t.tool) \in {"W1", "W2"}

-----------------------------------------------------------------------------
(* The adapter: GovernToolCall.                                            *)

Waiting == [pc |-> "free", t |-> NoRepo, stale |-> FALSE, violation |-> FALSE,
            reply |-> "none", answer |-> "none"]

Step(c, to) == call' = [call EXCEPT ![c].pc = to]
Finish(c, answer) == call' = [call EXCEPT ![c].pc = "done", ![c].answer = answer]

\* stale: untrusted content had been handed to the agent of this session before the call.
Arrive(c, t) ==
  /\ call[c].pc = "free"
  /\ call' = [call EXCEPT ![c] = [Waiting EXCEPT !.t = t, !.stale = read[t.session],
                                  !.pc = IF t.via = "adapter" THEN "bind" ELSE "route"]]
  /\ UNCHANGED <<store, joined, marked, github, read, decisions, forwards>>

\* An unknown tool is refused; otherwise the first call of a session binds its repository.
BindRepo(c) ==
  /\ call[c].pc = "bind"
  /\ LET t == call[c].t
         bound == store[t.session].bound
     IN  IF t.tool \notin Supported
         THEN Finish(c, "unsupported") /\ UNCHANGED store
         ELSE /\ store' = [store EXCEPT ![t.session].bound = IF @ = NoRepo THEN t.repo ELSE @]
              /\ call' = [call EXCEPT ![c].pc = "judge",
                                      ![c].violation = bound \notin {NoRepo, t.repo}]
  /\ UNCHANGED <<joined, marked, github, read, decisions, forwards>>

\* The session's taint is copied and the pipeline decides on the copy.
Judge(c) ==
  /\ call[c].pc = "judge"
  /\ LET t == call[c].t
     IN  IF DefaultPolicyDenies(t, call[c].violation, store[t.session].tainted)
         THEN Finish(c, "denied") ELSE Step(c, "send")
  /\ UNCHANGED <<store, joined, marked, github, read, decisions, forwards>>

CallGitHub(c) ==
  /\ call[c].pc = "send"
  /\ github' = github \cup {[c |-> c, session |-> call[c].t.session,
                             tool |-> call[c].t.tool, repo |-> call[c].t.repo]}
  /\ Step(c, "sent")
  /\ UNCHANGED <<store, joined, marked, read, decisions, forwards>>

\* The HTTP handler reports an error with upstream_called false, whatever GitHub did.
GitHubFails(c) ==
  /\ call[c].pc = "sent"
  /\ Finish(c, "error")
  /\ UNCHANGED <<store, joined, marked, github, read, decisions, forwards>>

TaintEnvelopeOnly(c) ==
  /\ call[c].pc = "sent"
  /\ Step(c, "return")
  /\ UNCHANGED <<store, joined, marked, github, read, decisions, forwards>>

\* The session is tainted before the result goes back.
MarkTainted(c) ==
  /\ call[c].pc = "sent"
  /\ store' = [store EXCEPT ![call[c].t.session].tainted = @ \/ TaintsEnvelope(call[c].t)]
  /\ Step(c, "return")
  /\ UNCHANGED <<joined, marked, github, read, decisions, forwards>>

Return(c) ==
  /\ call[c].pc = "return"
  /\ read' = [read EXCEPT ![call[c].t.session] = @ \/ TaintsEnvelope(call[c].t)]
  /\ Finish(c, "answered")
  /\ UNCHANGED <<store, joined, marked, github, decisions, forwards>>

-----------------------------------------------------------------------------
(* The MCP route.                                                          *)

Exposed == {"issue_read", "create_or_update_file"}

\* The route's own rules; the last one denies the protected write whatever came before.
RouteDenies(t) ==
  \/ t.tool \notin Exposed
  \/ t.tool = "issue_read" /\ t.repo # SourceRepo
  \/ t.tool = "create_or_update_file"

\* A session exists once an initialize succeeded upstream.
Initialize(c) ==
  /\ call[c].pc = "route" /\ call[c].t.tool = "initialize"
  /\ \E ok \in BOOLEAN :
       /\ joined' = IF ok THEN joined \cup {call[c].t.session} ELSE joined
       /\ Finish(c, IF ok THEN "answered" ELSE "error")
  /\ UNCHANGED <<store, marked, github, read, decisions, forwards>>

UnknownSession(c) ==
  /\ call[c].pc = "route" /\ call[c].t.tool # "initialize" /\ call[c].t.session \notin joined
  /\ Finish(c, "no session")
  /\ UNCHANGED <<store, joined, marked, github, read, decisions, forwards>>

\* ping and tools/list are forwarded as they are; a listing shows the exposed tools only.
ForwardProtocol(c) ==
  /\ call[c].pc = "route" /\ call[c].t.tool = "tools/list" /\ call[c].t.session \in joined
  /\ \E result \in {"answered", "error"} : Finish(c, result)
  /\ UNCHANGED <<store, joined, marked, github, read, decisions, forwards>>

GovernTool(c) ==
  /\ call[c].pc = "route" /\ call[c].t.tool \notin {"initialize", "tools/list"}
  /\ call[c].t.session \in joined
  /\ Step(c, IF RouteDenies(call[c].t) THEN "deny" ELSE "forward")
  /\ UNCHANGED <<store, joined, marked, github, read, decisions, forwards>>

\* A denial is answered as one when its record and its canary event are on disk.
EmitDecision(c) ==
  /\ call[c].pc = "deny"
  /\ \/ decisions' = decisions \cup {c} /\ Step(c, "canary")
     \/ Finish(c, "no evidence") /\ UNCHANGED decisions
  /\ UNCHANGED <<store, joined, marked, github, read, forwards>>

EmitForwardEvent(c) ==
  /\ call[c].pc = "canary"
  /\ \/ forwards' = forwards \cup {c} /\ Finish(c, "denied")
     \/ Finish(c, "no evidence") /\ UNCHANGED forwards
  /\ UNCHANGED <<store, joined, marked, github, read, decisions>>

\* What comes back is a tool result, or odd: an error, two answers, another media type.
ForwardRead(c) ==
  /\ call[c].pc = "forward"
  /\ github' = github \cup {[c |-> c, session |-> call[c].t.session,
                             tool |-> call[c].t.tool, repo |-> call[c].t.repo]}
  /\ \E reply \in {"result", "odd"} :
       call' = [call EXCEPT ![c].pc = "reading", ![c].reply = reply]
  /\ UNCHANGED <<store, joined, marked, read, decisions, forwards>>

ReadFails(c) ==
  /\ call[c].pc = "reading"
  /\ Finish(c, "error")
  /\ UNCHANGED <<store, joined, marked, github, read, decisions, forwards>>

\* An answer that is no valid tool result is handed on with neither a taint nor an event.
PassOddAnswer(c) ==
  /\ call[c].pc = "reading" /\ call[c].reply = "odd"
  /\ read' = [read EXCEPT ![call[c].t.session] = TRUE]
  /\ Finish(c, "answered")
  /\ UNCHANGED <<store, joined, marked, github, decisions, forwards>>

TaintAfterEvidence(c) ==
  /\ call[c].pc = "reading" /\ call[c].reply = "result"
  /\ Step(c, "event")
  /\ UNCHANGED <<store, joined, marked, github, read, decisions, forwards>>

\* A validated read taints first, so a file that cannot be written does not undo it.
MarkRouteTainted(c) ==
  /\ call[c].pc = "reading" /\ call[c].reply = "result"
  /\ marked' = marked \cup {call[c].t.session}
  /\ Step(c, "event")
  /\ UNCHANGED <<store, joined, github, read, decisions, forwards>>

\* The content goes back only with its forward event on disk.
RecordRead(c) ==
  /\ call[c].pc = "event"
  /\ \/ /\ forwards' = forwards \cup {c}
        /\ read' = [read EXCEPT ![call[c].t.session] = TRUE]
        /\ Finish(c, "answered")
     \/ Finish(c, "no evidence") /\ UNCHANGED <<forwards, read>>
  /\ UNCHANGED <<store, joined, marked, github, decisions>>

-----------------------------------------------------------------------------
GhInit ==
  /\ store = [s \in GhSessions |-> [bound |-> NoRepo, tainted |-> FALSE]]
  /\ joined = {} /\ marked = {}
  /\ call = [c \in GhCalls |-> Waiting]
  /\ github = {}
  /\ read = [s \in GhSessions |-> FALSE]
  /\ decisions = {} /\ forwards = {}

GhNext ==
  \E c \in GhCalls :
    \/ \E t \in GhTraffic : Arrive(c, t)
    \/ BindRepo(c) \/ Judge(c) \/ CallGitHub(c) \/ GitHubFails(c) \/ MarkTainted(c) \/ Return(c)
    \/ Initialize(c) \/ UnknownSession(c) \/ ForwardProtocol(c) \/ GovernTool(c)
    \/ EmitDecision(c) \/ EmitForwardEvent(c)
    \/ ForwardRead(c) \/ ReadFails(c) \/ PassOddAnswer(c) \/ MarkRouteTainted(c) \/ RecordRead(c)

-----------------------------------------------------------------------------
(* Properties.                                                             *)

\* Once untrusted content was handed to an agent, no protected write it asks for in that
\* session reaches a private repository, however the calls overlap; and everything a session
\* sends through the adapter goes to one repository.
NoWriteAfterTaint ==
  \A g \in github :
    /\ ~ /\ call[g.c].stale
         /\ g.tool \in Writes \cup Merges /\ SinkClass(call[g.c].t) = "private_repo"
    /\ call[g.c].t.via = "route" => g.tool = "issue_read"
    /\ \A o \in github : o.session = g.session /\ call[o.c].t.via = "adapter"
                         /\ call[g.c].t.via = "adapter" => o.repo = g.repo

\* The MCP route answers with evidence or not at all: a denial it reports is in both files;
\* a tool result it hands over has its forward event in the file and has tainted the
\* session; and a result held back because its event could not be written has tainted the
\* session all the same.  What is no tool result is outside this: PassOddAnswer hands it on
\* with no event and no taint.
EvidenceBeforeAnswer ==
  \A c \in GhCalls :
    LET k == call[c]
    IN  /\ k.answer = "denied" /\ k.t.via = "route" => c \in decisions /\ c \in forwards
        /\ k.answer = "answered" /\ k.reply = "result" => c \in forwards /\ k.t.session \in marked
        /\ k.answer = "no evidence" /\ k.reply = "result" => k.t.session \in marked
=============================================================================
