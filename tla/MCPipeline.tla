----------------------------- MODULE MCPipeline -----------------------------
(***************************************************************************)
(* Input sets for model checking Pipeline.  "Wide" sets cover every kind   *)
(* of answer each stage can get, for one evaluation at a time; "Race" sets *)
(* keep the answers that move trust, for evaluations that overlap.         *)
(***************************************************************************)
EXTENDS Pipeline

CONSTANTS e1, e2, a1, mcp, webhook

\* The standalone defaults of governance/trust_config.go, in half units.
MCInitialAlpha == 2
MCInitialBeta == 2
MCSuccessWeight == 2
MCFailureWeight == 2
MCPartialWeight == 1
MCDegradedFailureMultiplier == 2
MCTheta == 3
MCDegradedThreshold == 6
MCUnit == 10

ASSUME DefaultsGradual == GradualWeights

R(action, mode, reason) == [action |-> action, mode |-> mode, reason |-> reason]
Conf(err, id, dry, checker, esc) ==
  [configErr |-> err, requireAgentID |-> id, nonEnforcing |-> {webhook} \cap Transports,
   dryRun |-> dry, checker |-> checker, escalation |-> esc]

I(kind, action, reason) == [kind |-> kind, action |-> action, reason |-> reason]
P(kind, action, faulted, matched) ==
  [kind |-> kind, action |-> action, faulted |-> faulted, matched |-> matched,
   reason |-> "policy"]
H(kind, action, mode) ==
  [kind |-> kind, action |-> action, mode |-> mode, reason |-> "escalation"]

WideConfigs ==
  {Conf(FALSE, id, dry, checker, esc) :
     id \in BOOLEAN, dry \in BOOLEAN, checker \in {"none", "lookup", "backend"},
     esc \in BOOLEAN}
  \cup {Conf(TRUE, TRUE, dry, "backend", FALSE) : dry \in BOOLEAN}

WideRules ==
  {<<>>} \cup {<<R(a, "unset", "policy")>> : a \in RuleActions}
  \cup {<<R(a, "unset", "policy"), R(b, "classified", "policy")>> :
          a \in {"allow", "audit", "escalate"}, b \in {"warn", "require_approval", "deny"}}
  \cup {<<R("allow", m, "policy")>> : m \in {"proved", "human_approved"}}
  \cup {<<R("warn", "unset", "names_blocked")>>}

WideInterceptors ==
  {I("none", "", "policy"), I("error", "", "policy"), I("block", "", "policy"),
   I("block", "allow", "policy"), I("block", "bogus", "policy"),
   I("block", "warn", "policy"), I("block", "escalate", "policy"),
   I("block", "require_approval", "policy"), I("block", "deny", "names_blocked")}

WidePolicies ==
  {P("error", "allow", FALSE, FALSE), P("nil", "allow", FALSE, FALSE),
   P("strict", "deny", FALSE, FALSE), P("ok", "bogus", FALSE, TRUE)}
  \cup {P("ok", a, f, TRUE) : a \in Verdicts, f \in BOOLEAN}
  \cup {P("ok", "allow", FALSE, FALSE),
        [P("ok", "deny", FALSE, TRUE) EXCEPT !.reason = "names_blocked"]}

WideEscalations ==
  {H("error", "allow", "unset"), H("nil", "allow", "unset"), H("panic", "allow", "unset"),
   H("ok", "bogus", "human_approved")}
  \cup {[H("ok", "deny", "human_approved") EXCEPT !.reason = "names_blocked"]}
  \cup {H("ok", a, m) : a \in Verdicts, m \in {"unset", "human_approved", "proved"}}

RaceConfigs == {Conf(FALSE, TRUE, FALSE, "backend", TRUE)}
RaceDryConfigs == RaceConfigs \cup {Conf(FALSE, TRUE, TRUE, "backend", TRUE)}
RaceRules == {<<>>, <<R("deny", "unset", "policy")>>, <<R("warn", "unset", "policy")>>}
RaceInterceptors == {I("none", "", "policy"), I("error", "", "policy")}
RacePolicies == {P("ok", "allow", FALSE, TRUE), P("ok", "escalate", FALSE, TRUE)}
RaceEscalations == {H("ok", "allow", "human_approved"), H("error", "allow", "unset")}
=============================================================================
