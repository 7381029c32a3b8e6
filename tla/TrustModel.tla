----------------------------- MODULE TrustModel -----------------------------
(***************************************************************************)
(* The in-process Beta(alpha, beta) trust arithmetic of the standalone     *)
(* trust backend (governance/trust_beta.go, circuit_breaker.go and         *)
(* trust_actions.go) as operators over one agent's stored state.           *)
(*                                                                         *)
(* The Go code keeps alpha and beta as float64 sums of fixed weights whose *)
(* smallest default is 0.5.  The model counts in that unit, so every sum   *)
(* is an integer, and compares alpha/(alpha+beta) with a threshold by      *)
(* cross multiplication, which is exact.                                   *)
(***************************************************************************)
EXTENDS Integers

CONSTANTS
  InitialAlpha, InitialBeta,       \* prior of an agent never seen before
  SuccessWeight, FailureWeight,    \* added by an allow / by a deny
  PartialAlphaWeight,              \* added to alpha by a partial outcome
  PartialBetaWeight,               \* added to beta by a partial outcome
  DegradedFailureMultiplier,       \* a deny of a degraded agent weighs more
  Theta, DegradedThreshold, Unit   \* thresholds Theta/Unit, DegradedThreshold/Unit

ASSUME TrustWeights ==
  /\ InitialAlpha \in Nat /\ InitialBeta \in Nat
  /\ SuccessWeight \in Nat /\ FailureWeight \in Nat
  /\ PartialAlphaWeight \in Nat /\ PartialBetaWeight \in Nat
  /\ DegradedFailureMultiplier \in Nat

ASSUME TrustThresholds ==
  /\ Theta \in Nat /\ DegradedThreshold \in Nat /\ Unit \in Nat \ {0}

\* The four circuit-breaker states; UNKNOWN is not one of them, it is the
\* posture of a decision for which no trust verdict was obtained.
BreakerStates == {"TRUSTED", "EVALUATING", "ISOLATED", "TERMINATED"}
TrustStates == BreakerStates \cup {"UNKNOWN"}

Blocked(state) == state \in {"ISOLATED", "TERMINATED"}

\* score < threshold/Unit for score = alpha/(alpha+beta), 0 when undefined.
ScoreBelow(alpha, beta, threshold) ==
  IF alpha + beta <= 0 THEN 0 < threshold
                       ELSE Unit * alpha < threshold * (alpha + beta)

TrustStateFromScore(alpha, beta) ==
  IF ScoreBelow(alpha, beta, Theta) THEN "ISOLATED"
  ELSE IF ScoreBelow(alpha, beta, DegradedThreshold) THEN "EVALUATING"
  ELSE "TRUSTED"

\* What the backend holds for one agent.  An absent map entry is the default
\* trusted snapshot; ensureLocked materialises it with the same parameters.
AgentTrust == [known : BOOLEAN, alpha : Nat, beta : Nat, state : BreakerStates]

Unseen == [known |-> FALSE, alpha |-> InitialAlpha, beta |-> InitialBeta,
           state |-> "TRUSTED"]

TrustOutcomeFromDecision(action) ==
  CASE action = "allow" -> "success"
    [] action = "deny"  -> "failure"
    [] action = "warn"  -> "neutral"
    [] OTHER            -> "partial"

AlphaWeight(outcome) ==
  CASE outcome = "success" -> SuccessWeight
    [] outcome = "partial" -> PartialAlphaWeight
    [] OTHER               -> 0

HarshBetaWeight(outcome, state) ==
  IF outcome = "failure" THEN FailureWeight * DegradedFailureMultiplier
  ELSE IF outcome = "partial" THEN PartialBetaWeight ELSE 0

BetaWeight(outcome, state) ==
  CASE outcome = "failure" /\ state = "EVALUATING" ->
         FailureWeight * DegradedFailureMultiplier
    [] outcome = "failure" /\ state # "EVALUATING" -> FailureWeight
    [] outcome = "partial" -> PartialBetaWeight
    [] OTHER               -> 0

ReviveTerminated(s, action) ==
  LET outcome == TrustOutcomeFromDecision(action)
      alpha   == s.alpha + AlphaWeight(outcome)
      beta    == s.beta + BetaWeight(outcome, s.state)
  IN  IF outcome = "neutral" THEN s
      ELSE [known |-> TRUE, alpha |-> alpha, beta |-> beta,
            state |-> TrustStateFromScore(alpha, beta)]

\* RecordDecision: fold one decision into the agent's parameters and derive
\* the new state; a neutral outcome stores nothing, TERMINATED never moves.
RecordDecision(s, action) ==
  LET outcome == TrustOutcomeFromDecision(action)
      alpha   == s.alpha + AlphaWeight(outcome)
      beta    == s.beta + BetaWeight(outcome, s.state)
  IN  IF outcome = "neutral" THEN s
      ELSE [known |-> TRUE, alpha |-> alpha, beta |-> beta,
            state |-> IF s.state = "TERMINATED" THEN "TERMINATED"
                      ELSE TrustStateFromScore(alpha, beta)]

\* TerminateAgent keeps the parameters and forces the state.
Terminated(s) == [s EXCEPT !.known = TRUE, !.state = "TERMINATED"]

\* One outcome of this weight cannot take an agent from TRUSTED past EVALUATING.
Gradual(weight) ==
  /\ Unit * InitialAlpha >= Theta * (InitialAlpha + InitialBeta + weight)
  /\ (DegradedThreshold - Theta) * (InitialAlpha + InitialBeta) >= Theta * weight

\* The weighting degrades an agent before it isolates it, as the standalone
\* defaults do.
GradualWeights ==
  /\ Theta <= DegradedThreshold /\ Theta <= Unit /\ 0 < InitialAlpha + InitialBeta
  /\ Gradual(0) /\ Gradual(FailureWeight) /\ Gradual(PartialBetaWeight)
=============================================================================
