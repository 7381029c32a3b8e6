--------------------------- MODULE CircuitBreaker ---------------------------
(***************************************************************************)
(* What the trust layer promises about the circuit breaker of an agent,    *)
(* with no Beta parameters and no pipeline stages.  A call is admitted     *)
(* while its agent is TRUSTED or EVALUATING; its outcome, folded in later, *)
(* moves the agent between these states and, once degraded, may isolate    *)
(* it.  An ISOLATED agent leaves that state only by an operator or by the  *)
(* outcome of a call admitted before; a TERMINATED one only by a reset.    *)
(***************************************************************************)
CONSTANTS Agents, Calls
VARIABLES state, admitted   \* admitted[a]: the calls whose outcome is still to come

Active == {"TRUSTED", "EVALUATING"}

Init == state = [a \in Agents |-> "TRUSTED"] /\ admitted = [a \in Agents |-> {}]

\* A blocked agent's calls are refused.
Admit(a, c) ==
  /\ state[a] \in Active
  /\ c \notin admitted[a]
  /\ admitted' = [admitted EXCEPT ![a] = @ \cup {c}]
  /\ UNCHANGED state

\* Isolation is reached through EVALUATING only; termination is final.
MayBecome(s) ==
  CASE s = "TRUSTED"    -> Active
    [] s = "EVALUATING" -> Active \cup {"ISOLATED"}
    [] s = "ISOLATED"   -> Active \cup {"ISOLATED"}
    [] s = "TERMINATED" -> {"TERMINATED"}

Outcome(a, c) ==
  /\ c \in admitted[a]
  /\ admitted' = [admitted EXCEPT ![a] = @ \ {c}]
  /\ \E s \in MayBecome(state[a]) : state' = [state EXCEPT ![a] = s]

Terminate(a) == state' = [state EXCEPT ![a] = "TERMINATED"] /\ UNCHANGED admitted
Reset(a)     == state' = [state EXCEPT ![a] = "TRUSTED"] /\ UNCHANGED admitted

Next == \E a \in Agents : \/ \E c \in Calls : Admit(a, c) \/ Outcome(a, c)
                          \/ Terminate(a)
                          \/ Reset(a)

Spec == Init /\ [][Next]_<<state, admitted>>
=============================================================================
