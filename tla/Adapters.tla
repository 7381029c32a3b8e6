------------------------------ MODULE Adapters -------------------------------
(***************************************************************************)
(* The adapters side by side: a deployment runs one of them.               *)
(***************************************************************************)
EXTENDS Gateway, SecureGithub, CodeSandbox, ManagedAgents

VARIABLE deployed   \* which adapter this deployment runs

vars == <<gwVars, ghVars, sbVars, maVars, deployed>>

\* What is not deployed rests in one initial state.
AnyStream == CHOOSE s \in Streams : TRUE

Init ==
  /\ deployed \in {"gateway", "github", "sandbox", "agents"}
  /\ GwInit /\ GhInit
  /\ SbInit /\ (deployed # "sandbox" => box = "unconfigured")
  /\ MaInit /\ (deployed # "agents" => \A p \in Proxies : proxy[p].stream = AnyStream)

Next ==
  \/ deployed = "gateway" /\ GwNext /\ UNCHANGED <<ghVars, sbVars, maVars, deployed>>
  \/ deployed = "github" /\ GhNext /\ UNCHANGED <<gwVars, sbVars, maVars, deployed>>
  \/ deployed = "sandbox" /\ SbNext /\ UNCHANGED <<gwVars, ghVars, maVars, deployed>>
  \/ deployed = "agents" /\ MaNext /\ UNCHANGED <<gwVars, ghVars, sbVars, deployed>>

\* A handler's goroutine keeps running, and the forwarder's timeout fires.
Fairness ==
  \A h \in Handlers :
    WF_vars(deployed = "gateway" /\ Handle(h) /\ UNCHANGED <<ghVars, sbVars, maVars, deployed>>)

Spec == Init /\ [][Next]_vars /\ Fairness
=============================================================================
