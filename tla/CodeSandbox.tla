---------------------------- MODULE CodeSandbox ------------------------------
(***************************************************************************)
(* The code execution adapter (adapters/codeexec).  A request is parsed,   *)
(* its code analysed, decided by the pipeline and by the adapter's sandbox *)
(* policy, and run in a fresh container through the docker or podman       *)
(* command line, or in a local process outside production.                 *)
(*                                                                         *)
(* The command line and the container live apart: the command line asks    *)
(* for the container, and is killed at the deadline or when the caller     *)
(* cancels while the container may still be coming up or keep running.     *)
(***************************************************************************)
EXTENDS Naturals, FiniteSets

CONSTANTS
  Executions,      \* executions, each with its own random suffix
  CodeRequests,    \* requests that may arrive
  SandboxConfigs   \* configurations an operator may write

VARIABLES
  box,         \* the executor the adapter was built with
  execution,   \* [execution -> its progress]
  container,   \* [execution -> what became of its container]
  cidfile,     \* executions whose container id is in their cidfile
  removals     \* <<x, y>>: the cleanup of x removed the container of y

sbVars == <<box, execution, container, cidfile, removals>>

-----------------------------------------------------------------------------
(* Configuration.                                                          *)

\* Both sides of the input mount or none; the host side clean, the container side clean and
\* clear of the root and of the protected directories.
validateMountConfig(cfg) ==
  \/ cfg.host = "" /\ cfg.dest = ""
  \/ cfg.host = "clean" /\ cfg.dest = "clean"

NewSandbox(cfg) ==
  CASE cfg.type = "container" /\ cfg.image /\ validateMountConfig(cfg) -> "container"
    [] cfg.type = "local" /\ ~cfg.production -> "local"
    [] OTHER -> "unconfigured"

-----------------------------------------------------------------------------
(* What the adapter decides before anything runs.  A request: whether it   *)
(* parses, its identifier, language, detected operations, the verdict of   *)
(* the pipeline, and what runtime or interpreter is installed.             *)

operationCapability ==
  [network_call |-> "network", file_read |-> "filesystem_read",
   file_write |-> "filesystem_write", file_delete |-> "filesystem_write",
   subprocess |-> "subprocess", system_call |-> "subprocess",
   restricted_import |-> "subprocess", obfuscated_exec |-> "subprocess",
   eval_delegation |-> "subprocess", env_access |-> "env_access"]

AllowedCapabilities == {"filesystem_read", "env_access"}
AllowedLanguages == {"python", "javascript", "typescript"}

\* Only python and javascript have an analyser (typescript shares javascript's).
Operations(r) == IF r.language \in AllowedLanguages THEN r.ops ELSE {}

EnforcePolicy(ops) ==
  {op \in ops : \/ op \notin DOMAIN operationCapability
                \/ operationCapability[op] \notin AllowedCapabilities}

SandboxPolicyDenies(r) ==
  EnforcePolicy(Operations(r)) # {} \/ r.language \notin AllowedLanguages

interpreterArgs(language) == language \in {"python", "javascript"}

Disposition(r) ==
  CASE ~r.parses -> "error"
    [] r.parses /\ (r.verdict = "deny" \/ SandboxPolicyDenies(r)) -> "denied"
    [] r.parses /\ r.verdict # "deny" /\ ~SandboxPolicyDenies(r) ->
         CASE box = "unconfigured" -> "error"
           [] box # "unconfigured" /\ (~interpreterArgs(r.language) \/ r.runtime = "none") -> "blocked"
           [] OTHER -> "run"

-----------------------------------------------------------------------------
(* The container runtime.                                                  *)

NamedByRequest(x, id) == <<id, 0>>

\* The request id is a prefix; the suffix is random for every execution.
sandboxContainerName(x, id) == <<id, x>>

Name(x) == sandboxContainerName(x, execution[x].req.id)

Live == {x \in Executions : container[x] = "live"}

NameTaken(x) == \E y \in Live \ {x} : Name(y) = Name(x)

Idle == [pc |-> "free", req |-> [id |-> "", runtime |-> "none"], code |-> 0,
         signature |-> FALSE, answer |-> "none"]

Leave(x, pc, code, signature) ==
  execution' = [execution EXCEPT ![x].pc = pc, ![x].code = code, ![x].signature = signature]

Settle(x, answer) == execution' = [execution EXCEPT ![x].pc = "cleanup", ![x].answer = answer]

-----------------------------------------------------------------------------
(* Steps.                                                                  *)

GovernCode(x, r) ==
  /\ execution[x].pc = "free"
  /\ execution' = [execution EXCEPT ![x] =
       [Idle EXCEPT !.req = r,
                    !.answer = IF Disposition(r) = "run" THEN "none" ELSE Disposition(r),
                    !.pc = IF Disposition(r) = "run" THEN box ELSE "done"]]
  /\ UNCHANGED <<box, container, cidfile, removals>>

\* docker asks its daemon, which acts on its own; podman creates the container itself.
RequestContainer(x) ==
  /\ execution[x].pc = "container" /\ container[x] = "none"
  /\ container' = [container EXCEPT ![x] = "requested"]
  /\ UNCHANGED <<box, execution, cidfile, removals>>

CreateContainer(x) ==
  /\ container[x] = "requested" /\ ~NameTaken(x)
  /\ execution[x].pc # "container" => execution[x].req.runtime = "docker"
  /\ container' = [container EXCEPT ![x] = "live"]
  /\ UNCHANGED <<box, execution, cidfile, removals>>

\* The image or a flag is refused, the name is taken, the daemon fails: exit 125 and an
\* error line of the runtime.
RunFails(x) ==
  /\ execution[x].pc = "container" /\ container[x] \in {"none", "requested"}
  /\ container' = [container EXCEPT ![x] = "none"]
  /\ Leave(x, "exited", 125, TRUE)
  /\ UNCHANGED <<box, cidfile, removals>>

\* The runtime cannot be executed at all.
InvocationFails(x) ==
  /\ execution[x].pc = "container" /\ container[x] = "none"
  /\ Settle(x, "blocked")
  /\ UNCHANGED <<box, container, cidfile, removals>>

WriteCid(x) ==
  /\ execution[x].pc = "container" /\ container[x] = "live" /\ x \notin cidfile
  /\ cidfile' = cidfile \cup {x}
  /\ UNCHANGED <<box, execution, container, removals>>

\* The code ends, or could not be started in its container; --rm removes the container, and
\* podman the cidfile with it.  Code may exit 125 and print what the runtime would.
CodeExits(x) ==
  /\ execution[x].pc = "container" /\ x \in cidfile
  /\ \E code \in {0, 1, 125}, mimics \in BOOLEAN : Leave(x, "exited", code, mimics)
  /\ container' = [container EXCEPT ![x] = "gone"]
  /\ cidfile' = IF execution[x].req.runtime = "podman" THEN cidfile \ {x} ELSE cidfile
  /\ UNCHANGED <<box, removals>>

\* The command line is dead and the container ends on its own.
CodeEndsUnseen(x) ==
  /\ execution[x].pc \in {"deadline", "canceled", "cleanup", "done"} /\ container[x] = "live"
  /\ container' = [container EXCEPT ![x] = "gone"]
  /\ UNCHANGED <<box, execution, cidfile, removals>>

\* The wall-clock limit, or the caller, kills the command line; the command line is the whole of podman.
Kill(x) ==
  /\ execution[x].pc = "container"
  /\ \E cause \in {"deadline", "canceled"} : Leave(x, cause, 0, FALSE)
  /\ container' = IF container[x] = "requested" /\ execution[x].req.runtime = "podman"
                  THEN [container EXCEPT ![x] = "none"] ELSE container
  /\ UNCHANGED <<box, cidfile, removals>>

ExitCodeOnly(x) ==
  /\ execution[x].pc = "exited"
  /\ Settle(x, "reported")
  /\ UNCHANGED <<box, container, cidfile, removals>>

\* A 125 without cidfile and with a runtime error is a start failure, not a result.
Classify(x) ==
  /\ execution[x].pc = "exited"
  /\ Settle(x, IF execution[x].code = 125 /\ x \notin cidfile /\ execution[x].signature
               THEN "blocked" ELSE "reported")
  /\ UNCHANGED <<box, container, cidfile, removals>>

\* After the deadline the runtime is asked, with a limit of its own, whether the container exists.
AfterDeadline(x) ==
  /\ execution[x].pc = "deadline"
  /\ \E seen \in BOOLEAN : /\ seen => x \in Live
                           /\ Settle(x, IF seen THEN "reported" ELSE "blocked")
  /\ UNCHANGED <<box, container, cidfile, removals>>

AfterCancel(x) ==
  /\ execution[x].pc = "canceled"
  /\ Settle(x, "blocked")
  /\ UNCHANGED <<box, container, cidfile, removals>>

\* The deferred removal, by container id or by name; it may fail and nobody is told.
removeOwnedContainer(x) ==
  /\ execution[x].pc = "cleanup"
  /\ LET target == IF x \in cidfile THEN {x} ELSE {y \in Executions : Name(y) = Name(x)}
     IN  \/ /\ container' = [y \in Executions |-> IF y \in target \cap Live THEN "gone" ELSE container[y]]
            /\ removals' = removals \cup ({x} \X (target \cap Live))
         \/ UNCHANGED <<container, removals>>
  /\ execution' = [execution EXCEPT ![x].pc = "done"]
  /\ cidfile' = cidfile \ {x}
  /\ UNCHANGED box

\* The local sandbox: a process of the host's interpreter; "gone" is its end.
LocalExecute(x) ==
  /\ execution[x].pc = "local"
  /\ \/ /\ container' = [container EXCEPT ![x] = "gone"]
        /\ \E answer \in {"reported", "blocked"} : Settle(x, answer)
     \/ Settle(x, "blocked") /\ UNCHANGED container
  /\ UNCHANGED <<box, cidfile, removals>>

-----------------------------------------------------------------------------
SbInit ==
  /\ box \in {NewSandbox(cfg) : cfg \in SandboxConfigs}
  /\ execution = [x \in Executions |-> Idle]
  /\ container = [x \in Executions |-> "none"]
  /\ cidfile = {}
  /\ removals = {}

SbNext ==
  \E x \in Executions :
    \/ \E r \in CodeRequests : GovernCode(x, r)
    \/ RequestContainer(x) \/ CreateContainer(x) \/ RunFails(x) \/ InvocationFails(x)
    \/ WriteCid(x) \/ CodeExits(x) \/ CodeEndsUnseen(x) \/ Kill(x)
    \/ Classify(x) \/ AfterDeadline(x) \/ AfterCancel(x)
    \/ removeOwnedContainer(x) \/ LocalExecute(x)

-----------------------------------------------------------------------------
(* Properties.                                                             *)

\* However executions of one request id overlap, fail, time out or are cancelled, each answers
\* for and cleans up its own container: no cleanup removes the container of another, a result is
\* only reported of a container, or local process, that was really created, and after a refusal
\* by the pipeline or the sandbox policy nothing was started at all.
EachItsOwnContainer ==
  /\ \A r \in removals : r[1] = r[2]
  /\ \A x \in Executions :
       /\ execution[x].answer = "reported" => container[x] \in {"live", "gone"}
       /\ execution[x].answer = "denied" => container[x] = "none"
=============================================================================
