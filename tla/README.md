# Fulcrum Boundary: TLA+ models, model checking and proofs

Fulcrum Boundary decides, for every action an AI agent wants to take through a
routed surface (an MCP tool call, a shell command, an edit, a code execution),
whether the action may run, and keeps a verifiable record of the decision. This
directory holds TLA+ models of the parts of that program in which several
goroutines, processes or failures meet, the TLC configurations that check them
on small instances, and TLAPS proofs of the results that matter for every
instance.

## 1. Inventory

### 1.1 The parts and how they interact

| Part | State | Operations | Talks to |
| --- | --- | --- | --- |
| Governance pipeline (`governance/pipeline.go`) | configuration, audit counters; per call a `GovernanceDecision` | `Evaluate`, `publishAudit`, `Degraded` | trust backend, interceptors, policy evaluator, escalation handler, auditor |
| Standalone trust backend (`trust_beta.go`) | per agent alpha, beta, circuit state | `CheckAgentState`, `RecordDecision`, `ResetAgentTrust`, `TerminateAgent` | called by `Evaluate` (lookup first, update in a deferred function) and by operators |
| Redis trust backend (`trust_redis.go`) | two Redis keys per agent | the same interface, one or two store commands each | Redis, shared with an external evaluator |
| Audit delivery accounting (`pipeline.go`) | ticket counter, failure count, two high-water marks (atomics) | `publishAudit`, `storeMaxInt64`, `Degraded` | auditor; health endpoints read it |
| Kernel escalation bridge (`kernel/escalation.go`) | waiter map, subscription, closed flag | `Escalate`, `dispatch`, `Close` | message bus, callbacks, the pipeline that waits |
| Static policy matching (`policy.go`) | compiled-pattern cache | `matchesRequest`, `matches`, `compiledMatchRegex` | stage 2 of `Evaluate` |
| Rate limiter (`interceptors/ratelimit.go`) | token bucket per key | `allow`, interceptors built on it | stage 3 of `Evaluate` |
| Policy evaluator (`policyeval/`) | policy set, fail-closed flag | `UpdatePolicies(Strict)`, `Evaluate` | stage 4 of `Evaluate`; operators replace the set |
| Command boundary (`internal/commandboundary`) | none while classifying | classify a line, execute, shims | hook, CLI |
| Hook boundary (`internal/hookboundary`) | record files, decision log, session summaries | `Decide`, `Sink.Write`, `SessionEnd`, `Doctor` | the host, which starts one process per tool call |
| Edit boundary (`internal/editboundary`) | files of a project, decision record log | inspect, apply | CLI, hook; asks the pipeline |
| Firewall (`internal/firewall`) | client configurations, backups, receipts, descriptor lock, policy files; record streams | scan, ingest, install, uninstall, lock, verify-lock, policies, dashboard | one process per command; the operator edits the same files |
| Request adapters (`adapters/mcp`, `a2a`, `grpc`, `webhook`, `cli`, `governance/http.go`) | one request per handler | parse, evaluate, forward, inspect, answer | pipeline, upstream |
| Secure GitHub (`adapters/securegithub`) | sessions (bound repository, taint), two evidence files | `GovernToolCall`, MCP route | pipeline, GitHub or an MCP upstream |
| Code execution (`adapters/codeexec`) | a container and a cid file per execution | govern, run, time out, clean up | pipeline, docker or podman |
| Managed agents (`adapters/managedagents`) | thread tracker with budgets and trust | follow a stream, evaluate, reserve, confirm | pipeline, the agents service |
| Decision records (`governance/receipt*.go`, `record_decode.go`) and replay | files | build, sign, `verify-record`, `replay` | written by the pipeline, read by anyone |
| Witnessed bundles (`verify-witnessed`) | a directory of six files | verify | log service and witnesses (external) |
| Evidence bundles (`internal/evidence`) | a directory with a manifest | bundle, verify | outputs of the other commands |
| CLI, demo, `boundary doctor`, red team, self test | none of their own | sequential tools | everything above |

`Evaluate` is the centre: it looks trust up, runs static rules, interceptors and
the policy evaluator in that order, hands an escalation to the handler, and in a
deferred function folds its outcome into the trust backend, emits the audit
event and applies dry-run. Nothing in `Evaluate` is locked across stages, so
calls of one agent overlap freely, and operators change trust at any time.

### 1.2 What is hard here, and what must hold

* Overlap of calls and operators between a lookup and the update that depends on
  it (pipeline, Redis backend): blocked agents stay blocked, verdicts reached on
  stale trust do not stand.
* Faults of any check after others have allowed: the call fails closed, the
  fault is on the record, and it does not count against the agent.
* Several stages that may only raise a verdict: no stage loses an earlier one.
* Lock-free accounting read in two loads (audit delivery).
* A lazily created subscription racing `Close`; duplicated, late and reordered
  resolutions; a timeout racing an answer (escalation).
* A cache whose entries are counted under a mutex and stored after it; refill
  arithmetic on whole tokens (request guards).
* A policy set replaced during an evaluation, an unstable sort, rules that fault
  (policy evaluator).
* One process per tool call, killed at will, sharing a record directory: a
  decision that is acted on is on disk first; a torn or merged log line is never
  missing in silence; nesting past a cap never hides a command (hook, command).
* A patch of several files under one decision, applied file by file without a
  lock, failing or killed half way (edit boundary).
* Install, uninstall, lock and the operator's editor on one configuration file,
  four writes per install, each of which may be the last (firewall).
* A record stream whose lines come back sorted, filtered or mixed (ingest).
* Batches, notifications and listings through one pipeline; an upstream that acts
  and never answers (request adapters).
* A taint that must beat the write that overlaps it, and evidence that must beat
  the answer (Secure GitHub).
* A command line killed at the deadline while its container lives on; retries with
  one request id (code execution). One budget, many streams (managed agents).
* Files that travel: readers that disagree on one JSON text, bundles assembled from
  parts of others, bundlings cut off or run twice (records and bundles).

`PROJECT.json` lists each of these as a hazard at its line, with the properties
that would catch it going wrong.

## 2. Modules

| Module | Models | Kind |
| --- | --- | --- |
| `TrustModel` | Beta model, thresholds, circuit states of the standalone backend | operators |
| `CircuitBreaker` | what the breaker promises, without weights, stages or audit | abstract specification |
| `Pipeline` | `Evaluate`, one action per stage, with the standalone backend and operators | composes `TrustModel`; refines `CircuitBreaker` |
| `AuditDelivery` | audit tickets, failure count, marks, `Degraded` | state machine, one action per atomic operation |
| `Escalation` | `AwaitingEscalationHandler` and its message bus | state machine |
| `RedisTrust` | Redis backend, one action per store command | state machine |
| `RequestGuards` | static matcher, pattern cache, rate limiter | state machine |
| `PolicyEval` | policy evaluator and set replacement | state machine over pure operators |
| `CallGuards` | `RequestGuards` and `PolicyEval`, side by side | composition |
| `CommandLine` | the line classifier of the command boundary | operators (recursive) |
| `HookBoundary` | hook processes, sink, session summary | state machine, one action per file operation |
| `HookDoctor` | `boundary hook doctor` on an installation in use | state machine over pure operators |
| `MCHookBoundary` | composes `HookBoundary` with `CommandLine` over a catalogue of lines | model checking |
| `EditBoundary` | `boundary edit apply`: classification, decision, applier, record | state machine over pure operators |
| `Boundaries` | `HookBoundary` and `EditBoundary`, side by side | composition |
| `Inventory` | scan, classification, risk paths, record stream, ingest | state machine over pure operators |
| `Firewall` | install, uninstall, lock, verify-lock, policies, dashboard | state machine, one action per file operation; extends `Inventory` |
| `Gateway` | MCP, A2A, gRPC, webhook, HTTP and CLI handlers | state machine; uses `TrustModel` for the trust they share |
| `SecureGithub` | the adapter call and the MCP route | state machine |
| `CodeSandbox` | execution, container, cleanup | state machine |
| `ManagedAgents` | session proxies and the thread tracker | state machine |
| `Adapters` | a deployment of any one of the four | composition |
| `RecordCodec` | building, hashing, signing, decoding and verifying a record | operators |
| `Receipts` | the life of a record, `verify-record` and `replay` | state machine |
| `Witnessed` | log, witnesses, export, edits, `verify-witnessed` | state machine over pure operators |
| `EvidenceBundle` | bundling and verification of a directory | state machine, one action per file operation of either (a bundling hashes a file in the step that registers it) |
| `Verification` | the three kinds of artifact, and an installation, side by side | composition |
| `*Proofs` | theorems about the module named; `PolicyProofs` about `PolicyEval` and `RequestGuards`, `AdaptersProofs` about the four adapters, `FirewallProofs` about `Firewall` and `Inventory`, `ServicesProofs` about `AuditDelivery`, `RedisTrust` and `Escalation`, `VerificationProofs` about `Receipts`, `Witnessed`, `EvidenceBundle` and `HookDoctor` | proofs |
| `MC*` | inputs and symmetry for TLC | model checking |

Correspondence with the code, beyond the names (definitions keep the source's
names where TLA+ allows it; `PROJECT.json` "map" gives the lines of each):

* **Pipeline.** `ev[e]` is one call: its program counter is the stage, `ev[e].d`
  the `GovernanceDecision`. `Begin`, `CheckTrust`, `StaticRules`,
  `RunInterceptor`, `EvaluatePolicy`, `ResolveEscalation`, `UpdateTrust`,
  `EmitAudit`, `Return` follow the source top to bottom; the last three are the
  deferred function in its order. Answers of interceptors, evaluator and handler
  are inputs drawn from constants, faults, panics and unknown actions included.
  Reasons are reduced to whether they name a blocked state, which is what
  `TrustOutcomeFromDecision` looks for. Trust weights are integers in half
  units; `ScoreBelow` compares by cross multiplication, so no rounding is lost.
* **AuditDelivery.** A ticket is drawn, delivered, counted and marked in separate
  steps; the compare-and-swap loop is a load and a swap that may be lost.
* **Escalation.** `once.Do`, the subscription, registration, publication, the
  wait and deregistration are separate steps; the publication is out (`Publish`) before
  the call that makes it returns (`PublishReturns`), so an answer can come in between.
  `Receive`, `Lookup`, `Send` are the callback. The bus may duplicate, delay and reorder. The publisher and the
  subscriber are external.
* **RedisTrust.** A GET, SET or DEL is one step and may fail. The external writer
  and key expiry are external actions.
* **RequestGuards.** Text comparison is an input; which data is missing and which
  pattern does not compile is not. Time is a clock of whole ticks.
* **PolicyEval.** A condition keeps its type and operator, whether its field resolves,
  whether its operand is usable or its list is empty, and whether the comparison holds. Logical conditions nest
  one level. The loop over policies is one action per policy, so updates
  interleave with it; the loops over rules, conditions and actions read only the
  snapshot and are folds.
* **CommandLine.** A line is the tree the scanner makes of it: simple commands,
  substitutions, subshells, payloads of `sh -c`, argvs of `find -exec` and
  wrappers. What the scanner does not model is a flag and a list of commands the
  shell runs anyway. Command words stand for the groups the classifier treats
  alike. `Outcome` pairs the verdict with the strictest class of everything the
  line runs without any cap (`truth`), which is what the properties compare with. A
  command word is spelled bare, by a system path or by another path; the hook's path
  follows bare names only, and so does `truth`. `Classify` is the argv path of
  `command run`, and an outcome of a lone command carries its verdict too.
* **HookBoundary.** A hook is a process with a program counter over the file
  operations of `Sink.Write`; each may fail before, during or after its effect.
  The log is a sequence of fragments, so that short and merged lines exist. The
  host's kill is external.
* **HookDoctor.** `ReadSettings` (one scope a step), `readPluginHookManifests`,
  `readManagedSettings`, `ScanRouted`, `Grade`, `InspectDirectory`, the three steps
  of the probe and `Report` are `Doctor` in its order. A settings file is its state
  and its hooks; a hook keeps whether its command is recognised and what its matcher
  covers. A scope or a plugin root whose directory did not resolve is not looked for.
  What the host runs (`Running`), edits (`EditSettings`, `TogglePlugins`,
  `TogglePolicy`), appended lines and the clock are external. `seen` is history: the installations there were while the doctor read.
* **EditBoundary.** A process per invocation; `PrepareChange` is everything up to
  the write of one file (checks, read, hunks), `WriteChange` is `os.WriteFile`,
  which may also leave the old file or a cut one. A file is its lines. The record
  log is a set of records; torn lines are modelled in `HookBoundary` only. `LeadsTo`
  says where a path's symbolic links end: the path is judged, its `Target` read and
  written.
* **Inventory, Firewall.** A configuration maps slots (table and name) to server
  entries; an entry keeps its route, the keyword families its text mentions and its
  tools. A hash is the bytes it was taken of. `InstallRead`, `WriteBackup`,
  `WritePending`, `RewriteConfig`, `FinalizeReceipt` are the writes of
  `InstallConfig` in order; a write is a rename, so it happens or does not, and
  `Crash` ends a process between two of them. A record stream is a set of records
  whose order `IngestLine` chooses, one line at a time, as it folds them into the builder.
* **Gateway.** `serve[h]` is one handler: `Receive`, `Evaluate`, `Send`, `Reply`
  or `UpstreamFails` or `Timeout`, `FilterTool`, `Answer`; `NextSegment` is a pipeline's
  next command, `FollowRedirect` the second post an http.Client makes for a 307 or 308. The routes differ in what
  they reject (`*Misshapen`) and in what follows the verdict (`*After`). `Evaluate`
  is one step with its audit event and trust update; its inner interleavings are
  `Pipeline`'s. The upstream is external.
* **SecureGithub.** Arrival with binding and the read of the taint, verdict,
  upstream call, taint and evidence are separate steps; `stale` is history: whether
  untrusted content had been handed out before the call arrived. A read of the route
  keeps whether the upstream's answer was a tool result.
* **CodeSandbox.** The command line and the container are two actors: the container
  may come up after the command line was killed. The runtime is external.
* **ManagedAgents.** A proxy walks its stream event by event; the tracker's methods
  are single steps, as they hold its mutex.
* **RecordCodec, Receipts.** A file is a sequence of members, so a name can occur
  twice or in another case; `Content(file, reader)` is what the reader that keeps the
  first, or the last, occurrence sees. The digest is the content it was computed of,
  a signature a pair of key and digest. `EditMember`, `AddMember`, `EditBytes` and
  `EditSeals` are what may happen to a record on its way, one kind of edit each.
* **Witnessed.** A root is the sequence of its leaves and an audit path that sequence
  without one of them. What happens to a bundle on its way are actions of their own: files
  of another export, `ChangeDecisions`, `ChangeProof`, `ChangeHead`,
  `ChangeCosignatures`, `LoseFile`, re-registered hashes, a head signed with a key of
  one's own (`ForgedHead`).
* **EvidenceBundle.** `SkipSource` (a source that is no regular file),
  `WriteArtifact`, `RegisterArtifact`, `WriteSummary`, `RegisterSummary`,
  `TruncateManifest`, `FlushManifest` with kills, a second bundling and changes of the
  files in between; `ReadManifest`, `StatArtifact`, `RehashArtifact`,
  `verifyJSONSchema`, `parseRecordArtifact`, `ReadSummary` are one verification, which
  opens each artifact anew for each check, while bundlings and changes go on. `still` is
  history: nothing has changed since the manifest was read.

## 3. What TLC checks

Every configuration states its bounds. `tlc -config X.cfg M` runs it.

| Run | Question | Bounds and why they are enough |
| --- | --- | --- |
| `pipeline_stages` | For one call, can any combination of configuration, stage answer, fault and panic fail open, lose a verdict, misreport, misattribute or go unrecorded? | One call, every kind of answer of every stage: stages see one decision, so one call at a time reaches every combination |
| `pipeline_race` | Do overlapping calls and operators keep the breaker's promises? | Two calls of one agent, answers that move trust: a stale lookup needs one other call or operator action in the window |
| `audit_delivery` | Do lock-free marks decide by the latest delivery, and do publications end? | Three publishers and four tickets: a lost swap needs two, hiding a later failure a third |
| `escalation` | Is no resolution dropped while the held call it answers has an empty channel, does the first delivered decide, and does everything return and unsubscribe? | Two calls with one id, two answers, one `Close` |
| `redis_trust` | Does a block hold at the granularity of store commands? | Two evaluations, two operators, a fault at any command, one external write, one expiry |
| `call_guards` | Is what a key is admitted bounded by burst plus refills, does a malformed deny pattern never let a request pass, however the cache is filled and evicted; is the strictest verdict of one set returned, and is no skip silent? | Cache of two with three patterns, two goroutines; buckets of one and two tokens over four ticks. A catalogue that has every condition outcome and action pair, up to three policies, two updates. The two share no state, so a behaviour exercises one of them |
| `boundaries` | Is a hook's decision on disk before it is acted on, does the answer cover everything a nested line runs, is no record missing in silence; does one edit decision cover every file of a patch, and is its record true? | Two hooks and a session end, two record names (a collision needs two), chains of five nestings (the caps are three levels and four wrappers), every operation may fail. Two overlapping appliers, patches of up to two files with every operation and every class but E3 (treated as E2 and E6 are), one path a link, two policies, every operation may fail. The two keep separate records, so a behaviour exercises one of them |
| `hook_paths` (violation) | Does the line path judge a lone command no more softly than the argv path? | One call over the catalogue, in which programs are also spelled by a system path |
| `edit_links` (violation) | Is what a patch writes never out of scope? | Two appliers that nothing disturbs, one path a link out of scope |
| `firewall` | Is the way back from an install kept, does a clean verification mean nothing changed, and does an ingest keep the risks of the scan? | Three commands of nine workloads with two edits, failing writes and kills: a lost way back needs an install, a fault and one more command. Scans of eight directories, one line lost, garbled or mixed in, every order of the lines |
| `adapters` | Do audit, upstream and answer agree, does taint beat the write, evidence the answer, cleanup its own container only, and does the budget hold? | Two handlers (two requests of one agent race on its trust), batches of two, one redirect of a post (`MaxPosts` = 2, where an http.Client gives up after ten: a second redirect adds nothing a first does not), three GitHub calls of two sessions (read, overlapping write, later write), two executions of one request id, two streams of three events |
| `verification` | Does a passing verification mean what it says, for a record, a witnessed bundle and an evidence bundle, and is the hook doctor's conclusion so? | Two records and two edits (a repeated member needs one, a consistent repair a second); two exports, two changes, one cosigned head (mixing needs two exports); two bundlings of one directory and one change of a file, before or during the verification; twenty-one machines, one of them with a project directory that does not resolve, edited once or twice while a doctor reads, one log line, a clock that passes both thresholds, and a second doctor on the record directories (a blocked probe needs two) |

Each property of a passing run has a mutant of the model, a plausible slip in the
code, that breaks it. `hook_paths` and `edit_links` end in a violation: they check what a
document or a comment says against what the code does (section 5, and "findings" of
`PROJECT.json`).

**Fairness.** `AuditDelivery`, `Escalation` and `Gateway` are checked
under weak fairness of the steps a goroutine takes on its own: the Go scheduler runs
every runnable goroutine, and the escalation wait and the MCP forwarder have timers
that fire. `GatewayAnswers` speaks of the MCP route
only, as the webhook's client has no timeout. No fairness is assumed of operators, callers, the bus or the
reviewer: a resolution may never come, and `Escalate` still returns.

**Deadlock** is not checked in any run: the bounded number of requests ends every
behaviour in a state where nothing is left to do. That publications, escalations and
gateway requests end is what the liveness properties state; no step of `Evaluate` waits
for another call, so its return is not stated as a property of its own.

## 4. What is proved

`tlapm` checks every proof. The theorems hold for every value of the constants
that satisfies the named assumptions.

| Theorem | Statement | Argument |
| --- | --- | --- |
| `PipelineTypeCorrect` | `TypeOK` | each stage keeps decisions in their type; a lemma per helper (`AdoptStricter`, `MarkCheckFailure`, ...) |
| `PipelineFailsClosed`, `PipelineRecordsFailedChecks`, `PipelineHonestPosture` | `FailClosed`, `FailedCheckRecorded`, `HonestPosture` | inductive invariant: from the moment a consulted check fails until the return, the decision is blocked (or the transport is not enforcing, or it is a dry run) and carries the failure; needed because the properties speak of finished calls only |
| `PipelineIsolation` | `IsolatedNeverAllowed` | the update and the override of the verdict are one step, and no later step turns a block of an enforcing pipeline into an allow |
| `PipelineStrictestKept`, `PipelineAuditHonest` | `MostRestrictiveWins`, `AuditHonest` | second inductive invariant, over the first: from stage to stage the decision is at least as strict as the floor of what was consulted; the log holds no decision event before `EmitAudit` and one after it, and only the dry-run conversion comes later |
| `PipelineOutcomesMoveTrust` | `OnlyOutcomesMoveTrust` | an action property, from the bounds on one outcome's weight |
| `PipelineRefinesBreaker` | `BreakerRefinement` | the mapped initial state is the abstract one; every action maps to an abstract step of one agent or a stutter, with the case split of `RecordDecision` on the old state |
| `DeliveryLatestDecides`, `DeliveryMarksMonotone`, `DeliveryOutageReal` | `LatestDeliveryDecides`, `MarksMonotone`, `DegradedReportHonest` | each mark is the maximum of the accounted tickets of its kind; a pending swap holds a ticket not above what it loaded or still has to store it |
| `RedisBlockHolds` | `BlockHoldsUnlessRaced` | a writer that read before the block is marked as racing; every other writer's snapshot agrees with the key |
| `PolicyStrictestWins`, `PolicyStrictExact`, `PolicyDenyAttributed` | `StrictestPolicyWins`, `StrictExact`, `DenyAttributed` | loop invariant: after n policies the action is the strictest verdict among the applicable ones of the first n; the flag and the installed set agree at every lock release |
| `PolicyNoSilentSkip` | `NoSilentSkip` | no fault counted so far means none of the applicable policies judged so far had one; a fold over rules and one over actions that met no fault is the fold with every fault taken as a match |
| `GuardsRateBounded` | `RateBounded` | a bucket is paid: for every instant, the tokens left and the requests admitted since are at most the burst plus the refills since, and no request was admitted an interval or more after the last refill (so a refill never pays a second time for the fraction of an interval that was kept) |
| `GuardsMalformedClosed` | `MalformedFailsClosed` | only patterns that compiled are in the cache or on their way into it |
| `HookRecordedBeforeActed` | `RecordedBeforeActed` | a hook past its O_EXCL create owns the file under its name: no other hook can create, fill or remove it; the file is whole once filled and the line is in the log once the sink returned without error |
| `EditEachChangePermitted`, `EditProtectedFilesKept` | `EachChangePermitted`, `ProtectedFilesKept` | an invocation in its applier, or with a touched file, was allowed on its highest class; ranks and monotone policies carry that down to each file (`AllowedCovers`), such a change deletes nothing and names no protected path (`HarmlessClass`), so what it writes is where the links of an unprotected path end, and what waits to be written is a file |
| `HookAnswerKeepsVerdict` | `AnswerKeepsVerdict`, the first conjunct of `AnswerCoversCall` | from the decision on a process holds an outcome; the answer follows its verdict, and every failing sink step escalates it |
| `HookSummaryNeverSilent` | `SummaryNeverSilent` | the scan position is at a line end, and what was counted and what is left in the unread lines partition the records; a record in a line that cannot be read makes the unreadable count positive. Line ends are found with the least element of a set of positions |
| `EditRecordTruthful` | `RecordTruthful` | a process owns at most one record, written by its last step; in the applier the touched files are those before the current change |
| `EscalationWaiterIntact`, `EscalationFirstWins`, `EscalationNeverMissed` | `WaiterIntact`, `FirstResolutionWins`, `NeverMissed` | tickets are never given twice, an id's entry is that of the one caller between registration and deregistration, a channel holds the first message sent to its ticket. From that invariant the last theorem, an action property: a callback that is through with a resolution either delivered it, found the channel full, or found no waiter, and a held call's waiter is there |
| `GithubNoWriteAfterTaint`, `GithubEvidenceBeforeAnswer` | `NoWriteAfterTaint`, `EvidenceBeforeAnswer` | a call the adapter let through is bound to its session's repository and is no protected write after a taint, a binding and a taint last, and the route taints before it writes its evidence and writes it before it hands a tool result over |
| `SandboxEachItsOwn` | `EachItsOwnContainer` | container names of different executions differ; the container and its cid file follow from the stage of the command line |
| `GatewayForwardsAsAnswered`, `GatewayAccounts` | `ForwardedExactlyAsAnswered`, `EveryMessageAccounted` | per handler: messages before the current one are settled, those after it unsent, and what went out of the current one are its first transmissions in order; the journal only grows, so a decision once published stays |
| `AgentsBudgetHolds` | `BudgetHolds` | the root thread's use is at least the cost of the allowed confirmations plus that of reservations not sent yet; costs are counted as sets of units, so adding a confirmation is adding a disjoint set |
| `FirewallKeepsWayBack`, `FirewallOkMeansUnchanged` | `WayBackKept`, `OkMeansUnchanged` | `FwInv`: every receipt's original is saved under its hash; every entry of the configuration, of what a receipt would restore and of what a process is about to write is direct or names a receipt on disk; a process that backed up or wrote its pending receipt still finds them. Needed because a restore brings back entries of an earlier moment. `WayInv` on top of it: whatever is routed somewhere was unrouted in some backup, and a receipt no forced and no second install writes holds bytes in which its servers are unrouted, since an install refuses what is routed already |
| `IngestKeepsScannedRisk` | `IngestKeepsRisk` | `IvInv`: every record of the stream is still to come, in the file, lost, or told to the builder, which never forgets a capability or lowers a risk; the risk the scan gave a server is that of its capabilities (`highestRisk` over a larger set is not lower), and a complete ingest has no line left |
| `VerifiedRecordsAreEmitted` | `VerifiedMeansEmitted` | `RcInv`: what is emitted reads the same to every reader, and a file's signature is one the pipeline made or of another key; then a valid signature over a digest that fits the content is that of an emitted record |
| `AcceptedBundlesAreBound` | `WitnessedBinding` | `WtInv`: tree heads are prefixes of the logs and cosignatures are of them; a bundle, however changed, carries a signature that was made, or one of a foreign key, on its head; a path that leads to the root of a made head has its leaf in the log at its place |
| `EvidencePassesWholeBundles` | `EvidencePassMeansBundled` | `EvInv`: a bundling has registered exactly what comes before its place in the plan, and a whole manifest is that of a finished bundling. `VrfInv`: the verification holds the artifacts of a finished bundling, what it has hashed so far is what they register, and as long as nothing changed those files are that still. Needed because files are read one after the other while others write |
| `DoctorReportsAreHonest` | `DoctorHonest` | `HdInv`: what a doctor has read of an installation edited once is, file by file, that of the machine before or after the edit; what it graded is so of one of the two |

Assumptions, each an `ASSUME` that TLC evaluates on every run of its module: weights and
thresholds of the trust model are natural numbers and its unit is positive
(`trust_config.go` validates no order among the thresholds, and none is assumed); bounds
on counters (`PipelineBounds`, `DeliveryBounds`, `EscalationBounds`, `RedisBounds`) are
natural numbers and `PostsAssumption` says the same of `MaxPosts`, which is at least
one; `InputsAssumption`, `FaultsAssumption` and `NoAgentAssumption` of `Pipeline` say
what kind of value a stage's answer, a fault and an agent is; `PolicyAssumption` and
`PolicyShape` of `PolicyEval` (sets are sequences of policies, rules, conditions and
actions are sequences, a terminal flag is a Boolean); `PatchAssumption` (patches are
sequences of changes, a link leads to a path) and `PolicyAssumption` of `EditBoundary`
(pipelines that let through every class ranked below one they let through);
`OutcomeAssumption` of `HookBoundary`; `StartsAssumption`, `EditsAssumption` and
`WorkloadAssumption` of `Firewall` (nothing is routed through Boundary before the first
install, and an operator's edit does not route anything by hand); `ScanDirsAssumption`
and `ForeignAssumption` of `Inventory` (candidates are a list, declared tools have
names, a foreign line says what it is); `LogAssumption` of `Witnessed`,
`FilesAssumption` of `EvidenceBundle` (logs and plans are sequences);
`ThresholdAssumption` and `InstallationsAssumption` of `HookDoctor` (the evidence window
is not longer than the dormancy threshold, as the constants in `doctor.go` have it; what
a settings file, a plugin and a machine are; only a file that parses wires hooks);
`GuardsAssumption` (limits and windows are integers, malformed patterns are patterns);
`TrafficAssumption`, `ListingsAssumption`, `GhTrafficAssumption` and `StreamsAssumption`
of the adapters, which say what kind of value a request, a listing, a call and an event
is.

One theorem has hypotheses of its own. `PipelineRefinesBreaker` needs `GradualWeights`
(no single outcome takes an agent from TRUSTED past EVALUATING; `MCPipeline` assumes it
of the standalone defaults, so TLC evaluates it) and `LookupsBlock` (lookups cannot
fail, as those of the in-process backend cannot, or every transport blocks on a failed
check). A heavier failure weight isolates a trusted agent at once, and after a failed
lookup on a transport that does not enforce, a countable deny of a call that was never
admitted feeds trust.

**Induction over data.** What the proofs need of it is done by hand: a set of
naturals that is not empty has a least element (`LeastIn`, from the well-foundedness
of `<`), and a recursive function on naturals is unfolded through the sequence of its
values, for which the least index with a wrong value is a contradiction.

**Only model-checked:** liveness (`TicketsSettle`, `BridgeQuiesces`, `GatewayAnswers`),
out of the prover's reach as it needs ENABLED; the second half of `AnswerCoversCall`, that
a line's outcome covers what the line runs, as the classifier is recursive over lines
(the proved first half, `AnswerKeepsVerdict`, is that the answer never falls behind the
outcome); and `PanicAccounted`. Every other property of a passing run is stated by a
theorem.

**Only proved:** `FailedCheckRecorded`, `HonestPosture`, `MarksMonotone`,
`StrictExact` and `ProtectedFilesKept`, which no run repeats.

## 5. Observations

Two disagreements with the documentation are runs of their own:

* `hook_paths`: programs that run others are recognised by their bare names on the
  hook's line path. `/usr/bin/find . -exec rm -rf {} +`, `/bin/sh -c ...` and
  `/usr/bin/sudo rm ...` are neither followed nor called undecomposable, while the argv
  path of `command run` takes system paths for their base names in two of the three
  cases (it follows no `sh -c` payload, being given an argv). `AnswerCoversCall`
  therefore speaks of what a line runs through programs named without a path.
* `edit_links`: the edit boundary judges a path as text, and the applier's reads and
  writes follow symbolic links. `EditProtectedFilesKept` therefore exempts a protected
  file that an unprotected path links to.

Behaviours met while modelling that differ from what one might expect and are
not runs of their own:

* The success of a call that passed its lookup before its agent was isolated is
  folded in afterwards and may lift the isolation (`CircuitBreaker` allows it:
  `admitted`).
* An evaluator answer outside the verdict vocabulary is a failed check and raises no
  verdict; neither does one of the escalation handler.
* A call in flight when its agent is terminated is returned as allowed, by a decision
  whose own `trust_state` is TERMINATED: the deferred update overrides an allow only
  for ISOLATED and EVALUATING. `docs/ADAPTIVE_TERMINATION.md` says "Deny all calls
  until a new identity or explicit reset is used".
* `Degraded` loads two marks one after the other and can report healthy although the
  marks said degraded throughout the call.
* With the Redis backend a termination that falls between the read and the write of
  a `RecordDecision` is overwritten (`BlockHoldsUnlessRaced` is what holds).
* The deferred trust update replaces the verdict without clearing `MatchedRule`.
* A static rule with `decision_mode: human_approved` puts that mode on a decision
  no human resolved (`AuditHonest` states what does hold).
* With an escalate standing, an evaluator result `require_approval` that also
  skipped a faulted rule is dropped instead of raising the verdict.
* Redis keys of a terminated agent expire after 24 hours; denied calls do not
  renew them.
* In one policy, a later rule that escalates replaces an earlier deny; between
  policies deny wins. `Negate` is ignored on logical conditions. An external call
  extracts its field from the request context first, so a field that names a key
  of the response faults.
* The evaluator ranks escalate above require_approval, the pipeline the reverse.
* For escalate, require_approval and warn, `MatchedPolicy` keeps the first policy
  that matched at all.
* Strict mode does not look at the type of a condition that is not logical, so it
  loads a rule with an unsupported condition type and skips it on every request,
  although `policyeval/decision.go` recommends it to reject "an unsupported type".
* `NATSAuditPublisher` drops the publish error. `InMemoryBudgetEnforcer` checks
  and spends in separate sections; the pipeline calls neither.
* A late resolution of a timed-out escalation decides a retried call with the same
  request id, and the retry's own resolution is then dropped at the full channel:
  `dispatch` correlates by id alone, while its comment says that a late message "finds no
  waiter and is dropped". `NeverMissed` states what holds.
* The sink: when the close fails after a full append, or the write is short, the
  log keeps a line of a verdict that the answer then escalates; when the write or
  close of the record file fails, that file stays. `sink.go` says "both artifacts
  are absent exactly as the contract says".
* **Hook doctor.** A doctor that is killed while it probes leaves its marker, and two
  at once meet in it: until the marker is deleted every doctor reports the evidence
  directory broken and exits 1, although the sink works. A registration through a
  plugin is graded ok on one routed record, without a look at which tools its matcher
  covers or at `allowManagedHooksOnly`. A policy file that cannot be read leaves the
  status ok. A plugin past the sixty-fourth manifest is reported as nothing wired. Two
  edits between the reads of the files (a hook removed, then a disabling policy
  lifted) make a clean report of an installation that never was. The comment on
  `hookSettingsScopes` says of a scope whose directory did not resolve that "the
  registration check reports the gap"; the check does so when neither directory
  resolved, and with one of the two it answers from the scopes it could search
  (the `HiddenSettings` disjunct of `DoctorHonest`).
* The edit applier ignores the line numbers of `@@`: a hunk goes to the first match
  in what the hunks before it left. A malformed patch ends without a record. A
  failure half way leaves the earlier files changed under `applied: false`, as the
  record then says. The applier's delete branch cannot be reached through the
  executor: a deletion is a hard-deny class.
* The executor asks the pipeline about the highest class only. With a policy that
  allows a class and refuses a lower one, a mixed patch would carry the lower one
  along; the default rules are monotone, and `PolicyAssumption` says so.
* **Firewall.** An install cut off before its last write leaves a "pending" receipt,
  which uninstall refuses although configuration and backup are intact. A forced
  reinstall, or two installs on one receipt path, may leave a receipt whose saved bytes
  have the server routed already; the unrouted bytes are then in an earlier backup only. With one
  server name in both tables `verify-lock` compares the entry of `servers` only, so a
  change of the other passes. Another scanner's `status: complete` completes a partial
  stream, and `record_counts` is never compared. An installed server without declared
  tools is classified "unknown". The starter policy for GitHub has no rule for
  `create_repository` and `fork_repository`. An edit between a command's read and its
  write is lost. A cut-off policy generation goes on only with `--force`.
* **Request adapters.** The filter of `tools/list` publishes an audit event for each
  listed tool and feeds trust: listing denied tools can isolate the agent that asked.
  A listing that does not parse is passed on unfiltered. Only the MCP gateway records
  what it could not parse. An A2A error response says "deny" in its
  governance metadata although the task was forwarded and may have run. The MCP
  forwarder and the webhook post with an http.Client, which posts the payload again for a
  307 or 308, while `forwarder.go` says "exactly once". The CLI adapter computes its concerns about stdin and drops them.
* **Secure GitHub.** `http.go` reports `upstream_called: false` after a GitHub call
  that failed. Source and sink classes come from the caller's arguments; writes to
  public sinks stay allowed after a taint. On the MCP route an answer that is no
  tool result is handed on without taint and without an event, and allowed reads leave no decision record.
* **Code execution.** An execution cancelled by its caller is answered as blocked
  although the code may have run. A container that comes up after the command line
  was killed and the cleanup ran stays. Exit codes 126 and 127 of the runtime count
  as results of the code. The sandbox policy refuses after the audit has said allow.
* **Managed agents.** Budget refusals also come after the audit's allow. Events
  without cost skip the check for a blocked thread, usage on a tool event is counted
  twice for its thread, and recorded usage is not charged to the session.
* **Records.** `record_id` and the key id of a signature are covered by neither hash
  nor signature. `replay` decodes leniently and ignores `decision_hash`, so it may
  match a record that `verify-record` rejects; a request file with additional members
  is the reverse. Renamed policy files keep `policy_bundle_hash`, but replay compares
  the file name.
* **Witnessed bundles.** The verifier does not check the signatures of the records,
  `tree_head_id` is unsigned, and missing witnesses are no failure.
* **Evidence bundles.** A source file with "decision" or "record" in its path that is
  not JSON makes a fresh bundle fail its own verification. The manifest itself is
  unprotected, and files it does not name go unnoticed. What a bundling registers of a
  file is what it finds there, so of two bundlings at once the manifest of one may
  register a file of the other and pass. A file may change after verify has hashed it.

## 6. Not modelled, and why

Byte-level encodings (canonical JSON, hash functions, key files, YAML), text
classifiers as such (SQL, the shell tokenizer, the code analyzers), HTTP and NATS
clients without state (kernel providers, live GitHub clients), the validators of proof
receipts, the re-implementations of the record checks in other languages, and the
tools that print reports (`boundary doctor`, demo, self test, red team, dashboards as text): they
have no interleavings, and what they compute is an input or an output of the models
above. `PROJECT.json` "components" gives the reason for each part.
