------------------------------ MODULE Inventory ------------------------------
(***************************************************************************)
(* The inventory half of the firewall (internal/firewall): a scan reads    *)
(* the candidate MCP configurations, classifies the servers it finds and   *)
(* writes a stream of records; an ingest reads such a stream, or           *)
(* the lines of another scanner, and rebuilds an inventory from it.        *)
(*                                                                         *)
(* Between the two the file is in the operator's hands: lines get sorted,  *)
(* filtered, damaged and mixed with those of other tools, so the ingest    *)
(* takes the lines in any order and any of them may be missing.            *)
(*                                                                         *)
(* A configuration maps the slots <<table, name>> to server entries        *)
(* [route, words, hidden, tools]: whether the entry starts its server      *)
(* directly or through Boundary, the keyword families its command, URL and *)
(* arguments mention, those only a secret-bearing part of the URL mentions *)
(* (which redaction takes out), and its declared tools.                    *)
(***************************************************************************)
EXTENDS Integers, FiniteSets, Sequences, SequencesExt, FiniteSetsExt

CONSTANTS
  Names,         \* server names
  NameWords,     \* [Names -> SUBSET Families]: the keywords in a name
  Candidates,    \* the paths a scan looks at, in order: [path, client, scope]
  ScanDirs,      \* the directories to start from: [paths -> what stat and read find]
  Foreign        \* lines of other scanners that may be mixed in, as sets of field groups

Families == {"github", "filesystem", "database", "messaging", "shell"}
Tables == {"mcpServers", "servers"}
Slots == Tables \X Names

NoEntry == [route |-> "none"]
Config(body) == [state |-> "config", body |-> body]
Unreadable == [state |-> "unreadable"]   \* a file that cannot be read, or is not JSON
NoFile == [state |-> "none"]             \* nothing there, or a directory

-----------------------------------------------------------------------------
(* Classification.                                                         *)

riskRank == [unknown |-> 0, R0 |-> 1, R1 |-> 2, W0 |-> 3, W1 |-> 4, W2 |-> 5]
RiskClasses == DOMAIN riskRank

Capability(name, category, class, source, sink, mutation) ==
  [name |-> name, category |-> category, class |-> class, source |-> source, sink |-> sink,
   mutation |-> mutation]

GitHubReads ==
  {"get_issue", "get_pull_request", "get_file_contents", "get_issue_comments",
   "get_pull_request_comments", "get_pull_request_diff", "get_pull_request_files", "list_issues",
   "list_pull_requests", "search_code", "search_issues", "search_repositories"}
GitHubComments ==
  {"add_issue_comment", "create_pending_pull_request_review", "dismiss_notification"}
GitHubCreates ==
  {"create_issue", "update_issue", "create_pull_request", "update_pull_request", "create_branch"}
GitHubWrites == {"create_or_update_file", "push_files", "update_pull_request_branch"}
GitHubMerges == {"merge_pull_request", "create_repository", "fork_repository"}

ClassifyTool(t) ==
  LET github(class, source, sink, mutation) ==
        Capability(t, "github", class, source, sink, mutation)
      agent(class, mutation) == github(class, "agent_generated", "private_repo", mutation)
  IN CASE t \in GitHubReads -> github("R0", "external_collaborator", "", "")
       [] t \in GitHubComments -> github("R1", "", "public_repo", "comment_write")
       [] t \in GitHubCreates -> agent("W0", "issue_or_pr_create")
       [] t \in GitHubWrites -> agent("W1", "private_repo_content_write")
       [] t \in GitHubMerges -> agent("W2", "merge_or_release")
       [] t \in {"read_file", "list_directory"} ->
            Capability(t, "filesystem", "R0", "local_file", "", "")
       [] t = "write_file" -> Capability(t, "filesystem", "W1", "", "local_filesystem", "file_write")
       [] t = "delete_file" ->
            Capability(t, "file_mutation", "W1", "", "filesystem_or_repository", "file_delete")
       [] t = "query" -> Capability(t, "database", "W1", "", "database", "database_query")
       [] OTHER -> Capability(t, "unknown", "unknown", "", "", "")

githubPreviewCapabilities ==
  {ClassifyTool(t) : t \in {"get_issue", "get_pull_request", "get_file_contents", "create_issue",
     "create_pull_request", "create_or_update_file", "push_files", "merge_pull_request"}}

\* With no declared tool, the first family mentioned anywhere decides.
ClassifyByFingerprint(words) ==
  IF "github" \in words THEN githubPreviewCapabilities
  ELSE IF "filesystem" \in words THEN
    {ClassifyTool("read_file"), ClassifyTool("write_file"),
     Capability("delete_file", "filesystem", "W1", "", "local_filesystem", "file_delete")}
  ELSE IF "database" \in words THEN {ClassifyTool("query")}
  ELSE IF "messaging" \in words THEN
    {Capability("send_message", "messaging", "W0", "", "external_publication", "message_send")}
  ELSE IF "shell" \in words THEN
    {Capability("run_command", "shell", "W2", "", "runtime", "command_execution")}
  ELSE {Capability("unknown", "unknown", "unknown", "", "", "")}

ClassifyServer(name, words, tools) ==
  IF tools # {} THEN {ClassifyTool(t) : t \in tools}
  ELSE ClassifyByFingerprint(NameWords[name] \cup words)

\* The class of highest rank; "unknown" ranks below every known class.
highestRisk(capabilities) ==
  LET classes == {"unknown"} \cup {c.class : c \in capabilities}
  IN CHOOSE class \in classes : \A other \in classes : riskRank[other] <= riskRank[class]

-----------------------------------------------------------------------------
(* The scan.                                                               *)

isGovernedRoute(entry) == entry.route # "direct"

ServerFields == {"path", "client", "table", "name", "words", "hidden", "tools", "governed",
                 "capabilities", "risk"}

Server(path, client, table, name, e) ==
  LET capabilities == ClassifyServer(name, e.words \cup e.hidden, e.tools)
  IN [path |-> path, client |-> client, table |-> table, name |-> name, words |-> e.words,
      hidden |-> e.hidden, tools |-> e.tools, governed |-> isGovernedRoute(e), capabilities |-> capabilities,
      risk |-> highestRisk(capabilities)]

\* Both tables are read; a name in both gives two servers.
parseConfig(path, client, body) ==
  {Server(path, client, s[1], s[2], body[s]) : s \in {s \in DOMAIN body : body[s] # NoEntry}}

\* The candidates are a list, and a declared tool has a name: toolNames drops the blank ones.
ASSUME ScanDirsAssumption ==
  /\ Candidates \in Seq(ToSet(Candidates))
  /\ \A d \in ScanDirs : \A k \in DOMAIN Candidates :
       LET found == d[Candidates[k].path]
       IN found \in {NoFile, Unreadable}
          \/ \A s \in DOMAIN found.body : found.body[s] = NoEntry \/ "" \notin found.body[s].tools

\* A line of another scanner says what it is, and a server made of it has no capabilities yet.
ASSUME ForeignAssumption ==
  \A l \in Foreign :
    l.kind = "foreign" /\ DOMAIN l.server = ServerFields /\ l.server.capabilities = {}

EmptyInventory == [configs |-> {}, servers |-> {}, errors |-> 0]

ReadCandidate(inventory, candidate, found) ==
  CASE found = NoFile -> inventory
    [] found = Unreadable -> [inventory EXCEPT !.errors = @ + 1]
    [] OTHER ->
         LET servers == parseConfig(candidate.path, candidate.client, found.body)
         IN [inventory EXCEPT
               !.configs = @ \cup {[path |-> candidate.path, client |-> candidate.client,
                                    scope |-> candidate.scope, count |-> Cardinality(servers)]},
               !.servers = @ \cup servers]

summarize(servers) ==
  [servers |-> Cardinality(servers),
   high |-> Cardinality({s \in servers : s.risk \in {"W1", "W2"}}),
   github |-> Cardinality({s \in servers : "github" \in NameWords[s.name] \cup s.words}),
   unknown |-> Cardinality({s \in servers : s.risk = "unknown"})]

-----------------------------------------------------------------------------
(* The risk graph.                                                         *)

RiskPath(s, category, tool, source, sink, class) ==
  [server |-> s.name, client |-> s.client, path |-> s.path, table |-> s.table,
   category |-> category, tool |-> tool, source |-> source, sink |-> sink, class |-> class]

Or(value, default) == IF value = "" THEN default ELSE value

riskPathsForCapability(s, c) ==
  LET p(category, source, sink) == RiskPath(s, category, c.name, source, sink, c.class)
      generated == Or(c.source, "agent_output")
  IN {r \in {p("untrusted_input_to_private_data", c.source, "agent_context_before_private_tools"),
             p("external_sink", generated, c.sink),
             p("privileged_mutation", generated, Or(c.sink, "privileged_system")),
             p("destructive_db_action", "agent_sql", Or(c.sink, "database")),
             p("filesystem_exfil", c.source, "agent_context_or_external_sink"),
             p("repo_write_path", generated, c.sink)} :
        CASE r.category = "untrusted_input_to_private_data" -> c.source = "external_collaborator"
          [] r.category = "external_sink" -> c.sink = "external_publication"
          [] r.category = "privileged_mutation" -> c.class = "W2"
          [] r.category = "destructive_db_action" -> c.mutation = "database_query"
          [] r.category = "filesystem_exfil" -> c.category = "filesystem" /\ c.source = "local_file"
          [] r.category = "repo_write_path" -> c.sink = "private_repo"}

hasUnknownCapability(capabilities) == \E c \in capabilities : "unknown" \in {c.class, c.category}

\* One server both brings collaborators' text in and writes to private repositories.
readsThenWrites(capabilities) ==
  /\ \E c \in capabilities : c.category = "github" /\ c.source = "external_collaborator"
  /\ \E c \in capabilities : c.category = "github" /\ c.sink = "private_repo"

ServerRiskPaths(s) ==
  {RiskPath(s, "descriptor_change", "descriptor", "mcp_descriptor", "policy_projection", "W1")}
  \cup {r \in {RiskPath(s, "review_required", "unknown", "unclassified_mcp_server",
                        "operator_review", "unknown")} : hasUnknownCapability(s.capabilities)}
  \cup {r \in {RiskPath(s, "untrusted_input_to_private_repo_mutation", "github_read_to_write",
                        "external_collaborator", "private_repo", "W2")} :
          readsThenWrites(s.capabilities)}
  \cup UNION {riskPathsForCapability(s, c) : c \in s.capabilities}

DetectRiskPaths(servers) == UNION {ServerRiskPaths(s) : s \in servers}

StarterPolicies == <<"filesystem", "github", "postgres", "slack", "shell", "descriptor-integrity">>

templatesForRiskPath(r) ==
  CASE r.category = "descriptor_change" -> {"descriptor-integrity"}
    [] r.category = "destructive_db_action" -> {"postgres"}
    [] r.category = "external_sink" -> {"slack"}
    [] r.category = "filesystem_exfil" -> {"filesystem"}
    [] r.category \in {"repo_write_path", "untrusted_input_to_private_data",
                       "untrusted_input_to_private_repo_mutation"} -> {"github"}
    [] r.category = "privileged_mutation" ->
         IF "shell" \in NameWords[r.server] \/ r.tool = "run_command" THEN {"shell"} ELSE {"github"}
    [] OTHER -> {}

policyRecommendations(paths) ==
  {t \in ToSet(StarterPolicies) :
     t = "descriptor-integrity" \/ \E r \in paths : t \in templatesForRiskPath(r)}

-----------------------------------------------------------------------------
(* The record stream.  No reader looks at the numbers of the records, and  *)
(* the ingest takes them in any order: a stream is the set of its records, *)
(* each with its type, what it is written for and its body.  The last one  *)
(* counts every type, itself included.                                     *)

Record(type, of, body) == [type |-> type, of |-> of, body |-> body]

RecordTypes ==
  {"scan_start", "agent_client", "mcp_config", "descriptor_lock_status", "mcp_server",
   "tool_descriptor", "tool_capability", "install_status", "risk_path", "policy_recommendation",
   "scan_summary"}

CountsOf(records) == [type \in RecordTypes |-> Cardinality({r \in records : r.type = type})]

agentClients(configs) ==
  {[client |-> c.client, scope |-> c.scope,
    files |-> Cardinality({d \in configs : d.client = c.client /\ d.scope = c.scope})] :
     c \in configs}

KeyOf(s) == [path |-> s.path, client |-> s.client, name |-> s.name]

ServerRecords(s) ==
  {Record("mcp_server", s, s)}
  \cup {Record("tool_descriptor", s, [key |-> KeyOf(s), tool |-> t]) : t \in s.tools}
  \cup {Record("tool_capability", s, [key |-> KeyOf(s), capability |-> c]) : c \in s.capabilities}
  \cup {Record("install_status", s, [key |-> KeyOf(s), governed |-> s.governed, advice |-> TRUE])}

ConfigRecords(c) ==
  {Record("mcp_config", c, c), Record("descriptor_lock_status", c, [path |-> c.path])}

RecordsOf(type, things) == {Record(type, x, x) : x \in things}
RecordsOfConfigs(configs) == UNION {ConfigRecords(c) : c \in configs}
RecordsOfServers(servers) == UNION {ServerRecords(s) : s \in servers}

ScanBody(inventory, paths) ==
  {Record("scan_start", inventory, [servers |-> {}])}
  \cup RecordsOf("agent_client", agentClients(inventory.configs))
  \cup RecordsOfConfigs(inventory.configs)
  \cup RecordsOfServers(inventory.servers)
  \cup RecordsOf("risk_path", paths)
  \cup RecordsOf("policy_recommendation", {[template |-> t] : t \in policyRecommendations(paths)})

ScanRecords(inventory) ==
  LET paths == DetectRiskPaths(inventory.servers)
      body == ScanBody(inventory, paths)
      counts == [CountsOf(body) EXCEPT !["scan_summary"] = 1]
  IN body \cup {Record("scan_summary", inventory,
       [complete |-> inventory.errors = 0, summary |-> summarize(inventory.servers),
        paths |-> Cardinality(paths), counts |-> counts])}

\* What a partial snapshot's stream loses: the advice, and the numbers that counted it.
disableInstallRecommendations(records) ==
  LET kept == {r \in records : r.type # "policy_recommendation"}
      counts == CountsOf(kept)
  IN {CASE r.type = "install_status" -> [r EXCEPT !.body.advice = FALSE]
        [] r.type = "scan_summary" -> [r EXCEPT !.body.counts = counts]
        [] OTHER -> r : r \in kept}

-----------------------------------------------------------------------------
(* The ingest.  The builder keeps servers and configurations by their key. *)

EmptyBuilder == [configs |-> {}, servers |-> {}, warned |-> FALSE,
                 complete |-> FALSE, components |-> 0, findings |-> 0]

Known(b, key) == {s \in b.servers : KeyOf(s) = key}

\* A capability is the same one when its name, category and class are.
SameCapability(c, d) == c.name = d.name /\ c.category = d.category /\ c.class = d.class

appendCapability(capabilities, c) ==
  IF c.name = "" \/ \E d \in capabilities : SameCapability(c, d)
  THEN capabilities ELSE capabilities \cup {c}

\* One after the other; of several that are the same, one is kept.
appendCapabilities(capabilities, more) ==
  capabilities \cup
    {CHOOSE d \in more : SameCapability(c, d) :
       c \in {c \in more : c.name # "" /\ ~\E d \in capabilities : SameCapability(c, d)}}

Ranked(s) == [s EXCEPT !.risk = highestRisk(s.capabilities)]

\* Mutant: the first classification of a server stays.
mergeKeepingFirst(existing, next) ==
  Ranked([existing EXCEPT !.words = @ \cup next.words, !.tools = @ \cup next.tools])

mergeExternalServer(existing, next) ==
  Ranked([existing EXCEPT
    !.words = @ \cup next.words,
    !.tools = @ \cup next.tools,
    !.capabilities = appendCapabilities(@, next.capabilities)])

addServer(b, server) ==
  LET classified == IF server.capabilities # {} THEN server
                    ELSE [server EXCEPT !.capabilities =
                            ClassifyServer(server.name, server.words, server.tools)]
      known == Known(b, KeyOf(server))
      merged == {mergeExternalServer(e, Ranked(classified)) : e \in known}
  IN [b EXCEPT
        !.servers = (@ \ known) \cup (IF known = {} THEN {Ranked(classified)} ELSE merged),
        !.configs = IF \E c \in @ : c.path = server.path THEN @
                    ELSE @ \cup {[path |-> server.path, client |-> server.client,
                                  scope |-> "external"]}]

\* The last record of a path decides its client and scope.
addConfig(b, config) ==
  [b EXCEPT !.configs = {c \in @ : c.path # config.path}
                        \cup {[path |-> config.path, client |-> config.client,
                               scope |-> config.scope]}]

\* The server of a record's key as it stands, or a new one that nothing is known of.
serverFor(b, key) ==
  IF Known(b, key) # {} THEN CHOOSE s \in Known(b, key) : TRUE
  ELSE [path |-> key.path, client |-> key.client, table |-> "", name |-> key.name, words |-> {},
        hidden |-> {}, tools |-> {}, governed |-> FALSE, capabilities |-> {}, risk |-> "unknown"]

\* A server record carries no capabilities; the other types add to the server they name.
mapBoundaryRecord(b, r) ==
  CASE r.type = "mcp_config" -> addConfig(b, r.body)
    [] r.type = "mcp_server" ->
         addServer(b, [r.body EXCEPT !.capabilities = {}, !.hidden = {}, !.table = "", !.governed = FALSE])
    [] r.type = "tool_descriptor" ->
         LET s == serverFor(b, r.body.key)
         IN addServer(b, [s EXCEPT !.tools = @ \cup {r.body.tool}])
    [] r.type = "tool_capability" ->
         LET s == serverFor(b, r.body.key)
         IN addServer(b, [s EXCEPT !.capabilities = appendCapability(@, r.body.capability)])
    [] OTHER -> b

\* Another tool's line is what the first group of fields it has makes it.
mapGenericRecord(b, line) ==
  IF line.fields \cap {"server map", "server"} # {} THEN addServer(b, line.server)
  ELSE IF "finding" \in line.fields THEN [b EXCEPT !.findings = @ + 1]
  ELSE IF "component" \in line.fields THEN [b EXCEPT !.components = @ + 1]
  ELSE [b EXCEPT !.warned = TRUE]

\* One complete summary, of whichever scanner, makes the snapshot's status.
summaryStatus(b, line) ==
  CASE line.kind = "boundary" /\ line.record.type = "scan_summary" ->
         [b EXCEPT !.complete = @ \/ line.record.body.complete]
    [] line.kind = "foreign" /\ "summary" \in line.fields -> [b EXCEPT !.complete = TRUE]
    [] OTHER -> b

ReadLine(b0, source, line) ==
  LET b == summaryStatus(b0, line)
  IN CASE line.kind = "garbled" -> [b EXCEPT !.warned = TRUE]
       [] line.kind = "boundary" -> mapBoundaryRecord(b, line.record)
       [] OTHER -> IF source = "boundary" THEN [b EXCEPT !.warned = TRUE]
                   ELSE IF line.fields = {"summary"} THEN b
                   ELSE mapGenericRecord(b, line)

Snapshot(b, allowPartial) ==
  LET warnings == b.warned \/ ~b.complete
      complete == b.complete /\ ~warnings
      inventory == [servers |-> b.servers, errors |-> IF warnings THEN 1 ELSE 0,
                    configs |-> {[path |-> c.path, client |-> c.client, scope |-> c.scope,
                                  count |-> Cardinality({s \in b.servers : s.path = c.path})] :
                                   c \in b.configs}]
      enabled == complete \/ allowPartial
      records == ScanRecords(inventory)
  IN [complete |-> complete, enabled |-> enabled, inventory |-> inventory,
      records |-> IF enabled THEN records ELSE disableInstallRecommendations(records)]

-----------------------------------------------------------------------------
(* One scan, then one ingest of its stream.                                *)

VARIABLES
  dir,        \* what is at each candidate path
  inv,        \* the scan: [at, inventory], at the candidate it reads next
  stream,     \* the records of the scan, once it is over
  file,       \* the lines not read yet: the file the ingest is given
  mixed,      \* the fields of the other scanner's line mixed in, if any
  lost,       \* the lines of the stream that did not reach the file, or were garbled
  builder,    \* the ingest's builder
  ingest      \* its options and, at the end, its result

invVars == <<dir, inv, stream, file, mixed, lost, builder, ingest>>

NoIngest == [state |-> "none"]

InvInit ==
  /\ dir \in ScanDirs
  /\ inv = [at |-> 1, inventory |-> EmptyInventory]
  /\ stream = {}
  /\ file = {}
  /\ mixed = {}
  /\ lost = {}
  /\ builder = EmptyBuilder
  /\ ingest = NoIngest

\* A path that comes again is skipped.
Seen(i) == \E j \in 1..(i - 1) : Candidates[j].path = Candidates[i].path

Scan ==
  /\ stream = {} /\ ingest = NoIngest
  /\ inv.at <= Len(Candidates)
  /\ inv' = [at |-> inv.at + 1,
             inventory |-> IF Seen(inv.at) THEN inv.inventory
                           ELSE ReadCandidate(inv.inventory, Candidates[inv.at],
                                              dir[Candidates[inv.at].path])]
  /\ UNCHANGED <<dir, stream, file, mixed, lost, builder, ingest>>

BuildInventoryRecords ==
  /\ stream = {} /\ ingest = NoIngest
  /\ inv.at > Len(Candidates)
  /\ stream' = ScanRecords(inv.inventory)
  /\ file' = {[kind |-> "boundary", record |-> r] : r \in stream'}
  /\ UNCHANGED <<dir, inv, mixed, lost, builder, ingest>>

Matters(line) == line.kind = "boundary" /\ line.record.type \in
  {"mcp_config", "mcp_server", "tool_descriptor", "tool_capability", "scan_summary"}

\* What may happen to the file on its way: records are filtered out of it, or a line is
\* damaged, or another scanner's line is mixed in.
Untouched == stream # {} /\ ingest = NoIngest /\ lost = {} /\ mixed = {}

LoseLine ==
  /\ Untouched
  /\ \E types \in SUBSET {"mcp_server", "tool_descriptor", "tool_capability", "scan_summary"} :
       LET gone == {l \in file : l.kind = "boundary" /\ l.record.type \in types}
       IN gone # {} /\ file' = file \ gone /\ lost' = gone
  /\ UNCHANGED <<dir, inv, stream, mixed, builder, ingest>>

GarbleLine ==
  /\ Untouched
  /\ \E l \in file :
       /\ Matters(l)
       /\ file' = (file \ {l}) \cup {[kind |-> "garbled"]}
       /\ lost' = {l}
  /\ UNCHANGED <<dir, inv, stream, mixed, builder, ingest>>

MixIn ==
  /\ Untouched
  /\ \E l \in Foreign : file' = file \cup {l} /\ mixed' = l.fields
  /\ UNCHANGED <<dir, inv, stream, lost, builder, ingest>>

\* The lines no record type is mapped for change nothing whenever they are read.
StartIngest ==
  /\ stream # {} /\ ingest = NoIngest
  /\ \E source \in {"boundary", "generic"} : ingest' = [state |-> "reading", source |-> source]
  /\ file' = {l \in file : l.kind # "boundary" \/ Matters(l)}
  /\ UNCHANGED <<dir, inv, stream, mixed, lost, builder>>

IngestLine ==
  /\ ingest.state = "reading"
  /\ \E l \in file :
       /\ builder' = ReadLine(builder, ingest.source, l)
       /\ file' = file \ {l}
  /\ UNCHANGED <<dir, inv, stream, mixed, lost, ingest>>

FinishIngest ==
  /\ ingest.state = "reading"
  /\ file = {}
  /\ \E allowPartial \in BOOLEAN :
       ingest' = [state |-> "done", result |-> Snapshot(builder, allowPartial)]
  /\ UNCHANGED <<dir, inv, stream, file, mixed, lost, builder>>

InvNext ==
  \/ Scan \/ BuildInventoryRecords \/ LoseLine \/ GarbleLine \/ MixIn
  \/ StartIngest \/ IngestLine \/ FinishIngest

-----------------------------------------------------------------------------
(* Properties.                                                             *)

\* The records that still let the ingest classify a server as the scan did: those of its
\* capabilities or, when redaction took no keyword out of it, the server's own.
StillTold(s) ==
  \/ \A l \in lost : l.record.type # "tool_capability"
  \/ /\ s.tools # {} \/ s.hidden = {}
     /\ \A l \in lost : l.record.type # "mcp_server"

\* Classifying on partial knowledge never costs a risk: whatever the order in which the
\* records of a scan are read, and whichever of the redundant ones are missing, each
\* scanned server comes out with at least the risk the scan gave it (addServer,
\* mergeExternalServer).
IngestKeepsRisk ==
  ingest.state = "done" =>
    \A s \in inv.inventory.servers : StillTold(s) =>
      \E t \in ingest.result.inventory.servers :
        KeyOf(t) = KeyOf(s) /\ riskRank[t.risk] >= riskRank[s.risk]
=============================================================================
