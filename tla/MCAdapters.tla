----------------------------- MODULE MCAdapters ------------------------------
\* Two requests at a time for each adapter, chosen from traffic with every shape of
\* message and every way an upstream, a file, a runtime or a stream can fail.
EXTENDS Adapters

CONSTANTS upstreamGone, nameless

Good(tool) == Message("ok", TRUE, tool, 1)
Notify(tool) == Message("ok", FALSE, tool, 1)
Chain == <<"text", "single", "pipe", "double", "single", "pipe", "text">>

Req(route, upstream, mode, body) ==
  [route |-> route, agent |-> "agent", upstream |-> upstream, mode |-> mode, body |-> body]

MCTraffic ==
  {Req("mcp", TRUE, "execution", b) :
     b \in {<<>>, <<Good("free")>>, <<Good("banned")>>, <<Good("tools/list")>>,
            <<Notify("banned"), Good("free")>>, <<Notify("free"), Good("free")>>,
            <<Message("garbled", FALSE, "", 1), Good("free")>>,
            <<Message("unversioned", FALSE, "", 1)>>, <<Message("badParams", FALSE, "", 1)>>}}
  \cup {Req("mcp", FALSE, "execution", <<Good("free")>>),
        Req("a2a", TRUE, "execution", <<Good("free")>>),
        Req("a2a", FALSE, "execution", <<Message("incomplete", TRUE, "", 1)>>),
        Req("grpc", TRUE, "execution", <<Good("banned")>>),
        Req("webhook", TRUE, "informational", <<Good("banned")>>),
        Req("webhook", FALSE, "execution", <<Good("free")>>),
        Req("http", TRUE, "execution", <<Message("garbled", TRUE, "", 1)>>),
        Req("http", TRUE, "execution", <<Good("asked")>>),
        Req("cli", TRUE, "execution", <<ParseCommand(Chain, "free")>>),
        Req("cli", TRUE, "execution", <<ParseCommand(<<"text", "pipe">>, "free")>>)}

MCListings == {<<"banned", nameless, "free">>, <<"banned", "banned">>, upstreamGone}

MCPolicyOf == [t \in {"free", "banned", "asked", "tools/list"} |->
                 CASE t = "banned" -> "deny" [] t = "asked" -> "warn" [] OTHER -> "allow"]

MCGhTraffic ==
  {[via |-> "adapter", session |-> s, tool |-> t[1], repo |-> t[2], source |-> t[3], sink |-> t[4]] :
     s \in {"s1"},
     t \in {<<"get_issue", "public", "", "">>, <<"get_file_contents", "own", "", "">>,
            <<"get_file_contents", "own", "public_resource", "">>,
            <<"push_files", "own", "", "">>, <<"merge_pull_request", "public", "", "">>,
            <<"create_issue", "public", "", "public_repo">>, <<"delete_repo", "own", "", "">>}}
  \cup
  {[via |-> "route", session |-> "r1", tool |-> t[1], repo |-> t[2], source |-> "", sink |-> ""] :
     t \in {<<"initialize", "own">>, <<"tools/list", "own">>, <<"issue_read", "public">>,
            <<"issue_read", "own">>, <<"create_or_update_file", "own">>, <<"push_files", "own">>}}

Code(parses, id, language, ops, verdict, runtime) ==
  [parses |-> parses, id |-> id, language |-> language, ops |-> ops,
   verdict |-> verdict, runtime |-> runtime]

MCCodeRequests ==
  {Code(TRUE, "r", "python", {"file_read"}, "allow", runtime) : runtime \in {"docker", "podman", "none"}}
  \cup {Code(TRUE, "r", "javascript", {"subprocess"}, "allow", "docker"),
        Code(TRUE, "r", "typescript", {}, "allow", "docker"),
        Code(TRUE, "q", "ruby", {}, "allow", "docker"),
        Code(TRUE, "q", "python", {}, "deny", "docker"),
        Code(FALSE, "q", "", {}, "deny", "docker")}

MCSandboxConfigs ==
  [type : {"container", "local"}, image : BOOLEAN, production : BOOLEAN,
   host : {"", "clean", "dirty"}, dest : {"", "clean", "root", "protected", "dirty"}]

Ev(type, thread, limit, usage, estimate, parses, verdict) ==
  [type |-> type, thread |-> thread, limit |-> limit, usage |-> usage,
   estimate |-> estimate, parses |-> parses, verdict |-> verdict]

Tool(thread, usage, estimate) == Ev("tool", thread, 0, usage, estimate, TRUE, "allow")

MCStreams ==
  {<<Ev("created", "sub", 2, 0, 0, TRUE, ""), Tool("sub", 0, 2), Tool("sub", 0, 2)>>,
   <<Ev("created", "root", 9, 0, 0, TRUE, ""), Tool("root", 0, 2), Tool("sub", 0, 2)>>,
   <<Tool("sub", 1, 0), Tool("root", 0, 0), Tool("other", 0, 2)>>,
   <<Ev("message", "root", 0, 1, 0, TRUE, ""), Ev("message", "root", 0, -1, 0, TRUE, ""),
     Ev("tool", "sub", 0, 0, 1, TRUE, "deny"), Ev("tool", "sub", 0, 0, 1, FALSE, "allow")>>}
=============================================================================
