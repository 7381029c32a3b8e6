----------------------------- MODULE MCFirewall ------------------------------
\* Three commands on one configuration with two names and a name in both tables, and
\* scans of directories with readable, missing and damaged configurations.
EXTENDS Firewall

Entry(words, hidden, tools) ==
  [route |-> "direct", words |-> words, hidden |-> hidden, tools |-> tools]

Pusher == Entry({}, {}, {"push_files"})
Base == Entry({"database"}, {}, {})
BaseOtherSecret == Entry({"database"}, {"database"}, {})
HiddenShell == Entry({}, {"shell"}, {})
Odd == Entry({}, {}, {"query", "odd"})

MCNameWords == [a |-> {}, b |-> {}]

First == <<"mcpServers", "a">>
Second == <<"mcpServers", "b">>
Twin == <<"servers", "a">>

Body(a, b, twin) ==
  [s \in {First, Second, Twin} |-> CASE s = First -> a [] s = Second -> b [] s = Twin -> twin]

MCCandidates ==
  <<[path |-> "p", client |-> "cursor", scope |-> "repo"],
    [path |-> "q", client |-> "vscode", scope |-> "repo"],
    [path |-> "p", client |-> "custom", scope |-> "explicit"]>>

MCScanDirs ==
  {[p |-> Config(Body(e[1], NoEntry, e[2])), q |-> other] :
     e \in {<<Pusher, Base>>, <<HiddenShell, NoEntry>>, <<Odd, NoEntry>>, <<Base, HiddenShell>>},
     other \in {NoFile, Unreadable}}

Sender ==
  [path |-> "q", client |-> "custom", table |-> "", name |-> "a", words |-> {"messaging"},
   hidden |-> {}, tools |-> {}, governed |-> FALSE, capabilities |-> {}, risk |-> "unknown"]

MCForeign ==
  {[kind |-> "foreign", fields |-> f, server |-> Sender] :
     f \in {{"summary"}, {"server"}, {"finding", "component"}, {"component"}, {}}}

MCStarts ==
  {Config(Body(Pusher, Base, NoEntry)), Config(Body(Base, NoEntry, Base)), Unreadable, NoFile}

MCEdits ==
  {[slot |-> First, entry |-> Base], [slot |-> First, entry |-> Pusher],
   [slot |-> Second, entry |-> BaseOtherSecret], [slot |-> Twin, entry |-> Pusher]}

Install(servers, force, dry, receipt) ==
  [op |-> "install", servers |-> servers, force |-> force, dry |-> dry, receipt |-> receipt]
Uninstall(force, dry) == [op |-> "uninstall", force |-> force, dry |-> dry]
Lock(servers, dry) == [op |-> "lock", servers |-> servers, dry |-> dry]
Verify(onChange) == [op |-> "verify", onChange |-> onChange]
Policies(force) == [op |-> "policies", force |-> force]
Report == [op |-> "dashboard"]

Work(x, y, z) == [c1 |-> x, c2 |-> y, c3 |-> z]

MCWorkloads ==
  {Work(Install({}, FALSE, FALSE, "default"), Install({"a"}, TRUE, FALSE, "default"),
        Uninstall(FALSE, FALSE)),
   Work(Install({"a"}, FALSE, FALSE, "shared"), Uninstall(FALSE, FALSE),
        Install({}, TRUE, FALSE, "shared")),
   Work(Install({"b"}, FALSE, FALSE, "default"), Uninstall(FALSE, FALSE), Uninstall(FALSE, FALSE)),
   Work(Install({}, FALSE, FALSE, "default"), Uninstall(TRUE, FALSE), Uninstall(FALSE, TRUE)),
   Work(Lock({}, FALSE), Install({"a"}, FALSE, FALSE, "default"), Verify("deny")),
   Work(Lock({"a"}, FALSE), Lock({}, TRUE), Verify("warn")),
   Work(Lock({}, FALSE), Install({}, FALSE, TRUE, "default"), Report),
   Work(Policies(FALSE), Policies(FALSE), Report),
   Work(Policies(TRUE), Policies(FALSE), Report)}
=============================================================================
