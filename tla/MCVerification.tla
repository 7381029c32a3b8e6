---------------------------- MODULE MCVerification ----------------------------
\* Two recorded decisions, two tenants' logs with two witnesses, two bundlings, and a
\* catalogue of hook installations.
EXTENDS Verification

Event(action, mode, stage, route, request) ==
  [action |-> <<action>>, mode |-> <<mode>>, stage |-> stage, route |-> route, build |-> <<"build">>,
   request |-> <<request>>, policies |-> <<"d1", "d2">>]

MCDocuments == <<"d1", "d2", "d3", "d4">>

MCEvents == {Event("deny", "deterministic", <<>>, <<"cli:rm">>, "rm"),
             Event("allow", "deterministic", <<>>, <<>>, "ls")}

Policy(kind, doc) == [kind |-> kind, doc |-> doc]
Recorded == <<Policy("yaml", "d2"), Policy("yaml", "d1"), Policy("link", "d3")>>

Option(body, extra, policies, build, key) ==
  [request |-> [body |-> body, extra |-> extra], policies |-> policies, build |-> build, key |-> key]

MCOptions ==
  {Option("", FALSE, <<>>, <<>>, ""), Option("rm", FALSE, Recorded, <<"build">>, "boundary"),
   Option("rm", TRUE, Recorded, <<>>, "foreign"), Option("rm", FALSE, Recorded, <<>>, ""),
   Option("ls", FALSE, Append(Recorded, Policy("broken", "d4")), <<"build">>, "boundary")}

MCSubstitutes == {<<"allow">>}

MCOutcome(body, files) ==
  [action |-> IF body = "rm" /\ \E i \in DOMAIN files : files[i].doc = "d2" THEN <<"deny">> ELSE <<"allow">>,
   mode |-> <<"deterministic">>]

Record(action, mode, request) == BuildDecisionRecord(Event(action, mode, <<>>, <<>>, request))

MCLogged == [t1 |-> <<Record("deny", "deterministic", "rm"), Record("allow", "classified", "ls")>>,
             t2 |-> <<Sign(Record("deny", "deterministic", "cp"), "boundary")>>]
MCUnlogged == Record("allow", "deterministic", "mv")

MCWitnessKeyID == [w1 |-> "kw1", w2 |-> "kw2"]

Key(id, role, key) == [id |-> id, role |-> role, key |-> key]
Owners == <<Key("kf", "fulcrum_sth", "fulcrum"), Key("kw1", "witness", "w1"), Key("kw2", "witness", "w2")>>
MCKeySpecs == {Owners, <<>>, Append(Owners, Key("kf", "fulcrum_sth", "foreign"))}

Output(path, kind, schema, json) == [path |-> path, kind |-> kind, schema |-> schema, json |-> json]
MCOutputs == <<Output("version.json", "version", "version.v1", TRUE),
               Output("selftest.txt", "selftest", "", FALSE)>>

Source(path, kind, regular, json) ==
  [path |-> path, kind |-> kind, schema |-> "", json |-> json, regular |-> regular]
MCSourceFiles == <<Source("artifacts/records.json", "decision_record", TRUE, TRUE),
                   Source("artifacts/link", "source_artifact", FALSE, FALSE)>>

Hook(command, form, tools) == [command |-> command, matcher |-> [form |-> form, tools |-> tools]]
Every(command) == Hook(command, "every", {})
On(tool) == Hook("boundary", "pattern", {tool})

Settings(state, disable, hooks) == [state |-> state, disable |-> disable, hooks |-> hooks]
NoSettings == Settings("absent", FALSE, <<>>)
Wires(hooks) == Settings("valid", FALSE, hooks)
Managed(state, disable, only) == [state |-> state, disable |-> disable, only |-> only]
Lenient == Managed("valid", FALSE, FALSE)
Plugin(root, hasMarker, enabled, hooks) ==
  [root |-> root, marker |-> hasMarker, enabled |-> enabled, manifest |-> Wires(hooks)]

Installed(project, local, user, plugins, managed) ==
  [settings |-> [project |-> project, local |-> local, user |-> user], plugins |-> plugins,
   managed |-> managed, resolved |-> {"project", "home"}, stamped |-> TRUE,
   calls |-> {"d1"}, edits |-> 1]
Wired == Installed(Wires(<<Every("boundary")>>), NoSettings, NoSettings, <<>>, Lenient)
Plugged(plugins) == Installed(NoSettings, NoSettings, NoSettings, plugins, Lenient)

MCInstallations ==
  LET Dir(kind, linked, space, private) == [kind |-> kind, linked |-> linked, space |-> space, private |-> private]
      Ready == Dir("directory", FALSE, TRUE, TRUE)
  IN  {[inst |-> i, dir |-> Ready] : i \in
         {Wired, [Wired EXCEPT !.managed = Managed("valid", TRUE, FALSE), !.edits = 2],
          [Wired EXCEPT !.settings["user"] = Settings("unreadable", FALSE, <<>>)],
          Installed(Wires(<<On("Bash")>>), NoSettings, Wires(<<On("Edit")>>), <<>>, Managed("absent", FALSE, FALSE)),
          Installed(Wires(<<On("Bash")>>), Wires(<<Every("boundary")>>), NoSettings, <<>>, Lenient),
          Installed(Wires(<<Every("wrapped"), Hook("peer", "broken", {})>>), NoSettings, NoSettings, <<>>, Lenient),
          [Wired EXCEPT !.managed = Managed("unreadable", TRUE, FALSE)],
          [Wired EXCEPT !.managed = Managed("valid", FALSE, TRUE)],
          [Wired EXCEPT !.settings["local"] = Settings("valid", TRUE, <<>>)],
          [Wired EXCEPT !.resolved = {}, !.stamped = FALSE], [Wired EXCEPT !.resolved = {"home"}, !.edits = 0],
          Plugged(<<Plugin("home", TRUE, TRUE, <<Every("boundary")>>)>>),
          Plugged(<<Plugin("home", TRUE, FALSE, <<On("Bash")>>)>>),
          Plugged(<<Plugin("project", TRUE, TRUE, <<>>), Plugin("home", TRUE, TRUE, <<Every("boundary")>>)>>)}}
      \cup {[inst |-> [Wired EXCEPT !.calls = {"d1", "d2"}, !.edits = 0], dir |-> d] : d \in
             {Ready, Dir("absent", FALSE, TRUE, TRUE), Dir("symlink", FALSE, TRUE, TRUE), Dir("unstatable", FALSE, TRUE, TRUE),
              Dir("directory", TRUE, TRUE, TRUE), Dir("directory", FALSE, FALSE, TRUE),
              Dir("directory", FALSE, TRUE, FALSE)}}

MCSettingsEdits == {NoSettings, Wires(<<Every("boundary")>>), Settings("valid", TRUE, <<>>)}
=============================================================================
