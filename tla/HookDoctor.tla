------------------------------ MODULE HookDoctor ------------------------------
(***************************************************************************)
(* `boundary hook doctor` (internal/hookboundary/doctor.go).  It reads the *)
(* settings scopes, the plugin manifests and the managed policy one after  *)
(* the other, scans the decision log, probes the record directory with a   *)
(* marker file, and grades what it found.  Meanwhile the operator edits,   *)
(* hooks record, drills submit synthetic calls, time passes, other doctors *)
(* run, and a doctor may be killed.                                        *)
(*                                                                         *)
(* What the host makes of an installation is external: it is what the      *)
(* doctor tries to find out.                                               *)
(***************************************************************************)
EXTENDS Integers, Sequences, FiniteSets, SequencesExt, FiniteSetsExt

CONSTANTS
  Doctors,               \* doctor processes
  Governed,              \* GovernedToolNames
  Installations,         \* what a machine may hold when the doctor is called, which doctors
                         \* are called on it, and how often it is edited meanwhile
  SettingsEdits,         \* files an operator may write over a settings file
  pluginManifestLimit,
  RoutedEvidenceWindow,
  DormancyThreshold,
  MaxClock, MaxLines

ASSUME ThresholdAssumption ==
  /\ pluginManifestLimit \in Nat /\ DormancyThreshold \in Nat
  /\ RoutedEvidenceWindow \in 0..DormancyThreshold

\* A settings file or a plugin's manifest: only a valid one wires hooks, of governed tools.
SettingsFile(f) ==
  /\ f.state \in {"absent", "valid", "unreadable"}
  /\ f.hooks \in Seq(ToSet(f.hooks))
  /\ f.state # "valid" => f.hooks = <<>> /\ ~f.disable
  /\ \A h \in ToSet(f.hooks) : h.matcher.tools \subseteq Governed

Machine(i) ==
  /\ DOMAIN i = {"settings", "plugins", "managed", "resolved", "stamped", "calls", "edits"}
  /\ DOMAIN i.settings = {"project", "local", "user"}
  /\ \A s \in DOMAIN i.settings : SettingsFile(i.settings[s])
  /\ i.plugins \in Seq(ToSet(i.plugins))
  /\ \A p \in ToSet(i.plugins) :
       DOMAIN p = {"root", "marker", "enabled", "manifest"} /\ SettingsFile(p.manifest)
  /\ DOMAIN i.managed = {"state", "disable", "only"}
  /\ i.resolved \subseteq {"project", "home"}

ASSUME InstallationsAssumption ==
  /\ Installations # {}
  /\ \A machine \in Installations :
       /\ Machine(machine.inst)
       /\ DOMAIN machine.dir = {"kind", "linked", "space", "private"}
       /\ machine.dir.kind \in {"absent", "directory", "symlink", "file", "unstatable"}
  /\ \A f \in SettingsEdits : SettingsFile(f)

VARIABLES
  inst,      \* settings, plugins, managed policy, and what of it resolves
  recordDir, \* the record directory
  lines,     \* the decision log: what each line is, and when it was written
  marker,    \* whose .doctor-probe is in the record directory
  now,       \* the wall clock
  reconfigured,     \* how often the operator edited
  doctor     \* the doctor processes

hdVars == <<inst, recordDir, lines, marker, now, reconfigured, doctor>>

-----------------------------------------------------------------------------
(* What a file wires. *)

\* The scopes in layering order; one whose directory did not resolve is left out.
hookSettingsScopes(i) ==
  (IF "project" \in i.resolved THEN <<"project", "local">> ELSE <<>>)
  \o (IF "home" \in i.resolved THEN <<"user">> ELSE <<>>)

\* The plugins seen: their places in the search order, of those with a marker file and a
\* manifest, up to the limit.
pluginHookManifests(i) ==
  LET found == {k \in DOMAIN i.plugins : /\ i.plugins[k].root \in i.resolved /\ i.plugins[k].marker
                                         /\ i.plugins[k].manifest.state # "absent"}
  IN  {k \in found : Cardinality({j \in found : j < k}) < pluginManifestLimit}

\* By the shape of the command; a wrapper of the wrapper is not recognised.
IsBoundaryHookCommand(command) == command = "boundary"

\* A pattern that does not compile covers nothing and is not understood.
matcherTools(m) == CASE m.form = "every" -> Governed [] m.form = "pattern" -> m.tools [] OTHER -> {}

\* Only a regular, bounded, valid file yields entries; any other one that is there, a problem.
hookEntries(f) ==
  IF f.state # "valid" THEN <<>>
  ELSE [k \in DOMAIN f.hooks |->
          [boundary |-> IsBoundaryHookCommand(f.hooks[k].command),
           tools |-> matcherTools(f.hooks[k].matcher),
           understood |-> f.hooks[k].matcher.form # "broken"]]

\* Which of the entries are Boundary's, which are a peer's.
Registrations(entries) == {k \in DOMAIN entries : entries[k].boundary}
Peers(entries) == DOMAIN entries \ Registrations(entries)

coveredTools(entries) == UNION {entries[k].tools : k \in Registrations(entries)}
duplicatedTools(entries) ==
  {t \in Governed : \E j, k \in Registrations(entries) :
                      j # k /\ t \in entries[j].tools \cap entries[k].tools}

-----------------------------------------------------------------------------
(* The checks. *)

\* Ranked: ok, unknown, warn, broken.
stateRank(s) == CASE s = "ok" -> 0 [] s = "warn" -> 2 [] s = "broken" -> 3 [] OTHER -> 1
worstState(states) == CHOOSE s \in states : \A t \in states : stateRank(t) <= stateRank(s)

\* Mutant: every readable line counts, the drill's too.
AnyLineRouted(line) == line.kind \in {"routed", "drill"}

\* Its trace id carries a session.
SessionBearing(line) == line.kind = "routed"

\* scanDecisionLog stops at a line over the limit; what it visited counts for the routed evidence.
Oversized == {k \in DOMAIN lines : lines[k].kind = "huge"}
Visited == {lines[k] : k \in 1..(IF Oversized = {} THEN Len(lines) ELSE Min(Oversized) - 1)}
Newest(ls) == IF ls = {} THEN 0 ELSE Max({l.at : l \in ls})

summarizeRoutedDecisions == Newest({l \in Visited : SessionBearing(l)})
fresh(newest, at) == newest > 0 /\ at - newest <= RoutedEvidenceWindow

\* managed.read: only a file that was read speaks for the policy.
ManagedRead(m) == m.state = "valid"

\* d.files, d.entries, d.plugged and d.managed are what the doctor read.
registrationCheck(d, at) ==
  IF \/ ManagedRead(d.managed) /\ d.managed.disable
     \/ \E k \in DOMAIN d.files : d.files[k].state = "valid" /\ d.files[k].disable
     \/ \E k \in DOMAIN d.files : d.files[k].state = "unreadable" THEN "broken"
  ELSE IF d.files = <<>> THEN "unknown"
  ELSE IF Registrations(d.entries) = {}
       THEN IF ~ \E e \in d.plugged : e.boundary THEN "broken"
            ELSE IF fresh(d.routed, at) THEN "ok" ELSE "unknown"
  ELSE IF \/ duplicatedTools(d.entries) # {} \/ coveredTools(d.entries) # Governed
          \/ ManagedRead(d.managed) /\ d.managed.only THEN "warn"
  ELSE "ok"

peerCheck(d) ==
  IF \E k \in Peers(d.entries) : ~d.entries[k].understood \/ d.entries[k].tools # {} THEN "warn" ELSE "ok"

recordsCheck(at) ==
  LET records == {l \in Visited : l.kind \in {"routed", "drill"}}
  IN  IF lines = <<>> THEN "warn"
      ELSE IF Oversized # {} THEN "unknown"
      ELSE IF records = {} \/ at - Newest(records) > DormancyThreshold THEN "warn"
      ELSE "ok"

-----------------------------------------------------------------------------
(* The host and the operator (external). *)

\* The hooks the host runs: none once any layer disables them, and none of these scopes when
\* only managed hooks may run.
Running(i) ==
  IF i.managed.disable \/ i.managed.only \/ \E s \in DOMAIN i.settings : i.settings[s].disable THEN {}
  ELSE (UNION {ToSet(i.settings[s].hooks) : s \in DOMAIN i.settings})
       \cup (UNION {ToSet(p.manifest.hooks) : p \in {q \in ToSet(i.plugins) : q.enabled}})

\* The tools whose calls reach Boundary, through a recognisable command or through any.
RoutedTools(i) == UNION {matcherTools(h.matcher) : h \in {g \in Running(i) : g.command # "peer"}}
VisiblyRouted(i) == UNION {matcherTools(h.matcher) : h \in {g \in Running(i) : IsBoundaryHookCommand(g.command)}}

\* Whether the sink would take a record.
SinkAccepts(r) == r.kind \in {"absent", "directory"} /\ ~r.linked /\ r.space

Reading == {"settings", "plugins", "managed"}
Probing == {"fill", "remove"}

\* The operator writes over a settings file, enables or disables the plugins, or changes the
\* policy.  Edits before a doctor starts are further installations.
EditSettings == \E s \in DOMAIN inst.settings, f \in SettingsEdits : inst' = [inst EXCEPT !.settings[s] = f]

Toggled(p) == [p EXCEPT !.enabled = ~@]
TogglePlugins == inst' = [inst EXCEPT !.plugins = [k \in DOMAIN inst.plugins |-> Toggled(inst.plugins[k])]]

TogglePolicy == inst.managed.state # "absent" /\ inst' = [inst EXCEPT !.managed.disable = ~@]

OperatorEdits ==
  /\ reconfigured < inst.edits /\ \E d \in Doctors : doctor[d].pc \in Reading
  /\ EditSettings \/ TogglePlugins \/ TogglePolicy
  /\ reconfigured' = reconfigured + 1
  /\ doctor' = [d \in Doctors |->
                  IF doctor[d].pc \in Reading
                  THEN [doctor[d] EXCEPT !.seen = @ \cup {inst'}, !.edited = @ + 1] ELSE doctor[d]]
  /\ UNCHANGED <<recordDir, lines, marker, now>>

\* A routed call, a drill without a session, a torn or an oversized line: hooks append them,
\* creating the directory.
HookAppends ==
  /\ Len(lines) < MaxLines /\ SinkAccepts(recordDir)
  /\ \E kind \in {"routed", "drill", "torn", "huge"} :
       /\ kind = "routed" => RoutedTools(inst) # {}
       /\ lines' = Append(lines, [kind |-> kind, at |-> now])
  /\ recordDir' = [recordDir EXCEPT !.kind = "directory"]
  /\ UNCHANGED <<inst, marker, now, reconfigured, doctor>>

Tick == now < MaxClock /\ now' = now + 1 /\ UNCHANGED <<inst, recordDir, lines, marker, reconfigured, doctor>>

\* Someone follows what the marker says: safe to delete.
DeleteMarker ==
  /\ marker # "none" /\ doctor[marker].pc \notin Probing
  /\ marker' = "none"
  /\ UNCHANGED <<inst, recordDir, lines, now, reconfigured, doctor>>

-----------------------------------------------------------------------------
(* The doctor's steps. *)

Waiting ==
  [pc |-> "idle", files |-> <<>>, entries |-> <<>>, plugged |-> {}, managed |-> [state |-> "absent"],
   routed |-> 0, states |-> {}, private |-> TRUE, graded |-> 0, status |-> "none",
   seen |-> {}, edited |-> 0, blocked |-> FALSE, sink |-> TRUE]

Goto(d, pc) == [doctor[d] EXCEPT !.pc = pc]

StartDoctor(d) ==
  /\ doctor[d].pc = "idle" /\ d \in inst.calls
  /\ doctor' = [doctor EXCEPT ![d] = [Waiting EXCEPT !.pc = "settings", !.seen = {inst}]]
  /\ UNCHANGED <<inst, recordDir, lines, marker, now, reconfigured>>

\* readHookSettings, one scope at a time.
ReadSettings(d) ==
  /\ doctor[d].pc = "settings"
  /\ LET scopes == hookSettingsScopes(inst)
         at == Len(doctor[d].files) + 1
     IN  doctor' = [doctor EXCEPT ![d] =
           IF at > Len(scopes) THEN Goto(d, "plugins")
           ELSE [doctor[d] EXCEPT !.files = Append(@, inst.settings[scopes[at]]),
                                  !.entries = @ \o hookEntries(inst.settings[scopes[at]])]]
  /\ UNCHANGED <<inst, recordDir, lines, marker, now, reconfigured>>

readPluginHookManifests(d) ==
  /\ doctor[d].pc = "plugins"
  /\ doctor' = [doctor EXCEPT ![d] =
       [Goto(d, "managed") EXCEPT
          !.plugged = UNION {ToSet(hookEntries(inst.plugins[k].manifest)) : k \in pluginHookManifests(inst)}]]
  /\ UNCHANGED <<inst, recordDir, lines, marker, now, reconfigured>>

readManagedSettings(d) ==
  /\ doctor[d].pc = "managed"
  /\ doctor' = [doctor EXCEPT ![d] = [Goto(d, "log") EXCEPT !.managed = inst.managed]]
  /\ UNCHANGED <<inst, recordDir, lines, marker, now, reconfigured>>

ScanRouted(d) ==
  /\ doctor[d].pc = "log"
  /\ doctor' = [doctor EXCEPT ![d] = [Goto(d, "grade") EXCEPT !.routed = summarizeRoutedDecisions]]
  /\ UNCHANGED <<inst, recordDir, lines, marker, now, reconfigured>>

\* versionCheck, registrationCheck and peerCheck; the grade is given at this time.
Grade(d) ==
  /\ doctor[d].pc = "grade"
  /\ doctor' = [doctor EXCEPT ![d] = [Waiting EXCEPT
       !.pc = "directory", !.seen = doctor[d].seen, !.edited = doctor[d].edited,
       !.states = {IF inst.stamped THEN "ok" ELSE "warn", registrationCheck(doctor[d], now), peerCheck(doctor[d])},
       !.graded = now]]
  /\ UNCHANGED <<inst, recordDir, lines, marker, now, reconfigured>>

Established(d, state) == [Goto(d, "records") EXCEPT !.states = @ \cup {state}, !.sink = SinkAccepts(recordDir)]

\* evidenceDirCheck up to the probe.  The mode it warns of later is the one read here.
InspectDirectory(d) ==
  /\ doctor[d].pc = "directory"
  /\ doctor' = [doctor EXCEPT ![d] =
       IF recordDir.kind = "absent" THEN Established(d, "warn")
       ELSE IF recordDir.kind = "unstatable" THEN Established(d, "unknown")
       ELSE IF recordDir.kind \in {"symlink", "file"} \/ recordDir.linked THEN Established(d, "broken")
       ELSE [Goto(d, "create") EXCEPT !.private = recordDir.private]]
  /\ UNCHANGED <<inst, recordDir, lines, marker, now, reconfigured>>

\* probeWritable: O_EXCL refuses a marker that is already there, whoever left it.
CreateMarker(d) ==
  /\ doctor[d].pc = "create"
  /\ IF marker = "none"
     THEN marker' = d /\ doctor' = [doctor EXCEPT ![d] = Goto(d, "fill")]
     ELSE /\ doctor' = [doctor EXCEPT ![d] = [Established(d, "broken") EXCEPT !.blocked = TRUE]]
          /\ UNCHANGED marker
  /\ UNCHANGED <<inst, recordDir, lines, now, reconfigured>>

\* A write that fails removes the marker again.
FillMarker(d) ==
  /\ doctor[d].pc = "fill"
  /\ IF recordDir.space
     THEN doctor' = [doctor EXCEPT ![d] = Goto(d, "remove")] /\ UNCHANGED marker
     ELSE doctor' = [doctor EXCEPT ![d] = Established(d, "broken")] /\ marker' = "none"
  /\ UNCHANGED <<inst, recordDir, lines, now, reconfigured>>

RemoveMarker(d) ==
  /\ doctor[d].pc = "remove"
  /\ \/ /\ marker' = "none"
        /\ doctor' = [doctor EXCEPT ![d] = Established(d, IF doctor[d].private THEN "ok" ELSE "warn")]
     \/ /\ doctor' = [doctor EXCEPT ![d] = [Established(d, "broken") EXCEPT !.blocked = TRUE]]
        /\ UNCHANGED marker
  /\ UNCHANGED <<inst, recordDir, lines, now, reconfigured>>

\* recordsCheck, and the worst state leads the report; broken is exit status 1.
Report(d) ==
  /\ doctor[d].pc = "records"
  /\ doctor' = [doctor EXCEPT ![d] =
       [Goto(d, "done") EXCEPT !.status = worstState(doctor[d].states \cup {recordsCheck(now)})]]
  /\ UNCHANGED <<inst, recordDir, lines, marker, now, reconfigured>>

KillDoctor(d) ==
  /\ doctor[d].pc \notin {"idle", "done", "killed"}
  /\ doctor' = [doctor EXCEPT ![d] = [Waiting EXCEPT !.pc = "killed"]]
  /\ UNCHANGED <<inst, recordDir, lines, marker, now, reconfigured>>

HdInit(machines) ==
  /\ \E machine \in machines : inst = machine.inst /\ recordDir = machine.dir
  /\ lines = <<>> /\ marker = "none" /\ now = 1 /\ reconfigured = 0
  /\ doctor = [d \in Doctors |-> Waiting]

HdNext ==
  \/ OperatorEdits \/ HookAppends \/ Tick \/ DeleteMarker
  \/ \E d \in Doctors :
       \/ StartDoctor(d) \/ ReadSettings(d) \/ readPluginHookManifests(d) \/ readManagedSettings(d)
       \/ ScanRouted(d) \/ Grade(d) \/ InspectDirectory(d) \/ CreateMarker(d) \/ FillMarker(d)
       \/ RemoveMarker(d) \/ Report(d) \/ KillDoctor(d)

-----------------------------------------------------------------------------
(* Properties. *)

\* Calls reached Boundary shortly before the registration was graded.
RecentlyRouted(d) ==
  \E k \in DOMAIN lines : lines[k].kind = "routed" /\ doctor[d].graded - lines[k].at <= RoutedEvidenceWindow

\* A plugin the doctor cannot see: past the limit, or in a directory without marker.
HiddenPlugin(i) == pluginHookManifests(i) # DOMAIN i.plugins

\* Settings the doctor leaves out: their directory did not resolve.
HiddenSettings(i) == i.resolved # {"project", "home"}

\* What a doctor concludes is so, whatever happens while it reads, short of two edits.  A clean
\* report: the sink took records, and either a call was really routed within the window (the
\* drill's submissions prove nothing), or at one moment the host routed every governed tool, or
\* had settings or a policy the doctor could not read.  Exit status 1: at one moment no
\* recognisable hook was routed, or a file or plugin could not be read, or the sink refuses, or
\* another doctor's marker was in the way.  And a marker is only left by a doctor that was killed or that says so.
DoctorHonest ==
  /\ \A d \in Doctors :
       doctor[d].pc = "done" /\ doctor[d].edited < 2 =>
         /\ doctor[d].status = "ok" =>
              /\ doctor[d].sink
              /\ \/ RecentlyRouted(d)
                 \/ \E i \in doctor[d].seen :
                      RoutedTools(i) = Governed \/ ~ManagedRead(i.managed) \/ HiddenSettings(i)
         /\ doctor[d].status = "broken" =>
              \/ ~doctor[d].sink \/ doctor[d].blocked
              \/ \E i \in doctor[d].seen :
                   \/ VisiblyRouted(i) = {} \/ HiddenPlugin(i) \/ HiddenSettings(i)
                   \/ \E s \in DOMAIN i.settings : i.settings[s].state = "unreadable"
  /\ marker # "none" =>
       doctor[marker].pc \in Probing \cup {"killed"} \/ doctor[marker].blocked
=============================================================================
