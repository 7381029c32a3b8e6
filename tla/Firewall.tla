------------------------------ MODULE Firewall -------------------------------
(***************************************************************************)
(* The commands of the firewall that change files (internal/firewall):     *)
(* install routes the servers of an MCP configuration through Boundary,    *)
(* uninstall puts the configuration back, lock and verify-lock watch the   *)
(* server descriptors, policies writes the starter policies, dashboard     *)
(* reports.  Every command is a process of its own; the configuration also *)
(* belongs to its operator, who edits it at any time.  Files are replaced  *)
(* by rename, any write may fail and any process may be killed.            *)
(*                                                                         *)
(* A hash stands for the bytes it was taken of: the model compares those.  *)
(***************************************************************************)
EXTENDS Inventory

CONSTANTS
  Commands,    \* processes
  Workloads,   \* what the processes are asked to do: [Commands -> requests]
  Starts,      \* the configurations to start from
  Edits,       \* what the operator may write: [slot, entry]
  MaxEdits,    \* how often
  Faulty       \* the faults that may happen: "write", "crash"

VARIABLES
  config,     \* the MCP configuration
  backups,    \* [a backup's path -> the bytes saved there]
  receipts,   \* [receipt paths -> receipts]
  lock,       \* the descriptor lock
  policies,   \* [template -> what is at its path: "none", "starter" or "operator"]
  cmd,        \* the processes
  edits,      \* edits made
  intent,     \* [slot -> the entry the operator last gave it]
  raced       \* a command wrote over bytes it had not read, or was told to

fwVars == <<config, backups, receipts, lock, policies, cmd, edits, intent, raced>>

-----------------------------------------------------------------------------
(* Configurations, routes and descriptors.                                 *)

Present(body) == {s \in DOMAIN body : body[s] # NoEntry}

isBoundaryProxy(entry) == entry.route # "direct"

\* The entry's command, arguments, environment and URL are replaced, the rest stays.
Routed(entry, receiptPath) ==
  [route |-> receiptPath, words |-> {}, hidden |-> {}, tools |-> entry.tools]

Selected(body, filter) == {s \in Present(body) : filter = {} \/ s[2] \in filter}

rewriteSelectedServers(body, filter, receiptPath) ==
  [s \in DOMAIN body |-> IF s \in Selected(body, filter) THEN Routed(body[s], receiptPath)
                         ELSE body[s]]

Refused(body, filter, force) ==
  \/ Selected(body, filter) = {}
  \/ ~force /\ \E s \in Selected(body, filter) : isBoundaryProxy(body[s])

\* What a descriptor hash is taken of: not what redaction hides.
DescriptorOf(entry) == [route |-> entry.route, words |-> entry.words, tools |-> entry.tools]

lockedServersFromConfig(body, filter) ==
  {[table |-> s[1], name |-> s[2], descriptor |-> DescriptorOf(body[s])] :
     s \in Selected(body, filter)}

\* Of two servers of one name the one listed last, that of "servers", is looked up.
ByName(servers, name) ==
  LET named == {s \in servers : s.name = name}
  IN IF \E s \in named : s.table = "servers" THEN CHOOSE s \in named : s.table = "servers"
     ELSE CHOOSE s \in named : TRUE

NamesOf(servers) == {s.name : s \in servers}

\* Mutant: servers that were not locked are let through.
DriftOfLocked(locked, current) ==
  \E s \in locked : s.name \notin NamesOf(current)
                   \/ ByName(current, s.name).descriptor # s.descriptor

Drift(locked, current) ==
  \/ NamesOf(current) # NamesOf(locked)
  \/ \E s \in locked : ByName(current, s.name).descriptor # s.descriptor

VerifyDescriptorLock(locked, current, onChange) ==
  LET drift == Drift(locked, current)
  IN [status |-> IF drift THEN "drift" ELSE "ok", allowed |-> ~drift \/ onChange = "warn",
      locked |-> locked, current |-> current]

-----------------------------------------------------------------------------
(* The processes.                                                          *)

NoReceipt == [state |-> "none"]
NoLock == [servers |-> {}]

Receipt(state, before, after) == [state |-> state, before |-> before, after |-> after]

\* A receipt's path: given by the operator, or the process's own.
ReceiptPath(p) == IF cmd[p].req.receipt = "default" THEN p ELSE cmd[p].req.receipt
ReceiptPaths == Commands \cup {"shared"}

\* The commands start before anything is routed through Boundary: the configuration and the
\* operator's edits have direct entries only, and a receipt's path is one of ReceiptPaths.
ASSUME StartsAssumption ==
  \A c \in Starts : c.state = "config" =>
    \A s \in DOMAIN c.body : c.body[s] = NoEntry \/ c.body[s].route = "direct"

ASSUME EditsAssumption == \A e \in Edits : e.entry = NoEntry \/ e.entry.route = "direct"

ASSUME WorkloadAssumption ==
  \A w \in Workloads : \A p \in Commands :
    w[p].op = "install" => w[p].receipt \in ReceiptPaths \cup {"default"}

\* Mutant: one backup per configuration, whatever it holds.
BackupPathByName(before) == "backup"

\* Backups are kept by the hash of what they hold.
BackupPath(before) == before

Backup(path) == IF path \in DOMAIN backups THEN backups[path] ELSE NoFile

FwInit ==
  /\ config \in Starts
  /\ backups = <<>>
  /\ receipts = [r \in ReceiptPaths |-> NoReceipt]
  /\ lock = NoLock
  /\ policies \in [ToSet(StarterPolicies) -> {"none"}] \cup
                  {[t \in ToSet(StarterPolicies) |-> IF t = "shell" THEN "operator" ELSE "none"]}
  /\ \E w \in Workloads : cmd = [p \in Commands |-> [step |-> "start", req |-> w[p]]]
  /\ edits = 0
  /\ intent = IF config.state = "config" THEN config.body ELSE <<>>
  /\ raced = FALSE

End(p, result) == cmd' = [cmd EXCEPT ![p] = [step |-> "done", req |-> @.req, result |-> result]]
Fail(p) == End(p, [status |-> "error"])
Step(p, op, from) == cmd[p].req.op = op /\ cmd[p].step = from
Go(p, to) == cmd' = [cmd EXCEPT ![p].step = to]

\* What a process has read, and what it makes of it, stays with it.
Keep(p, to, what, value) ==
  cmd' = [cmd EXCEPT ![p] = [field \in DOMAIN @ \cup {what} |->
                               IF field = what THEN value
                               ELSE IF field = "step" THEN to ELSE @[field]]]

OnlyCmd == UNCHANGED <<config, backups, receipts, lock, policies, edits, intent, raced>>

-----------------------------------------------------------------------------
(* InstallConfig.                                                          *)

InstallRead(p) ==
  /\ Step(p, "install", "start")
  /\ LET req == cmd[p].req
     IN IF config.state # "config" \/ Refused(config.body, req.servers, req.force) THEN Fail(p)
        ELSE IF req.dry THEN End(p, [status |-> "planned"])
        ELSE Keep(p, "backup", "plan",
               [before |-> config,
                after |-> Config(rewriteSelectedServers(config.body, req.servers, ReceiptPath(p)))])
  /\ OnlyCmd

WriteBackup(p) ==
  /\ Step(p, "install", "backup")
  /\ LET before == cmd[p].plan.before
     IN backups' = [x \in DOMAIN backups \cup {BackupPath(before)} |->
                      IF x = BackupPath(before) THEN before ELSE backups[x]]
  /\ Go(p, "pending")
  /\ UNCHANGED <<config, receipts, lock, policies, edits, intent, raced>>

WritePending(p) ==
  /\ Step(p, "install", "pending")
  /\ receipts' = [receipts EXCEPT ![ReceiptPath(p)] =
                    Receipt("pending", cmd[p].plan.before, cmd[p].plan.after)]
  /\ Go(p, "rewrite")
  /\ UNCHANGED <<config, backups, lock, policies, edits, intent, raced>>

RewriteConfig(p) ==
  /\ Step(p, "install", "rewrite")
  /\ config' = cmd[p].plan.after
  /\ raced' = (raced \/ config # cmd[p].plan.before)
  /\ Go(p, "finalize")
  /\ UNCHANGED <<backups, receipts, lock, policies, edits, intent>>

FinalizeReceipt(p) ==
  /\ Step(p, "install", "finalize")
  /\ receipts' = [receipts EXCEPT ![ReceiptPath(p)] =
                    Receipt("installed", cmd[p].plan.before, cmd[p].plan.after)]
  /\ End(p, [status |-> "installed"])
  /\ UNCHANGED <<config, backups, lock, policies, edits, intent, raced>>

-----------------------------------------------------------------------------
(* UninstallConfig: the receipt, then backup and configuration, then the   *)
(* write.  The receipt stays as it is.                                     *)

UninstallReadReceipt(p) ==
  /\ Step(p, "uninstall", "start")
  /\ \E r \in ReceiptPaths :
       IF receipts[r].state = "installed" THEN Keep(p, "check", "receipt", receipts[r]) ELSE Fail(p)
  /\ OnlyCmd

Restorable(receipt, force) ==
  /\ Backup(BackupPath(receipt.before)) = receipt.before
  /\ force \/ config = receipt.after

UninstallCheck(p) ==
  /\ Step(p, "uninstall", "check")
  /\ LET receipt == cmd[p].receipt
     IN IF Backup(BackupPath(receipt.before)) = NoFile THEN Fail(p)
        ELSE IF cmd[p].req.dry THEN End(p, [status |-> "planned"])
        ELSE IF Restorable(receipt, cmd[p].req.force) THEN Keep(p, "restore", "read", config)
        ELSE Fail(p)
  /\ OnlyCmd

RestoreConfig(p) ==
  /\ Step(p, "uninstall", "restore")
  /\ config' = cmd[p].receipt.before
  /\ raced' = (raced \/ config # cmd[p].read \/ cmd[p].req.force)
  /\ End(p, [status |-> "restored"])
  /\ UNCHANGED <<backups, receipts, lock, policies, edits, intent>>

-----------------------------------------------------------------------------
(* Descriptor locks, the dashboard and the starter policies.               *)

LockRead(p) ==
  /\ Step(p, "lock", "start")
  /\ LET req == cmd[p].req
         servers == lockedServersFromConfig(config.body, req.servers)
     IN IF config.state # "config" \/ servers = {} THEN Fail(p)
        ELSE IF req.dry THEN End(p, [status |-> "planned"])
        ELSE Keep(p, "write", "servers", servers)
  /\ OnlyCmd

WriteLock(p) ==
  /\ Step(p, "lock", "write")
  /\ lock' = [servers |-> cmd[p].servers]
  /\ End(p, [status |-> "locked"])
  /\ UNCHANGED <<config, backups, receipts, policies, edits, intent, raced>>

VerifyReadLock(p) ==
  /\ Step(p, "verify", "start")
  /\ IF lock = NoLock THEN Fail(p) ELSE Keep(p, "compare", "servers", lock.servers)
  /\ OnlyCmd

VerifyCompare(p) ==
  /\ Step(p, "verify", "compare")
  /\ IF config.state # "config" THEN Fail(p)
     ELSE End(p, VerifyDescriptorLock(cmd[p].servers, lockedServersFromConfig(config.body, {}),
                                      cmd[p].req.onChange))
  /\ OnlyCmd

\* The report of receipts, policies and the lock, the last one always in mode "warn".
Dashboard(p) ==
  /\ Step(p, "dashboard", "start")
  /\ End(p, [status |-> "ok",
             receipts |-> Cardinality({r \in ReceiptPaths : receipts[r] # NoReceipt}),
             installed |-> Cardinality({r \in ReceiptPaths : receipts[r].state = "installed"}),
             policies |-> Cardinality({t \in DOMAIN policies : policies[t] # "none"}),
             lock |-> IF lock = NoLock THEN "missing"
                      ELSE IF config.state # "config" THEN "error"
                      ELSE VerifyDescriptorLock(lock.servers,
                             lockedServersFromConfig(config.body, {}), "warn").status])
  /\ OnlyCmd

\* One template after the other, each path looked at first unless forced.
PolicyAt(p) == IF "at" \in DOMAIN cmd[p] THEN cmd[p].at ELSE 1

StatPolicy(p) ==
  /\ Step(p, "policies", "start")
  /\ IF ~cmd[p].req.force /\ policies[StarterPolicies[PolicyAt(p)]] # "none" THEN Fail(p)
     ELSE Go(p, "write")
  /\ OnlyCmd

WritePolicy(p) ==
  /\ Step(p, "policies", "write")
  /\ policies' = [policies EXCEPT ![StarterPolicies[PolicyAt(p)]] = "starter"]
  /\ IF PolicyAt(p) = Len(StarterPolicies) THEN End(p, [status |-> "generated"])
     ELSE Keep(p, "start", "at", PolicyAt(p) + 1)
  /\ UNCHANGED <<config, backups, receipts, lock, edits, intent, raced>>

-----------------------------------------------------------------------------
(* The operator, and faults.                                               *)

Edit ==
  /\ edits < MaxEdits
  /\ config.state = "config"
  /\ \E e \in Edits :
       /\ config.body[e.slot] # e.entry
       /\ config' = Config([config.body EXCEPT ![e.slot] = e.entry])
       /\ intent' = [intent EXCEPT ![e.slot] = e.entry]
  /\ edits' = edits + 1
  /\ UNCHANGED <<backups, receipts, lock, policies, cmd, raced>>

WritesNext(p) ==
  cmd[p].step \in {"backup", "pending", "rewrite", "finalize", "restore", "write"}

WriteFails(p) ==
  /\ "write" \in Faulty
  /\ WritesNext(p)
  /\ Fail(p)
  /\ OnlyCmd

Kill(p) ==
  /\ "crash" \in Faulty
  /\ WritesNext(p)
  /\ cmd' = [cmd EXCEPT ![p].step = "killed"]
  /\ OnlyCmd

FwNext ==
  \/ Edit
  \/ \E p \in Commands :
       \/ InstallRead(p) \/ WriteBackup(p) \/ WritePending(p) \/ RewriteConfig(p)
       \/ FinalizeReceipt(p) \/ UninstallReadReceipt(p) \/ UninstallCheck(p) \/ RestoreConfig(p)
       \/ LockRead(p) \/ WriteLock(p) \/ VerifyReadLock(p) \/ VerifyCompare(p) \/ Dashboard(p)
       \/ StatPolicy(p) \/ WritePolicy(p) \/ WriteFails(p) \/ Kill(p)

\* The two halves share no file: a behaviour exercises one of them.
NoCommands ==
  /\ config = NoFile /\ backups = <<>> /\ lock = NoLock /\ raced = FALSE /\ intent = <<>>
  /\ receipts = [r \in ReceiptPaths |-> NoReceipt]
  /\ policies = [t \in ToSet(StarterPolicies) |-> "none"]
  /\ cmd = [p \in Commands |-> [step |-> "killed", req |-> [op |-> "none"]]]
  /\ edits = MaxEdits

NoScan ==
  /\ dir = <<>> /\ inv = [at |-> 1, inventory |-> EmptyInventory] /\ stream = {}
  /\ file = {} /\ mixed = {} /\ lost = {} /\ builder = EmptyBuilder
  /\ ingest = [state |-> "off"]

vars == <<fwVars, invVars>>

Init ==
  \/ FwInit /\ NoScan
  \/ NoCommands /\ InvInit

Next ==
  \/ FwNext /\ UNCHANGED invVars
  \/ InvNext /\ UNCHANGED fwVars

Spec == Init /\ [][Next]_vars

-----------------------------------------------------------------------------
(* Properties.                                                             *)

\* Configuration c has a server at slot s that does not go through Boundary.
Unrouted(c, s) == c.state = "config" /\ s \in Present(c.body) /\ ~isBoundaryProxy(c.body[s])

\* One install alone is asked to write receipt r, and not by force.
SoleReceipt(r) ==
  \E p \in Commands :
    /\ cmd[p].req.op = "install" /\ ReceiptPath(p) = r /\ ~cmd[p].req.force
    /\ \A q \in Commands \ {p} : cmd[q].req.op = "install" => ReceiptPath(q) # r

\* Some backup still holds the server at slot s as it was before Boundary.
UnroutedSaved(s) == \E path \in DOMAIN backups : Unrouted(backups[path], s)

\* Wherever installs are killed or fail, and however they overlap, a server routed through
\* Boundary names a receipt that is on disk, pending or installed, whose backup holds the
\* bytes it says were replaced; some backup still has the server unrouted; and the bytes
\* of that very receipt have it unrouted, unless a forced install wrote the receipt or
\* several installs were told to use its path: then an uninstall by that receipt leads to
\* a configuration in which the server is still routed (InstallConfig: the order of its
\* writes, and its refusal to route what is routed).
WayBackKept ==
  config.state = "config" =>
    \A s \in Present(config.body) :
      isBoundaryProxy(config.body[s]) =>
        LET receipt == receipts[config.body[s].route]
        IN /\ receipt # NoReceipt /\ Backup(BackupPath(receipt.before)) = receipt.before
           /\ UnroutedSaved(s)
           /\ SoleReceipt(config.body[s].route) => Unrouted(receipt.before, s)

Unambiguous(servers) ==
  \A s, t \in servers : s.name = t.name => s.descriptor = t.descriptor

\* A verification that finds nothing has compared everything: the servers it read have the
\* names and descriptors that were locked, whatever was edited or installed in between, as
\* long as no name stands for two different servers (VerifyDescriptorLock).
OkMeansUnchanged ==
  \A p \in Commands :
    /\ cmd[p].step = "done" /\ cmd[p].req.op = "verify" /\ cmd[p].result.status = "ok"
    /\ Unambiguous(cmd[p].result.current)
    => {<<s.name, s.descriptor>> : s \in cmd[p].result.current}
         = {<<s.name, s.descriptor>> : s \in cmd[p].result.locked}
=============================================================================
