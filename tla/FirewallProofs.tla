--------------------------- MODULE FirewallProofs ----------------------------
(***************************************************************************)
(* Proofs about the firewall.  Install and lock: whatever processes        *)
(* overlap, fail or are killed, the way back of a governed server is kept  *)
(* (FwInv, WayInv), and a verification that finds nothing compared         *)
(* everything.                                                             *)
(* Inventory: whatever order a scan's records are read in, the ingest's    *)
(* servers are graded no lower than the scan graded them (IvInv).          *)
(***************************************************************************)
EXTENDS Firewall, TLAPS

-----------------------------------------------------------------------------
(* Receipts, backups and the configuration.                                *)

\* A receipt is on disk; an entry routes nowhere or to a receipt on disk; every entry of a
\* file does; the bytes c are saved at the path their hash makes.
Kept(rs, r) == r \in ReceiptPaths /\ rs[r] # NoReceipt
EntrySafe(rs, e) == e = NoEntry \/ e.route = "direct" \/ Kept(rs, e.route)
FileSafe(rs, c) == c.state = "config" => \A s \in DOMAIN c.body : EntrySafe(rs, c.body[s])
Saved(bs, c) == c \in DOMAIN bs /\ bs[c] = c

PathFor(p, req) == IF req.receipt = "default" THEN p ELSE req.receipt

PlanSafe(rs, path, plan) ==
  /\ FileSafe(rs, plan.before)
  /\ \A s \in DOMAIN plan.after.body :
       EntrySafe(rs, plan.after.body[s]) \/ plan.after.body[s].route = path

InstallSafe(rs, bs, p, c) ==
  c.req.op = "install" =>
    /\ PathFor(p, c.req) \in ReceiptPaths
    /\ c.step \in {"backup", "pending", "rewrite", "finalize"} =>
         "plan" \in DOMAIN c /\ PlanSafe(rs, PathFor(p, c.req), c.plan)
    /\ c.step \in {"pending", "rewrite", "finalize"} => Saved(bs, c.plan.before)
    /\ c.step \in {"rewrite", "finalize"} => Kept(rs, PathFor(p, c.req))

UninstallSafe(rs, c) ==
  c.req.op = "uninstall" /\ c.step \in {"check", "restore"} =>
    "receipt" \in DOMAIN c /\ FileSafe(rs, c.receipt.before)

VerifyHonest(c) ==
  c.req.op = "verify" /\ c.step = "done" /\ c.result.status = "ok" =>
    ~Drift(c.result.locked, c.result.current)

ProcessOK(rs, bs, p, c) ==
  /\ {"step", "req"} \subseteq DOMAIN c
  /\ InstallSafe(rs, bs, p, c)
  /\ UninstallSafe(rs, c)
  /\ VerifyHonest(c)

ReceiptsBacked(rs, bs) ==
  \A r \in ReceiptPaths : rs[r] # NoReceipt =>
    Saved(bs, rs[r].before) /\ FileSafe(rs, rs[r].before)

FwInv ==
  /\ cmd = [p \in Commands |-> cmd[p]]
  /\ receipts = [r \in ReceiptPaths |-> receipts[r]]
  /\ ReceiptsBacked(receipts, backups)
  /\ FileSafe(receipts, config)
  /\ \A p \in Commands : ProcessOK(receipts, backups, p, cmd[p])

\* What is safe stays safe when receipts and backups only grow.
LEMMA KeptGrows ==
  ASSUME NEW rs, NEW rs2, NEW bs, NEW bs2,
         \A r : Kept(rs, r) => Kept(rs2, r),
         \A c : Saved(bs, c) => Saved(bs2, c)
  PROVE  /\ \A e : EntrySafe(rs, e) => EntrySafe(rs2, e)
         /\ \A c : FileSafe(rs, c) => FileSafe(rs2, c)
         /\ \A p, c : ProcessOK(rs, bs, p, c) => ProcessOK(rs2, bs2, p, c)
<1>1. \A e : EntrySafe(rs, e) => EntrySafe(rs2, e)
  BY DEF EntrySafe
<1>2. \A c : FileSafe(rs, c) => FileSafe(rs2, c)
  BY <1>1 DEF FileSafe
<1>3. \A path, plan : PlanSafe(rs, path, plan) => PlanSafe(rs2, path, plan)
  BY <1>1, <1>2 DEF PlanSafe
<1>4. \A p, c : InstallSafe(rs, bs, p, c) => InstallSafe(rs2, bs2, p, c)
  BY <1>3 DEF InstallSafe
<1>5. \A c : UninstallSafe(rs, c) => UninstallSafe(rs2, c)
  BY <1>2 DEF UninstallSafe
<1> QED  BY <1>1, <1>2, <1>4, <1>5 DEF ProcessOK

\* What a process has read stays with it beside what it had.
LEMMA KeepFields ==
  ASSUME NEW p \in Commands, NEW to, NEW what, NEW value, what \notin {"step", "req"},
         cmd = [q \in Commands |-> cmd[q]], {"step", "req"} \subseteq DOMAIN cmd[p],
         Keep(p, to, what, value)
  PROVE  /\ {"step", "req"} \subseteq DOMAIN cmd'[p]
         /\ what \in DOMAIN cmd'[p]
         /\ cmd'[p].step = to /\ cmd'[p].req = cmd[p].req /\ cmd'[p][what] = value
  BY DEF Keep

\* A change of step keeps the other fields.
LEMMA GoFields ==
  ASSUME NEW p \in Commands, NEW to,
         cmd = [q \in Commands |-> cmd[q]], {"step", "req"} \subseteq DOMAIN cmd[p],
         cmd' = [cmd EXCEPT ![p].step = to]
  PROVE  /\ DOMAIN cmd'[p] = DOMAIN cmd[p]
         /\ cmd'[p].step = to
         /\ \A f \in DOMAIN cmd[p] : f # "step" => cmd'[p][f] = cmd[p][f]
  OBVIOUS

\* A process that ends keeps its request and has its result.
LEMMA EndFields ==
  ASSUME NEW p \in Commands, NEW result,
         cmd = [q \in Commands |-> cmd[q]], End(p, result)
  PROVE  /\ {"step", "req"} \subseteq DOMAIN cmd'[p]
         /\ cmd'[p].step = "done" /\ cmd'[p].req = cmd[p].req /\ cmd'[p].result = result
  BY DEF End

\* The files an action of process p may leave changed are as safe as they were.
FilesSafe ==
  /\ receipts' = [r \in ReceiptPaths |-> receipts'[r]]
  /\ \A r : Kept(receipts, r) => Kept(receipts', r)
  /\ \A c : Saved(backups, c) => Saved(backups', c)
  /\ ReceiptsBacked(receipts', backups')
  /\ FileSafe(receipts', config')

Moves(p) ==
  /\ cmd' = [q \in Commands |-> cmd'[q]]
  /\ \A q \in Commands : q # p => cmd'[q] = cmd[q]
  /\ ProcessOK(receipts', backups', p, cmd'[p])

\* A step of one process on safe files keeps the invariant.
LEMMA OneMoves ==
  ASSUME NEW p \in Commands, FwInv, FilesSafe, Moves(p)
  PROVE  FwInv'
<1>1. ASSUME NEW q \in Commands
      PROVE  ProcessOK(receipts', backups', q, cmd'[q])
  <2>1. CASE q = p
    BY <2>1 DEF Moves
  <2>2. CASE q # p
    <3>1. PICK rs, rs2, bs, bs2 : rs = receipts /\ rs2 = receipts' /\ bs = backups /\ bs2 = backups'
      OBVIOUS
    <3>2. PICK c : c = cmd[q] /\ c = cmd'[q]
      BY <2>2 DEF Moves
    <3>3. ProcessOK(rs, bs, q, c)
      BY <3>1, <3>2 DEF FwInv
    <3>4. (\A r : Kept(rs, r) => Kept(rs2, r)) /\ (\A d : Saved(bs, d) => Saved(bs2, d))
      BY <3>1 DEF FilesSafe
    <3> QED  BY <3>1, <3>2, <3>3, <3>4, KeptGrows
  <2> QED  BY <2>1, <2>2
<1> QED  BY <1>1 DEF FwInv, FilesSafe, Moves

\* A process may end, a verification with status "ok" only without drift.
LEMMA EndSafe ==
  ASSUME NEW p \in Commands, NEW result, FwInv, End(p, result),
         cmd[p].req.op = "verify" /\ result.status = "ok" =>
           ~Drift(result.locked, result.current)
  PROVE  Moves(p)
<1>1. /\ cmd' = [q \in Commands |-> cmd'[q]]
      /\ \A q \in Commands : q # p => cmd'[q] = cmd[q]
  BY DEF End, FwInv
<1>2. /\ {"step", "req"} \subseteq DOMAIN cmd'[p]
      /\ cmd'[p].step = "done" /\ cmd'[p].req = cmd[p].req /\ cmd'[p].result = result
  BY EndFields DEF FwInv
<1>3. ProcessOK(receipts, backups, p, cmd[p])
  BY DEF FwInv
<1>4. InstallSafe(receipts', backups', p, cmd'[p])
  BY <1>2, <1>3 DEF ProcessOK, InstallSafe
<1>5. UninstallSafe(receipts', cmd'[p]) /\ VerifyHonest(cmd'[p])
  BY <1>2 DEF UninstallSafe, VerifyHonest
<1> QED  BY <1>1, <1>2, <1>4, <1>5 DEF Moves, ProcessOK

\* A command may fail at any step.
LEMMA FailSafe ==
  ASSUME NEW p \in Commands, FwInv, Fail(p)
  PROVE  Moves(p)
<1>1. PICK result : result = [status |-> "error"]
  OBVIOUS
<1> QED  BY <1>1, EndSafe DEF Fail

\* Files nobody wrote are as safe as before.
LEMMA FilesKept ==
  ASSUME FwInv, UNCHANGED <<config, backups, receipts>>
  PROVE  FilesSafe
  BY DEF FwInv, FilesSafe

\* What the invariant says of one process.
LEMMA ProcessFacts ==
  ASSUME NEW p \in Commands, FwInv
  PROVE  /\ cmd = [q \in Commands |-> cmd[q]]
         /\ {"step", "req"} \subseteq DOMAIN cmd[p]
         /\ InstallSafe(receipts, backups, p, cmd[p])
         /\ UninstallSafe(receipts, cmd[p])
         /\ FileSafe(receipts, config)
         /\ ReceiptPath(p) = PathFor(p, cmd[p].req)
  BY DEF FwInv, ProcessOK, ReceiptPath, PathFor

\* A step that leaves the files alone and takes a process to a step of its own command.
LEMMA KeepMoves ==
  ASSUME NEW p \in Commands, NEW to, NEW what, NEW value, what \notin {"step", "req"},
         FwInv, Keep(p, to, what, value)
  PROVE  /\ cmd' = [q \in Commands |-> cmd'[q]]
         /\ \A q \in Commands : q # p => cmd'[q] = cmd[q]
         /\ {"step", "req"} \subseteq DOMAIN cmd'[p]
         /\ what \in DOMAIN cmd'[p]
         /\ cmd'[p].step = to /\ cmd'[p].req = cmd[p].req /\ cmd'[p][what] = value
<1>1. cmd = [q \in Commands |-> cmd[q]] /\ {"step", "req"} \subseteq DOMAIN cmd[p]
  BY ProcessFacts
<1>2. /\ cmd' = [q \in Commands |-> cmd'[q]]
      /\ \A q \in Commands : q # p => cmd'[q] = cmd[q]
  BY <1>1 DEF Keep
<1> QED  BY <1>1, <1>2, KeepFields

\* So does a change of step.
LEMMA GoMoves ==
  ASSUME NEW p \in Commands, NEW to, FwInv, cmd' = [cmd EXCEPT ![p].step = to]
  PROVE  /\ cmd' = [q \in Commands |-> cmd'[q]]
         /\ \A q \in Commands : q # p => cmd'[q] = cmd[q]
         /\ DOMAIN cmd'[p] = DOMAIN cmd[p] /\ {"step", "req"} \subseteq DOMAIN cmd'[p]
         /\ cmd'[p].step = to /\ cmd'[p].req = cmd[p].req
         /\ "plan" \in DOMAIN cmd[p] => cmd'[p].plan = cmd[p].plan
<1>1. cmd = [q \in Commands |-> cmd[q]] /\ {"step", "req"} \subseteq DOMAIN cmd[p]
  BY ProcessFacts
<1>2. /\ cmd' = [q \in Commands |-> cmd'[q]]
      /\ \A q \in Commands : q # p => cmd'[q] = cmd[q]
  BY <1>1
<1>3. "req" # "step" /\ "plan" # "step"
  OBVIOUS
<1> QED  BY <1>1, <1>2, <1>3, GoFields

\* A rewritten configuration routes a server as before, or to the receipt of this install.
LEMMA RewriteSafe ==
  ASSUME NEW rs, NEW body, NEW filter, NEW path, NEW s \in DOMAIN body,
         EntrySafe(rs, body[s])
  PROVE  LET after == rewriteSelectedServers(body, filter, path)
         IN DOMAIN after = DOMAIN body
            /\ (EntrySafe(rs, after[s]) \/ after[s].route = path)
  BY DEF rewriteSelectedServers, Routed

\* An install reads a safe configuration and plans from it (InstallConfig).
LEMMA InstallReadSafe ==
  ASSUME NEW p \in Commands, FwInv, InstallRead(p)
  PROVE  FwInv'
<1>1. FilesSafe
  BY FilesKept DEF InstallRead, OnlyCmd
<1>2. CASE Fail(p)
  BY <1>1, <1>2, FailSafe, OneMoves
<1>3. CASE End(p, [status |-> "planned"])
  <2>1. cmd[p].req.op = "install"
    BY DEF InstallRead, Step
  <2>2. Moves(p)
    BY <1>3, <2>1, EndSafe
  <2> QED  BY <1>1, <2>2, OneMoves
<1>4. CASE /\ config.state = "config"
           /\ Keep(p, "backup", "plan",
                [before |-> config,
                 after |-> Config(rewriteSelectedServers(config.body, cmd[p].req.servers,
                                                         ReceiptPath(p)))])
  <2>1. PICK c, path, after, plan :
          /\ c = config /\ path = ReceiptPath(p)
          /\ after = rewriteSelectedServers(c.body, cmd[p].req.servers, path)
          /\ plan = [before |-> c, after |-> Config(after)]
    OBVIOUS
  <2>2. Keep(p, "backup", "plan", plan)
    BY <1>4, <2>1
  <2>3. "plan" \notin {"step", "req"}
    OBVIOUS
  <2>4. /\ cmd' = [q \in Commands |-> cmd'[q]]
        /\ \A q \in Commands : q # p => cmd'[q] = cmd[q]
        /\ {"step", "req"} \subseteq DOMAIN cmd'[p]
        /\ "plan" \in DOMAIN cmd'[p]
        /\ cmd'[p].step = "backup" /\ cmd'[p].req = cmd[p].req /\ cmd'[p].plan = plan
    BY <2>2, <2>3, KeepMoves
  <2>5. PICK rs : rs = receipts /\ rs = receipts'
    BY DEF InstallRead, OnlyCmd
  <2>6. FileSafe(rs, c)
    BY <2>1, <2>5, ProcessFacts
  <2>7. plan.before = c /\ plan.after.body = after /\ c.state = "config"
    BY <1>4, <2>1 DEF Config
  <2>8. \A s \in DOMAIN after : EntrySafe(rs, after[s]) \/ after[s].route = path
    <3>1. DOMAIN after = DOMAIN c.body
      BY <2>1 DEF rewriteSelectedServers
    <3>2. \A s \in DOMAIN c.body : EntrySafe(rs, c.body[s])
      BY <2>6, <2>7 DEF FileSafe
    <3> QED  BY <2>1, <3>1, <3>2, RewriteSafe
  <2>9. PlanSafe(rs, path, plan)
    BY <2>6, <2>7, <2>8 DEF PlanSafe
  <2>10. path = PathFor(p, cmd'[p].req) /\ cmd'[p].req.op = "install" /\ path \in ReceiptPaths
    BY <2>1, <2>4, ProcessFacts DEF InstallRead, Step, InstallSafe
  <2>11. InstallSafe(receipts', backups', p, cmd'[p])
    BY <2>4, <2>5, <2>9, <2>10 DEF InstallSafe
  <2>12. UninstallSafe(receipts', cmd'[p]) /\ VerifyHonest(cmd'[p])
    BY <2>10 DEF UninstallSafe, VerifyHonest
  <2>13. Moves(p)
    BY <2>4, <2>11, <2>12 DEF Moves, ProcessOK
  <2> QED  BY <1>1, <2>13, OneMoves
<1> QED  BY <1>2, <1>3, <1>4 DEF InstallRead

\* The backup is saved at the path its hash makes, before the receipt is.
LEMMA WriteBackupSafe ==
  ASSUME NEW p \in Commands, FwInv, WriteBackup(p)
  PROVE  FwInv'
<1>1. /\ cmd[p].req.op = "install" /\ cmd[p].step = "backup"
      /\ cmd' = [cmd EXCEPT ![p].step = "pending"]
      /\ config' = config /\ receipts' = receipts
  BY DEF WriteBackup, Step, Go
<1>2. PICK before, bs, bs2 : before = cmd[p].plan.before /\ bs = backups /\ bs2 = backups'
  OBVIOUS
<1>3. bs2 = [x \in DOMAIN bs \cup {before} |-> IF x = before THEN before ELSE bs[x]]
  BY <1>2 DEF WriteBackup, BackupPath
<1>4. Saved(bs2, before) /\ \A c : Saved(bs, c) => Saved(bs2, c)
  BY <1>3 DEF Saved
<1>5. FilesSafe
  <2>1. PICK rs : rs = receipts /\ rs = receipts'
    BY <1>1
  <2>2. ReceiptsBacked(rs, bs) /\ FileSafe(rs, config) /\ rs = [r \in ReceiptPaths |-> rs[r]]
    BY <1>2, <2>1 DEF FwInv
  <2>3. ReceiptsBacked(rs, bs2)
    BY <1>4, <2>2 DEF ReceiptsBacked
  <2> QED  BY <1>1, <1>2, <1>4, <2>1, <2>2, <2>3 DEF FilesSafe
<1>6. /\ cmd' = [q \in Commands |-> cmd'[q]]
      /\ \A q \in Commands : q # p => cmd'[q] = cmd[q]
      /\ DOMAIN cmd'[p] = DOMAIN cmd[p] /\ {"step", "req"} \subseteq DOMAIN cmd'[p]
      /\ cmd'[p].step = "pending" /\ cmd'[p].req = cmd[p].req
      /\ "plan" \in DOMAIN cmd[p] => cmd'[p].plan = cmd[p].plan
  BY <1>1, GoMoves
<1>7. /\ PathFor(p, cmd[p].req) \in ReceiptPaths
      /\ "plan" \in DOMAIN cmd[p] /\ PlanSafe(receipts, PathFor(p, cmd[p].req), cmd[p].plan)
  BY <1>1, ProcessFacts DEF InstallSafe
<1>8. InstallSafe(receipts', backups', p, cmd'[p])
  BY <1>1, <1>2, <1>4, <1>6, <1>7 DEF InstallSafe
<1>9. UninstallSafe(receipts', cmd'[p]) /\ VerifyHonest(cmd'[p])
  BY <1>1, <1>6 DEF UninstallSafe, VerifyHonest
<1> QED  BY <1>5, <1>6, <1>8, <1>9, OneMoves DEF Moves, ProcessOK

\* A receipt written for a plan whose bytes are backed up.
LEMMA NotedSafe ==
  ASSUME NEW p \in Commands, NEW path \in ReceiptPaths, NEW state \in {"pending", "installed"},
         NEW before, NEW after,
         FwInv, Saved(backups, before), FileSafe(receipts, before),
         receipts' = [receipts EXCEPT ![path] = Receipt(state, before, after)],
         UNCHANGED <<config, backups>>
  PROVE  FilesSafe /\ Kept(receipts', path)
<1>1. PICK rs, rs2, bs : rs = receipts /\ rs2 = receipts' /\ bs = backups /\ bs = backups'
  OBVIOUS
<1>2. /\ rs = [r \in ReceiptPaths |-> rs[r]] /\ ReceiptsBacked(rs, bs)
      /\ FileSafe(rs, config) /\ Saved(bs, before) /\ FileSafe(rs, before)
  BY <1>1 DEF FwInv
<1>3. PICK new : new = Receipt(state, before, after)
  OBVIOUS
<1>4. new # NoReceipt /\ new.before = before
  <2>1. new.state = state /\ new.before = before
    BY <1>3 DEF Receipt
  <2>2. NoReceipt.state = "none" /\ state # "none"
    BY DEF NoReceipt
  <2> QED  BY <2>1, <2>2
<1>5. rs2 = [rs EXCEPT ![path] = new]
  BY <1>1, <1>3
<1>6. /\ rs2 = [r \in ReceiptPaths |-> rs2[r]] /\ rs2[path] = new
      /\ \A r \in ReceiptPaths : r # path => rs2[r] = rs[r]
  BY <1>2, <1>5
<1>7. Kept(rs2, path) /\ \A r : Kept(rs, r) => Kept(rs2, r)
  BY <1>4, <1>6 DEF Kept
<1>8. \A c : FileSafe(rs, c) => FileSafe(rs2, c)
  BY <1>7, KeptGrows
<1>9. ReceiptsBacked(rs2, bs)
  <2>1. ASSUME NEW r \in ReceiptPaths, rs2[r] # NoReceipt
        PROVE  Saved(bs, rs2[r].before) /\ FileSafe(rs2, rs2[r].before)
    <3>1. CASE r = path
      BY <1>2, <1>4, <1>6, <1>8, <3>1
    <3>2. CASE r # path
      BY <1>2, <1>6, <1>8, <2>1, <3>2 DEF ReceiptsBacked
    <3> QED  BY <3>1, <3>2
  <2> QED  BY <2>1 DEF ReceiptsBacked
<1> QED  BY <1>1, <1>2, <1>6, <1>7, <1>8, <1>9 DEF FilesSafe

\* An install past its backup has its bytes saved, and past "pending" its receipt.
LEMMA PlanFacts ==
  ASSUME NEW p \in Commands, FwInv, cmd[p].req.op = "install",
         cmd[p].step \in {"pending", "rewrite", "finalize"}
  PROVE  /\ ReceiptPath(p) = PathFor(p, cmd[p].req) /\ ReceiptPath(p) \in ReceiptPaths
         /\ "plan" \in DOMAIN cmd[p] /\ PlanSafe(receipts, ReceiptPath(p), cmd[p].plan)
         /\ Saved(backups, cmd[p].plan.before) /\ FileSafe(receipts, cmd[p].plan.before)
         /\ cmd[p].step \in {"rewrite", "finalize"} => Kept(receipts, ReceiptPath(p))
<1>1. /\ InstallSafe(receipts, backups, p, cmd[p]) /\ ReceiptPath(p) = PathFor(p, cmd[p].req)
  BY ProcessFacts
<1> QED  BY <1>1 DEF InstallSafe, PlanSafe

\* The pending receipt is written once its backup is there.
LEMMA WritePendingSafe ==
  ASSUME NEW p \in Commands, FwInv, WritePending(p)
  PROVE  FwInv'
<1>1. /\ cmd[p].req.op = "install" /\ cmd[p].step = "pending"
      /\ cmd' = [cmd EXCEPT ![p].step = "rewrite"] /\ UNCHANGED <<config, backups>>
  BY DEF WritePending, Step, Go
<1>2. PICK path, plan : path = ReceiptPath(p) /\ plan = cmd[p].plan
  OBVIOUS
<1>3. /\ path \in ReceiptPaths /\ path = PathFor(p, cmd[p].req) /\ "plan" \in DOMAIN cmd[p]
      /\ PlanSafe(receipts, path, plan)
      /\ Saved(backups, plan.before) /\ FileSafe(receipts, plan.before)
  BY <1>1, <1>2, PlanFacts
<1>4. receipts' = [receipts EXCEPT ![path] = Receipt("pending", plan.before, plan.after)]
  BY <1>2 DEF WritePending
<1>5. FilesSafe /\ Kept(receipts', path)
  BY <1>1, <1>3, <1>4, NotedSafe
<1>6. /\ cmd' = [q \in Commands |-> cmd'[q]]
      /\ \A q \in Commands : q # p => cmd'[q] = cmd[q]
      /\ DOMAIN cmd'[p] = DOMAIN cmd[p] /\ {"step", "req"} \subseteq DOMAIN cmd'[p]
      /\ cmd'[p].step = "rewrite" /\ cmd'[p].req = cmd[p].req /\ cmd'[p].plan = plan
  BY <1>1, <1>2, <1>3, GoMoves
<1>7. PlanSafe(receipts', path, plan) /\ Saved(backups', plan.before)
  <2>1. PICK rs, rs2, bs, bs2 : rs = receipts /\ rs2 = receipts' /\ bs = backups /\ bs2 = backups'
    OBVIOUS
  <2>2. (\A r : Kept(rs, r) => Kept(rs2, r)) /\ (\A d : Saved(bs, d) => Saved(bs2, d))
    BY <1>5, <2>1 DEF FilesSafe
  <2>3. (\A e : EntrySafe(rs, e) => EntrySafe(rs2, e)) /\ (\A c : FileSafe(rs, c) => FileSafe(rs2, c))
    BY <2>2, KeptGrows
  <2>4. PlanSafe(rs2, path, plan) /\ Saved(bs2, plan.before)
    BY <1>3, <2>1, <2>2, <2>3 DEF PlanSafe
  <2> QED  BY <2>1, <2>4
<1>8. InstallSafe(receipts', backups', p, cmd'[p])
  BY <1>3, <1>5, <1>6, <1>7 DEF InstallSafe
<1>9. UninstallSafe(receipts', cmd'[p]) /\ VerifyHonest(cmd'[p])
  BY <1>1, <1>6 DEF UninstallSafe, VerifyHonest
<1> QED  BY <1>5, <1>6, <1>8, <1>9, OneMoves DEF Moves, ProcessOK

\* The configuration is rewritten once the receipt it names is there.
LEMMA RewriteConfigSafe ==
  ASSUME NEW p \in Commands, FwInv, RewriteConfig(p)
  PROVE  FwInv'
<1>1. /\ cmd[p].req.op = "install" /\ cmd[p].step = "rewrite"
      /\ cmd' = [cmd EXCEPT ![p].step = "finalize"] /\ UNCHANGED <<receipts, backups>>
  BY DEF RewriteConfig, Step, Go
<1>2. PICK path, plan : path = ReceiptPath(p) /\ plan = cmd[p].plan
  OBVIOUS
<1>3. /\ path \in ReceiptPaths /\ path = PathFor(p, cmd[p].req) /\ "plan" \in DOMAIN cmd[p]
      /\ PlanSafe(receipts, path, plan) /\ Kept(receipts, path)
      /\ Saved(backups, plan.before) /\ FileSafe(receipts, plan.before)
  BY <1>1, <1>2, PlanFacts
<1>4. FileSafe(receipts, plan.after)
  BY <1>3 DEF PlanSafe, FileSafe, EntrySafe
<1>5. FilesSafe
  <2>1. config' = plan.after
    BY <1>2 DEF RewriteConfig
  <2>2. PICK rs : rs = receipts /\ rs = receipts'
    BY <1>1
  <2>3. FileSafe(rs, config')
    BY <1>4, <2>1, <2>2
  <2> QED  BY <1>1, <2>2, <2>3 DEF FilesSafe, FwInv
<1>6. /\ cmd' = [q \in Commands |-> cmd'[q]]
      /\ \A q \in Commands : q # p => cmd'[q] = cmd[q]
      /\ DOMAIN cmd'[p] = DOMAIN cmd[p] /\ {"step", "req"} \subseteq DOMAIN cmd'[p]
      /\ cmd'[p].step = "finalize" /\ cmd'[p].req = cmd[p].req /\ cmd'[p].plan = plan
  BY <1>1, <1>2, <1>3, GoMoves
<1>7. InstallSafe(receipts', backups', p, cmd'[p])
  BY <1>1, <1>3, <1>6 DEF InstallSafe
<1>8. UninstallSafe(receipts', cmd'[p]) /\ VerifyHonest(cmd'[p])
  BY <1>1, <1>6 DEF UninstallSafe, VerifyHonest
<1> QED  BY <1>5, <1>6, <1>7, <1>8, OneMoves DEF Moves, ProcessOK

\* The installed receipt replaces the pending one.
LEMMA FinalizeReceiptSafe ==
  ASSUME NEW p \in Commands, FwInv, FinalizeReceipt(p)
  PROVE  FwInv'
<1>1. /\ cmd[p].req.op = "install" /\ cmd[p].step = "finalize"
      /\ End(p, [status |-> "installed"]) /\ UNCHANGED <<config, backups>>
  BY DEF FinalizeReceipt, Step
<1>2. PICK path, plan : path = ReceiptPath(p) /\ plan = cmd[p].plan
  OBVIOUS
<1>3. /\ path \in ReceiptPaths
      /\ Saved(backups, plan.before) /\ FileSafe(receipts, plan.before)
  BY <1>1, <1>2, PlanFacts
<1>4. receipts' = [receipts EXCEPT ![path] = Receipt("installed", plan.before, plan.after)]
  BY <1>2 DEF FinalizeReceipt
<1>5. FilesSafe
  BY <1>1, <1>3, <1>4, NotedSafe
<1>6. Moves(p)
  BY <1>1, EndSafe
<1> QED  BY <1>5, <1>6, OneMoves

\* An uninstall reads a receipt, whose bytes are safe.
LEMMA UninstallReadReceiptSafe ==
  ASSUME NEW p \in Commands, FwInv, UninstallReadReceipt(p)
  PROVE  FwInv'
<1>1. FilesSafe /\ receipts' = receipts /\ cmd[p].req.op = "uninstall"
  BY FilesKept DEF UninstallReadReceipt, OnlyCmd, Step
<1>2. CASE Fail(p)
  BY <1>1, <1>2, FailSafe, OneMoves
<1>3. CASE \E r \in ReceiptPaths :
             receipts[r].state = "installed" /\ Keep(p, "check", "receipt", receipts[r])
  <2>1. PICK r \in ReceiptPaths :
          receipts[r].state = "installed" /\ Keep(p, "check", "receipt", receipts[r])
    BY <1>3
  <2>2. PICK rs, receipt : rs = receipts /\ rs = receipts' /\ receipt = receipts[r]
    BY <1>1
  <2>3. FileSafe(rs, receipt.before)
    <3>0. NoReceipt.state = "none" /\ receipt.state = "installed"
      BY <2>1, <2>2 DEF NoReceipt
    <3>1. receipt # NoReceipt
      BY <3>0
    <3> QED  BY <2>2, <3>1 DEF FwInv, ReceiptsBacked
  <2>4. "receipt" \notin {"step", "req"} /\ Keep(p, "check", "receipt", receipt)
    BY <2>1, <2>2
  <2>5. /\ cmd' = [q \in Commands |-> cmd'[q]]
        /\ \A q \in Commands : q # p => cmd'[q] = cmd[q]
        /\ {"step", "req"} \subseteq DOMAIN cmd'[p]
        /\ "receipt" \in DOMAIN cmd'[p]
        /\ cmd'[p].step = "check" /\ cmd'[p].req = cmd[p].req /\ cmd'[p].receipt = receipt
    BY <2>4, KeepMoves
  <2>6. InstallSafe(receipts', backups', p, cmd'[p]) /\ VerifyHonest(cmd'[p])
    BY <1>1, <2>5 DEF InstallSafe, VerifyHonest
  <2>7. UninstallSafe(receipts', cmd'[p])
    BY <2>2, <2>3, <2>5 DEF UninstallSafe
  <2> QED  BY <1>1, <2>5, <2>6, <2>7, OneMoves DEF Moves, ProcessOK
<1> QED  BY <1>2, <1>3 DEF UninstallReadReceipt

\* The checks of an uninstall change no file.
LEMMA UninstallCheckSafe ==
  ASSUME NEW p \in Commands, FwInv, UninstallCheck(p)
  PROVE  FwInv'
<1>1. /\ FilesSafe /\ receipts' = receipts
      /\ cmd[p].req.op = "uninstall" /\ cmd[p].step = "check"
  BY FilesKept DEF UninstallCheck, OnlyCmd, Step
<1>2. CASE Fail(p)
  BY <1>1, <1>2, FailSafe, OneMoves
<1>3. CASE End(p, [status |-> "planned"])
  BY <1>1, <1>3, EndSafe, OneMoves
<1>4. CASE Keep(p, "restore", "read", config)
  <2>1. "receipt" \in DOMAIN cmd[p] /\ FileSafe(receipts, cmd[p].receipt.before)
    BY <1>1, ProcessFacts DEF UninstallSafe
  <2>2. "read" \notin {"step", "req"} /\ "receipt" \notin {"read", "step"}
    OBVIOUS
  <2>3. /\ cmd' = [q \in Commands |-> cmd'[q]]
        /\ \A q \in Commands : q # p => cmd'[q] = cmd[q]
        /\ {"step", "req"} \subseteq DOMAIN cmd'[p]
        /\ cmd'[p].step = "restore" /\ cmd'[p].req = cmd[p].req
    BY <1>4, <2>2, KeepMoves
  <2>4. "receipt" \in DOMAIN cmd'[p] /\ cmd'[p].receipt = cmd[p].receipt
    BY <1>4, <2>1, <2>2, ProcessFacts DEF Keep
  <2>5. InstallSafe(receipts', backups', p, cmd'[p]) /\ VerifyHonest(cmd'[p])
    BY <1>1, <2>3 DEF InstallSafe, VerifyHonest
  <2>6. UninstallSafe(receipts', cmd'[p])
    BY <1>1, <2>1, <2>3, <2>4 DEF UninstallSafe
  <2> QED  BY <1>1, <2>3, <2>5, <2>6, OneMoves DEF Moves, ProcessOK
<1> QED  BY <1>2, <1>3, <1>4 DEF UninstallCheck

\* An uninstall puts back bytes whose routes are all kept.
LEMMA RestoreConfigSafe ==
  ASSUME NEW p \in Commands, FwInv, RestoreConfig(p)
  PROVE  FwInv'
<1>1. /\ cmd[p].req.op = "uninstall" /\ cmd[p].step = "restore"
      /\ config' = cmd[p].receipt.before /\ UNCHANGED <<receipts, backups>>
      /\ End(p, [status |-> "restored"])
  BY DEF RestoreConfig, Step
<1>2. FileSafe(receipts, cmd[p].receipt.before)
  BY <1>1, ProcessFacts DEF UninstallSafe
<1>3. FilesSafe
  <2>1. PICK rs : rs = receipts /\ rs = receipts'
    BY <1>1
  <2>2. FileSafe(rs, config')
    BY <1>1, <1>2, <2>1
  <2> QED  BY <1>1, <2>1, <2>2 DEF FilesSafe, FwInv
<1>4. Moves(p)
  BY <1>1, EndSafe
<1> QED  BY <1>3, <1>4, OneMoves

\* The steps of the other commands that leave a process running.
LEMMA ElsewhereSafe ==
  ASSUME NEW p \in Commands, FwInv,
         cmd' = [q \in Commands |-> cmd'[q]],
         \A q \in Commands : q # p => cmd'[q] = cmd[q],
         {"step", "req"} \subseteq DOMAIN cmd'[p],
         cmd'[p].req = cmd[p].req, cmd'[p].step # "done",
         cmd[p].req.op \notin {"install", "uninstall"}
  PROVE  Moves(p)
<1>1. InstallSafe(receipts', backups', p, cmd'[p])
  BY DEF InstallSafe
<1>2. UninstallSafe(receipts', cmd'[p]) /\ VerifyHonest(cmd'[p])
  BY DEF UninstallSafe, VerifyHonest
<1> QED  BY <1>1, <1>2 DEF Moves, ProcessOK

\* A lock reads the configuration.
LEMMA LockReadSafe ==
  ASSUME NEW p \in Commands, FwInv, LockRead(p)
  PROVE  FwInv'
<1>1. FilesSafe /\ cmd[p].req.op = "lock"
  BY FilesKept DEF LockRead, OnlyCmd, Step
<1>2. CASE Fail(p)
  BY <1>1, <1>2, FailSafe, OneMoves
<1>3. CASE End(p, [status |-> "planned"])
  BY <1>1, <1>3, EndSafe, OneMoves
<1>4. ASSUME NEW servers, Keep(p, "write", "servers", servers)
      PROVE  FwInv'
  <2>1. "servers" \notin {"step", "req"} /\ "write" # "done"
    OBVIOUS
  <2>2. Moves(p)
    BY <1>1, <1>4, <2>1, KeepMoves, ElsewhereSafe
  <2> QED  BY <1>1, <2>2, OneMoves
<1> QED  BY <1>2, <1>3, <1>4 DEF LockRead

\* A verification reads the lock.
LEMMA VerifyReadLockSafe ==
  ASSUME NEW p \in Commands, FwInv, VerifyReadLock(p)
  PROVE  FwInv'
<1>1. FilesSafe /\ cmd[p].req.op = "verify"
  BY FilesKept DEF VerifyReadLock, OnlyCmd, Step
<1>2. CASE Fail(p)
  BY <1>1, <1>2, FailSafe, OneMoves
<1>3. ASSUME NEW servers, Keep(p, "compare", "servers", servers)
      PROVE  FwInv'
  <2>1. "servers" \notin {"step", "req"} /\ "compare" # "done"
    OBVIOUS
  <2>2. Moves(p)
    BY <1>1, <1>3, <2>1, KeepMoves, ElsewhereSafe
  <2> QED  BY <1>1, <2>2, OneMoves
<1> QED  BY <1>2, <1>3 DEF VerifyReadLock

\* A verification compares what it read with what was locked (VerifyDescriptorLock).
LEMMA VerifyCompareSafe ==
  ASSUME NEW p \in Commands, FwInv, VerifyCompare(p)
  PROVE  FwInv'
<1>1. FilesSafe
  BY FilesKept DEF VerifyCompare, OnlyCmd
<1>2. CASE Fail(p)
  BY <1>1, <1>2, FailSafe, OneMoves
<1>3. ASSUME NEW locked, NEW current, NEW onChange,
             End(p, VerifyDescriptorLock(locked, current, onChange))
      PROVE  FwInv'
  <2>1. PICK result : result = VerifyDescriptorLock(locked, current, onChange)
    OBVIOUS
  <2>2. result.status = "ok" => ~Drift(result.locked, result.current)
    BY <2>1 DEF VerifyDescriptorLock
  <2>3. Moves(p)
    BY <1>3, <2>1, <2>2, EndSafe
  <2> QED  BY <1>1, <2>3, OneMoves
<1> QED  BY <1>2, <1>3 DEF VerifyCompare

\* The lock is written.
LEMMA WriteLockSafe ==
  ASSUME NEW p \in Commands, FwInv, WriteLock(p)
  PROVE  FwInv'
<1>1. FilesSafe
  BY FilesKept DEF WriteLock
<1>2. cmd[p].req.op = "lock" /\ End(p, [status |-> "locked"])
  BY DEF WriteLock, Step
<1> QED  BY <1>1, <1>2, EndSafe, OneMoves

\* The report reads the state.
LEMMA DashboardSafe ==
  ASSUME NEW p \in Commands, FwInv, Dashboard(p)
  PROVE  FwInv'
<1>1. FilesSafe /\ cmd[p].req.op = "dashboard"
  BY FilesKept DEF Dashboard, OnlyCmd, Step
<1>2. PICK result : End(p, result)
  BY DEF Dashboard
<1> QED  BY <1>1, <1>2, EndSafe, OneMoves

\* The policies command looks at the path of a template.
LEMMA StatPolicySafe ==
  ASSUME NEW p \in Commands, FwInv, StatPolicy(p)
  PROVE  FwInv'
<1>1. FilesSafe /\ cmd[p].req.op = "policies"
  BY FilesKept DEF StatPolicy, OnlyCmd, Step
<1>2. CASE Fail(p)
  BY <1>1, <1>2, FailSafe, OneMoves
<1>3. CASE Go(p, "write")
  <2>1. cmd' = [cmd EXCEPT ![p].step = "write"] /\ "write" # "done"
    BY <1>3 DEF Go
  <2>2. Moves(p)
    BY <1>1, <2>1, GoMoves, ElsewhereSafe
  <2> QED  BY <1>1, <2>2, OneMoves
<1> QED  BY <1>2, <1>3 DEF StatPolicy

\* It writes a starter policy there.
LEMMA WritePolicySafe ==
  ASSUME NEW p \in Commands, FwInv, WritePolicy(p)
  PROVE  FwInv'
<1>1. FilesSafe /\ cmd[p].req.op = "policies"
  BY FilesKept DEF WritePolicy, Step
<1>2. CASE End(p, [status |-> "generated"])
  BY <1>1, <1>2, EndSafe, OneMoves
<1>3. ASSUME NEW at, Keep(p, "start", "at", at)
      PROVE  FwInv'
  <2>1. "at" \notin {"step", "req"} /\ "start" # "done"
    OBVIOUS
  <2>2. Moves(p)
    BY <1>1, <1>3, <2>1, KeepMoves, ElsewhereSafe
  <2> QED  BY <1>1, <2>2, OneMoves
<1> QED  BY <1>2, <1>3 DEF WritePolicy

\* A write may fail and a process may be killed at any step.
LEMMA FaultSafe ==
  ASSUME NEW p \in Commands, FwInv, WriteFails(p) \/ Kill(p)
  PROVE  FwInv'
<1>1. FilesSafe
  BY FilesKept DEF WriteFails, Kill, OnlyCmd
<1>2. CASE WriteFails(p)
  BY <1>1, <1>2, FailSafe, OneMoves DEF WriteFails
<1>3. CASE Kill(p)
  <2>1. cmd' = [cmd EXCEPT ![p].step = "killed"]
    BY <1>3 DEF Kill
  <2>2. /\ cmd' = [q \in Commands |-> cmd'[q]]
        /\ \A q \in Commands : q # p => cmd'[q] = cmd[q]
        /\ {"step", "req"} \subseteq DOMAIN cmd'[p]
        /\ cmd'[p].step = "killed" /\ cmd'[p].req = cmd[p].req
    BY <2>1, GoMoves
  <2>3. InstallSafe(receipts', backups', p, cmd'[p])
    BY <2>2, ProcessFacts DEF InstallSafe
  <2>4. UninstallSafe(receipts', cmd'[p]) /\ VerifyHonest(cmd'[p])
    BY <2>2 DEF UninstallSafe, VerifyHonest
  <2> QED  BY <1>1, <2>2, <2>3, <2>4, OneMoves DEF Moves, ProcessOK
<1> QED  BY <1>2, <1>3

\* The operator edits the configuration with direct entries.
LEMMA EditSafe ==
  ASSUME FwInv, Edit
  PROVE  FwInv'
<1>1. UNCHANGED <<receipts, backups, cmd>> /\ config.state = "config"
  BY DEF Edit
<1>2. PICK e \in Edits : config' = Config([config.body EXCEPT ![e.slot] = e.entry])
  BY DEF Edit
<1>3. PICK rs, body : rs = receipts /\ rs = receipts' /\ body = config.body
  BY <1>1
<1>4. \A s \in DOMAIN body : EntrySafe(rs, body[s])
  BY <1>1, <1>3 DEF FwInv, FileSafe
<1>5. EntrySafe(rs, e.entry)
  BY EditsAssumption DEF EntrySafe
<1>6. FileSafe(rs, config')
  <2>1. PICK new : new = [body EXCEPT ![e.slot] = e.entry]
    OBVIOUS
  <2>2. config'.body = new
    BY <1>2, <1>3, <2>1 DEF Config
  <2>3. \A s \in DOMAIN new : EntrySafe(rs, new[s])
    BY <1>4, <1>5, <2>1
  <2> QED  BY <2>2, <2>3 DEF FileSafe
<1>7. PICK bs, ps : bs = backups /\ bs = backups' /\ ps = cmd /\ ps = cmd'
  BY <1>1
<1>8. /\ ps = [p \in Commands |-> ps[p]] /\ rs = [r \in ReceiptPaths |-> rs[r]]
      /\ ReceiptsBacked(rs, bs) /\ \A p \in Commands : ProcessOK(rs, bs, p, ps[p])
  BY <1>3, <1>7 DEF FwInv
<1> QED  BY <1>3, <1>6, <1>7, <1>8 DEF FwInv

\* The commands start on safe files.
LEMMA FwInitSafe ==
  ASSUME Init
  PROVE  FwInv
<1>1. /\ receipts = [r \in ReceiptPaths |-> NoReceipt]
      /\ \/ \E w \in Workloads : cmd = [p \in Commands |-> [step |-> "start", req |-> w[p]]]
         \/ cmd = [p \in Commands |-> [step |-> "killed", req |-> [op |-> "none"]]]
  BY DEF Init, FwInit, NoCommands
<1>2. ReceiptsBacked(receipts, backups)
  BY <1>1 DEF ReceiptsBacked
<1>3. FileSafe(receipts, config)
  <2>1. CASE config \in Starts
    BY <2>1, StartsAssumption DEF FileSafe, EntrySafe
  <2>2. CASE config = NoFile
    BY <2>2 DEF NoFile, FileSafe
  <2> QED  BY <2>1, <2>2 DEF Init, FwInit, NoCommands
<1>4. ASSUME NEW p \in Commands
      PROVE  ProcessOK(receipts, backups, p, cmd[p])
  <2>1. CASE \E w \in Workloads : cmd = [q \in Commands |-> [step |-> "start", req |-> w[q]]]
    <3>1. PICK w \in Workloads : cmd[p] = [step |-> "start", req |-> w[p]]
      BY <2>1
    <3>2. {"step", "req"} \subseteq DOMAIN cmd[p] /\ cmd[p].step = "start" /\ cmd[p].req = w[p]
      BY <3>1
    <3>3. w[p].op = "install" => PathFor(p, w[p]) \in ReceiptPaths
      BY WorkloadAssumption DEF PathFor, ReceiptPaths
    <3> QED  BY <3>2, <3>3 DEF ProcessOK, InstallSafe, UninstallSafe, VerifyHonest
  <2>2. CASE cmd = [q \in Commands |-> [step |-> "killed", req |-> [op |-> "none"]]]
    <3>1. {"step", "req"} \subseteq DOMAIN cmd[p] /\ cmd[p].step = "killed" /\ cmd[p].req.op = "none"
      BY <2>2
    <3> QED  BY <3>1 DEF ProcessOK, InstallSafe, UninstallSafe, VerifyHonest
  <2> QED  BY <2>1, <2>2, <1>1
<1>5. cmd = [p \in Commands |-> cmd[p]] /\ receipts = [r \in ReceiptPaths |-> receipts[r]]
  BY <1>1
<1> QED  BY <1>2, <1>3, <1>4, <1>5 DEF FwInv

\* Every step of the commands and of the ingest keeps the invariant.
LEMMA FwNextSafe ==
  ASSUME FwInv, [Next]_vars
  PROVE  FwInv'
<1>1. CASE UNCHANGED fwVars
  BY <1>1 DEF FwInv, fwVars
<1>2. CASE FwNext
  <2>1. CASE Edit
    BY <2>1, EditSafe
  <2>2. ASSUME NEW p \in Commands,
               \/ InstallRead(p) \/ WriteBackup(p) \/ WritePending(p) \/ RewriteConfig(p)
               \/ FinalizeReceipt(p) \/ UninstallReadReceipt(p) \/ UninstallCheck(p)
               \/ RestoreConfig(p) \/ LockRead(p) \/ WriteLock(p) \/ VerifyReadLock(p)
               \/ VerifyCompare(p) \/ Dashboard(p) \/ StatPolicy(p) \/ WritePolicy(p)
               \/ WriteFails(p) \/ Kill(p)
        PROVE  FwInv'
    BY <2>2, InstallReadSafe, WriteBackupSafe, WritePendingSafe, RewriteConfigSafe,
       FinalizeReceiptSafe, UninstallReadReceiptSafe, UninstallCheckSafe, RestoreConfigSafe,
       LockReadSafe, WriteLockSafe, VerifyReadLockSafe, VerifyCompareSafe, DashboardSafe,
       StatPolicySafe, WritePolicySafe, FaultSafe
  <2> QED  BY <1>2, <2>1, <2>2 DEF FwNext
<1> QED  BY <1>1, <1>2 DEF Next, vars

\* The receipts, the backups, the configuration and what every process still intends to
\* write fit together in every reachable state, for any commands, edits and faults
\* (InstallConfig, UninstallConfig).
THEOREM FwInvariant ==
  Spec => []FwInv
<1>1. Init => FwInv
  BY FwInitSafe
<1>2. FwInv /\ [Next]_vars => FwInv'
  BY FwNextSafe
<1> QED  BY <1>1, <1>2, PTL DEF Spec

-----------------------------------------------------------------------------
(* The way back.  Receipts rs, backups bs and the paths `sole` that one     *)
(* unforced install alone writes are parameters.                            *)

SolePaths == {r \in ReceiptPaths : SoleReceipt(r)}

HasUnrouted(bs, s) == \E c \in DOMAIN bs : bs[c] = c /\ Unrouted(c, s)

\* A server at slot s that is routed by receipt r has its way back.
Way(rs, bs, sole, s, r) ==
  /\ HasUnrouted(bs, s)
  /\ r \in sole => rs[r] # NoReceipt /\ Unrouted(rs[r].before, s)

EntryWay(rs, bs, sole, s, e) == e = NoEntry \/ e.route = "direct" \/ Way(rs, bs, sole, s, e.route)

FileWay(rs, bs, sole, c) ==
  c.state = "config" => \A s \in DOMAIN c.body : EntryWay(rs, bs, sole, s, c.body[s])

\* What an install is about to write: a server it routes itself is unrouted in the bytes
\* it read, or it was routed by force.
Planned(bs, sole, path, before, s, e) ==
  /\ e.route = path
  /\ Unrouted(before, s) \/ (HasUnrouted(bs, s) /\ path \notin sole)

PlanWay(rs, bs, sole, path, plan) ==
  /\ FileWay(rs, bs, sole, plan.before)
  /\ \A s \in DOMAIN plan.after.body :
       \/ EntryWay(rs, bs, sole, s, plan.after.body[s])
       \/ Planned(bs, sole, path, plan.before, s, plan.after.body[s])

\* The receipt at a path of one install alone appears with its pending write and holds
\* the bytes that install read.
SoleInstall(rs, sole, p, c) ==
  c.req.op = "install" /\ PathFor(p, c.req) \in sole =>
    /\ ~c.req.force
    /\ c.step \in {"start", "backup", "pending"} => rs[PathFor(p, c.req)] = NoReceipt
    /\ c.step \in {"rewrite", "finalize"} => rs[PathFor(p, c.req)].before = c.plan.before

InstallWay(rs, bs, sole, p, c) ==
  c.req.op = "install" /\ c.step \in {"backup", "pending", "rewrite", "finalize"} =>
    PlanWay(rs, bs, sole, PathFor(p, c.req), c.plan)

UninstallWay(rs, bs, sole, c) ==
  c.req.op = "uninstall" /\ c.step \in {"check", "restore"} => FileWay(rs, bs, sole, c.receipt.before)

ProcessWay(rs, bs, sole, p, c) ==
  SoleInstall(rs, sole, p, c) /\ InstallWay(rs, bs, sole, p, c) /\ UninstallWay(rs, bs, sole, c)

WayInv ==
  /\ FileWay(receipts, backups, SolePaths, config)
  /\ \A r \in ReceiptPaths :
       receipts[r] # NoReceipt => FileWay(receipts, backups, SolePaths, receipts[r].before)
  /\ \A p \in Commands : ProcessWay(receipts, backups, SolePaths, p, cmd[p])

\* Receipts and backups only grow, and a receipt of one install keeps its bytes.
Grows(rs, rs2, bs, bs2, sole) ==
  /\ \A c : Saved(bs, c) => Saved(bs2, c)
  /\ \A r \in sole : rs[r] # NoReceipt => rs2[r] # NoReceipt /\ rs2[r].before = rs[r].before

LEMMA WayGrows ==
  ASSUME NEW rs, NEW rs2, NEW bs, NEW bs2, NEW sole, Grows(rs, rs2, bs, bs2, sole)
  PROVE  /\ \A s : HasUnrouted(bs, s) => HasUnrouted(bs2, s)
         /\ \A s, e : EntryWay(rs, bs, sole, s, e) => EntryWay(rs2, bs2, sole, s, e)
         /\ \A c : FileWay(rs, bs, sole, c) => FileWay(rs2, bs2, sole, c)
         /\ \A path, plan : PlanWay(rs, bs, sole, path, plan) => PlanWay(rs2, bs2, sole, path, plan)
<1>1. \A s : HasUnrouted(bs, s) => HasUnrouted(bs2, s)
  BY DEF Grows, Saved, HasUnrouted
<1>2. \A s, r : Way(rs, bs, sole, s, r) => Way(rs2, bs2, sole, s, r)
  BY <1>1 DEF Grows, Way
<1>3. \A s, e : EntryWay(rs, bs, sole, s, e) => EntryWay(rs2, bs2, sole, s, e)
  BY <1>2 DEF EntryWay
<1>4. \A c : FileWay(rs, bs, sole, c) => FileWay(rs2, bs2, sole, c)
  BY <1>3 DEF FileWay
<1>5. \A path, plan : PlanWay(rs, bs, sole, path, plan) => PlanWay(rs2, bs2, sole, path, plan)
  BY <1>1, <1>3, <1>4 DEF PlanWay, Planned
<1> QED  BY <1>1, <1>3, <1>4, <1>5

\* Two processes that install do not share a path one of them has alone.
LEMMA SoleApart ==
  ASSUME FwInv, NEW p \in Commands, NEW q \in Commands, p # q,
         cmd[p].req.op = "install", cmd[q].req.op = "install", ReceiptPath(q) \in SolePaths
  PROVE  ReceiptPath(p) # ReceiptPath(q)
<1>1. PICK r : r = ReceiptPath(q) /\ SoleReceipt(r)
  BY DEF SolePaths
<1>2. PICK o \in Commands :
        /\ cmd[o].req.op = "install" /\ ReceiptPath(o) = r /\ ~cmd[o].req.force
        /\ \A t \in Commands \ {o} : cmd[t].req.op = "install" => ReceiptPath(t) # r
  BY <1>1 DEF SoleReceipt
<1>3. q = o
  BY <1>1, <1>2
<1> QED  BY <1>1, <1>2, <1>3

LEMMA SoleUnforced ==
  ASSUME NEW p \in Commands, cmd[p].req.op = "install", ReceiptPath(p) \in SolePaths
  PROVE  ~cmd[p].req.force
<1>1. SoleReceipt(ReceiptPath(p))
  BY DEF SolePaths
<1>2. PICK o \in Commands :
        /\ cmd[o].req.op = "install" /\ ReceiptPath(o) = ReceiptPath(p) /\ ~cmd[o].req.force
        /\ \A t \in Commands \ {o} : cmd[t].req.op = "install" => ReceiptPath(t) # ReceiptPath(p)
  BY <1>1 DEF SoleReceipt
<1> QED  BY <1>2

\* No step changes what the processes are asked, so the sole paths stay.
LEMMA SoleStays ==
  ASSUME \A q \in Commands : cmd'[q].req = cmd[q].req
  PROVE  SolePaths' = SolePaths
<1>1. \A q \in Commands : ReceiptPath(q)' = ReceiptPath(q)
  BY DEF ReceiptPath
<1>2. \A r : SoleReceipt(r)' <=> SoleReceipt(r)
  BY <1>1 DEF SoleReceipt
<1> QED  BY <1>2 DEF SolePaths

\* One process moves: the others find their receipts as they were.
OtherReceiptsStay(p) ==
  \/ receipts' = receipts
  \/ cmd[p].req.op = "install" /\ \A r \in ReceiptPaths : r # ReceiptPath(p) => receipts'[r] = receipts[r]

Moved(p) ==
  /\ \A q \in Commands : q # p => cmd'[q] = cmd[q]
  /\ cmd'[p].req = cmd[p].req

LEMMA WayStep ==
  ASSUME FwInv, WayInv, NEW p \in Commands, Moved(p), OtherReceiptsStay(p),
         Grows(receipts, receipts', backups, backups', SolePaths),
         FileWay(receipts', backups', SolePaths, config'),
         \A r \in ReceiptPaths : receipts'[r] # NoReceipt =>
           FileWay(receipts', backups', SolePaths, receipts'[r].before),
         ProcessWay(receipts', backups', SolePaths, p, cmd'[p])
  PROVE  WayInv'
<1>1. \A q \in Commands : cmd'[q].req = cmd[q].req
  BY DEF Moved
<1>2. SolePaths' = SolePaths
  BY <1>1, SoleStays
<1>3. ASSUME NEW q \in Commands PROVE ProcessWay(receipts', backups', SolePaths, q, cmd'[q])
  <2>1. CASE q = p
    BY <2>1
  <2>2. CASE q # p
    <3>1. PICK rs, rs2, bs, bs2, sole, c :
            /\ rs = receipts /\ rs2 = receipts' /\ bs = backups /\ bs2 = backups'
            /\ sole = SolePaths /\ c = cmd[q]
      OBVIOUS
    <3>2. ProcessWay(rs, bs, sole, q, c) /\ Grows(rs, rs2, bs, bs2, sole) /\ c = cmd'[q]
      BY <2>2, <3>1 DEF WayInv, Moved
    <3>3. InstallWay(rs2, bs2, sole, q, c) /\ UninstallWay(rs2, bs2, sole, c)
      BY <3>2, WayGrows DEF ProcessWay, InstallWay, UninstallWay
    <3>4. SoleInstall(rs2, sole, q, c)
      <4> SUFFICES ASSUME c.req.op = "install", PathFor(q, c.req) \in sole
                   PROVE  rs2[PathFor(q, c.req)] = rs[PathFor(q, c.req)]
        BY <3>2 DEF ProcessWay, SoleInstall
      <4>1. ReceiptPath(q) = PathFor(q, c.req) /\ ReceiptPath(q) \in ReceiptPaths
        BY <3>1, ProcessFacts DEF SolePaths
      <4>2. cmd[p].req.op = "install" => ReceiptPath(p) # ReceiptPath(q)
        BY <2>2, <3>1, <4>1, SoleApart
      <4> QED  BY <3>1, <4>1, <4>2 DEF OtherReceiptsStay
    <3> QED  BY <3>1, <3>2, <3>3, <3>4 DEF ProcessWay
  <2> QED  BY <2>1, <2>2
<1> QED  BY <1>2, <1>3 DEF WayInv

\* A step that leaves configuration, backups and receipts alone.
LEMMA WayQuietStep ==
  ASSUME FwInv, WayInv, NEW p \in Commands, Moved(p), UNCHANGED <<config, backups, receipts>>,
         ProcessWay(receipts, backups, SolePaths, p, cmd'[p])
  PROVE  WayInv'
<1>1. PICK rs, bs : rs = receipts /\ rs = receipts' /\ bs = backups /\ bs = backups'
  OBVIOUS
<1>2. Grows(rs, rs, bs, bs, SolePaths)
  BY DEF Grows
<1>3. /\ FileWay(rs, bs, SolePaths, config')
      /\ \A r \in ReceiptPaths : rs[r] # NoReceipt => FileWay(rs, bs, SolePaths, rs[r].before)
      /\ ProcessWay(rs, bs, SolePaths, p, cmd'[p])
  BY <1>1 DEF WayInv
<1> QED  BY <1>1, <1>2, <1>3, WayStep DEF OtherReceiptsStay

\* What the two invariants say of an install under way.
LEMMA WayFacts ==
  ASSUME FwInv, WayInv, NEW p \in Commands, cmd[p].req.op = "install"
  PROVE  /\ ReceiptPath(p) = PathFor(p, cmd[p].req) /\ ReceiptPath(p) \in ReceiptPaths
         /\ SoleInstall(receipts, SolePaths, p, cmd[p])
         /\ cmd[p].step \in {"backup", "pending", "rewrite", "finalize"} =>
              "plan" \in DOMAIN cmd[p] /\ PlanWay(receipts, backups, SolePaths, ReceiptPath(p), cmd[p].plan)
         /\ cmd[p].step \in {"pending", "rewrite", "finalize"} => Saved(backups, cmd[p].plan.before)
<1>1. InstallSafe(receipts, backups, p, cmd[p]) /\ ReceiptPath(p) = PathFor(p, cmd[p].req)
  BY ProcessFacts
<1>2. ProcessWay(receipts, backups, SolePaths, p, cmd[p])
  BY DEF WayInv
<1> QED  BY <1>1, <1>2 DEF InstallSafe, ProcessWay, InstallWay

\* A process that ended or was killed intends nothing more.
LEMMA EndedWay ==
  ASSUME FwInv, WayInv, NEW p \in Commands, cmd'[p].step \in {"done", "killed"}, Moved(p)
  PROVE  \A rs, bs : ProcessWay(rs, bs, SolePaths, p, cmd'[p])
<1>1. cmd[p].req.op = "install" /\ PathFor(p, cmd[p].req) \in SolePaths => ~cmd[p].req.force
  BY ProcessFacts, SoleUnforced
<1> QED  BY <1>1 DEF ProcessWay, SoleInstall, InstallWay, UninstallWay, Moved

LEMMA EndMoves ==
  ASSUME FwInv, NEW p \in Commands, NEW result, End(p, result)
  PROVE  Moved(p) /\ cmd'[p].step = "done"
<1>1. cmd = [q \in Commands |-> cmd[q]]
  BY ProcessFacts
<1> QED  BY <1>1, EndFields DEF End, Moved

\* A process ends, or is killed, without a write.
LEMMA QuietEndWay ==
  ASSUME FwInv, WayInv, NEW p \in Commands, UNCHANGED <<config, backups, receipts>>,
         (\E result : End(p, result)) \/ cmd' = [cmd EXCEPT ![p].step = "killed"]
  PROVE  WayInv'
<1>1. CASE \E result : End(p, result)
  <2>1. Moved(p) /\ cmd'[p].step = "done"
    BY <1>1, EndMoves
  <2> QED  BY <2>1, EndedWay, WayQuietStep
<1>2. CASE cmd' = [cmd EXCEPT ![p].step = "killed"]
  <2>1. Moved(p) /\ cmd'[p].step = "killed"
    BY <1>2, GoMoves DEF Moved
  <2> QED  BY <2>1, EndedWay, WayQuietStep
<1> QED  BY <1>1, <1>2

\* A command that neither installs nor uninstalls moves on.
LEMMA ElsewhereWay ==
  ASSUME FwInv, WayInv, NEW p \in Commands, Moved(p), UNCHANGED <<config, backups, receipts>>,
         cmd[p].req.op \notin {"install", "uninstall"}
  PROVE  WayInv'
<1>1. ProcessWay(receipts, backups, SolePaths, p, cmd'[p])
  BY DEF Moved, ProcessWay, SoleInstall, InstallWay, UninstallWay
<1> QED  BY <1>1, WayQuietStep

\* A plan routes the servers selected, which are unrouted unless it is forced.
LEMMA PlannedWay ==
  ASSUME NEW rs, NEW bs, NEW sole, NEW c, c.state = "config", FileWay(rs, bs, sole, c),
         NEW filter, NEW path, NEW force \in BOOLEAN, ~Refused(c.body, filter, force),
         path \in sole => ~force,
         NEW s \in DOMAIN c.body,
         NEW e, e = rewriteSelectedServers(c.body, filter, path)[s]
  PROVE  EntryWay(rs, bs, sole, s, e) \/ Planned(bs, sole, path, c, s, e)
<1>1. EntryWay(rs, bs, sole, s, c.body[s])
  BY DEF FileWay
<1>2. CASE s \notin Selected(c.body, filter)
  BY <1>1, <1>2 DEF rewriteSelectedServers
<1>3. CASE s \in Selected(c.body, filter) /\ ~isBoundaryProxy(c.body[s])
  BY <1>3 DEF rewriteSelectedServers, Routed, Planned, Unrouted, Selected
<1>4. CASE s \in Selected(c.body, filter) /\ isBoundaryProxy(c.body[s])
  <2>1. force /\ path \notin sole
    BY <1>4 DEF Refused
  <2>2. HasUnrouted(bs, s)
    BY <1>1, <1>4 DEF EntryWay, Way, isBoundaryProxy, Selected, Present
  <2> QED  BY <1>4, <2>1, <2>2 DEF rewriteSelectedServers, Routed, Planned
<1> QED  BY <1>2, <1>3, <1>4

\* An install plans from the configuration it read (InstallConfig).
LEMMA InstallReadWay ==
  ASSUME FwInv, WayInv, NEW p \in Commands, InstallRead(p)
  PROVE  WayInv'
<1>1. UNCHANGED <<config, backups, receipts>> /\ cmd[p].req.op = "install" /\ cmd[p].step = "start"
  BY DEF InstallRead, OnlyCmd, Step
<1>2. CASE Fail(p) \/ End(p, [status |-> "planned"])
  BY <1>1, <1>2, QuietEndWay DEF Fail
<1>3. CASE /\ config.state = "config" /\ ~Refused(config.body, cmd[p].req.servers, cmd[p].req.force)
           /\ Keep(p, "backup", "plan",
                [before |-> config,
                 after |-> Config(rewriteSelectedServers(config.body, cmd[p].req.servers,
                                                         ReceiptPath(p)))])
  <2>1. PICK c, filter, path, after, plan, force :
          /\ c = config /\ filter = cmd[p].req.servers /\ path = ReceiptPath(p)
          /\ after = rewriteSelectedServers(c.body, filter, path)
          /\ plan = [before |-> c, after |-> Config(after)]
          /\ force = IF cmd[p].req.force THEN TRUE ELSE FALSE
    OBVIOUS
  <2>2. "plan" \notin {"step", "req"} /\ Keep(p, "backup", "plan", plan)
    BY <1>3, <2>1
  <2>3. Moved(p) /\ cmd'[p].step = "backup" /\ cmd'[p].plan = plan /\ cmd'[p].req = cmd[p].req
    BY <2>2, KeepMoves DEF Moved
  <2>4. PICK rs, bs, sole : rs = receipts /\ bs = backups /\ sole = SolePaths
    OBVIOUS
  <2>5. FileWay(rs, bs, sole, c) /\ plan.before = c /\ plan.after.body = after /\ DOMAIN after = DOMAIN c.body
    BY <2>1, <2>4 DEF WayInv, Config, rewriteSelectedServers
  <2>6. path \in sole => ~force
    BY <1>1, <2>1, <2>4, SoleUnforced
  <2>7. force \in BOOLEAN /\ c.state = "config" /\ ~Refused(c.body, filter, force)
    BY <1>3, <2>1 DEF Refused
  <2>8. \A s \in DOMAIN after : EntryWay(rs, bs, sole, s, after[s]) \/ Planned(bs, sole, path, c, s, after[s])
    BY <2>1, <2>5, <2>6, <2>7, PlannedWay
  <2>9. PlanWay(rs, bs, sole, path, plan)
    BY <2>5, <2>8 DEF PlanWay
  <2>10. SoleInstall(rs, sole, p, cmd[p]) /\ path = PathFor(p, cmd'[p].req) /\ cmd'[p].req.op = "install"
    BY <1>1, <2>1, <2>3, <2>4, WayFacts
  <2>11. ProcessWay(rs, bs, sole, p, cmd'[p])
    BY <1>1, <2>3, <2>9, <2>10 DEF ProcessWay, SoleInstall, InstallWay, UninstallWay
  <2> QED  BY <1>1, <2>3, <2>4, <2>11, WayQuietStep
<1> QED  BY <1>2, <1>3 DEF InstallRead

\* A backup is added, and nothing saved is lost.
LEMMA WriteBackupWay ==
  ASSUME FwInv, WayInv, NEW p \in Commands, WriteBackup(p)
  PROVE  WayInv'
<1>1. /\ cmd[p].req.op = "install" /\ cmd[p].step = "backup" /\ config' = config /\ receipts' = receipts
      /\ cmd' = [cmd EXCEPT ![p].step = "pending"]
  BY DEF WriteBackup, Step, Go
<1>2. PICK before, rs, bs, bs2, sole :
        /\ before = cmd[p].plan.before /\ rs = receipts /\ rs = receipts' /\ bs = backups
        /\ bs2 = backups' /\ sole = SolePaths
  BY <1>1
<1>3. bs2 = [x \in DOMAIN bs \cup {before} |-> IF x = before THEN before ELSE bs[x]]
  BY <1>2 DEF WriteBackup, BackupPath
<1>4. Grows(rs, rs, bs, bs2, sole)
  BY <1>3 DEF Grows, Saved
<1>5. /\ Moved(p) /\ cmd'[p].step = "pending" /\ cmd'[p].req = cmd[p].req
      /\ "plan" \in DOMAIN cmd[p] => cmd'[p].plan = cmd[p].plan
  BY <1>1, GoMoves DEF Moved
<1>6. /\ SoleInstall(rs, sole, p, cmd[p]) /\ ReceiptPath(p) = PathFor(p, cmd[p].req)
      /\ "plan" \in DOMAIN cmd[p] /\ PlanWay(rs, bs, sole, ReceiptPath(p), cmd[p].plan)
  BY <1>1, <1>2, WayFacts
<1>7. PlanWay(rs, bs2, sole, PathFor(p, cmd[p].req), cmd[p].plan)
  BY <1>4, <1>6, WayGrows
<1>8. ProcessWay(rs, bs2, sole, p, cmd'[p])
  BY <1>1, <1>5, <1>6, <1>7 DEF ProcessWay, SoleInstall, InstallWay, UninstallWay
<1>9. /\ FileWay(rs, bs2, sole, config)
      /\ \A r \in ReceiptPaths : rs[r] # NoReceipt => FileWay(rs, bs2, sole, rs[r].before)
  BY <1>2, <1>4, WayGrows DEF WayInv
<1> QED  BY <1>1, <1>2, <1>4, <1>5, <1>8, <1>9, WayStep DEF OtherReceiptsStay

\* A receipt of an install under way is written; one of its alone was not there, or had
\* the same bytes.
LEMMA NotedWay ==
  ASSUME FwInv, WayInv, NEW p \in Commands, NEW state \in {"pending", "installed"},
         cmd[p].req.op = "install", cmd[p].step \in {"pending", "rewrite", "finalize"},
         receipts' = [receipts EXCEPT ![ReceiptPath(p)] =
                        Receipt(state, cmd[p].plan.before, cmd[p].plan.after)],
         UNCHANGED <<config, backups>>
  PROVE  /\ Grows(receipts, receipts', backups, backups', SolePaths)
         /\ OtherReceiptsStay(p)
         /\ FileWay(receipts', backups', SolePaths, config')
         /\ \A r \in ReceiptPaths : receipts'[r] # NoReceipt =>
              FileWay(receipts', backups', SolePaths, receipts'[r].before)
         /\ receipts'[ReceiptPath(p)].before = cmd[p].plan.before
         /\ receipts'[ReceiptPath(p)] # NoReceipt
<1>1. PICK rs, rs2, bs, sole, path, plan :
        /\ rs = receipts /\ rs2 = receipts' /\ bs = backups /\ bs = backups' /\ sole = SolePaths
        /\ path = ReceiptPath(p) /\ plan = cmd[p].plan
  OBVIOUS
<1>2. PICK new : new = Receipt(state, plan.before, plan.after)
  OBVIOUS
<1>3. new # NoReceipt /\ new.before = plan.before
  <2>1. new.state = state /\ new.before = plan.before /\ NoReceipt.state = "none" /\ state # "none"
    BY <1>2 DEF Receipt, NoReceipt
  <2> QED  BY <2>1
<1>4. /\ path \in ReceiptPaths /\ path = PathFor(p, cmd[p].req)
      /\ SoleInstall(rs, sole, p, cmd[p]) /\ PlanWay(rs, bs, sole, path, plan)
  BY <1>1, WayFacts
<1>5. /\ rs2[path] = new /\ \A r \in ReceiptPaths : r # path => rs2[r] = rs[r]
  BY <1>1, <1>2, <1>4 DEF FwInv
<1>6. path \in sole => rs[path] = NoReceipt \/ rs[path].before = plan.before
  BY <1>1, <1>4 DEF SoleInstall
<1>7. Grows(rs, rs2, bs, bs, sole)
  BY <1>1, <1>3, <1>5, <1>6 DEF Grows, SolePaths
<1>8. FileWay(rs2, bs, sole, config) /\ FileWay(rs2, bs, sole, plan.before)
  BY <1>1, <1>4, <1>7, WayGrows DEF WayInv, PlanWay
<1>9. \A r \in ReceiptPaths : rs2[r] # NoReceipt => FileWay(rs2, bs, sole, rs2[r].before)
  BY <1>1, <1>3, <1>5, <1>7, <1>8, WayGrows DEF WayInv
<1> QED  BY <1>1, <1>3, <1>5, <1>7, <1>8, <1>9 DEF OtherReceiptsStay

LEMMA WritePendingWay ==
  ASSUME FwInv, WayInv, NEW p \in Commands, WritePending(p)
  PROVE  WayInv'
<1>1. /\ cmd[p].req.op = "install" /\ cmd[p].step = "pending" /\ UNCHANGED <<config, backups>>
      /\ cmd' = [cmd EXCEPT ![p].step = "rewrite"]
      /\ receipts' = [receipts EXCEPT ![ReceiptPath(p)] =
                        Receipt("pending", cmd[p].plan.before, cmd[p].plan.after)]
  BY DEF WritePending, Step, Go
<1>2. /\ Grows(receipts, receipts', backups, backups', SolePaths) /\ OtherReceiptsStay(p)
      /\ FileWay(receipts', backups', SolePaths, config')
      /\ \A r \in ReceiptPaths : receipts'[r] # NoReceipt =>
           FileWay(receipts', backups', SolePaths, receipts'[r].before)
      /\ receipts'[ReceiptPath(p)].before = cmd[p].plan.before
  BY <1>1, NotedWay
<1>3. /\ ReceiptPath(p) = PathFor(p, cmd[p].req)
      /\ SoleInstall(receipts, SolePaths, p, cmd[p])
      /\ "plan" \in DOMAIN cmd[p] /\ PlanWay(receipts, backups, SolePaths, ReceiptPath(p), cmd[p].plan)
  BY <1>1, WayFacts
<1>4. PICK rs2, bs2, sole : rs2 = receipts' /\ bs2 = backups' /\ sole = SolePaths
  OBVIOUS
<1>5. PlanWay(rs2, bs2, sole, PathFor(p, cmd[p].req), cmd[p].plan)
  BY <1>2, <1>3, <1>4, WayGrows
<1>6. /\ Moved(p) /\ cmd'[p].step = "rewrite" /\ cmd'[p].req = cmd[p].req
      /\ cmd'[p].plan = cmd[p].plan
  BY <1>1, <1>3, GoMoves DEF Moved
<1>7. ProcessWay(rs2, bs2, sole, p, cmd'[p])
  BY <1>1, <1>2, <1>3, <1>4, <1>5, <1>6 DEF ProcessWay, SoleInstall, InstallWay, UninstallWay
<1> QED  BY <1>2, <1>4, <1>6, <1>7, WayStep

\* The rewritten configuration routes by a receipt that is there.
LEMMA RewriteConfigWay ==
  ASSUME FwInv, WayInv, NEW p \in Commands, RewriteConfig(p)
  PROVE  WayInv'
<1>1. /\ cmd[p].req.op = "install" /\ cmd[p].step = "rewrite" /\ UNCHANGED <<receipts, backups>>
      /\ cmd' = [cmd EXCEPT ![p].step = "finalize"] /\ config' = cmd[p].plan.after
  BY DEF RewriteConfig, Step, Go
<1>2. PICK rs, bs, sole, path, plan :
        /\ rs = receipts /\ rs = receipts' /\ bs = backups /\ bs = backups' /\ sole = SolePaths
        /\ path = ReceiptPath(p) /\ plan = cmd[p].plan
  BY <1>1
<1>3. /\ path = PathFor(p, cmd[p].req) /\ SoleInstall(rs, sole, p, cmd[p])
      /\ "plan" \in DOMAIN cmd[p] /\ PlanWay(rs, bs, sole, path, plan) /\ Saved(bs, plan.before)
  BY <1>1, <1>2, WayFacts
<1>4. rs[path] # NoReceipt
  BY <1>1, <1>2, PlanFacts DEF Kept
<1>5. path \in sole => rs[path].before = plan.before
  BY <1>1, <1>2, <1>3 DEF SoleInstall
<1>6. ASSUME NEW s, NEW e, Planned(bs, sole, path, plan.before, s, e) PROVE EntryWay(rs, bs, sole, s, e)
  <2>1. HasUnrouted(bs, s)
    BY <1>3, <1>6 DEF Planned, HasUnrouted, Saved
  <2> QED  BY <1>4, <1>5, <1>6, <2>1 DEF Planned, EntryWay, Way
<1>7. FileWay(rs, bs, sole, config')
  BY <1>1, <1>2, <1>3, <1>6 DEF PlanWay, FileWay
<1>8. /\ Moved(p) /\ cmd'[p].step = "finalize" /\ cmd'[p].req = cmd[p].req /\ cmd'[p].plan = plan
  BY <1>1, <1>2, <1>3, GoMoves DEF Moved
<1>9. ProcessWay(rs, bs, sole, p, cmd'[p])
  BY <1>1, <1>2, <1>3, <1>8 DEF ProcessWay, SoleInstall, InstallWay, UninstallWay
<1>10. Grows(rs, rs, bs, bs, sole)
  BY DEF Grows
<1> QED  BY <1>2, <1>7, <1>8, <1>9, <1>10, WayStep DEF WayInv, OtherReceiptsStay

LEMMA FinalizeReceiptWay ==
  ASSUME FwInv, WayInv, NEW p \in Commands, FinalizeReceipt(p)
  PROVE  WayInv'
<1>1. /\ cmd[p].req.op = "install" /\ cmd[p].step = "finalize" /\ UNCHANGED <<config, backups>>
      /\ End(p, [status |-> "installed"])
      /\ receipts' = [receipts EXCEPT ![ReceiptPath(p)] =
                        Receipt("installed", cmd[p].plan.before, cmd[p].plan.after)]
  BY DEF FinalizeReceipt, Step
<1>2. /\ Grows(receipts, receipts', backups, backups', SolePaths) /\ OtherReceiptsStay(p)
      /\ FileWay(receipts', backups', SolePaths, config')
      /\ \A r \in ReceiptPaths : receipts'[r] # NoReceipt =>
           FileWay(receipts', backups', SolePaths, receipts'[r].before)
  BY <1>1, NotedWay
<1>3. Moved(p) /\ cmd'[p].step = "done"
  BY <1>1, EndMoves
<1> QED  BY <1>2, <1>3, EndedWay, WayStep

\* An uninstall keeps the receipt it reads.
LEMMA UninstallReadReceiptWay ==
  ASSUME FwInv, WayInv, NEW p \in Commands, UninstallReadReceipt(p)
  PROVE  WayInv'
<1>1. UNCHANGED <<config, backups, receipts>> /\ cmd[p].req.op = "uninstall"
  BY DEF UninstallReadReceipt, OnlyCmd, Step
<1>2. CASE Fail(p)
  BY <1>1, <1>2, QuietEndWay DEF Fail
<1>3. ASSUME NEW r \in ReceiptPaths, receipts[r].state = "installed",
             Keep(p, "check", "receipt", receipts[r])
      PROVE  WayInv'
  <2>1. "receipt" \notin {"step", "req"}
    OBVIOUS
  <2>2. Moved(p) /\ cmd'[p].receipt = receipts[r] /\ cmd'[p].req = cmd[p].req
    BY <1>3, <2>1, KeepMoves DEF Moved
  <2>3. NoReceipt.state = "none"
    BY DEF NoReceipt
  <2>4. FileWay(receipts, backups, SolePaths, receipts[r].before)
    BY <1>3, <2>3 DEF WayInv
  <2>5. ProcessWay(receipts, backups, SolePaths, p, cmd'[p])
    BY <1>1, <2>2, <2>4 DEF ProcessWay, SoleInstall, InstallWay, UninstallWay
  <2> QED  BY <1>1, <2>2, <2>5, WayQuietStep
<1> QED  BY <1>2, <1>3 DEF UninstallReadReceipt

LEMMA UninstallCheckWay ==
  ASSUME FwInv, WayInv, NEW p \in Commands, UninstallCheck(p)
  PROVE  WayInv'
<1>1. /\ UNCHANGED <<config, backups, receipts>>
      /\ cmd[p].req.op = "uninstall" /\ cmd[p].step = "check"
  BY DEF UninstallCheck, OnlyCmd, Step
<1>2. CASE Fail(p) \/ End(p, [status |-> "planned"])
  BY <1>1, <1>2, QuietEndWay DEF Fail
<1>3. CASE Keep(p, "restore", "read", config)
  <2>1. "read" \notin {"step", "req"} /\ "receipt" \notin {"read", "step"}
    OBVIOUS
  <2>2. Moved(p) /\ cmd'[p].req = cmd[p].req
    BY <1>3, <2>1, KeepMoves DEF Moved
  <2>3. "receipt" \in DOMAIN cmd[p]
    BY <1>1, ProcessFacts DEF UninstallSafe
  <2>4. cmd'[p].receipt = cmd[p].receipt
    BY <1>3, <2>1, <2>3, ProcessFacts DEF Keep
  <2>5. FileWay(receipts, backups, SolePaths, cmd[p].receipt.before)
    BY <1>1 DEF WayInv, ProcessWay, UninstallWay
  <2>6. ProcessWay(receipts, backups, SolePaths, p, cmd'[p])
    BY <1>1, <2>2, <2>4, <2>5 DEF ProcessWay, SoleInstall, InstallWay, UninstallWay
  <2> QED  BY <1>1, <2>2, <2>6, WayQuietStep
<1> QED  BY <1>2, <1>3 DEF UninstallCheck

\* What is restored has the way back of every server it still routes.
LEMMA RestoreConfigWay ==
  ASSUME FwInv, WayInv, NEW p \in Commands, RestoreConfig(p)
  PROVE  WayInv'
<1>1. /\ cmd[p].req.op = "uninstall" /\ cmd[p].step = "restore" /\ UNCHANGED <<receipts, backups>>
      /\ config' = cmd[p].receipt.before /\ End(p, [status |-> "restored"])
  BY DEF RestoreConfig, Step
<1>2. PICK rs, bs, sole :
        rs = receipts /\ rs = receipts' /\ bs = backups /\ bs = backups' /\ sole = SolePaths
  BY <1>1
<1>3. FileWay(rs, bs, sole, config')
  BY <1>1, <1>2 DEF WayInv, ProcessWay, UninstallWay
<1>4. Moved(p) /\ cmd'[p].step = "done"
  BY <1>1, EndMoves
<1>5. ProcessWay(rs, bs, sole, p, cmd'[p])
  BY <1>2, <1>4, EndedWay
<1>6. Grows(rs, rs, bs, bs, sole)
  BY DEF Grows
<1> QED  BY <1>2, <1>3, <1>4, <1>5, <1>6, WayStep DEF WayInv, OtherReceiptsStay

\* Locks, verifications, the dashboard, policies and faults leave the three files alone.
LEMMA OtherCommandsWay ==
  ASSUME FwInv, WayInv, NEW p \in Commands,
         \/ LockRead(p) \/ WriteLock(p) \/ VerifyReadLock(p) \/ VerifyCompare(p) \/ Dashboard(p)
         \/ StatPolicy(p) \/ WritePolicy(p) \/ WriteFails(p) \/ Kill(p)
  PROVE  WayInv'
<1>1. UNCHANGED <<config, backups, receipts>>
  BY DEF LockRead, WriteLock, VerifyReadLock, VerifyCompare, Dashboard, StatPolicy, WritePolicy,
         WriteFails, Kill, OnlyCmd
<1>2. CASE (\E result : End(p, result)) \/ cmd' = [cmd EXCEPT ![p].step = "killed"]
  BY <1>1, <1>2, QuietEndWay
<1>3. ASSUME cmd[p].req.op \notin {"install", "uninstall"}, NEW to, cmd' = [cmd EXCEPT ![p].step = to]
      PROVE  WayInv'
  BY <1>1, <1>3, GoMoves, ElsewhereWay DEF Moved
<1>4. ASSUME cmd[p].req.op \notin {"install", "uninstall"}, NEW to, NEW what \in {"servers", "at"},
             NEW value, Keep(p, to, what, value)
      PROVE  WayInv'
  BY <1>1, <1>4, KeepMoves, ElsewhereWay DEF Moved
<1>5. CASE WriteFails(p) \/ Kill(p)
  BY <1>2, <1>5 DEF WriteFails, Kill, Fail
<1>6. CASE LockRead(p)
  <2>1. cmd[p].req.op = "lock"
    BY <1>6 DEF LockRead, Step
  <2> QED  BY <1>2, <1>4, <1>6, <2>1 DEF LockRead, Fail
<1>7. CASE WriteLock(p) \/ Dashboard(p) \/ VerifyCompare(p)
  BY <1>2, <1>7 DEF WriteLock, Dashboard, VerifyCompare, Fail
<1>8. CASE VerifyReadLock(p)
  <2>1. cmd[p].req.op = "verify"
    BY <1>8 DEF VerifyReadLock, Step
  <2> QED  BY <1>2, <1>4, <1>8, <2>1 DEF VerifyReadLock, Fail
<1>9. CASE StatPolicy(p)
  <2>1. cmd[p].req.op = "policies"
    BY <1>9 DEF StatPolicy, Step
  <2> QED  BY <1>2, <1>3, <1>9, <2>1 DEF StatPolicy, Fail, Go
<1>10. CASE WritePolicy(p)
  <2>1. cmd[p].req.op = "policies"
    BY <1>10 DEF WritePolicy, Step
  <2> QED  BY <1>2, <1>4, <1>10, <2>1 DEF WritePolicy
<1> QED  BY <1>5, <1>6, <1>7, <1>8, <1>9, <1>10

\* An edit writes direct entries and leaves the rest as it is.
LEMMA EditWay ==
  ASSUME FwInv, WayInv, Edit
  PROVE  WayInv'
<1>1. UNCHANGED <<receipts, backups, cmd>> /\ config.state = "config"
  BY DEF Edit
<1>2. PICK e \in Edits : config' = Config([config.body EXCEPT ![e.slot] = e.entry])
  BY DEF Edit
<1>3. PICK rs, bs, sole, body, new :
        /\ rs = receipts /\ bs = backups /\ sole = SolePaths /\ body = config.body
        /\ new = [body EXCEPT ![e.slot] = e.entry]
  OBVIOUS
<1>4. sole = SolePaths'
  BY <1>1, <1>3, SoleStays
<1>5. \A s \in DOMAIN body : EntryWay(rs, bs, sole, s, body[s])
  BY <1>1, <1>3 DEF WayInv, FileWay
<1>6. \A s : EntryWay(rs, bs, sole, s, e.entry)
  BY EditsAssumption DEF EntryWay
<1>7. \A s \in DOMAIN new : EntryWay(rs, bs, sole, s, new[s])
  BY <1>3, <1>5, <1>6
<1>8. config'.body = new
  BY <1>2, <1>3 DEF Config
<1>9. FileWay(rs, bs, sole, config')
  BY <1>7, <1>8 DEF FileWay
<1>10. /\ \A r \in ReceiptPaths : rs[r] # NoReceipt => FileWay(rs, bs, sole, rs[r].before)
       /\ \A p \in Commands : ProcessWay(rs, bs, sole, p, cmd[p])
  BY <1>3 DEF WayInv
<1> QED  BY <1>1, <1>3, <1>4, <1>9, <1>10 DEF WayInv

LEMMA WayInitial ==
  ASSUME Init
  PROVE  WayInv
<1>1. /\ receipts = [r \in ReceiptPaths |-> NoReceipt]
      /\ \/ \E w \in Workloads : cmd = [p \in Commands |-> [step |-> "start", req |-> w[p]]]
         \/ cmd = [p \in Commands |-> [step |-> "killed", req |-> [op |-> "none"]]]
  BY DEF Init, FwInit, NoCommands
<1>2. FileWay(receipts, backups, SolePaths, config)
  <2>1. CASE config \in Starts
    BY <2>1, StartsAssumption DEF FileWay, EntryWay
  <2>2. CASE config = NoFile
    BY <2>2 DEF NoFile, FileWay
  <2> QED  BY <2>1, <2>2 DEF Init, FwInit, NoCommands
<1>3. ASSUME NEW p \in Commands
      PROVE  ProcessWay(receipts, backups, SolePaths, p, cmd[p])
  <2>1. cmd[p].step \in {"start", "killed"}
    BY <1>1
  <2>2. cmd[p].req.op = "install" => PathFor(p, cmd[p].req) = ReceiptPath(p)
    BY DEF PathFor, ReceiptPath
  <2>3. SoleInstall(receipts, SolePaths, p, cmd[p])
    BY <1>1, <2>1, <2>2, SoleUnforced DEF SoleInstall, SolePaths
  <2> QED  BY <2>1, <2>3 DEF ProcessWay, InstallWay, UninstallWay
<1> QED  BY <1>1, <1>2, <1>3 DEF WayInv

LEMMA WayNext ==
  ASSUME FwInv, WayInv, [Next]_vars
  PROVE  WayInv'
<1>1. CASE UNCHANGED fwVars
  <2>1. UNCHANGED <<config, backups, receipts, cmd>>
    BY <1>1 DEF fwVars
  <2>2. SolePaths' = SolePaths
    BY <2>1, SoleStays
  <2> QED  BY <2>1, <2>2 DEF WayInv
<1>2. CASE FwNext
  <2>1. CASE Edit
    BY <2>1, EditWay
  <2>2. ASSUME NEW p \in Commands,
               \/ InstallRead(p) \/ WriteBackup(p) \/ WritePending(p) \/ RewriteConfig(p)
               \/ FinalizeReceipt(p) \/ UninstallReadReceipt(p) \/ UninstallCheck(p)
               \/ RestoreConfig(p)
        PROVE  WayInv'
    BY <2>2, InstallReadWay, WriteBackupWay, WritePendingWay, RewriteConfigWay,
       FinalizeReceiptWay, UninstallReadReceiptWay, UninstallCheckWay, RestoreConfigWay
  <2> QED  BY <1>2, <2>1, <2>2, OtherCommandsWay DEF FwNext
<1> QED  BY <1>1, <1>2 DEF Next, vars

\* Whatever installs are killed, fail or overlap, a server routed through Boundary names a
\* receipt on disk whose backup holds the bytes it replaced, a backup still has the server
\* unrouted, and so has the receipt's own, unless a forced install or several installs
\* wrote at its path (the order of the writes in InstallConfig, and its refusal to route
\* what is routed).
THEOREM FirewallKeepsWayBack ==
  Spec => []WayBackKept
<1>1. FwInv /\ WayInv => WayBackKept
  <2> SUFFICES ASSUME FwInv, WayInv, config.state = "config", NEW s \in Present(config.body),
                      isBoundaryProxy(config.body[s])
               PROVE  LET receipt == receipts[config.body[s].route]
                      IN /\ receipt # NoReceipt /\ Backup(BackupPath(receipt.before)) = receipt.before
                         /\ UnroutedSaved(s)
                         /\ SoleReceipt(config.body[s].route) => Unrouted(receipt.before, s)
    BY DEF WayBackKept
  <2>1. PICK e, r : e = config.body[s] /\ r = e.route
    OBVIOUS
  <2>2. s \in DOMAIN config.body /\ e # NoEntry /\ r # "direct"
    BY <2>1 DEF Present, isBoundaryProxy
  <2>3. EntrySafe(receipts, e)
    BY <2>1, <2>2 DEF FwInv, FileSafe
  <2>4. r \in ReceiptPaths /\ receipts[r] # NoReceipt
    BY <2>1, <2>2, <2>3 DEF EntrySafe, Kept
  <2>5. Saved(backups, receipts[r].before)
    BY <2>4 DEF FwInv, ReceiptsBacked
  <2>6. Backup(BackupPath(receipts[r].before)) = receipts[r].before
    BY <2>5 DEF Backup, BackupPath, Saved
  <2>7. Way(receipts, backups, SolePaths, s, r)
    BY <2>1, <2>2 DEF WayInv, FileWay, EntryWay
  <2>8. UnroutedSaved(s) /\ (SoleReceipt(r) => Unrouted(receipts[r].before, s))
    BY <2>4, <2>7 DEF Way, HasUnrouted, UnroutedSaved, SolePaths
  <2> QED  BY <2>1, <2>4, <2>6, <2>8
<1>2. Init => WayInv
  BY WayInitial
<1>3. FwInv /\ WayInv /\ [Next]_vars => WayInv'
  BY WayNext
<1> QED  BY <1>1, <1>2, <1>3, FwInvariant, PTL DEF Spec

\* A server of a list is found by its name.
LEMMA ByNameFinds ==
  ASSUME NEW servers, NEW s \in servers
  PROVE  ByName(servers, s.name) \in servers /\ ByName(servers, s.name).name = s.name
<1>1. PICK name : name = s.name
  OBVIOUS
<1>2. s \in {t \in servers : t.name = name}
  BY <1>1
<1> QED  BY <1>1, <1>2 DEF ByName

\* No drift between unambiguous lists: they have the same names and descriptors.
LEMMA NoDriftSame ==
  ASSUME NEW locked, NEW current, ~Drift(locked, current), Unambiguous(current)
  PROVE  {<<s.name, s.descriptor>> : s \in current} = {<<s.name, s.descriptor>> : s \in locked}
<1>1. ASSUME NEW s \in locked
      PROVE  \E t \in current : t.name = s.name /\ t.descriptor = s.descriptor
  <2>1. s.name \in NamesOf(current)
    BY DEF Drift, NamesOf
  <2>2. PICK t \in current : t.name = s.name
    BY <2>1 DEF NamesOf
  <2>3. PICK u : u = ByName(current, s.name)
    OBVIOUS
  <2>4. u \in current /\ u.name = s.name
    BY <2>2, <2>3, ByNameFinds
  <2>5. u.descriptor = s.descriptor
    BY <2>3 DEF Drift
  <2> QED  BY <2>4, <2>5
<1>2. ASSUME NEW t \in current
      PROVE  \E s \in locked : t.name = s.name /\ t.descriptor = s.descriptor
  <2>1. t.name \in NamesOf(locked)
    BY DEF Drift, NamesOf
  <2>2. PICK s \in locked : s.name = t.name
    BY <2>1 DEF NamesOf
  <2>3. PICK u \in current : u.name = s.name /\ u.descriptor = s.descriptor
    BY <1>1
  <2>4. u.descriptor = t.descriptor
    BY <2>2, <2>3 DEF Unambiguous
  <2> QED  BY <2>2, <2>3, <2>4
<1> QED  BY <1>1, <1>2

\* A verification that says "ok" has compared equal lists of names and descriptors, whatever
\* was edited or installed between its reads (VerifyDescriptorLock).
THEOREM FirewallOkMeansUnchanged ==
  Spec => []OkMeansUnchanged
<1>1. FwInv => OkMeansUnchanged
  <2>1. ASSUME FwInv, NEW p \in Commands,
               cmd[p].step = "done", cmd[p].req.op = "verify", cmd[p].result.status = "ok"
        PROVE  ~Drift(cmd[p].result.locked, cmd[p].result.current)
    BY <2>1 DEF FwInv, ProcessOK, VerifyHonest
  <2> QED  BY <2>1, NoDriftSame DEF OkMeansUnchanged
<1> QED  BY <1>1, FwInvariant, PTL

-----------------------------------------------------------------------------
(* Classes and capabilities.                                               *)

Classed(capabilities) == \A c \in capabilities : c.class \in RiskClasses

\* The classes and their ranks (riskRank).
LEMMA RankFacts ==
  /\ RiskClasses = {"unknown", "R0", "R1", "W0", "W1", "W2"}
  /\ riskRank["unknown"] = 0 /\ riskRank["R0"] = 1 /\ riskRank["R1"] = 2
  /\ riskRank["W0"] = 3 /\ riskRank["W1"] = 4 /\ riskRank["W2"] = 5
  BY DEF RiskClasses, riskRank

\* A set of classes has one of highest rank.
LEMMA GreatestClass ==
  ASSUME NEW classes \in SUBSET RiskClasses, classes # {}
  PROVE  \E class \in classes : \A other \in classes : riskRank[other] <= riskRank[class]
<1> DEFINE Greatest(class) == class \in classes /\ \A other \in classes : riskRank[other] <= riskRank[class]
<1>0. \A other \in classes : other \in {"unknown", "R0", "R1", "W0", "W1", "W2"}
  BY RankFacts
<1>1. CASE "W2" \in classes
  <2>1. Greatest("W2")
    BY <1>0, <1>1, RankFacts
  <2> QED  BY <2>1
<1>2. CASE "W2" \notin classes /\ "W1" \in classes
  <2>1. Greatest("W1")
    BY <1>0, <1>2, RankFacts
  <2> QED  BY <2>1
<1>3. CASE "W2" \notin classes /\ "W1" \notin classes /\ "W0" \in classes
  <2>1. Greatest("W0")
    BY <1>0, <1>3, RankFacts
  <2> QED  BY <2>1
<1>4. CASE "W2" \notin classes /\ "W1" \notin classes /\ "W0" \notin classes /\ "R1" \in classes
  <2>1. Greatest("R1")
    BY <1>0, <1>4, RankFacts
  <2> QED  BY <2>1
<1>5. CASE classes \subseteq {"R0", "unknown"} /\ "R0" \in classes
  <2>1. Greatest("R0")
    BY <1>0, <1>5, RankFacts
  <2> QED  BY <2>1
<1>6. CASE classes \subseteq {"unknown"}
  <2>1. PICK class : class \in classes
    OBVIOUS
  <2>2. class = "unknown"
    BY <1>6, <2>1
  <2>3. Greatest("unknown")
    BY <1>6, <2>1, <2>2, RankFacts
  <2> QED  BY <2>3
<1> QED  BY <1>0, <1>1, <1>2, <1>3, <1>4, <1>5, <1>6

\* highestRisk is "unknown" or the class of a capability, and no capability ranks above it.
LEMMA HighestRisk ==
  ASSUME NEW capabilities, Classed(capabilities)
  PROVE  /\ highestRisk(capabilities) \in {"unknown"} \cup {c.class : c \in capabilities}
         /\ highestRisk(capabilities) \in RiskClasses
         /\ \A c \in capabilities : riskRank[c.class] <= riskRank[highestRisk(capabilities)]
<1>1. PICK classes : classes = {"unknown"} \cup {c.class : c \in capabilities}
  OBVIOUS
<1>2. classes \in SUBSET RiskClasses /\ classes # {}
  BY <1>1, RankFacts DEF Classed
<1>3. \E class \in classes : \A other \in classes : riskRank[other] <= riskRank[class]
  BY <1>2, GreatestClass
<1>4. highestRisk(capabilities) =
        CHOOSE class \in classes : \A other \in classes : riskRank[other] <= riskRank[class]
  BY <1>1 DEF highestRisk
<1>5. /\ highestRisk(capabilities) \in classes
      /\ \A other \in classes : riskRank[other] <= riskRank[highestRisk(capabilities)]
  BY <1>3, <1>4
<1> QED  BY <1>1, <1>2, <1>5

Graded(c, name) == c.name = name /\ c.class \in RiskClasses

\* A tool's capability bears its name and a known class.
LEMMA ClassifyToolFacts ==
  ASSUME NEW t
  PROVE  Graded(ClassifyTool(t), t)
<1>1. /\ Graded(Capability(t, "github", "R0", "external_collaborator", "", ""), t)
      /\ Graded(Capability(t, "github", "R1", "", "public_repo", "comment_write"), t)
      /\ Graded(Capability(t, "github", "W0", "agent_generated", "private_repo", "issue_or_pr_create"), t)
      /\ Graded(Capability(t, "github", "W1", "agent_generated", "private_repo", "private_repo_content_write"), t)
      /\ Graded(Capability(t, "github", "W2", "agent_generated", "private_repo", "merge_or_release"), t)
  BY RankFacts DEF Capability, Graded
<1>2. /\ Graded(Capability(t, "filesystem", "R0", "local_file", "", ""), t)
      /\ Graded(Capability(t, "filesystem", "W1", "", "local_filesystem", "file_write"), t)
      /\ Graded(Capability(t, "file_mutation", "W1", "", "filesystem_or_repository", "file_delete"), t)
      /\ Graded(Capability(t, "database", "W1", "", "database", "database_query"), t)
      /\ Graded(Capability(t, "unknown", "unknown", "", "", ""), t)
  BY RankFacts DEF Capability, Graded
<1> QED  BY <1>1, <1>2 DEF ClassifyTool

\* A server is always classified, and by capabilities that have names when its tools do.
LEMMA ClassifyFacts ==
  ASSUME NEW name, NEW words, NEW tools
  PROVE  /\ Classed(ClassifyServer(name, words, tools))
         /\ ClassifyServer(name, words, tools) # {}
         /\ "" \notin tools => \A c \in ClassifyServer(name, words, tools) : c.name # ""
<1>1. ASSUME NEW ws
      PROVE  /\ ClassifyByFingerprint(ws) # {}
             /\ \A c \in ClassifyByFingerprint(ws) : c.class \in RiskClasses /\ c.name # ""
  <2> DEFINE Sound(c) == c.class \in RiskClasses /\ c.name # ""
  <2>0. \A t : t # "" => Sound(ClassifyTool(t))
    BY ClassifyToolFacts DEF Graded
  <2> HIDE DEF Sound
  <2>1. githubPreviewCapabilities # {} /\ \A c \in githubPreviewCapabilities : Sound(c)
    BY <2>0 DEF githubPreviewCapabilities
  <2>2. Sound(ClassifyTool("query")) /\ Sound(ClassifyTool("read_file")) /\ Sound(ClassifyTool("write_file"))
    BY <2>0
  <2>3. /\ Sound(Capability("delete_file", "filesystem", "W1", "", "local_filesystem", "file_delete"))
        /\ Sound(Capability("send_message", "messaging", "W0", "", "external_publication", "message_send"))
        /\ Sound(Capability("run_command", "shell", "W2", "", "runtime", "command_execution"))
        /\ Sound(Capability("unknown", "unknown", "unknown", "", "", ""))
    BY RankFacts DEF Capability, Sound
  <2>4. ClassifyByFingerprint(ws) # {} /\ \A c \in ClassifyByFingerprint(ws) : Sound(c)
    BY <2>1, <2>2, <2>3 DEF ClassifyByFingerprint
  <2> QED  BY <2>4 DEF Sound
<1> QED  BY <1>1, ClassifyToolFacts DEF ClassifyServer, Classed, Graded

\* Of the capabilities merged in, each with a name leaves one of its class.
LEMMA AppendCapabilitiesFacts ==
  ASSUME NEW caps, NEW more
  PROVE  /\ caps \subseteq appendCapabilities(caps, more)
         /\ appendCapabilities(caps, more) \subseteq caps \cup more
         /\ \A c \in more : c.name # "" =>
              \E d \in appendCapabilities(caps, more) : d.class = c.class
<1>1. ASSUME NEW c \in more
      PROVE  /\ (CHOOSE d \in more : SameCapability(c, d)) \in more
             /\ SameCapability(c, CHOOSE d \in more : SameCapability(c, d))
  <2>1. SameCapability(c, c)
    BY DEF SameCapability
  <2> QED  BY <2>1
<1>2. ASSUME NEW c \in more, c.name # ""
      PROVE  \E d \in appendCapabilities(caps, more) : d.class = c.class
  <2>1. CASE \E d \in caps : SameCapability(c, d)
    BY <2>1 DEF appendCapabilities, SameCapability
  <2>2. CASE ~\E d \in caps : SameCapability(c, d)
    <3>1. PICK d : d = CHOOSE x \in more : SameCapability(c, x)
      OBVIOUS
    <3>2. d \in appendCapabilities(caps, more)
      BY <1>2, <2>2, <3>1 DEF appendCapabilities
    <3>3. d.class = c.class
      BY <1>1, <3>1 DEF SameCapability
    <3> QED  BY <3>2, <3>3
  <2> QED  BY <2>1, <2>2
<1> QED  BY <1>1, <1>2 DEF appendCapabilities

\* So does the one of a record.
LEMMA AppendCapabilityFacts ==
  ASSUME NEW caps, NEW c
  PROVE  /\ caps \subseteq appendCapability(caps, c)
         /\ appendCapability(caps, c) \subseteq caps \cup {c}
         /\ c.name # "" => \E d \in appendCapability(caps, c) : d.class = c.class /\ d.name # ""
  BY DEF appendCapability, SameCapability
ServerShape(t) == DOMAIN t = ServerFields /\ Classed(t.capabilities)

BuilderFields == {"configs", "servers", "warned", "complete", "components", "findings"}

BuilderOK(b) ==
  /\ DOMAIN b = BuilderFields
  /\ \A t \in b.servers : ServerShape(t) /\ t.risk = highestRisk(t.capabilities)

Covered(b, key, class) ==
  \E t \in b.servers : KeyOf(t) = key /\ \E c \in t.capabilities : c.class = class

NoLoss(b, b2) == \A key, class : Covered(b, key, class) => Covered(b2, key, class)

\* Ranking a server changes its risk only.
LEMMA RankedFacts ==
  ASSUME NEW t, ServerShape(t)
  PROVE  /\ ServerShape(Ranked(t)) /\ KeyOf(Ranked(t)) = KeyOf(t)
         /\ Ranked(t).capabilities = t.capabilities
         /\ Ranked(t).risk = highestRisk(Ranked(t).capabilities)
<1>1. PICK r : r = Ranked(t)
  OBVIOUS
<1>2. /\ DOMAIN r = ServerFields /\ r.risk = highestRisk(t.capabilities)
      /\ r.capabilities = t.capabilities
      /\ r.path = t.path /\ r.client = t.client /\ r.name = t.name
  BY <1>1 DEF Ranked, ServerShape, ServerFields
<1> QED  BY <1>1, <1>2 DEF ServerShape, KeyOf

\* A merged server has the capabilities of the first and the classes of the second
\* (mergeExternalServer).
LEMMA MergeFacts ==
  ASSUME NEW e, NEW n, ServerShape(e), ServerShape(n)
  PROVE  LET m == mergeExternalServer(e, n)
         IN /\ ServerShape(m) /\ KeyOf(m) = KeyOf(e) /\ m.risk = highestRisk(m.capabilities)
            /\ e.capabilities \subseteq m.capabilities
            /\ \A c \in n.capabilities : c.name # "" => \E d \in m.capabilities : d.class = c.class
<1>1. PICK caps : caps = appendCapabilities(e.capabilities, n.capabilities)
  OBVIOUS
<1>2. /\ e.capabilities \subseteq caps /\ caps \subseteq e.capabilities \cup n.capabilities
      /\ \A c \in n.capabilities : c.name # "" => \E d \in caps : d.class = c.class
  BY <1>1, AppendCapabilitiesFacts
<1>3. PICK u : u = [e EXCEPT !.words = @ \cup n.words, !.tools = @ \cup n.tools, !.capabilities = caps]
  OBVIOUS
<1>4. /\ DOMAIN u = ServerFields /\ u.capabilities = caps
      /\ u.path = e.path /\ u.client = e.client /\ u.name = e.name
  BY <1>3 DEF ServerShape, ServerFields
<1>5. ServerShape(u) /\ KeyOf(u) = KeyOf(e)
  BY <1>2, <1>4 DEF ServerShape, Classed, KeyOf
<1>6. mergeExternalServer(e, n) = Ranked(u)
  BY <1>1, <1>3 DEF mergeExternalServer
<1> QED  BY <1>2, <1>4, <1>5, <1>6, RankedFacts

\* What a server added to the builder counts as.
Classification(server) ==
  IF server.capabilities # {} THEN server.capabilities
  ELSE ClassifyServer(server.name, server.words, server.tools)

\* Adding a server loses no class of any server, and tells those it is classified by
\* (addServer).
LEMMA AddServerFacts ==
  ASSUME NEW b, NEW server, BuilderOK(b), ServerShape(server)
  PROVE  LET b2 == addServer(b, server)
         IN /\ BuilderOK(b2) /\ NoLoss(b, b2)
            /\ \A c \in Classification(server) : c.name # "" => Covered(b2, KeyOf(server), c.class)
<1>1. PICK known, classified, b2 :
        /\ known = Known(b, KeyOf(server))
        /\ classified = IF server.capabilities # {} THEN server
                         ELSE [server EXCEPT !.capabilities =
                                 ClassifyServer(server.name, server.words, server.tools)]
        /\ b2 = addServer(b, server)
  OBVIOUS
<1>2. /\ ServerShape(classified) /\ KeyOf(classified) = KeyOf(server)
      /\ classified.capabilities = Classification(server)
  <2>1. CASE server.capabilities # {}
    BY <1>1, <2>1 DEF Classification
  <2>2. CASE server.capabilities = {}
    <3>1. PICK caps : caps = ClassifyServer(server.name, server.words, server.tools)
      OBVIOUS
    <3>2. classified = [server EXCEPT !.capabilities = caps] /\ Classification(server) = caps
      BY <1>1, <2>2, <3>1 DEF Classification
    <3>3. Classed(caps)
      BY <3>1, ClassifyFacts
    <3>4. /\ DOMAIN classified = ServerFields /\ classified.capabilities = caps
          /\ classified.path = server.path /\ classified.client = server.client
          /\ classified.name = server.name
      BY <3>2 DEF ServerShape, ServerFields
    <3> QED  BY <3>2, <3>3, <3>4 DEF ServerShape, KeyOf
  <2> QED  BY <2>1, <2>2
<1>3. PICK n : n = Ranked(classified)
  OBVIOUS
<1>4. /\ ServerShape(n) /\ KeyOf(n) = KeyOf(server) /\ n.capabilities = Classification(server)
      /\ n.risk = highestRisk(n.capabilities)
  BY <1>2, <1>3, RankedFacts
<1>5. \A e \in known : e \in b.servers /\ ServerShape(e) /\ KeyOf(e) = KeyOf(server)
  BY <1>1 DEF Known, BuilderOK
<1>6. PICK more : more = IF known = {} THEN {n} ELSE {mergeExternalServer(e, n) : e \in known}
  OBVIOUS
<1>7. DOMAIN b2 = BuilderFields /\ b2.servers = (b.servers \ known) \cup more
  BY <1>1, <1>3, <1>6 DEF addServer, BuilderOK, BuilderFields
<1>8. \A t \in more : ServerShape(t) /\ t.risk = highestRisk(t.capabilities) /\ KeyOf(t) = KeyOf(server)
  <2>1. CASE known = {}
    BY <1>4, <1>6, <2>1
  <2>2. CASE known # {}
    <3>1. ASSUME NEW e \in known
          PROVE  LET m == mergeExternalServer(e, n)
                 IN ServerShape(m) /\ KeyOf(m) = KeyOf(e) /\ m.risk = highestRisk(m.capabilities)
      BY <1>4, <1>5, <3>1, MergeFacts
    <3>2. \A t \in more : \E e \in known : t = mergeExternalServer(e, n)
      BY <1>6, <2>2
    <3> QED  BY <1>5, <3>1, <3>2
  <2> QED  BY <2>1, <2>2
<1>9. BuilderOK(b2)
  BY <1>7, <1>8 DEF BuilderOK
<1>10. NoLoss(b, b2)
  <2>1. ASSUME NEW t \in b.servers, NEW c \in t.capabilities
        PROVE  \E u \in b2.servers : KeyOf(u) = KeyOf(t) /\ c \in u.capabilities
    <3>1. CASE t \notin known
      BY <1>7, <3>1
    <3>2. CASE t \in known
      <4>1. PICK m : m = mergeExternalServer(t, n)
        OBVIOUS
      <4>2. m \in more
        BY <1>6, <3>2, <4>1
      <4>3. KeyOf(m) = KeyOf(t) /\ t.capabilities \subseteq m.capabilities
        BY <1>4, <1>5, <3>2, <4>1, MergeFacts
      <4> QED  BY <1>7, <4>2, <4>3
    <3> QED  BY <3>1, <3>2
  <2> QED  BY <2>1 DEF NoLoss, Covered
<1>11. ASSUME NEW c \in Classification(server), c.name # ""
       PROVE  Covered(b2, KeyOf(server), c.class)
  <2>1. CASE known = {}
    BY <1>4, <1>6, <1>7, <2>1 DEF Covered
  <2>2. CASE known # {}
    <3>1. PICK e \in known : TRUE
      BY <2>2
    <3>2. PICK m : m = mergeExternalServer(e, n)
      OBVIOUS
    <3>3. m \in more /\ KeyOf(m) = KeyOf(server)
      BY <1>6, <1>8, <2>2, <3>1, <3>2
    <3>4. \E d \in m.capabilities : d.class = c.class
      BY <1>4, <1>5, <1>11, <3>1, <3>2, MergeFacts
    <3> QED  BY <1>7, <3>3, <3>4 DEF Covered
  <2> QED  BY <2>1, <2>2
<1> QED  BY <1>1, <1>9, <1>10, <1>11

\* A configuration record changes no server.
LEMMA AddConfigFacts ==
  ASSUME NEW b, NEW c, BuilderOK(b)
  PROVE  BuilderOK(addConfig(b, c)) /\ NoLoss(b, addConfig(b, c))
<1>1. PICK b2 : b2 = addConfig(b, c)
  OBVIOUS
<1>2. DOMAIN b2 = BuilderFields /\ b2.servers = b.servers
  BY <1>1 DEF addConfig, BuilderOK, BuilderFields
<1> QED  BY <1>1, <1>2 DEF BuilderOK, NoLoss, Covered

\* The server of a key has that key, known or new (serverFor).
LEMMA ServerForFacts ==
  ASSUME NEW b, BuilderOK(b), NEW s
  PROVE  ServerShape(serverFor(b, KeyOf(s))) /\ KeyOf(serverFor(b, KeyOf(s))) = KeyOf(s)
<1>1. PICK key, known, t : key = KeyOf(s) /\ known = Known(b, key) /\ t = serverFor(b, key)
  OBVIOUS
<1>2. CASE known # {}
  <2>1. t \in known
    BY <1>1, <1>2 DEF serverFor
  <2> QED  BY <1>1, <2>1 DEF Known, BuilderOK
<1>3. CASE known = {}
  <2>1. t = [path |-> key.path, client |-> key.client, table |-> "", name |-> key.name, words |-> {},
             hidden |-> {}, tools |-> {}, governed |-> FALSE, capabilities |-> {}, risk |-> "unknown"]
    BY <1>1, <1>3 DEF serverFor
  <2>2. key.path = s.path /\ key.client = s.client /\ key.name = s.name
    BY <1>1 DEF KeyOf
  <2>3. DOMAIN t = ServerFields
    BY <2>1 DEF ServerFields
  <2>4. t.capabilities = {} /\ t.path = s.path /\ t.client = s.client /\ t.name = s.name
    BY <2>1, <2>2
  <2> QED  BY <1>1, <2>3, <2>4 DEF ServerShape, Classed, KeyOf
<1> QED  BY <1>1, <1>2, <1>3

\* What the ingest may rely on in a record of the scan.
RecordOK(r) ==
  /\ r.type = "mcp_server" => DOMAIN r.body = ServerFields
  /\ r.type = "tool_descriptor" => \E s : r.body.key = KeyOf(s)
  /\ r.type = "tool_capability" =>
       /\ \E s : r.body.key = KeyOf(s)
       /\ r.body.capability.class \in RiskClasses /\ r.body.capability.name # ""

\* What a record of the scan leaves in the builder once it is read.
Told(b, r) ==
  /\ r.type = "mcp_server" =>
       \A c \in ClassifyServer(r.body.name, r.body.words, r.body.tools) :
         c.name # "" => Covered(b, KeyOf(r.body), c.class)
  /\ r.type = "tool_capability" => Covered(b, r.body.key, r.body.capability.class)

\* What a server record leaves in the builder.
LEMMA ReadServerRecord ==
  ASSUME NEW b, BuilderOK(b), NEW r, RecordOK(r), r.type = "mcp_server"
  PROVE  LET b2 == mapBoundaryRecord(b, r)
         IN BuilderOK(b2) /\ NoLoss(b, b2) /\ Told(b2, r)
<1>1. PICK s : s = [r.body EXCEPT !.capabilities = {}, !.hidden = {}, !.table = "", !.governed = FALSE]
  OBVIOUS
<1>2. /\ DOMAIN s = ServerFields /\ s.capabilities = {}
      /\ s.path = r.body.path /\ s.client = r.body.client /\ s.name = r.body.name
      /\ s.words = r.body.words /\ s.tools = r.body.tools
  BY <1>1 DEF RecordOK, ServerFields
<1>3. /\ ServerShape(s) /\ KeyOf(s) = KeyOf(r.body)
      /\ Classification(s) = ClassifyServer(r.body.name, r.body.words, r.body.tools)
  BY <1>2 DEF ServerShape, Classed, KeyOf, Classification
<1>4. mapBoundaryRecord(b, r) = addServer(b, s)
  BY <1>1 DEF mapBoundaryRecord
<1> QED  BY <1>3, <1>4, AddServerFacts DEF Told

\* A tool's record loses nothing.
LEMMA ReadDescriptorRecord ==
  ASSUME NEW b, BuilderOK(b), NEW r, RecordOK(r), r.type = "tool_descriptor"
  PROVE  LET b2 == mapBoundaryRecord(b, r)
         IN BuilderOK(b2) /\ NoLoss(b, b2)
<1>1. PICK s, u : /\ s = serverFor(b, r.body.key)
                  /\ u = [s EXCEPT !.tools = @ \cup {r.body.tool}]
  OBVIOUS
<1>2. ServerShape(s)
  BY <1>1, ServerForFacts DEF RecordOK
<1>3. DOMAIN u = ServerFields /\ u.capabilities = s.capabilities
  BY <1>1, <1>2 DEF ServerShape, ServerFields
<1>4. ServerShape(u)
  BY <1>2, <1>3 DEF ServerShape
<1>5. mapBoundaryRecord(b, r) = addServer(b, u)
  BY <1>1 DEF mapBoundaryRecord
<1> QED  BY <1>4, <1>5, AddServerFacts

\* A capability's record tells its class.
LEMMA ReadCapabilityRecord ==
  ASSUME NEW b, BuilderOK(b), NEW r, RecordOK(r), r.type = "tool_capability"
  PROVE  LET b2 == mapBoundaryRecord(b, r)
         IN BuilderOK(b2) /\ NoLoss(b, b2) /\ Told(b2, r)
<1>1. PICK c, s, caps, u :
        /\ c = r.body.capability
        /\ s = serverFor(b, r.body.key)
        /\ caps = appendCapability(s.capabilities, c)
        /\ u = [s EXCEPT !.capabilities = caps]
  OBVIOUS
<1>2. ServerShape(s) /\ KeyOf(s) = r.body.key /\ c.class \in RiskClasses /\ c.name # ""
  BY <1>1, ServerForFacts DEF RecordOK
<1>3. /\ caps \subseteq s.capabilities \cup {c}
      /\ \E d \in caps : d.class = c.class /\ d.name # ""
  BY <1>1, <1>2, AppendCapabilityFacts
<1>4. /\ DOMAIN u = ServerFields /\ u.capabilities = caps
      /\ u.path = s.path /\ u.client = s.client /\ u.name = s.name
  BY <1>1, <1>2 DEF ServerShape, ServerFields
<1>5. ServerShape(u) /\ KeyOf(u) = r.body.key /\ Classification(u) = caps
  BY <1>2, <1>3, <1>4 DEF ServerShape, Classed, KeyOf, Classification
<1>6. mapBoundaryRecord(b, r) = addServer(b, u)
  BY <1>1 DEF mapBoundaryRecord
<1>7. PICK d \in caps : d.class = c.class /\ d.name # ""
  BY <1>3
<1> QED  BY <1>1, <1>5, <1>6, <1>7, AddServerFacts DEF Told

\* A builder with the same servers lost nothing.
LEMMA NoLossItself ==
  ASSUME NEW b, NEW b2, b2.servers = b.servers
  PROVE  NoLoss(b, b2)
  BY DEF NoLoss, Covered

\* Whatever its type, a record read is told and loses nothing (mapBoundaryRecord).
LEMMA ReadRecord ==
  ASSUME NEW b, BuilderOK(b), NEW r, RecordOK(r)
  PROVE  LET b2 == mapBoundaryRecord(b, r)
         IN BuilderOK(b2) /\ NoLoss(b, b2) /\ Told(b2, r)
<1>1. CASE r.type = "mcp_server"
  BY <1>1, ReadServerRecord
<1>2. CASE r.type = "tool_capability"
  BY <1>2, ReadCapabilityRecord
<1>3. CASE r.type = "tool_descriptor"
  BY <1>3, ReadDescriptorRecord DEF Told
<1>4. CASE r.type = "mcp_config"
  <2>1. mapBoundaryRecord(b, r) = addConfig(b, r.body)
    BY <1>4 DEF mapBoundaryRecord
  <2> QED  BY <1>4, <2>1, AddConfigFacts DEF Told
<1>5. CASE r.type \notin {"mcp_server", "tool_capability", "tool_descriptor", "mcp_config"}
  <2>1. mapBoundaryRecord(b, r) = b
    BY <1>5 DEF mapBoundaryRecord
  <2> QED  BY <1>5, <2>1, NoLossItself DEF Told
<1> QED  BY <1>1, <1>2, <1>3, <1>4, <1>5

LineOK(l) ==
  \/ l.kind = "garbled"
  \/ l.kind = "boundary" /\ RecordOK(l.record)
  \/ l.kind = "foreign" /\ ServerShape(l.server)

\* Warnings, findings, components and the status change no server.
LEMMA Bookkeeping ==
  ASSUME NEW b, BuilderOK(b), NEW b2, DOMAIN b2 = BuilderFields, b2.servers = b.servers
  PROVE  BuilderOK(b2) /\ NoLoss(b, b2)
  BY DEF BuilderOK, NoLoss, Covered

\* Nor does another scanner's line lose anything (mapGenericRecord).
LEMMA ReadGeneric ==
  ASSUME NEW b, BuilderOK(b), NEW l, ServerShape(l.server)
  PROVE  LET b2 == mapGenericRecord(b, l)
         IN BuilderOK(b2) /\ NoLoss(b, b2)
<1>0. DOMAIN b = BuilderFields
  BY DEF BuilderOK
<1>1. CASE l.fields \cap {"server map", "server"} # {}
  <2>1. mapGenericRecord(b, l) = addServer(b, l.server)
    BY <1>1 DEF mapGenericRecord
  <2> QED  BY <2>1, AddServerFacts
<1>2. CASE l.fields \cap {"server map", "server"} = {}
  <2>1. PICK b2 : b2 = mapGenericRecord(b, l)
    OBVIOUS
  <2>2. DOMAIN b2 = BuilderFields /\ b2.servers = b.servers
    BY <1>0, <1>2, <2>1 DEF mapGenericRecord, BuilderFields
  <2> QED  BY <2>1, <2>2, Bookkeeping
<1> QED  BY <1>1, <1>2

\* So for every line, in either mode of the ingest.
LEMMA ReadLineFacts ==
  ASSUME NEW b0, BuilderOK(b0), NEW source, NEW l, LineOK(l)
  PROVE  LET b2 == ReadLine(b0, source, l)
         IN /\ BuilderOK(b2) /\ NoLoss(b0, b2)
            /\ l.kind = "boundary" => Told(b2, l.record)
<1>1. PICK b, b2 : b = summaryStatus(b0, l) /\ b2 = ReadLine(b0, source, l)
  OBVIOUS
<1>2. DOMAIN b = BuilderFields /\ b.servers = b0.servers
  BY <1>1 DEF summaryStatus, BuilderOK, BuilderFields
<1>3. BuilderOK(b) /\ NoLoss(b0, b)
  BY <1>2, Bookkeeping
<1>4. PICK w : w = [b EXCEPT !.warned = TRUE]
  OBVIOUS
<1>5. DOMAIN w = BuilderFields /\ w.servers = b.servers
  BY <1>2, <1>4 DEF BuilderFields
<1>6. BuilderOK(w) /\ NoLoss(b, w)
  BY <1>3, <1>5, Bookkeeping
<1>7. CASE l.kind = "boundary"
  <2>1. b2 = mapBoundaryRecord(b, l.record) /\ RecordOK(l.record)
    BY <1>1, <1>7 DEF ReadLine, LineOK
  <2>2. BuilderOK(b2) /\ NoLoss(b, b2) /\ Told(b2, l.record)
    BY <1>3, <2>1, ReadRecord
  <2> QED  BY <1>1, <1>3, <2>2 DEF NoLoss
<1>8. CASE l.kind # "boundary"
  <2>1. b2 \in {b, w} \/ (b2 = mapGenericRecord(b, l) /\ ServerShape(l.server))
    BY <1>1, <1>4, <1>8 DEF ReadLine, LineOK
  <2>2. CASE b2 = mapGenericRecord(b, l) /\ ServerShape(l.server)
    <3>1. BuilderOK(b2) /\ NoLoss(b, b2)
      BY <1>3, <2>2, ReadGeneric
    <3> QED  BY <1>1, <1>3, <1>8, <3>1 DEF NoLoss
  <2>3. CASE b2 \in {b, w}
    BY <1>1, <1>3, <1>6, <1>8, <2>3 DEF NoLoss
  <2> QED  BY <2>1, <2>2, <2>3
<1> QED  BY <1>7, <1>8

\* What a scan knows of a server.
ScannedServer(s) ==
  /\ DOMAIN s = ServerFields
  /\ s.capabilities = ClassifyServer(s.name, s.words \cup s.hidden, s.tools)
  /\ s.risk = highestRisk(s.capabilities)
  /\ "" \notin s.tools

InventoryOK(inventory) ==
  /\ DOMAIN inventory = {"configs", "servers", "errors"}
  /\ \A s \in inventory.servers : ScannedServer(s)

ServerRecord(s) == Record("mcp_server", s, s)
CapabilityRecord(s, c) == Record("tool_capability", s, [key |-> KeyOf(s), capability |-> c])
Line(r) == [kind |-> "boundary", record |-> r]

StreamOK(records, servers) ==
  /\ \A r \in records : RecordOK(r)
  /\ \A s \in servers : /\ ServerRecord(s) \in records
                        /\ \A c \in s.capabilities : CapabilityRecord(s, c) \in records

\* A record the ingest needs is still to be read, was lost on the way, or has been counted.
Accounted(lines, gone, b, r) ==
  r.type \in {"mcp_server", "tool_capability"} =>
    Line(r) \in lines \/ Line(r) \in gone \/ Told(b, r)

Phase ==
  /\ ingest = NoIngest \/ ingest.state \in {"off", "reading", "done"}
  /\ ingest = NoIngest \/ ingest.state = "off" \/ stream # {}
  /\ ingest.state = "done" => file = {} /\ ingest.result.inventory.servers = builder.servers

IvInv ==
  /\ ingest.state = "off" \/ dir \in ScanDirs
  /\ inv.at \in Nat \ {0}
  /\ InventoryOK(inv.inventory)
  /\ stream # {} => StreamOK(stream, inv.inventory.servers)
  /\ \A r \in stream : Accounted(file, lost, builder, r)
  /\ \A l \in file : LineOK(l)
  /\ BuilderOK(builder)
  /\ Phase

\* The servers of a configuration are classified and ranked (parseConfig).
LEMMA ParsedServers ==
  ASSUME NEW path, NEW client, NEW body,
         \A s \in DOMAIN body : body[s] = NoEntry \/ "" \notin body[s].tools,
         NEW t \in parseConfig(path, client, body)
  PROVE  ScannedServer(t)
<1>1. PICK s \in DOMAIN body : body[s] # NoEntry /\ t = Server(path, client, s[1], s[2], body[s])
  BY DEF parseConfig
<1>2. PICK e, caps : e = body[s] /\ caps = ClassifyServer(s[2], e.words \cup e.hidden, e.tools)
  OBVIOUS
<1>3. "" \notin e.tools
  BY <1>1, <1>2
<1>4. t = [path |-> path, client |-> client, table |-> s[1], name |-> s[2], words |-> e.words,
           hidden |-> e.hidden, tools |-> e.tools, governed |-> isGovernedRoute(e),
           capabilities |-> caps, risk |-> highestRisk(caps)]
  BY <1>1, <1>2 DEF Server
<1>5. DOMAIN t = ServerFields
  BY <1>4 DEF ServerFields
<1> QED  BY <1>2, <1>3, <1>4, <1>5 DEF ScannedServer

\* A candidate read adds such servers (BuildInventory).
LEMMA ReadCandidateFacts ==
  ASSUME NEW inventory, InventoryOK(inventory), NEW candidate, NEW found,
         found \in {NoFile, Unreadable}
         \/ \A s \in DOMAIN found.body : found.body[s] = NoEntry \/ "" \notin found.body[s].tools
  PROVE  InventoryOK(ReadCandidate(inventory, candidate, found))
<1>1. CASE found = NoFile
  BY <1>1 DEF ReadCandidate, NoFile, Unreadable
<1>2. CASE found = Unreadable
  <2>1. PICK next : next = [inventory EXCEPT !.errors = @ + 1]
    OBVIOUS
  <2>2. DOMAIN next = {"configs", "servers", "errors"} /\ next.servers = inventory.servers
    BY <2>1 DEF InventoryOK
  <2>3. ReadCandidate(inventory, candidate, found) = next
    BY <1>2, <2>1 DEF ReadCandidate, NoFile, Unreadable
  <2> QED  BY <2>2, <2>3 DEF InventoryOK
<1>3. CASE found \notin {NoFile, Unreadable}
  <2>1. PICK servers : servers = parseConfig(candidate.path, candidate.client, found.body)
    OBVIOUS
  <2>2. \A s \in servers : ScannedServer(s)
    BY <1>3, <2>1, ParsedServers
  <2>3. PICK next : next = ReadCandidate(inventory, candidate, found)
    OBVIOUS
  <2>4. next = [inventory EXCEPT
               !.configs = @ \cup {[path |-> candidate.path, client |-> candidate.client,
                                    scope |-> candidate.scope, count |-> Cardinality(servers)]},
               !.servers = @ \cup servers]
    BY <1>3, <2>1, <2>3 DEF ReadCandidate
  <2>5. /\ DOMAIN next = {"configs", "servers", "errors"}
        /\ next.servers = inventory.servers \cup servers
    BY <2>4 DEF InventoryOK
  <2> QED  BY <2>2, <2>3, <2>5 DEF InventoryOK
<1> QED  BY <1>1, <1>2, <1>3

\* A scanned server has capabilities, with known classes and names.
LEMMA ScannedClasses ==
  ASSUME NEW s, ScannedServer(s)
  PROVE  /\ Classed(s.capabilities) /\ s.capabilities # {}
         /\ \A c \in s.capabilities : c.name # ""
  BY ClassifyFacts DEF ScannedServer

\* The records of a scanned server can be read back.
LEMMA ServerRecordsOK ==
  ASSUME NEW s, ScannedServer(s), NEW r \in ServerRecords(s)
  PROVE  RecordOK(r)
<1>1. CASE r = Record("mcp_server", s, s)
  <2>1. r.type = "mcp_server" /\ r.body = s
    BY <1>1 DEF Record
  <2> QED  BY <2>1 DEF RecordOK, ScannedServer
<1>2. ASSUME NEW t \in s.tools,
             r = Record("tool_descriptor", s, [key |-> KeyOf(s), tool |-> t])
      PROVE  RecordOK(r)
  <2>1. PICK body : body = [key |-> KeyOf(s), tool |-> t]
    OBVIOUS
  <2>2. r.type = "tool_descriptor" /\ r.body = body
    BY <1>2, <2>1 DEF Record
  <2>3. r.body.key = KeyOf(s)
    BY <2>1, <2>2
  <2> QED  BY <2>2, <2>3 DEF RecordOK
<1>3. ASSUME NEW c \in s.capabilities,
             r = Record("tool_capability", s, [key |-> KeyOf(s), capability |-> c])
      PROVE  RecordOK(r)
  <2>1. PICK body : body = [key |-> KeyOf(s), capability |-> c]
    OBVIOUS
  <2>2. r.type = "tool_capability" /\ r.body = body
    BY <1>3, <2>1 DEF Record
  <2>3. r.body.key = KeyOf(s) /\ r.body.capability = c
    BY <2>1, <2>2
  <2>4. c.class \in RiskClasses /\ c.name # ""
    BY ScannedClasses DEF Classed
  <2> QED  BY <2>2, <2>3, <2>4 DEF RecordOK
<1>4. CASE r.type = "install_status"
  BY <1>4 DEF RecordOK
<1>5. \/ r = Record("mcp_server", s, s)
      \/ \E t \in s.tools : r = Record("tool_descriptor", s, [key |-> KeyOf(s), tool |-> t])
      \/ \E c \in s.capabilities :
           r = Record("tool_capability", s, [key |-> KeyOf(s), capability |-> c])
      \/ r = Record("install_status", s, [key |-> KeyOf(s), governed |-> s.governed, advice |-> TRUE])
  BY DEF ServerRecords
<1>6. r = Record("install_status", s, [key |-> KeyOf(s), governed |-> s.governed, advice |-> TRUE])
        => r.type = "install_status"
  BY DEF Record
<1> QED  BY <1>1, <1>2, <1>3, <1>4, <1>5, <1>6

\* A stream has, for each server, its record and one for each of its capabilities.
LEMMA ScanRecordsFacts ==
  ASSUME NEW inventory, InventoryOK(inventory)
  PROVE  StreamOK(ScanRecords(inventory), inventory.servers)
<1> DEFINE Other(r) == r.type \notin {"mcp_server", "tool_descriptor", "tool_capability"}
<1>1. ASSUME NEW type, NEW of, NEW body,
             type \notin {"mcp_server", "tool_descriptor", "tool_capability"}
      PROVE  Other(Record(type, of, body))
  BY <1>1 DEF Record
<1>2. \A r : Other(r) => RecordOK(r)
  BY DEF RecordOK
<1> HIDE DEF Other
<1>3. \A c : \A r \in ConfigRecords(c) : Other(r)
  BY <1>1 DEF ConfigRecords
<1> DEFINE Sorted(records) ==
      \A r \in records : Other(r) \/ \E s \in inventory.servers : r \in ServerRecords(s)
<1>4. Sorted(ScanRecords(inventory))
  <2>1. PICK paths : paths = DetectRiskPaths(inventory.servers)
    OBVIOUS
  <2>2. \A r \in ScanRecords(inventory) :
          r \in ScanBody(inventory, paths) \/ \E b : r = Record("scan_summary", inventory, b)
    BY <2>1 DEF ScanRecords
  <2>3. \A of, body : /\ Other(Record("scan_start", of, body))
                      /\ Other(Record("agent_client", of, body))
                      /\ Other(Record("risk_path", of, body))
                      /\ Other(Record("policy_recommendation", of, body))
                      /\ Other(Record("scan_summary", of, body))
    BY <1>1
  <2>4. \A things : /\ \A r \in RecordsOf("agent_client", things) : Other(r)
                    /\ \A r \in RecordsOf("risk_path", things) : Other(r)
                    /\ \A r \in RecordsOf("policy_recommendation", things) : Other(r)
    BY <2>3 DEF RecordsOf
  <2>5. \A r \in RecordsOfConfigs(inventory.configs) : Other(r)
    BY <1>3 DEF RecordsOfConfigs
  <2>6. \A r \in RecordsOfServers(inventory.servers) : \E s \in inventory.servers : r \in ServerRecords(s)
    BY DEF RecordsOfServers
  <2>7. PICK templates : templates = {[template |-> t] : t \in policyRecommendations(paths)}
    OBVIOUS
  <2>8. PICK start : start = Record("scan_start", inventory, [servers |-> {}])
    OBVIOUS
  <2>9. ScanBody(inventory, paths)
          = {start} \cup RecordsOf("agent_client", agentClients(inventory.configs))
            \cup RecordsOfConfigs(inventory.configs) \cup RecordsOfServers(inventory.servers)
            \cup RecordsOf("risk_path", paths) \cup RecordsOf("policy_recommendation", templates)
    BY <2>7, <2>8 DEF ScanBody
  <2>10. Other(start)
    BY <2>3, <2>8
  <2> QED  BY <2>2, <2>3, <2>4, <2>5, <2>6, <2>9, <2>10
<1>5. \A r \in ScanRecords(inventory) : RecordOK(r)
  <2>1. ASSUME NEW r \in ScanRecords(inventory)
        PROVE  RecordOK(r)
    <3>1. Other(r) \/ \E s \in inventory.servers : r \in ServerRecords(s)
      BY <1>4, <2>1
    <3>2. ASSUME NEW s \in inventory.servers, r \in ServerRecords(s)
          PROVE  RecordOK(r)
      BY <3>2, ServerRecordsOK DEF InventoryOK
    <3> QED  BY <1>2, <3>1, <3>2
  <2> QED  BY <2>1
<1>6. \A s \in inventory.servers : ServerRecords(s) \subseteq ScanRecords(inventory)
  <2>1. PICK paths : paths = DetectRiskPaths(inventory.servers)
    OBVIOUS
  <2>2. ScanBody(inventory, paths) \subseteq ScanRecords(inventory)
    BY <2>1 DEF ScanRecords
  <2>3. RecordsOfServers(inventory.servers) \subseteq ScanBody(inventory, paths)
    BY DEF ScanBody
  <2>4. \A s \in inventory.servers : ServerRecords(s) \subseteq RecordsOfServers(inventory.servers)
    BY DEF RecordsOfServers
  <2> QED  BY <2>2, <2>3, <2>4
<1>7. \A s : /\ ServerRecord(s) \in ServerRecords(s)
             /\ \A c \in s.capabilities : CapabilityRecord(s, c) \in ServerRecords(s)
  BY DEF ServerRecords, ServerRecord, CapabilityRecord
<1> QED  BY <1>5, <1>6, <1>7 DEF StreamOK

\* Both sides begin empty.
LEMMA EmptyBuilderOK ==
  BuilderOK(EmptyBuilder) /\ InventoryOK(EmptyInventory)
<1>1. PICK b, i : b = EmptyBuilder /\ i = EmptyInventory
  OBVIOUS
<1>2. DOMAIN b = BuilderFields /\ b.servers = {}
  BY <1>1 DEF BuilderFields, EmptyBuilder
<1>3. DOMAIN i = {"configs", "servers", "errors"} /\ i.servers = {}
  BY <1>1 DEF EmptyInventory
<1> QED  BY <1>1, <1>2, <1>3 DEF BuilderOK, InventoryOK

\* No ingest has no phase yet.
LEMMA NoIngestFacts == NoIngest.state = "none"
  BY DEF NoIngest

\* The first scan and ingest.
LEMMA IvInitSafe ==
  ASSUME Init
  PROVE  IvInv
<1>1. CASE NoScan
  <2>1. PICK i : i = inv
    OBVIOUS
  <2>2. i.at = 1 /\ i.inventory = EmptyInventory
    BY <1>1, <2>1 DEF NoScan
  <2>3. /\ stream = {} /\ file = {} /\ builder = EmptyBuilder
        /\ ingest.state = "off"
    BY <1>1 DEF NoScan
  <2>4. InventoryOK(inv.inventory) /\ BuilderOK(builder) /\ inv.at \in Nat \ {0}
    BY <2>1, <2>2, <2>3, EmptyBuilderOK
  <2>5. Phase
    BY <2>3 DEF Phase
  <2> QED  BY <2>3, <2>4, <2>5 DEF IvInv
<1>2. CASE InvInit
  <2>1. PICK i : i = inv
    OBVIOUS
  <2>2. i.at = 1 /\ i.inventory = EmptyInventory
    BY <1>2, <2>1 DEF InvInit
  <2>3. /\ stream = {} /\ file = {} /\ builder = EmptyBuilder
        /\ ingest = NoIngest /\ dir \in ScanDirs
    BY <1>2 DEF InvInit
  <2>4. InventoryOK(inv.inventory) /\ BuilderOK(builder) /\ inv.at \in Nat \ {0}
    BY <2>1, <2>2, <2>3, EmptyBuilderOK
  <2>5. Phase
    BY <2>3, NoIngestFacts DEF Phase
  <2> QED  BY <2>3, <2>4, <2>5 DEF IvInv
<1> QED  BY <1>1, <1>2 DEF Init

\* The scan reads a candidate or skips a path it has seen.
LEMMA ScanStep ==
  ASSUME IvInv, Scan
  PROVE  IvInv'
<1>0. /\ stream = {} /\ ingest = NoIngest /\ ingest' = ingest /\ stream' = stream
      /\ file' = file /\ builder' = builder /\ dir' = dir /\ lost' = lost
      /\ inv.at <= Len(Candidates)
  BY DEF Scan
<1>1. PICK at, before, after :
        /\ at = inv.at /\ before = inv.inventory
        /\ after = IF Seen(at) THEN before
                   ELSE ReadCandidate(before, Candidates[at], dir[Candidates[at].path])
  OBVIOUS
<1>2. at \in Nat \ {0} /\ InventoryOK(before) /\ dir \in ScanDirs
  BY <1>0, <1>1, NoIngestFacts DEF IvInv
<1>3. at \in DOMAIN Candidates
  <2>1. PICK n : n = Len(Candidates)
    OBVIOUS
  <2>2. n \in Nat /\ DOMAIN Candidates = 1..n
    <3>1. PICK paths : Candidates \in Seq(paths)
      BY ScanDirsAssumption
    <3> QED  BY <2>1, <3>1
  <2>3. at \in 1..n
    BY <1>0, <1>1, <1>2, <2>1, <2>2
  <2> QED  BY <2>2, <2>3
<1>4. InventoryOK(after)
  BY <1>1, <1>2, <1>3, ReadCandidateFacts, ScanDirsAssumption
<1>5. PICK next : next = inv'
  OBVIOUS
<1>6. next.at = at + 1 /\ next.inventory = after
  BY <1>1, <1>5 DEF Scan
<1>7. inv'.at \in Nat \ {0} /\ InventoryOK(inv'.inventory)
  BY <1>2, <1>4, <1>5, <1>6
<1>8. Phase'
  BY <1>0, NoIngestFacts DEF IvInv, Phase
<1> QED  BY <1>0, <1>2, <1>7, <1>8 DEF IvInv

\* It writes the stream of records.
LEMMA BuildStep ==
  ASSUME IvInv, BuildInventoryRecords
  PROVE  IvInv'
<1>0. /\ ingest = NoIngest /\ ingest' = ingest /\ inv' = inv
      /\ builder' = builder /\ dir' = dir /\ lost' = lost
      /\ stream' = ScanRecords(inv.inventory)
      /\ file' = {[kind |-> "boundary", record |-> r] : r \in stream'}
  BY DEF BuildInventoryRecords
<1>1. PICK records, lines : records = stream' /\ lines = file'
  OBVIOUS
<1>2. lines = {Line(r) : r \in records}
  BY <1>0, <1>1 DEF Line
<1>3. StreamOK(records, inv.inventory.servers)
  BY <1>0, <1>1, ScanRecordsFacts DEF IvInv
<1>4. \A r \in records : Accounted(lines, lost, builder, r)
  BY <1>2 DEF Accounted
<1>5. \A l \in lines : LineOK(l)
  <2>1. ASSUME NEW r \in records
        PROVE  LineOK(Line(r))
    <3>1. Line(r).kind = "boundary" /\ Line(r).record = r
      BY DEF Line
    <3> QED  BY <1>3, <3>1 DEF LineOK, StreamOK
  <2> QED  BY <1>2, <2>1
<1>6. Phase'
  BY <1>0, NoIngestFacts DEF Phase
<1> QED  BY <1>0, <1>1, <1>3, <1>4, <1>5, <1>6 DEF IvInv

\* The file changes on its way: what it gains is readable, what it loses is lost.
LEMMA FileStep ==
  ASSUME IvInv, stream # {}, ingest = NoIngest,
         UNCHANGED <<dir, inv, stream, builder>>, ingest' = NoIngest \/ ingest'.state = "reading",
         \A l \in file' : LineOK(l),
         \A r \in stream : Accounted(file', lost', builder, r)
  PROVE  IvInv'
<1>1. Phase'
  BY NoIngestFacts DEF Phase
<1> QED  BY <1>1, NoIngestFacts DEF IvInv

\* Records are filtered out of the file.
LEMMA LoseStep ==
  ASSUME IvInv, LoseLine
  PROVE  IvInv'
<1>1. PICK gone : file' = file \ gone /\ lost' = gone
  BY DEF LoseLine
<1>2. /\ stream # {} /\ ingest = NoIngest /\ lost = {}
      /\ UNCHANGED <<dir, inv, stream, builder, ingest>>
  BY DEF LoseLine, Untouched
<1>3. \A r \in stream : Accounted(file', lost', builder, r)
  BY <1>1, <1>2 DEF IvInv, Accounted
<1>4. \A l \in file' : LineOK(l)
  BY <1>1 DEF IvInv
<1> QED  BY <1>2, <1>3, <1>4, FileStep

\* A line of the file is damaged.
LEMMA GarbleStep ==
  ASSUME IvInv, GarbleLine
  PROVE  IvInv'
<1>1. PICK l \in file : file' = (file \ {l}) \cup {[kind |-> "garbled"]} /\ lost' = {l}
  BY DEF GarbleLine
<1>2. /\ stream # {} /\ ingest = NoIngest /\ lost = {}
      /\ UNCHANGED <<dir, inv, stream, builder, ingest>>
  BY DEF GarbleLine, Untouched
<1>3. \A r \in stream : Accounted(file', lost', builder, r)
  BY <1>1, <1>2 DEF IvInv, Accounted
<1>4. LineOK([kind |-> "garbled"])
  BY DEF LineOK
<1>5. \A x \in file' : LineOK(x)
  BY <1>1, <1>4 DEF IvInv
<1> QED  BY <1>2, <1>3, <1>5, FileStep

\* Another scanner's line is mixed in.
LEMMA MixStep ==
  ASSUME IvInv, MixIn
  PROVE  IvInv'
<1>1. PICK l \in Foreign : file' = file \cup {l}
  BY DEF MixIn
<1>2. /\ stream # {} /\ ingest = NoIngest /\ lost' = lost
      /\ UNCHANGED <<dir, inv, stream, builder, ingest>>
  BY DEF MixIn, Untouched
<1>3. \A r \in stream : Accounted(file', lost', builder, r)
  BY <1>1, <1>2 DEF IvInv, Accounted
<1>4. LineOK(l)
  BY ForeignAssumption DEF LineOK, ServerShape, Classed
<1>5. \A x \in file' : LineOK(x)
  BY <1>1, <1>4 DEF IvInv
<1> QED  BY <1>2, <1>3, <1>5, FileStep

\* The ingest begins with the lines some record type is mapped for.
LEMMA StartStep ==
  ASSUME IvInv, StartIngest
  PROVE  IvInv'
<1>1. /\ stream # {} /\ ingest = NoIngest /\ lost' = lost
      /\ UNCHANGED <<dir, inv, stream, builder>>
      /\ file' = {l \in file : l.kind # "boundary" \/ Matters(l)}
  BY DEF StartIngest
<1>2. ingest'.state = "reading"
  BY DEF StartIngest
<1>3. \A r \in stream : Accounted(file', lost', builder, r)
  <2> SUFFICES ASSUME NEW r \in stream, r.type \in {"mcp_server", "tool_capability"}, Line(r) \in file
               PROVE  Line(r) \in file'
    BY <1>1 DEF IvInv, Accounted
  <2>1. Line(r).kind = "boundary" /\ Line(r).record = r
    BY DEF Line
  <2>2. Matters(Line(r))
    BY <2>1 DEF Matters
  <2> QED  BY <1>1, <2>2
<1>4. \A x \in file' : LineOK(x)
  BY <1>1 DEF IvInv
<1> QED  BY <1>1, <1>2, <1>3, <1>4, FileStep

\* It reads any line of those that are left.
LEMMA LineStep ==
  ASSUME IvInv, IngestLine
  PROVE  IvInv'
<1>1. PICK l \in file : builder' = ReadLine(builder, ingest.source, l) /\ file' = file \ {l}
  BY DEF IngestLine
<1>2. /\ ingest.state = "reading" /\ UNCHANGED <<dir, inv, stream, lost, ingest>>
  BY DEF IngestLine
<1>3. PICK b2 : b2 = builder'
  OBVIOUS
<1>4. LineOK(l) /\ BuilderOK(builder)
  BY DEF IvInv
<1>5. BuilderOK(b2) /\ NoLoss(builder, b2) /\ (l.kind = "boundary" => Told(b2, l.record))
  BY <1>1, <1>3, <1>4, ReadLineFacts
<1>6. ASSUME NEW r \in stream
      PROVE  Accounted(file', lost, b2, r)
  <2>1. Accounted(file, lost, builder, r)
    BY DEF IvInv
  <2>2. CASE l = Line(r)
    <3>1. l.kind = "boundary" /\ l.record = r
      BY <2>2 DEF Line
    <3> QED  BY <1>5, <3>1 DEF Accounted
  <2>3. CASE l # Line(r)
    <3>1. Told(builder, r) => Told(b2, r)
      BY <1>5 DEF Told, NoLoss
    <3> QED  BY <1>1, <2>1, <2>3, <3>1 DEF Accounted
  <2> QED  BY <2>2, <2>3
<1>7. Phase'
  BY <1>2, NoIngestFacts DEF IvInv, Phase
<1> QED  BY <1>1, <1>2, <1>3, <1>5, <1>6, <1>7 DEF IvInv

\* It ends when none is left.
LEMMA FinishStep ==
  ASSUME IvInv, FinishIngest
  PROVE  IvInv'
<1>1. PICK allowPartial \in BOOLEAN :
        ingest' = [state |-> "done", result |-> Snapshot(builder, allowPartial)]
  BY DEF FinishIngest
<1>2. /\ ingest.state = "reading" /\ file = {}
      /\ UNCHANGED <<dir, inv, stream, lost, file, builder>>
  BY DEF FinishIngest
<1>3. PICK result : result = Snapshot(builder, allowPartial)
  OBVIOUS
<1>4. result.inventory.servers = builder.servers
  BY <1>3 DEF Snapshot
<1>5. PICK next : next = ingest'
  OBVIOUS
<1>6. next.state = "done" /\ next.result = result
  BY <1>1, <1>3, <1>5
<1>7. Phase'
  BY <1>2, <1>4, <1>5, <1>6, NoIngestFacts DEF IvInv, Phase
<1> QED  BY <1>2, <1>5, <1>6, <1>7 DEF IvInv

\* Every step of the ingest and of the commands keeps the invariant.
LEMMA IvNextSafe ==
  ASSUME IvInv, [Next]_vars
  PROVE  IvInv'
<1>1. CASE InvNext
  BY <1>1, ScanStep, BuildStep, LoseStep, GarbleStep, MixStep, StartStep, LineStep, FinishStep
     DEF InvNext
<1>2. CASE UNCHANGED invVars
  BY <1>2 DEF invVars, IvInv, Phase
<1> QED  BY <1>1, <1>2 DEF Next, vars

\* In every reachable state each record the ingest needs is still to be read, was lost on the
\* way, or has left its classes in the builder, in whatever order the lines are read.
THEOREM IngestInvariant ==
  Spec => []IvInv
<1>1. Init => IvInv
  BY IvInitSafe
<1>2. IvInv /\ [Next]_vars => IvInv'
  BY IvNextSafe
<1> QED  BY <1>1, <1>2, PTL DEF Spec

\* A builder that has every class of a server has a server ranked no lower.
LEMMA CoveredKeepsRisk ==
  ASSUME NEW b, BuilderOK(b), NEW s, ScannedServer(s),
         \A c \in s.capabilities : Covered(b, KeyOf(s), c.class)
  PROVE  \E t \in b.servers : KeyOf(t) = KeyOf(s) /\ riskRank[t.risk] >= riskRank[s.risk]
<1>1. /\ Classed(s.capabilities) /\ s.capabilities # {} /\ s.risk = highestRisk(s.capabilities)
  BY ScannedClasses DEF ScannedServer
<1>2. \/ s.risk = "unknown" \/ \E c \in s.capabilities : s.risk = c.class
  BY <1>1, HighestRisk DEF Classed
<1>3. PICK c \in s.capabilities : s.risk = "unknown" \/ s.risk = c.class
  BY <1>1, <1>2
<1>4. PICK t \in b.servers : KeyOf(t) = KeyOf(s) /\ \E d \in t.capabilities : d.class = c.class
  BY DEF Covered
<1>5. PICK d \in t.capabilities : d.class = c.class
  BY <1>4
<1>6. /\ Classed(t.capabilities) /\ t.risk = highestRisk(t.capabilities)
  BY DEF BuilderOK, ServerShape
<1>7. riskRank[t.risk] >= riskRank[c.class] /\ riskRank[t.risk] >= 0
  <2>1. riskRank[d.class] <= riskRank[t.risk] /\ t.risk \in RiskClasses /\ d.class \in RiskClasses
    BY <1>5, <1>6, HighestRisk DEF Classed
  <2> QED  BY <1>5, <2>1, RankFacts
<1> QED  BY <1>3, <1>4, <1>7, RankFacts

\* A server of a scan comes out of the ingest with at least the risk the scan gave it, for
\* every order of the records and whichever of the redundant ones are missing (addServer,
\* mergeExternalServer).
THEOREM IngestKeepsScannedRisk ==
  Spec => []IngestKeepsRisk
<1>1. IvInv => IngestKeepsRisk
  <2> SUFFICES ASSUME IvInv, ingest.state = "done", NEW s \in inv.inventory.servers, StillTold(s)
               PROVE  \E t \in ingest.result.inventory.servers :
                        KeyOf(t) = KeyOf(s) /\ riskRank[t.risk] >= riskRank[s.risk]
    BY DEF IngestKeepsRisk
  <2>1. /\ stream # {} /\ file = {} /\ ingest.result.inventory.servers = builder.servers
        /\ StreamOK(stream, inv.inventory.servers) /\ BuilderOK(builder) /\ ScannedServer(s)
    BY NoIngestFacts DEF IvInv, Phase, InventoryOK
  <2>2. \A r \in stream : r.type \in {"mcp_server", "tool_capability"} =>
          Line(r) \in lost \/ Told(builder, r)
    BY <2>1 DEF IvInv, Accounted
  <2>3. \A r : Line(r).record = r
    BY DEF Line
  <2>4. CASE \A l \in lost : l.record.type # "tool_capability"
    <3>1. ASSUME NEW c \in s.capabilities
          PROVE  Covered(builder, KeyOf(s), c.class)
      <4>1. PICK r, body : r = CapabilityRecord(s, c) /\ body = [key |-> KeyOf(s), capability |-> c]
        OBVIOUS
      <4>2. r.type = "tool_capability" /\ r.body = body /\ body.key = KeyOf(s) /\ body.capability = c
        BY <4>1 DEF CapabilityRecord, Record
      <4>3. r \in stream
        BY <2>1, <4>1 DEF StreamOK
      <4>4. Told(builder, r)
        BY <2>2, <2>3, <2>4, <4>2, <4>3
      <4> QED  BY <4>2, <4>4 DEF Told
    <3> QED  BY <2>1, <3>1, CoveredKeepsRisk
  <2>5. CASE (s.tools # {} \/ s.hidden = {}) /\ \A l \in lost : l.record.type # "mcp_server"
    <3>1. PICK r : r = ServerRecord(s)
      OBVIOUS
    <3>2. r.type = "mcp_server" /\ r.body = s
      BY <3>1 DEF ServerRecord, Record
    <3>3. r \in stream
      BY <2>1, <3>1 DEF StreamOK
    <3>4. Told(builder, r)
      BY <2>2, <2>3, <2>5, <3>2, <3>3
    <3>5. ClassifyServer(s.name, s.words, s.tools) = s.capabilities
      BY <2>1, <2>5 DEF ScannedServer, ClassifyServer
    <3>6. \A c \in s.capabilities : Covered(builder, KeyOf(s), c.class)
      BY <2>1, <3>2, <3>4, <3>5, ScannedClasses DEF Told
    <3> QED  BY <2>1, <3>6, CoveredKeepsRisk
  <2> QED  BY <2>4, <2>5 DEF StillTold
<1> QED  BY <1>1, IngestInvariant, PTL
==============================================================================
