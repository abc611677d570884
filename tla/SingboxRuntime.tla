--------------------------- MODULE SingboxRuntime ---------------------------
(***************************************************************************)
(* Reconcile and Runtime.Apply of the supplemental sing-box core.          *)
(*                                                                         *)
(* The panel owns the database; the sidecar reads one file, config.json,   *)
(* when systemd starts it.  Every native lifecycle path (an HTTP handler,  *)
(* an Xray rebuild, the traffic job) calls Reconcile from a goroutine of   *)
(* its own, and no lock is taken anywhere between the database query and   *)
(* the restart, so the steps of several calls interleave freely here.      *)
(*                                                                         *)
(* The tables are two opaque values, because BuildIntegratedConfig reads   *)
(* them apart: the inbounds first, their clients and traffic rows later.   *)
(* Render[<<i, c>>] is the configuration it makes of what the two reads    *)
(* found, which need not be what the tables held at any one time.          *)
(***************************************************************************)
EXTENDS Naturals, FiniteSets

CONSTANTS
    Procs,       \* goroutines that may call Reconcile
    InboundRows, \* contents of inbounds
    ClientRows,  \* contents of clients, client_inbounds and client_traffics
    Configs,     \* rendered config.json documents
    Render,      \* Render[<<i, c>>]: what is built from them, or BuildError
    Valid,       \* the documents `sing-box check` accepts
    Faults,      \* which of FaultKinds may happen in this instance
    NoRows,      \* no build is under way: nothing has been read
    BuildError,  \* the builder returned an error
    NoFile,      \* config.json does not exist
    Torn,        \* config.json was truncated and not yet (fully) rewritten
    Down,        \* the unit is inactive or failed: no process, none coming
    Waiting      \* the process exited, systemd starts it again after RestartSec

(* io: a file operation before the rename fails.  rollback: a file         *)
(* operation of the rollback fails.  restart: the unit's start job fails.  *)
(* systemctl: systemctl fails and leaves the unit as it was.               *)
(* crash: the panel dies and its service manager starts it again.          *)
FaultKinds == {"io", "rollback", "restart", "systemctl", "crash"}

ASSUME ConstantsAssumption ==
    /\ Render \in [InboundRows \X ClientRows -> Configs \union {BuildError}]
    /\ Valid \subseteq Configs
    /\ Faults \subseteq FaultKinds
    /\ \A special \in {BuildError, NoFile, Torn, Down, Waiting} :
            special \notin Configs
    /\ NoFile # Torn
    /\ {Down, Waiting} \intersect {NoFile, Torn} = {}

VARIABLES
    db,        \* the native tables
    file,      \* content of config.json
    core,      \* what the live sing-box process loaded, or Down, or Waiting
    pc,        \* pc[p]: where p's Reconcile call stands
    seen,      \* seen[p]: the inbounds p's build has read, or NoRows
    cfg,       \* cfg[p]: the document p's last call rendered
    old,       \* old[p]: what p's last call read from config.json
    result,    \* result[p]: what p's last call returned
    lapsed,    \* no call has begun since time (or a downtime) last changed what
               \* the tables render
    disturbed  \* history: the panel was killed, or systemctl could not act

vars == <<db, file, core, pc, seen, cfg, old, result, lapsed, disturbed>>

-----------------------------------------------------------------------------

Contents == Configs \union {NoFile, Torn}

(* What the tables may hold, and what a build not disturbed makes of it.   *)
Databases == [inbounds : InboundRows, clients : ClientRows]

Rendering(d) == Render[<<d.inbounds, d.clients>>]

PCs == {"idle", "build", "clients", "check", "read", "status", "bounce", "swap",
        "restart", "rollback", "rewrite", "rerestart", "stop"}

(* Type correctness: the one type invariant of the module; it covers the   *)
(* variables of every Reconcile call and of the unit they drive.           *)
TypeOK ==
    /\ db \in Databases
    /\ file \in Contents
    /\ core \in Contents \union {Down, Waiting}
    /\ pc \in [Procs -> PCs]
    /\ seen \in [Procs -> InboundRows \union {NoRows}]
    /\ cfg \in [Procs -> Configs \union {BuildError}]
    /\ old \in [Procs -> Contents]
    /\ result \in [Procs -> {"none", "ok", "err"}]
    /\ lapsed \in BOOLEAN
    /\ disturbed \in BOOLEAN

Active == core \in Contents

(* The panel starts over whatever the installer or an earlier life of the  *)
(* panel left: a config.json that was checked, or none.                    *)
Init ==
    /\ db \in Databases
    /\ file \in Valid \union {NoFile}
    /\ core \in {Down, file}
    /\ pc = [p \in Procs |-> "idle"]
    /\ seen = [p \in Procs |-> NoRows]
    /\ cfg = [p \in Procs |-> BuildError]
    /\ old = [p \in Procs |-> NoFile]
    /\ result = [p \in Procs |-> "none"]
    /\ lapsed = TRUE
    /\ disturbed = FALSE

-----------------------------------------------------------------------------
(* What starts a Reconcile.                                                *)

Goto(p, label) ==
    /\ pc' = [pc EXCEPT ![p] = label]
    /\ UNCHANGED result

Return(p, r) ==
    /\ pc' = [pc EXCEPT ![p] = "idle"]
    /\ result' = [result EXCEPT ![p] = r]

(* The reads of this call see whatever has lapsed before it.               *)
Call(p) ==
    /\ pc[p] = "idle"
    /\ pc' = [pc EXCEPT ![p] = "build"]
    /\ result' = [result EXCEPT ![p] = "none"]
    /\ lapsed' = FALSE

(* A handler commits a change of the tables and then dispatches to         *)
(* Local.AddInbound, DelInbound, UpdateInbound, AddUser or RemoveUser.     *)
Edit(p) ==
    /\ Call(p)
    /\ db' \in Databases \ {db}
    /\ UNCHANGED <<file, core, seen, cfg, old, disturbed>>

(* GetXrayConfig reconciles whenever Xray's own configuration is rebuilt,  *)
(* as it is after the panel's start.                                       *)
Rebuild(p) ==
    /\ Call(p)
    /\ UNCHANGED <<db, file, core, seen, cfg, old, disturbed>>

(* The expiry time of a client passes, or AddTraffic disables one for      *)
(* another caller than the job below: the rendered set changes and nobody  *)
(* is told.                                                                *)
Expire ==
    /\ db' \in Databases \ {db}
    /\ lapsed' = TRUE
    /\ UNCHANGED <<file, core, pc, seen, cfg, old, result, disturbed>>

(* The traffic job's AddTraffic disables a client: one over its quota is   *)
(* no longer rendered, one whose time has passed was not rendered before.  *)
(* A tick whose collectors return no delta does not call AddTraffic, and   *)
(* one whose AddTraffic fails or disables nobody does not call Reconcile:  *)
(* neither is a step, and no fairness says that a lapse is ever noticed.   *)
JobTick(p) ==
    /\ Call(p)
    /\ db' \in Databases
    /\ UNCHANGED <<file, core, seen, cfg, old, disturbed>>

-----------------------------------------------------------------------------
(* Reconcile and Apply, one action per system call that other actors see.  *)

(* The first query.  No transaction spans it and the ones below, so edits  *)
(* and expiries may be committed before the clients are read.              *)
ReadInbounds(p) ==
    /\ pc[p] = "build"
    /\ seen' = [seen EXCEPT ![p] = db.inbounds]
    /\ Goto(p, "clients")
    /\ UNCHANGED <<db, file, core, cfg, old, lapsed, disturbed>>

(* Mutant: the build asks for nothing that lapsed during its reads.        *)
BuildAcknowledges(p) ==
    /\ pc[p] = "clients"
    /\ cfg' = [cfg EXCEPT ![p] = Render[<<seen[p], db.clients>>]]
    /\ seen' = [seen EXCEPT ![p] = NoRows]
    /\ IF cfg'[p] = BuildError THEN Return(p, "err") ELSE Goto(p, "check")
    /\ lapsed' = FALSE
    /\ UNCHANGED <<db, file, core, old, disturbed>>

(* The clients and traffic rows of the inbounds read above, and the        *)
(* document made of both.                                                  *)
BuildIntegratedConfig(p) ==
    /\ pc[p] = "clients"
    /\ LET built == Render[<<seen[p], db.clients>>]
       IN  /\ cfg' = [cfg EXCEPT ![p] = built]
           /\ IF built = BuildError THEN Return(p, "err") ELSE Goto(p, "check")
    /\ seen' = [seen EXCEPT ![p] = NoRows]
    /\ UNCHANGED <<db, file, core, old, lapsed, disturbed>>

(* Mutant: a missing sing-box binary counts as an accepted document.       *)
CheckBytesSkipped(p) ==
    /\ pc[p] = "check"
    /\ Goto(p, "read")
    /\ UNCHANGED <<db, file, core, seen, cfg, old, lapsed, disturbed>>

CheckBytes(p) ==
    /\ pc[p] = "check"
    /\ \/ cfg[p] \in Valid /\ Goto(p, "read")
       \/ (cfg[p] \notin Valid \/ "io" \in Faults) /\ Return(p, "err")
    /\ UNCHANGED <<db, file, core, seen, cfg, old, lapsed, disturbed>>

(* Mutant: a read error is kept in place of the content it did not read.   *)
ReadOldKeepsError(p) ==
    /\ pc[p] = "read"
    /\ old' = [old EXCEPT ![p] = IF file = NoFile THEN BuildError ELSE file]
    /\ Goto(p, IF file = cfg[p] THEN "status" ELSE "swap")
    /\ UNCHANGED <<db, file, core, seen, cfg, lapsed, disturbed>>

ReadOld(p) ==
    /\ pc[p] = "read"
    /\ \/ /\ old' = [old EXCEPT ![p] = file]
          /\ Goto(p, IF file = cfg[p] THEN "status" ELSE "swap")
       \/ /\ "io" \in Faults
          /\ Return(p, "err")
          /\ UNCHANGED old
    /\ UNCHANGED <<db, file, core, seen, cfg, lapsed, disturbed>>

(* Mutant: a file that did not change is taken for a unit that runs.       *)
StatusNotAsked(p) ==
    /\ pc[p] = "status"
    /\ Return(p, "ok")
    /\ UNCHANGED <<db, file, core, seen, cfg, old, lapsed, disturbed>>

Status(p) ==
    /\ pc[p] = "status"
    /\ IF Active THEN Return(p, "ok") ELSE Goto(p, "bounce")
    /\ UNCHANGED <<db, file, core, seen, cfg, old, lapsed, disturbed>>

(* Mutant: `systemctl reload-or-restart` of a core that cannot reload.     *)
ReloadIfActive ==
    /\ core' = IF Active THEN core ELSE file
    /\ UNCHANGED disturbed

(* systemctl restart of a Type=simple unit succeeds as soon as the process *)
(* is forked: it loads whatever config.json holds at that moment.          *)
RestartOk ==
    /\ core' = file
    /\ UNCHANGED disturbed

RestartFails ==
    \/ /\ "restart" \in Faults
       /\ core' = Down
       /\ UNCHANGED disturbed
    \/ /\ "systemctl" \in Faults
       /\ disturbed' = TRUE
       /\ UNCHANGED core

Bounce(p) ==
    /\ pc[p] = "bounce"
    /\ \/ RestartOk /\ Return(p, "ok")
       \/ RestartFails /\ Return(p, "err")
    /\ UNCHANGED <<db, file, seen, cfg, old, lapsed>>

Swap(p) ==
    /\ pc[p] = "swap"
    /\ \/ file' = cfg[p] /\ Goto(p, "restart")
       \/ "io" \in Faults /\ Return(p, "err") /\ UNCHANGED file
    /\ UNCHANGED <<db, core, seen, cfg, old, lapsed, disturbed>>

(* Mutant: the restart error is logged and nil is returned.                *)
RestartErrorLogged(p) ==
    /\ pc[p] = "restart"
    /\ RestartOk \/ RestartFails
    /\ Return(p, "ok")
    /\ UNCHANGED <<db, file, seen, cfg, old, lapsed>>

Restart(p) ==
    /\ pc[p] = "restart"
    /\ \/ RestartOk /\ Return(p, "ok")
       \/ RestartFails /\ Goto(p, "rollback")
    /\ UNCHANGED <<db, file, seen, cfg, old, lapsed>>

(* Mutant: the rollback removes the new document and forgets the old one.  *)
RollbackRemoves(p) ==
    /\ pc[p] = "rollback"
    /\ file' = NoFile
    /\ Goto(p, "stop")
    /\ UNCHANGED <<db, core, seen, cfg, old, lapsed, disturbed>>

(* The rollback ignores every error.  os.WriteFile truncates in place and  *)
(* writes afterwards; with no previous file config.json is removed.        *)
Rollback(p) ==
    /\ pc[p] = "rollback"
    /\ IF old[p] # NoFile
       THEN \/ file' = Torn /\ Goto(p, "rewrite")
            \/ "rollback" \in Faults /\ Goto(p, "rerestart") /\ UNCHANGED file
       ELSE /\ \/ file' = NoFile
               \/ "rollback" \in Faults /\ UNCHANGED file
            /\ Goto(p, "stop")
    /\ UNCHANGED <<db, core, seen, cfg, old, lapsed, disturbed>>

(* The second half of os.WriteFile.  If another call renamed or rewrote    *)
(* the file since the truncation, the bytes land in an unlinked inode, on  *)
(* top of the other call's bytes, or among them.                           *)
Rewrite(p) ==
    /\ pc[p] = "rewrite"
    /\ \/ file' = old[p]
       \/ file # Torn /\ file' \in {file, Torn}
       \/ "rollback" \in Faults /\ UNCHANGED file
    /\ Goto(p, "rerestart")
    /\ UNCHANGED <<db, core, seen, cfg, old, lapsed, disturbed>>

Rerestart(p) ==
    /\ pc[p] = "rerestart"
    /\ RestartOk \/ RestartFails
    /\ Return(p, "err")
    /\ UNCHANGED <<db, file, seen, cfg, old, lapsed>>

Stop(p) ==
    /\ pc[p] = "stop"
    /\ \/ core' = Down /\ UNCHANGED disturbed
       \/ "systemctl" \in Faults /\ disturbed' = TRUE /\ UNCHANGED core
    /\ Return(p, "err")
    /\ UNCHANGED <<db, file, seen, cfg, old, lapsed>>

ReconcileStep(p) ==
    \/ ReadInbounds(p) \/ BuildIntegratedConfig(p) \/ CheckBytes(p)
    \/ ReadOld(p) \/ Status(p) \/ Bounce(p) \/ Swap(p) \/ Restart(p)
    \/ Rollback(p) \/ Rewrite(p) \/ Rerestart(p) \/ Stop(p)

-----------------------------------------------------------------------------
(* The unit and the panel process.                                         *)

(* The process ends by itself: a listener it cannot bind, a document it    *)
(* cannot parse, a crash.  The unit has Restart=on-failure.                *)
CoreExit ==
    /\ Active
    /\ core' = Waiting
    /\ UNCHANGED <<db, file, pc, seen, cfg, old, result, lapsed, disturbed>>

AutoRestart ==
    /\ core = Waiting
    /\ core' = file
    /\ UNCHANGED <<db, file, pc, seen, cfg, old, result, lapsed, disturbed>>

PanelCrash ==
    /\ "crash" \in Faults
    /\ pc' = [p \in Procs |-> "idle"]
    /\ seen' = [p \in Procs |-> NoRows]
    /\ result' = [p \in Procs |-> "none"]
    /\ disturbed' = TRUE
    /\ UNCHANGED <<db, file, core, cfg, old, lapsed>>

Next ==
    \/ \E p \in Procs : Edit(p) \/ Rebuild(p) \/ JobTick(p) \/ ReconcileStep(p)
    \/ Expire
    \/ CoreExit
    \/ AutoRestart
    \/ PanelCrash

Spec == Init /\ [][Next]_vars

(* A goroutine that runs is scheduled again, and systemd restarts a failed *)
(* unit.  Nothing makes users edit, clients expire or anybody call.        *)
FairSpec ==
    /\ Spec
    /\ \A p \in Procs : WF_vars(ReconcileStep(p))
    /\ WF_vars(AutoRestart)

-----------------------------------------------------------------------------
(* Properties of any number of concurrent calls.                           *)

Quiet == \A p \in Procs : pc[p] = "idle"

(* A core that is up runs what config.json holds, whenever no Reconcile is *)
(* in flight: each call that changes the file, rollbacks included, also    *)
(* restarts (or stops) the unit afterwards, and the interleaving of the    *)
(* restarts cannot leave the older document in memory.  A panel kill or a  *)
(* systemctl that cannot act is the exception (Apply, runtime.go:140-153). *)
InSync == Quiet /\ ~disturbed /\ Active => core = file

(* "Apply validates first": whatever the interleaving, the failures of the *)
(* rollback and the kills, no document that `sing-box check` rejects is    *)
(* ever loaded or restored; the rest of what a process may find is no      *)
(* document at all (runtime.go:83-90, 146-151).                            *)
OnlyCheckedRuns == {file, core} \intersect Configs \subseteq Valid

-----------------------------------------------------------------------------
(* Properties of calls that do not overlap.                                *)

(* The step by which Reconcile returns nil leaves a process that loaded    *)
(* the very document this call rendered: the byte-identical shortcut may   *)
(* skip the restart only because the file stands for what runs             *)
(* (runtime.go:103-112, 145-155).                                          *)
OkLoaded ==
    \A p \in Procs :
        pc[p] # "idle" /\ result'[p] = "ok" /\ ~disturbed' => core' = cfg[p]

OkMeansServed == [][OkLoaded]_vars

(* An attempt to publish is atomic: between the rename and the end of the  *)
(* rollback the old document is still the published one.                   *)
Unsettled == {"restart", "rollback", "rewrite", "rerestart", "stop"}

Midway == {p \in Procs : pc[p] \in Unsettled}

Offered ==
    [p \in Procs |-> IF pc[p] \in {"idle", "build", "clients"} THEN NoFile ELSE cfg[p]]

Published == IF Midway = {} THEN file ELSE old[CHOOSE p \in Midway : TRUE]

Publisher ==
    INSTANCE ConfigPublisher WITH
        Callers <- Procs,
        Nothing <- NoFile,
        Damaged <- Torn,
        stored  <- Published,
        offered <- Offered,
        outcome <- result

(* Apply implements ConfigPublisher: a failed call leaves the published    *)
(* document as it was, a successful one has published its rendering, and   *)
(* what a rollback or a kill may spoil is named there                      *)
(* (runtime.go:92-155).                                                    *)
ApplyIsAtomic == Publisher!Spec

(* No failure leaves a state that calls cannot leave again: once the       *)
(* tables stay as they are, calls keep coming and none of them reports an  *)
(* error, config.json becomes and stays their rendering and the unit runs  *)
(* it or is being restarted, whatever lapses, torn builds, failed renames, *)
(* restarts and rollbacks came before.  Kills are left out (see            *)
(* OkMeansServedAcrossRestarts), and that a next call comes is assumed:    *)
(* the job logs the error of its Reconcile and has no other one to make    *)
(* (runtime.go:103-155, supplemental_traffic_job.go:80-86).                *)
Healed(d) == file = Rendering(d) /\ core \in {file, Waiting}

Recovers ==
    \A d \in Databases :
        (/\ <>[](db = d /\ \A p \in Procs : result[p] # "err")
         /\ []<>(\E p \in Procs : pc[p] = "build")) => <>[]Healed(d)

(* "Reconcile rebuilds the supplemental core from the canonical 3x-ui      *)
(* tables": once every call has returned nil, the file is the rendering of *)
(* the tables as they are now, unless time has changed them since the last *)
(* call began: a build reads them in two queries, and what comes between   *)
(* the two tears it (integrated.go:19-24, 41-60).  Overlapping calls do    *)
(* not keep this.                                                          *)
RebuiltFromTables ==
    (Quiet /\ ~lapsed /\ \A p \in Procs : result[p] = "ok") => file = Rendering(db)

-----------------------------------------------------------------------------
(* A stronger statement that the code does not keep.                       *)

(* OkMeansServed without its exception for a killed panel.                 *)
OkMeansServedAcrossRestarts ==
    [][\A p \in Procs :
         pc[p] # "idle" /\ result'[p] = "ok" => core' = cfg[p]]_vars

=============================================================================
