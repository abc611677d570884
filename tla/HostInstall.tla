---------------------------- MODULE HostInstall ----------------------------
(***************************************************************************)
(* What install.sh, rollback.sh and uninstall.sh do to one host: the panel *)
(* binary, the two supplemental runtimes, the backups and the state file   *)
(* that says which backup rollback.sh restores.  One script runs at a      *)
(* time, statement group by statement group, beside a panel whose          *)
(* inbounds can be edited meanwhile; any group may fail, those that put    *)
(* back or clean up included, and a script may be killed anywhere: a group *)
(* cut short by a kill leaves what one cut short by a failure leaves.      *)
(*                                                                         *)
(* Downloads change nothing on the host and are only a way to fail.  A     *)
(* stop ends its service, since systemd kills what does not stop.  Two     *)
(* installations within one second, a second script started beside the     *)
(* first, edits that uninstall.sh's caller makes by hand, and the contents *)
(* of configuration files are left out.                                    *)
(***************************************************************************)
EXTENDS Naturals, Sequences

CONSTANTS
    MaxRuns,      \* backups a behaviour may hold
    MaxVer,       \* releases of the panel
    SandboxVer    \* the release whose unit is sandboxed, v3.10.0

ASSUME RunsAssumption == MaxRuns \in Nat
ASSUME VersAssumption == MaxVer \in Nat \ {0} /\ SandboxVer \in Nat

VARIABLES
    panel,     \* the binary at XUI_DIR/x-ui
    bin,       \* the run that put sing-box's binary in place, 0 if none
    dirs,      \* the directories that exist
    units,     \* the runtimes with a unit file
    running,   \* the services that run
    dropin,    \* 20-3xpatcher.conf, ReadWritePaths of the panel's unit
    rows,      \* the runtimes that some supplemental inbound needs
    backups,   \* the panel binary each run saved
    env,       \* the run install.env names
    script     \* the script that runs

host == <<bin, dirs, units, dropin>>
vars == <<panel, bin, dirs, units, running, dropin, rows, backups, env, script>>

Runtimes == {"box", "mita"}
Dirs == {"box", "certs", "mita", "etc"}     \* etc is /etc/3xpatcher
Kinds == {"orig", "patched", "torn", "tornofficial"}
Panels == [kind : Kinds, ver : 1..MaxVer]
NoEnv == 0
TornEnv == MaxRuns + 1                      \* install.env cut short

InstallSteps ==
    {"backup", "sandbox", "dropin", "branch", "stop", "copy", "start",
     "box", "boxstop", "boxaway", "boxin", "boxstart", "mita", "mitaunit", "tree", "env"}
CleanupSteps == {"restore", "purgebox", "purgemita", "failed"}
RollbackSteps == {"rbmita", "rbstop", "rbcopy", "rbstart", "rbbox", "rbstate"}
UninstallSteps ==
    {"unrecord", "unstop", "uncopy", "unstart", "unback", "ununits", "undirs", "unetc", "unvar"}
Steps == InstallSteps \cup CleanupSteps \cup RollbackSteps \cup UninstallSteps \cup {"idle", "done"}

(* What a script does to put back or to clean up: the panel's copy, the    *)
(* starts of the panel and the runtimes, sing-box's binary and unit, and   *)
(* the removal of a runtime that a failed installation introduced.         *)
Repairs == {"copy", "panel", "box", "mita", "bin", "unit", "purgebox", "purgemita"}

(* The script's variables; before, rolled, broken and edited are for the   *)
(* properties.                                                             *)
Script ==
    [name : {"none", "install", "rollback", "uninstall"},
     pc : Steps,
     skip : SUBSET Runtimes,        \* SKIP_*, or PURGE_* of rollback.sh
     panelFirst : BOOLEAN,          \* the branch main took
     swapped : BOOLEAN,             \* BINARY_SWAPPED
     was : SUBSET Runtimes,         \* *_WAS_PRESENT
     started : SUBSET Runtimes,     \* *_INSTALL_STARTED
     active : SUBSET Runtimes,      \* found active when the script looked
     had : BOOLEAN,                 \* had_unit of install-singbox.sh
     changed : BOOLEAN,             \* its binary_changed
     old : 0..MaxRuns,              \* the binary it moved away
     rolled : BOOLEAN,              \* rollback_runtime ran
     broken : SUBSET Repairs,       \* the repairs that failed
     edited : BOOLEAN,              \* rows changed while it ran
     before : [panel : Panels, bin : 0..MaxRuns, dirs : SUBSET Dirs,
               units : SUBSET Runtimes, running : SUBSET (Runtimes \cup {"panel"}),
               dropin : BOOLEAN]]

Idle ==
    [name |-> "none", pc |-> "idle", skip |-> {}, panelFirst |-> FALSE, swapped |-> FALSE,
     was |-> {}, started |-> {}, active |-> {}, had |-> FALSE, changed |-> FALSE, old |-> 0,
     rolled |-> FALSE, broken |-> {}, edited |-> FALSE,
     before |-> [panel |-> [kind |-> "orig", ver |-> 1], bin |-> 0, dirs |-> {},
                 units |-> {}, running |-> {}, dropin |-> FALSE]]

(* A stock panel of the first release.                                     *)
Init ==
    /\ panel = [kind |-> "orig", ver |-> 1]
    /\ bin = 0 /\ dirs = {} /\ units = {} /\ running = {"panel"} /\ dropin = FALSE
    /\ rows = {} /\ backups = <<>> /\ env = NoEnv /\ script = Idle

-----------------------------------------------------------------------------
(* Services.                                                               *)

Whole(p) == p.kind \in {"orig", "patched"}

(* systemd refuses a unit whose ReadWritePaths are missing.                *)
Mounts == dropin => Dirs \subseteq dirs
Starts(p) == Whole(p) /\ Mounts

(* The runtimes systemd can start.                                         *)
Usable == {r \in units : r = "box" => bin # 0}

(* A patched panel reconciles when it starts; what it applies may fail.    *)
ServedBy(p) == IF p.kind = "patched" THEN SUBSET (Usable \cap ({"box"} \cup rows)) ELSE {{}}

At(step) == script.pc = step
Goto(step) == script' = [script EXCEPT !.pc = step]

-----------------------------------------------------------------------------
(* install.sh.                                                             *)

(* Up to the verified download: the panel must name its version.           *)
BeginInstall(skip) ==
    /\ At("idle") /\ Len(backups) < MaxRuns /\ Whole(panel)
    /\ script' = [Idle EXCEPT !.name = "install", !.pc = "backup", !.skip = skip,
                              !.before = [panel |-> panel, bin |-> bin, dirs |-> dirs,
                                          units |-> units, running |-> running, dropin |-> dropin]]
    /\ UNCHANGED <<panel, running, rows, backups, env, host>>

(* Mutant: only the first run makes a backup.                              *)
BackupCurrentInstallOnce ==
    /\ At("backup")
    /\ backups' = IF backups = <<>> THEN <<panel>> ELSE backups
    /\ Goto("sandbox")
    /\ UNCHANGED <<panel, running, rows, env, host>>

BackupCurrentInstall ==
    /\ At("backup")
    /\ backups' = Append(backups, panel)
    /\ Goto("sandbox")
    /\ UNCHANGED <<panel, running, rows, env, host>>

SandboxDirs ==
    /\ At("sandbox")
    /\ IF panel.ver = SandboxVer THEN dirs' = Dirs /\ Goto("dropin")
                                 ELSE UNCHANGED dirs /\ Goto("branch")
    /\ UNCHANGED <<panel, bin, units, running, dropin, rows, backups, env>>

SandboxDropin ==
    /\ At("dropin")
    /\ dropin' = TRUE
    /\ Goto("branch")
    /\ UNCHANGED <<panel, bin, dirs, units, running, rows, backups, env>>

(* An upgrade activates the panel before the runtimes, a fresh host after. *)
ChooseOrder ==
    /\ At("branch")
    /\ IF "box" \notin script.skip /\ "box" \in units \cup dirs
       THEN script' = [script EXCEPT !.pc = "stop", !.panelFirst = TRUE, !.was = {"box"}]
       ELSE Goto("box")
    /\ UNCHANGED <<panel, running, rows, backups, env, host>>

(* Mutant: the swap is not noted before it begins.                         *)
ActivateStopUnnoted ==
    /\ At("stop")
    /\ running' = running \ {"panel"}
    /\ Goto("copy")
    /\ UNCHANGED <<panel, rows, backups, env, host>>

ActivateStop ==
    /\ At("stop")
    /\ running' = running \ {"panel"}
    /\ script' = [script EXCEPT !.pc = "copy", !.swapped = TRUE]
    /\ UNCHANGED <<panel, rows, backups, env, host>>

ActivateCopy ==
    /\ At("copy")
    /\ panel' = [panel EXCEPT !.kind = "patched"]
    /\ Goto("start")
    /\ UNCHANGED <<running, rows, backups, env, host>>

ActivateStart ==
    /\ At("start") /\ Starts(panel)
    /\ \E served \in ServedBy(panel) : running' = running \cup {"panel"} \cup served
    /\ Goto(IF script.panelFirst THEN "box" ELSE "tree")
    /\ UNCHANGED <<panel, rows, backups, env, host>>

(* *_WAS_PRESENT and *_INSTALL_STARTED.                                    *)
Entered(r) ==
    [script EXCEPT !.was = @ \cup ({r} \cap (units \cup dirs)), !.started = @ \cup {r}]

AfterBox == "mita"
AfterMita == IF script.panelFirst THEN "tree" ELSE "stop"

(* Mutant: whatever is active counts as the runtime.                       *)
InstallSingboxAnyActive ==
    /\ At("box") /\ "box" \notin script.skip
    /\ dirs' = dirs \cup {"box", "etc"}
    /\ script' = [Entered("box") EXCEPT !.pc = "boxstop",
                                        !.active = running,
                                        !.had = "box" \in units]
    /\ UNCHANGED <<panel, bin, units, running, dropin, rows, backups, env>>

(* install-singbox.sh up to the copies it takes of what it found.          *)
InstallSingbox ==
    /\ At("box") /\ "box" \notin script.skip
    /\ dirs' = dirs \cup {"box", "etc"}
    /\ script' = [Entered("box") EXCEPT !.pc = "boxstop",
                                        !.active = running \cap {"box"},
                                        !.had = "box" \in units]
    /\ UNCHANGED <<panel, bin, units, running, dropin, rows, backups, env>>

SkipSingbox ==
    /\ At("box") /\ "box" \in script.skip
    /\ Goto(AfterBox)
    /\ UNCHANGED <<panel, running, rows, backups, env, host>>

SingboxStop ==
    /\ At("boxstop")
    /\ running' = running \ {"box"}
    /\ Goto("boxaway")
    /\ UNCHANGED <<panel, rows, backups, env, host>>

(* Mutant: the change is noted only when the new binary is in place.       *)
SingboxMoveAwayUnnoted ==
    /\ At("boxaway")
    /\ bin' = 0
    /\ script' = [script EXCEPT !.pc = "boxin", !.old = bin]
    /\ UNCHANGED <<panel, dirs, units, running, dropin, rows, backups, env>>

SingboxMoveAway ==
    /\ At("boxaway")
    /\ bin' = 0
    /\ script' = [script EXCEPT !.pc = "boxin", !.old = bin, !.changed = bin # 0]
    /\ UNCHANGED <<panel, dirs, units, running, dropin, rows, backups, env>>

SingboxMoveIn ==
    /\ At("boxin")
    /\ bin' = Len(backups)
    /\ script' = [script EXCEPT !.pc = "boxstart", !.changed = TRUE]
    /\ UNCHANGED <<panel, dirs, units, running, dropin, rows, backups, env>>

SingboxStart ==
    /\ At("boxstart")
    /\ units' = units \cup {"box"}
    /\ running' = running \cup {"box"}
    /\ Goto(AfterBox)
    /\ UNCHANGED <<panel, bin, dirs, dropin, rows, backups, env>>

(* The unit as the installer left it, in place from the start on.          *)
UnitsLeft == {units} \cup (IF At("boxstart") THEN {units \cup {"box"}} ELSE {})

(* rollback_runtime, of which gone failed: set -e ends it at a removal,    *)
(* move or copy that fails, and a restart that fails is a warning.         *)
RollbackRuntime(gone) ==
    /\ IF "bin" \in gone THEN script.changed /\ bin' \in {0, bin}
       ELSE bin' = IF script.changed THEN script.old ELSE bin
    /\ CASE "bin" \in gone -> units' \in UnitsLeft
         [] "unit" \in gone -> units' \in UnitsLeft \cup {units \ {"box"}}
         [] OTHER -> units' = IF script.had THEN units \cup {"box"} ELSE units \ {"box"}
    /\ running' = IF "box" \in script.active /\ bin' # 0 /\ script.had /\ gone = {}
                  THEN running \cup {"box"} ELSE running \ {"box"}

(* Its exit status fails install.sh.                                       *)
SingboxRollback ==
    /\ script.pc \in {"boxaway", "boxin", "boxstart"}
    /\ \E gone \in {{}, {"bin"}, {"unit"}, {"box"}} :
          /\ RollbackRuntime(gone)
          /\ script' = [script EXCEPT !.pc = "restore", !.rolled = TRUE, !.broken = gone]
    /\ UNCHANGED <<panel, dirs, dropin, rows, backups, env>>

InstallMieru ==
    /\ At("mita") /\ "mita" \notin script.skip
    /\ dirs' = dirs \cup {"mita"}
    /\ script' = [Entered("mita") EXCEPT !.pc = "mitaunit"]
    /\ UNCHANGED <<panel, bin, units, running, dropin, rows, backups, env>>

SkipMieru ==
    /\ At("mita") /\ "mita" \in script.skip
    /\ Goto(AfterMita)
    /\ UNCHANGED <<panel, running, rows, backups, env, host>>

MieruUnit ==
    /\ At("mitaunit")
    /\ units' = units \cup {"mita"}
    /\ Goto(AfterMita)
    /\ UNCHANGED <<panel, bin, dirs, running, dropin, rows, backups, env>>

PersistTree ==
    /\ At("tree")
    /\ dirs' = dirs \cup {"etc"}
    /\ Goto("env")
    /\ UNCHANGED <<panel, bin, units, running, dropin, rows, backups, env>>

PersistEnv ==
    /\ At("env")
    /\ env' = Len(backups)
    /\ Goto("done")
    /\ UNCHANGED <<panel, running, rows, backups, host>>

(* Any statement fails, a copy half made, a state file half written or a   *)
(* service half started; the trap then runs cleanup.                       *)
InstallFails ==
    /\ script.pc \in InstallSteps \ {"boxin"}
    /\ panel' \in {panel} \cup (IF At("copy") THEN {[panel EXCEPT !.kind = "torn"]} ELSE {})
    /\ running' \in {running} \cup (IF At("start") /\ Starts(panel)
                                    THEN {running \cup {"panel"}} ELSE {})
    /\ env' \in {env} \cup (IF At("env") THEN {TornEnv, Len(backups)} ELSE {})
    /\ Goto("restore")
    /\ UNCHANGED <<rows, backups, host>>

(* The panel that was saved, copied and started under set +e: when the     *)
(* copy fails the panel is as it was or half written, and the start is     *)
(* tried all the same.                                                     *)
RestorePanel(gone) ==
    /\ panel' \in IF "copy" \in gone THEN {panel, [panel EXCEPT !.kind = "torn"]}
                  ELSE {backups[Len(backups)]}
    /\ \E served \in ServedBy(panel') :
          running' = (running \ {"panel"})
                     \cup (IF Starts(panel') /\ "panel" \notin gone
                           THEN {"panel"} \cup served ELSE {})

(* cleanup, panel first.                                                   *)
CleanupRestore ==
    /\ At("restore")
    /\ \E gone \in SUBSET {"copy", "panel"} :
          /\ IF script.swapped THEN RestorePanel(gone)
             ELSE gone = {} /\ UNCHANGED <<panel, running>>
          /\ script' = [script EXCEPT !.pc = "purgebox", !.broken = @ \cup gone]
    /\ UNCHANGED <<rows, backups, env, host>>

(* Mutant: whatever was installed is purged, found before or not.          *)
IntroducedOrFound(r) == r \in script.started

Introduced(r) == r \in script.started /\ r \notin script.was

(* uninstall-singbox.sh with PURGE=1, which set -e ends at a removal that  *)
(* fails: the service is stopped, and the unit, or all, is gone.           *)
PurgeSingbox ==
    /\ units' \in {units, units \ {"box"}}
    /\ dirs' \in IF "box" \in units' THEN {dirs} ELSE {dirs, dirs \ {"box", "certs"}}
    /\ bin' = IF "box" \in dirs' THEN bin ELSE 0
    /\ running' = running \ {"box"}

(* uninstall-mieru.sh, the same.                                           *)
PurgeMieru(purge) ==
    /\ units' \in {units, units \ {"mita"}}
    /\ dirs' \in IF purge /\ "mita" \notin units' THEN {dirs, dirs \ {"mita"}} ELSE {dirs}
    /\ running' = running \ {"mita"}

PurgeOf(r) == IF r = "box" THEN "purgebox" ELSE "purgemita"
Purged(r, next) ==
    script' = [script EXCEPT !.pc = next,
                             !.broken = @ \cup {PurgeOf(q) : q \in {r} \cap (units' \cup dirs')}]

(* cleanup passes over the exit status of both.                            *)
CleanupPurgeSingbox ==
    /\ At("purgebox")
    /\ IF Introduced("box")
       THEN PurgeSingbox /\ Purged("box", "purgemita")
       ELSE UNCHANGED <<bin, dirs, units, running>> /\ Goto("purgemita")
    /\ UNCHANGED <<panel, dropin, rows, backups, env>>

CleanupPurgeMieru ==
    /\ At("purgemita")
    /\ IF Introduced("mita")
       THEN PurgeMieru(TRUE) /\ Purged("mita", "failed")
       ELSE UNCHANGED <<dirs, units, running>> /\ Goto("failed")
    /\ UNCHANGED <<panel, bin, dropin, rows, backups, env>>

-----------------------------------------------------------------------------
(* rollback.sh.                                                            *)

BeginRollback(purge) ==
    /\ At("idle") /\ env \in 1..Len(backups)
    /\ script' = [Idle EXCEPT !.name = "rollback", !.pc = "rbmita", !.skip = purge]
    /\ UNCHANGED <<panel, running, rows, backups, env, host>>

RollbackMieru ==
    /\ At("rbmita")
    /\ PurgeMieru("mita" \in script.skip)
    /\ Goto("rbstop")
    /\ UNCHANGED <<panel, bin, dropin, rows, backups, env>>

RollbackStop ==
    /\ At("rbstop")
    /\ running' = running \ {"panel"}
    /\ Goto("rbcopy")
    /\ UNCHANGED <<panel, rows, backups, env, host>>

(* Mutant: the state file is moved away before the panel is started.       *)
RollbackCopyAndState ==
    /\ At("rbcopy")
    /\ panel' = backups[env]
    /\ env' = NoEnv
    /\ Goto("rbstart")
    /\ UNCHANGED <<running, rows, backups, host>>

RollbackCopy ==
    /\ At("rbcopy")
    /\ panel' = backups[env]
    /\ Goto("rbstart")
    /\ UNCHANGED <<running, rows, backups, env, host>>

RollbackStart ==
    /\ At("rbstart") /\ Starts(panel)
    /\ \E served \in ServedBy(panel) : running' = running \cup {"panel"} \cup served
    /\ Goto("rbbox")
    /\ UNCHANGED <<panel, rows, backups, env, host>>

RollbackSingbox ==
    /\ At("rbbox")
    /\ IF "box" \in script.skip
       THEN /\ dirs' = dirs \ {"box", "certs"} /\ units' = units \ {"box"}
            /\ bin' = 0 /\ running' = running \ {"box"}
       ELSE UNCHANGED <<bin, dirs, units, running>>
    /\ Goto("rbstate")
    /\ UNCHANGED <<panel, dropin, rows, backups, env>>

RollbackState ==
    /\ At("rbstate")
    /\ env' = NoEnv
    /\ Goto("done")
    /\ UNCHANGED <<panel, running, rows, backups, host>>

-----------------------------------------------------------------------------
(* uninstall.sh.                                                           *)

(* Mutant: Mieru is missing from the guard's list of protocols.            *)
BeginUninstallMieruMissed ==
    /\ At("idle") /\ "box" \notin rows /\ Whole(panel)
    /\ script' = [Idle EXCEPT !.name = "uninstall", !.pc = "unrecord",
                              !.before = [panel |-> panel, bin |-> bin, dirs |-> dirs,
                                          units |-> units, running |-> running, dropin |-> dropin]]
    /\ UNCHANGED <<panel, running, rows, backups, env, host>>

(* The database guard, then the download of the official binary.           *)
BeginUninstall ==
    /\ At("idle") /\ rows = {} /\ Whole(panel)
    /\ script' = [Idle EXCEPT !.name = "uninstall", !.pc = "unrecord",
                              !.before = [panel |-> panel, bin |-> bin, dirs |-> dirs,
                                          units |-> units, running |-> running, dropin |-> dropin]]
    /\ UNCHANGED <<panel, running, rows, backups, env, host>>

UninstallRecord ==
    /\ At("unrecord")
    /\ script' = [script EXCEPT !.pc = "unstop", !.active = running \cap Runtimes]
    /\ UNCHANGED <<panel, running, rows, backups, env, host>>

UninstallStop ==
    /\ At("unstop")
    /\ running' = running \ ({"panel", "box"} \cup script.active)
    /\ Goto("uncopy")
    /\ UNCHANGED <<panel, rows, backups, env, host>>

UninstallCopy ==
    /\ At("uncopy")
    /\ panel' = [panel EXCEPT !.kind = "orig"]
    /\ Goto("unstart")
    /\ UNCHANGED <<running, rows, backups, env, host>>

UninstallStart ==
    /\ At("unstart")
    /\ \/ Starts(panel) /\ running' = running \cup {"panel"} /\ Goto("ununits")
       \/ UNCHANGED running /\ Goto("unback")
    /\ UNCHANGED <<panel, rows, backups, env, host>>

(* A half written copy of what uninstall.sh found.                         *)
FoundTorn ==
    [script.before.panel EXCEPT !.kind = IF @ = "patched" THEN "torn" ELSE "tornofficial"]

(* Everything uninstall.sh stopped is started again, but for gone: a start *)
(* that fails is passed over.                                              *)
StartAgain(gone) ==
    \E served \in ServedBy(panel') :
       running' = running \cup (IF Starts(panel') /\ "panel" \notin gone
                                THEN {"panel"} \cup served ELSE {})
                          \cup ((script.active \cap Usable) \ gone)

(* Mutant: only the panel is started again.                                *)
UninstallBackPanelOnly ==
    /\ At("unback")
    /\ panel' = script.before.panel
    /\ \E gone \in SUBSET {"panel"} :
          /\ running' = running \cup (IF Starts(panel') THEN {"panel"} \ gone ELSE {})
          /\ script' = [script EXCEPT !.pc = "failed", !.broken = gone]
    /\ UNCHANGED <<rows, backups, env, host>>

(* The official panel does not start, or does not stay up: set -e ends the *)
(* script at a copy back that fails.                                       *)
UninstallBack ==
    /\ At("unback")
    /\ \E gone \in {{"copy"}} \cup SUBSET ({"panel"} \cup script.active) :
          /\ IF "copy" \in gone THEN panel' \in {panel, FoundTorn} /\ UNCHANGED running
             ELSE panel' = script.before.panel /\ StartAgain(gone)
          /\ script' = [script EXCEPT !.pc = "failed", !.broken = gone]
    /\ UNCHANGED <<rows, backups, env, host>>

UninstallUnits ==
    /\ At("ununits")
    /\ units' = {}
    /\ running' = running \ Runtimes
    /\ Goto("undirs")
    /\ UNCHANGED <<panel, bin, dirs, dropin, rows, backups, env>>

(* Mutant: the backups go before the state file that names one of them.    *)
UninstallDirsAndVar ==
    /\ At("undirs")
    /\ dirs' = dirs \ {"box", "certs", "mita"}
    /\ bin' = 0
    /\ backups' = <<>>
    /\ Goto("unetc")
    /\ UNCHANGED <<panel, units, running, dropin, rows, env>>

UninstallDirs ==
    /\ At("undirs")
    /\ dirs' = dirs \ {"box", "certs", "mita"}
    /\ bin' = 0
    /\ Goto("unetc")
    /\ UNCHANGED <<panel, units, running, dropin, rows, backups, env>>

UninstallEtc ==
    /\ At("unetc")
    /\ dirs' = dirs \ {"etc"}
    /\ env' = NoEnv
    /\ Goto("unvar")
    /\ UNCHANGED <<panel, bin, units, running, dropin, rows, backups>>

UninstallVar ==
    /\ At("unvar")
    /\ backups' = <<>>
    /\ Goto("done")
    /\ UNCHANGED <<panel, running, rows, env, host>>

-----------------------------------------------------------------------------
(* Everything else.                                                        *)

EndScript ==
    /\ script.pc \in {"done", "failed"}
    /\ script' = Idle
    /\ UNCHANGED <<panel, running, rows, backups, env, host>>

(* A script is killed, or one without a trap meets an error; a copy or     *)
(* the state file it was writing is left half written.                     *)
Killed ==
    /\ ~At("idle")
    /\ panel' \in {panel}
         \cup (IF At("copy") \/ (At("restore") /\ script.swapped)
               THEN {[panel EXCEPT !.kind = "torn"]} ELSE {})
         \cup (IF At("rbcopy") THEN {[backups[env] EXCEPT !.kind = "torn"]} ELSE {})
         \cup (IF At("uncopy") THEN {[panel EXCEPT !.kind = "tornofficial"]} ELSE {})
         \cup (IF At("unback") THEN {FoundTorn} ELSE {})
    /\ env' \in {env} \cup (IF At("env") THEN {TornEnv} ELSE {})
    /\ script' = Idle
    /\ UNCHANGED <<running, rows, backups, host>>

(* Upstream's own installer puts a release in place.                       *)
OfficialInstall ==
    /\ At("idle")
    /\ \E v \in panel.ver..MaxVer : panel' = [kind |-> "orig", ver |-> v]
    /\ running' = (running \ {"panel"}) \cup (IF Mounts THEN {"panel"} ELSE {})
    /\ UNCHANGED <<rows, backups, env, script, host>>

(* Enabled units start with the host; a script is killed first.            *)
Reboot ==
    /\ At("idle")
    /\ running' = (IF Starts(panel) THEN {"panel"} ELSE {})
                  \cup (Usable \cap ({"box"} \cup rows))
    /\ UNCHANGED <<panel, rows, backups, env, script, host>>

Edited == script' = IF At("idle") THEN script ELSE [script EXCEPT !.edited = TRUE]

AddInbound(r) ==
    /\ "panel" \in running /\ panel.kind = "patched" /\ r \notin rows
    /\ rows' = rows \cup {r}
    /\ running' \in {running, running \cup ({r} \cap Usable)}
    /\ Edited
    /\ UNCHANGED <<panel, backups, env, host>>

(* sing-box goes on with an empty document, mita's instance is stopped.    *)
DelInbound(r) ==
    /\ "panel" \in running /\ Whole(panel) /\ r \in rows
    /\ rows' = rows \ {r}
    /\ running' = IF panel.kind = "patched" THEN running \ ({r} \cap {"mita"}) ELSE running
    /\ Edited
    /\ UNCHANGED <<panel, backups, env, host>>

ActivateNext ==
    \/ BackupCurrentInstall \/ SandboxDirs \/ SandboxDropin \/ ChooseOrder
    \/ ActivateStop \/ ActivateCopy \/ ActivateStart \/ PersistTree \/ PersistEnv

SingboxNext ==
    \/ InstallSingbox \/ SkipSingbox \/ SingboxStop \/ SingboxMoveAway \/ SingboxMoveIn
    \/ SingboxStart \/ SingboxRollback

MieruNext == InstallMieru \/ SkipMieru \/ MieruUnit

CleanupNext == InstallFails \/ CleanupRestore \/ CleanupPurgeSingbox \/ CleanupPurgeMieru

InstallNext ==
    \/ \E skip \in SUBSET Runtimes : BeginInstall(skip)
    \/ ActivateNext \/ SingboxNext \/ MieruNext \/ CleanupNext

RollbackNext ==
    \/ \E purge \in SUBSET Runtimes : BeginRollback(purge)
    \/ RollbackMieru \/ RollbackStop \/ RollbackCopy \/ RollbackStart
    \/ RollbackSingbox \/ RollbackState

UninstallNext ==
    \/ BeginUninstall \/ UninstallRecord \/ UninstallStop \/ UninstallCopy
    \/ UninstallStart \/ UninstallBack \/ UninstallUnits \/ UninstallDirs
    \/ UninstallEtc \/ UninstallVar

HostNext ==
    \/ EndScript \/ Killed \/ OfficialInstall \/ Reboot
    \/ \E r \in Runtimes : AddInbound(r) \/ DelInbound(r)

Next == InstallNext \/ RollbackNext \/ UninstallNext \/ HostNext

Spec == Init /\ [][Next]_vars

-----------------------------------------------------------------------------
(* Properties.                                                             *)

(* Every variable has its type.                                            *)
TypeOK ==
    /\ panel \in Panels
    /\ bin \in 0..MaxRuns
    /\ dirs \subseteq Dirs
    /\ units \subseteq Runtimes
    /\ running \subseteq Runtimes \cup {"panel"}
    /\ dropin \in BOOLEAN
    /\ rows \subseteq Runtimes
    /\ backups \in Seq(Panels) /\ Len(backups) <= MaxRuns
    /\ env \in 0..TornEnv
    /\ script \in Script

(* However installations, rollbacks, kills and official updates follow     *)
(* each other, a patched panel, or one half written by install.sh,         *)
(* rollback.sh or uninstall.sh putting it back, leaves upstream's binary   *)
(* of the same release in some backup: only uninstall.sh deletes backups,  *)
(* when upstream's panel is up.                                            *)
OriginalKept ==
    panel.kind \in {"patched", "torn"} =>
        \E k \in 1..Len(backups) : backups[k] = [kind |-> "orig", ver |-> panel.ver]

(* A state file that can be read names a backup that exists, a whole       *)
(* binary: rollback.sh never stops over a missing backup.                  *)
RollbackTarget ==
    env \notin {NoEnv, TornEnv} => env <= Len(backups) /\ Whole(backups[env])

(* When install.sh reports a failure, cleanup has put the panel it found   *)
(* back, and it runs if it ran before and its unit can start at all; or    *)
(* the copy or the start that cleanup tries has itself failed, which it    *)
(* does not report, and the panel it found is still in this run's backup,  *)
(* the one whose path it prints.                                           *)
FailedInstallKeepsPanel ==
    script.name = "install" /\ At("failed") =>
        /\ \/ panel = script.before.panel
           \/ /\ "copy" \in script.broken
              /\ Len(backups) > 0 /\ backups[Len(backups)] = script.before.panel
        /\ "panel" \in script.before.running =>
              \/ "panel" \in running
              \/ script.broken \cap {"copy", "panel"} # {}
              \/ ~Mounts

(* A failed installation removes no runtime it found, and outside the      *)
(* sandboxed release it leaves none that it did not find, unless the       *)
(* removal that cleanup tries has failed too.                              *)
FailedInstallKeepsRuntimes ==
    script.name = "install" /\ At("failed") =>
        \A r \in Runtimes :
            IF r \in script.before.units \cup script.before.dirs
            THEN {r} \cap script.before.dirs \subseteq dirs
            ELSE panel.ver # SandboxVer =>
                 \/ r \notin units \cup dirs \cup running
                 \/ PurgeOf(r) \in script.broken

(* When install-singbox.sh reports that the new runtime was not healthy,   *)
(* the old one is back, even after cleanup: its binary, its unit, and      *)
(* running if it ran from a binary that an earlier killed run had not      *)
(* moved away below it.  Where rollback_runtime itself fails, each part is *)
(* missing only for its own failure or, since that ends the script, an     *)
(* earlier one, and the old binary is then where it was moved to.          *)
RuntimeAsFound ==
    script.name = "install" /\ At("failed") /\ script.rolled /\ "box" \in script.before.units =>
        /\ \/ bin = script.before.bin
           \/ "bin" \in script.broken /\ script.old = script.before.bin
        /\ "box" \in units \/ "unit" \in script.broken
        /\ "box" \in script.before.running /\ bin # 0 =>
              "box" \in running \/ script.broken \cap {"bin", "unit", "box"} # {}

(* The state file is given up only when a panel it stands for runs: the    *)
(* one rollback.sh restored, or upstream's.                                *)
StateKept ==
    env \in 1..Len(backups) /\ env' = NoEnv =>
        /\ "panel" \in running
        /\ \/ panel = backups[env]
           \/ panel.kind = "orig"
StateKeptUntilPanelRuns == [][StateKept]_vars

(* When uninstall.sh gives up over a panel that does not start, nothing is *)
(* removed, and the panel and the runtimes it stopped run again, except    *)
(* those whose start failed a second time; a copy back that fails ends it  *)
(* with the services stopped and nothing removed.                          *)
FailedUninstallKeepsAll ==
    script.name = "uninstall" /\ At("failed") =>
        /\ bin = script.before.bin
        /\ dirs = script.before.dirs /\ units = script.before.units
        /\ "copy" \in script.broken \/
              /\ panel = script.before.panel
              /\ "panel" \in running \cup script.broken \/ ~Mounts
              /\ \/ script.before.running \cap Usable \subseteq running \cup script.broken
                 \/ script.edited

(* A finished uninstall leaves upstream's panel of the same release        *)
(* running and no runtime, directory, backup or state; supplemental        *)
(* inbounds only if one was added after the database guard.  It is not     *)
(* complete, though uninstall.sh:259 says "3Xpatcher completely            *)
(* uninstalled" and README.md:389 lists the deletion of 3Xpatcher's        *)
(* systemd units: the drop-in install.sh:307-315 wrote for the sandboxed   *)
(* release stays, over directories that are gone, so that systemd refuses  *)
(* to start upstream's panel the next time.                                *)
UninstallLeavesOnlyDropin ==
    script.name = "uninstall" /\ At("done") =>
        /\ panel = [script.before.panel EXCEPT !.kind = "orig"]
        /\ running = {"panel"}
        /\ units = {} /\ dirs = {} /\ bin = 0 /\ backups = <<>> /\ env = NoEnv
        /\ rows = {} \/ script.edited
        /\ dropin = script.before.dropin /\ Mounts = ~dropin
=============================================================================
