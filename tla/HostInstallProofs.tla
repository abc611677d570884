------------------------- MODULE HostInstallProofs -------------------------
(***************************************************************************)
(* Proofs about HostInstall for any number of backups and releases: what   *)
(* the three scripts keep, restore and leave behind, wherever they fail or *)
(* are killed.                                                             *)
(***************************************************************************)
EXTENDS HostInstall, SequenceTheorems, TLAPS

(* Where each script is.                                                   *)
HasOrig(v) == \E k \in 1..Len(backups) : backups[k] = [kind |-> "orig", ver |-> v]

Undone == {"purgebox", "purgemita", "failed"}
OfficialRuns == {"ununits", "undirs", "unetc", "unvar"}
BeforeRemoval == {"unrecord", "unstop", "uncopy", "unstart", "unback"}

Owners ==
    /\ script.pc \in InstallSteps \cup {"restore", "purgebox", "purgemita"} => script.name = "install"
    /\ script.pc \in RollbackSteps => script.name = "rollback"
    /\ script.pc \in UninstallSteps => script.name = "uninstall"
    /\ script.name = "install" => script.pc \in InstallSteps \cup CleanupSteps \cup {"done"}
    /\ script.name = "rollback" => script.pc \in RollbackSteps \cup {"done"}
    /\ script.name = "uninstall" => script.pc \in UninstallSteps \cup {"done", "failed"}
    /\ script.name = "none" <=> script.pc = "idle"

(* The binaries in the backups are whole, and a patched one has upstream's *)
(* of its release beside it.                                               *)
BackupsClosed ==
    \A k \in 1..Len(backups) :
        Whole(backups[k]) /\ (backups[k].kind = "patched" => HasOrig(backups[k].ver))

EnvKnown ==
    /\ env \in 0..Len(backups) \cup {TornEnv}
    /\ script.pc \in RollbackSteps => env \in 1..Len(backups)
    /\ script.pc = "backup" => Len(backups) < MaxRuns

(* A run of install.sh works on the panel it found, and its backup is the  *)
(* last one from the moment it can be needed.                              *)
FoundByInstall ==
    script.name = "install" =>
        /\ Whole(script.before.panel)
        /\ panel.ver = script.before.panel.ver
        /\ script.swapped \/ script.pc \in InstallSteps \ {"backup"} =>
              Len(backups) > 0 /\ backups[Len(backups)] = script.before.panel
        /\ ~script.swapped =>
              /\ panel = script.before.panel
              /\ "panel" \in script.before.running => "panel" \in running
        /\ script.pc = "backup" => panel = script.before.panel
        /\ script.pc \in {"copy", "start"} => script.swapped
        /\ script.pc \in Undone =>
              /\ panel = script.before.panel \/ (script.swapped /\ "copy" \in script.broken)
              /\ "panel" \in script.before.running =>
                    "panel" \in running \/ script.broken \cap {"copy", "panel"} # {} \/ ~Mounts

(* A run of uninstall.sh can go back until it removes something.           *)
FoundByUninstall ==
    script.name = "uninstall" =>
        /\ Whole(script.before.panel)
        /\ panel.ver = script.before.panel.ver
        /\ dropin = script.before.dropin
        /\ script.pc \in BeforeRemoval /\ script.before.panel.kind = "patched" =>
              HasOrig(script.before.panel.ver)
        /\ script.pc \in {"unrecord", "unstop"} => panel = script.before.panel
        /\ script.pc \in BeforeRemoval =>
              /\ bin = script.before.bin
              /\ dirs = script.before.dirs /\ units = script.before.units
        /\ script.pc = "unrecord" => script.before.running \cap Runtimes \subseteq running \/ script.edited
        /\ script.pc \in BeforeRemoval \ {"unrecord"} =>
              script.before.running \cap Runtimes \subseteq script.active \/ script.edited
        /\ script.pc = "unstart" => panel.kind = "orig"
        /\ rows = {} \/ script.edited

UninstallProgress ==
    /\ script.pc \in OfficialRuns => panel.kind = "orig" /\ "panel" \in running
    /\ script.pc \in {"undirs", "unetc", "unvar"} => units = {} /\ running = {"panel"}
    /\ script.pc \in {"unetc", "unvar"} => bin = 0 /\ dirs \subseteq {"etc"}
    /\ script.pc = "unvar" => dirs = {} /\ env = NoEnv

RollbackProgress ==
    /\ script.pc \in {"rbstart", "rbbox", "rbstate"} => panel = backups[env]
    /\ script.pc \in {"rbbox", "rbstate"} => "panel" \in running

BoxSteps == {"boxstop", "boxaway", "boxin", "boxstart"}

(* Which runtimes an installation has entered, step by step.               *)
EnteredSoFar ==
    /\ script.pc \in {"backup", "sandbox", "dropin", "branch", "box"} => script.started = {}
    /\ script.pc \in {"stop", "copy", "start"} /\ script.panelFirst => script.started = {}
    /\ script.pc \in BoxSteps => "box" \in script.started /\ "box" \in dirs
    /\ script.pc \in BoxSteps \cup {"mita"} => "mita" \notin script.started
    /\ script.pc = "mitaunit" => "mita" \in script.started
    /\ "box" \notin script.started => ~script.changed
    /\ script.pc \in InstallSteps => script.broken = {}

RunningHaveUnits == running \cap Runtimes \subseteq units

(* A runtime found is never taken for one that was introduced, and the     *)
(* other way round outside the sandboxed release.                          *)
RuntimesTold ==
    script.name = "install" => \A r \in Runtimes :
        IF r \in script.before.units \cup script.before.dirs
        THEN /\ {r} \cap script.before.dirs \subseteq dirs
             /\ r \in units \cup dirs
             /\ r \in script.started => r \in script.was
        ELSE panel.ver # SandboxVer =>
             /\ r \notin script.was
             /\ r \in script.started \/ r \notin units \cup dirs
             /\ script.pc = "failed" \/ (script.pc = "purgemita" /\ r = "box") =>
                   r \notin units \cup dirs \/ PurgeOf(r) \in script.broken

(* What install-singbox.sh has done to the runtime it replaces.            *)
SingboxKnown ==
    script.name = "install" /\ "box" \in script.before.units =>
        /\ "box" \in units \/ (script.rolled /\ "unit" \in script.broken)
        /\ "box" \notin script.started =>
              bin = script.before.bin /\ ("box" \in script.before.running => "box" \in running)
        /\ script.pc \in BoxSteps =>
              script.had /\ ("box" \in script.before.running => "box" \in script.active)
        /\ script.pc \in {"boxstop", "boxaway"} => ~script.changed /\ bin = script.before.bin
        /\ script.pc = "boxin" =>
              bin = 0 /\ script.old = script.before.bin /\ (script.changed <=> script.old # 0)
        /\ script.pc = "boxstart" => script.changed /\ script.old = script.before.bin
        /\ script.rolled =>
              /\ script.pc \in CleanupSteps
              /\ \/ bin = script.before.bin
                 \/ "bin" \in script.broken /\ script.old = script.before.bin
              /\ "box" \in script.before.running /\ bin # 0 =>
                    "box" \in running \/ script.broken \cap {"bin", "unit", "box"} # {}

IInv ==
    /\ TypeOK /\ OriginalKept /\ Owners /\ BackupsClosed /\ EnvKnown
    /\ FoundByInstall /\ FoundByUninstall /\ UninstallProgress /\ RollbackProgress
    /\ EnteredSoFar /\ RunningHaveUnits /\ RuntimesTold /\ SingboxKnown
    /\ UninstallLeavesOnlyDropin /\ FailedUninstallKeepsAll
-----------------------------------------------------------------------------
(* Types.                                                                  *)

LEMMA GotoType ==
    ASSUME script \in Script, NEW step \in Steps, Goto(step)
    PROVE  script' \in Script
  BY DEF Script, Goto

LEMMA IdleType == Idle \in Script
  BY RunsAssumption, VersAssumption
     DEF Idle, Script, Panels, Kinds, Steps, InstallSteps, CleanupSteps, RollbackSteps,
         UninstallSteps, Runtimes, Dirs

(* A step of the script, and what failed of it.                            *)
LEMMA RepairStep ==
    ASSUME script \in Script, NEW step \in Steps, NEW b \in SUBSET Repairs,
           script' = [script EXCEPT !.pc = step, !.broken = b]
    PROVE  /\ script' \in Script /\ script'.pc = step /\ script'.broken = b
           /\ script'.name = script.name /\ script'.before = script.before
           /\ script'.swapped = script.swapped /\ script'.panelFirst = script.panelFirst
           /\ script'.was = script.was /\ script'.started = script.started
           /\ script'.active = script.active /\ script'.had = script.had
           /\ script'.changed = script.changed /\ script'.old = script.old
           /\ script'.rolled = script.rolled /\ script'.edited = script.edited
  BY DEF Script

(* Each cleanup step is one.                                               *)
LEMMA RestoreIsRepair ==
    ASSUME script \in Script, CleanupRestore
    PROVE  \E gone \in SUBSET {"copy", "panel"} :
              /\ IF script.swapped THEN RestorePanel(gone)
                 ELSE gone = {} /\ UNCHANGED <<panel, running>>
              /\ script.broken \cup gone \in SUBSET Repairs
              /\ script' = [script EXCEPT !.pc = "purgebox", !.broken = script.broken \cup gone]
<1>1. script.broken \in SUBSET Repairs
  BY DEF Script
<1>2. ASSUME NEW gone \in SUBSET {"copy", "panel"} PROVE script.broken \cup gone \in SUBSET Repairs
  BY <1>1 DEF Repairs
<1> QED
  BY <1>2 DEF CleanupRestore

LEMMA PurgeIsRepair ==
    ASSUME script \in Script, NEW r \in Runtimes, NEW step \in Steps,
           \/ Purged(r, step)
           \/ Goto(step)
    PROVE  \E b \in SUBSET Repairs :
              /\ script.broken \subseteq b
              /\ Purged(r, step) /\ r \in units' \cup dirs' => PurgeOf(r) \in b
              /\ b \subseteq script.broken \cup {PurgeOf(r)}
              /\ script' = [script EXCEPT !.pc = step, !.broken = b]
<1>1. script.broken \in SUBSET Repairs /\ PurgeOf(r) \in Repairs
  BY DEF Script, PurgeOf, Repairs
<1>2. ASSUME Goto(step), ~Purged(r, step) PROVE script' = [script EXCEPT !.pc = step, !.broken = script.broken]
  BY <1>2 DEF Goto, Script
<1>3. CASE Goto(step) /\ ~Purged(r, step)
  BY <1>1, <1>2, <1>3
<1>4. CASE Purged(r, step)
  <2> DEFINE b == script.broken \cup {PurgeOf(q) : q \in {r} \cap (units' \cup dirs')}
  <2>1. script' = [script EXCEPT !.pc = step, !.broken = b]
    BY <1>4 DEF Purged
  <2>2. script.broken \subseteq b /\ b \subseteq script.broken \cup {PurgeOf(r)}
    OBVIOUS
  <2>3. r \in units' \cup dirs' => PurgeOf(r) \in b
    OBVIOUS
  <2>4. b \in SUBSET Repairs
    BY <1>1, <2>2
  <2> HIDE DEF b
  <2> QED
    BY <2>1, <2>2, <2>3, <2>4
<1> QED
  BY <1>3, <1>4

LEMMA EnteredType ==
    ASSUME script \in Script, units \subseteq Runtimes, NEW r \in Runtimes
    PROVE  Entered(r) \in Script
  BY DEF Entered, Script

LEMMA BackupType ==
    ASSUME TypeOK, NEW k \in 1..Len(backups)
    PROVE  backups[k] \in Panels
  BY ElementOfSeq DEF TypeOK

LEMMA FoundTornType ==
    ASSUME script \in Script
    PROVE  /\ FoundTorn \in Panels
           /\ FoundTorn.ver = script.before.panel.ver
           /\ FoundTorn.kind = "torn" => script.before.panel.kind = "patched"
           /\ FoundTorn.kind \in {"torn", "tornofficial"}
  BY DEF FoundTorn, Script, Panels, Kinds

LEMMA TypeStep ==
    ASSUME IInv, Next
    PROVE  TypeOK'
<1>1. TypeOK /\ Owners /\ EnvKnown /\ FoundByInstall
  BY DEF IInv
<1>2. script \in Script
  BY <1>1 DEF TypeOK
<1>3. ASSUME BackupCurrentInstall PROVE TypeOK'
  <2>1. script' \in Script
    BY <1>1, <1>3, GotoType
       DEF BackupCurrentInstall, Steps, InstallSteps, CleanupSteps, RollbackSteps, UninstallSteps,
           AfterBox, AfterMita, TypeOK
  <2>2. backups' \in Seq(Panels) /\ Len(backups') = Len(backups) + 1
    BY <1>1, <1>3, AppendProperties DEF BackupCurrentInstall, TypeOK
  <2>3. Len(backups') <= MaxRuns
    BY <1>1, <1>3, <2>2, RunsAssumption, LenProperties
       DEF BackupCurrentInstall, TypeOK, EnvKnown, At
  <2> QED
    BY <1>1, <1>3, <2>1, <2>2, <2>3 DEF BackupCurrentInstall, TypeOK, host
<1>4. ASSUME SandboxDirs PROVE TypeOK'
  <2>1. script' \in Script
    BY <1>1, <1>4, GotoType
       DEF SandboxDirs, Steps, InstallSteps, CleanupSteps, RollbackSteps, UninstallSteps, AfterBox,
           AfterMita, TypeOK
  <2> QED
    BY <1>1, <1>4, <2>1, RunsAssumption, VersAssumption
       DEF SandboxDirs, TypeOK, Panels, Kinds, Runtimes, Dirs, NoEnv, TornEnv, Usable, ServedBy,
           At, host, EnvKnown, Steps, InstallSteps, CleanupSteps, RollbackSteps, UninstallSteps
<1>5. ASSUME SandboxDropin PROVE TypeOK'
  <2>1. script' \in Script
    BY <1>1, <1>5, GotoType
       DEF SandboxDropin, Steps, InstallSteps, CleanupSteps, RollbackSteps, UninstallSteps,
           AfterBox, AfterMita, TypeOK
  <2> QED
    BY <1>1, <1>5, <2>1, RunsAssumption, VersAssumption
       DEF SandboxDropin, TypeOK, Panels, Kinds, Runtimes, Dirs, NoEnv, TornEnv, Usable, ServedBy,
           At, host, EnvKnown, Steps, InstallSteps, CleanupSteps, RollbackSteps, UninstallSteps
<1>6. ASSUME ChooseOrder PROVE TypeOK'
  <2>1. script' \in Script
    <3>1. \/ script' = [script EXCEPT !.pc = "stop", !.panelFirst = TRUE, !.was = {"box"}]
          \/ script' = [script EXCEPT !.pc = "box"]
      BY <1>6 DEF ChooseOrder, Goto
    <3>2. ASSUME script' = [script EXCEPT !.pc = "box"] PROVE script' \in Script
      BY <1>2, <3>2 DEF Script, Steps, InstallSteps, CleanupSteps, RollbackSteps, UninstallSteps
    <3>3. ASSUME script' = [script EXCEPT !.pc = "stop", !.panelFirst = TRUE, !.was = {"box"}]
          PROVE  script' \in Script
      BY ZenonT(60), <1>2, <3>3
         DEF Script, Steps, InstallSteps, CleanupSteps, RollbackSteps, UninstallSteps, Runtimes
    <3> QED
      BY <3>1, <3>2, <3>3
  <2> QED
    BY <1>1, <1>6, <2>1, RunsAssumption, VersAssumption
       DEF ChooseOrder, TypeOK, Panels, Kinds, Runtimes, Dirs, NoEnv, TornEnv, Usable, ServedBy,
           At, host, EnvKnown, Steps, InstallSteps, CleanupSteps, RollbackSteps, UninstallSteps
<1>7. ASSUME ActivateStop PROVE TypeOK'
  <2>1. script' \in Script
    BY ZenonT(60), <1>1, <1>7
       DEF ActivateStop, TypeOK, Script, Steps, InstallSteps, CleanupSteps, RollbackSteps,
           UninstallSteps, Panels, Runtimes, Dirs, At, Goto
  <2> QED
    BY <1>1, <1>7, <2>1, RunsAssumption, VersAssumption
       DEF ActivateStop, TypeOK, Panels, Kinds, Runtimes, Dirs, NoEnv, TornEnv, Usable, ServedBy,
           At, host, EnvKnown, Steps, InstallSteps, CleanupSteps, RollbackSteps, UninstallSteps
<1>8. ASSUME ActivateCopy PROVE TypeOK'
  <2>1. script' \in Script
    BY <1>1, <1>8, GotoType
       DEF ActivateCopy, Steps, InstallSteps, CleanupSteps, RollbackSteps, UninstallSteps,
           AfterBox, AfterMita, TypeOK
  <2> QED
    BY <1>1, <1>8, <2>1, RunsAssumption, VersAssumption
       DEF ActivateCopy, TypeOK, Panels, Kinds, Runtimes, Dirs, NoEnv, TornEnv, Usable, ServedBy,
           At, host, EnvKnown, Steps, InstallSteps, CleanupSteps, RollbackSteps, UninstallSteps
<1>9. ASSUME ActivateStart PROVE TypeOK'
  <2>1. script' \in Script
    BY <1>1, <1>9, GotoType
       DEF ActivateStart, Steps, InstallSteps, CleanupSteps, RollbackSteps, UninstallSteps,
           AfterBox, AfterMita, TypeOK
  <2> QED
    BY <1>1, <1>9, <2>1, RunsAssumption, VersAssumption
       DEF ActivateStart, TypeOK, Panels, Kinds, Runtimes, Dirs, NoEnv, TornEnv, Usable, ServedBy,
           At, host, EnvKnown, Steps, InstallSteps, CleanupSteps, RollbackSteps, UninstallSteps
<1>10. ASSUME InstallSingbox PROVE TypeOK'
  <2>1. script' \in Script
    <3> DEFINE e == Entered("box")
    <3>1. e \in Script
      BY <1>1, EnteredType DEF TypeOK, Runtimes
    <3>2. running \cap {"box"} \in SUBSET Runtimes /\ ("box" \in units) \in BOOLEAN
      BY DEF Runtimes
    <3>3. script' = [e EXCEPT !.pc = "boxstop", !.active = running \cap {"box"},
    !.had = "box" \in units]
      BY <1>10 DEF InstallSingbox
    <3> HIDE DEF e
    <3> QED
      BY ZenonT(60), <3>1, <3>2, <3>3
         DEF Script, Steps, InstallSteps, CleanupSteps, RollbackSteps, UninstallSteps
  <2> QED
    BY <1>1, <1>10, <2>1, RunsAssumption, VersAssumption
       DEF InstallSingbox, TypeOK, Panels, Kinds, Runtimes, Dirs, NoEnv, TornEnv, Usable, ServedBy,
           At, host, EnvKnown, Steps, InstallSteps, CleanupSteps, RollbackSteps, UninstallSteps
<1>11. ASSUME SkipSingbox PROVE TypeOK'
  <2>1. script' \in Script
    BY <1>1, <1>11, GotoType
       DEF SkipSingbox, Steps, InstallSteps, CleanupSteps, RollbackSteps, UninstallSteps, AfterBox,
           AfterMita, TypeOK
  <2> QED
    BY <1>1, <1>11, <2>1, RunsAssumption, VersAssumption
       DEF SkipSingbox, TypeOK, Panels, Kinds, Runtimes, Dirs, NoEnv, TornEnv, Usable, ServedBy,
           At, host, EnvKnown, Steps, InstallSteps, CleanupSteps, RollbackSteps, UninstallSteps
<1>12. ASSUME SingboxStop PROVE TypeOK'
  <2>1. script' \in Script
    BY <1>1, <1>12, GotoType
       DEF SingboxStop, Steps, InstallSteps, CleanupSteps, RollbackSteps, UninstallSteps, AfterBox,
           AfterMita, TypeOK
  <2> QED
    BY <1>1, <1>12, <2>1, RunsAssumption, VersAssumption
       DEF SingboxStop, TypeOK, Panels, Kinds, Runtimes, Dirs, NoEnv, TornEnv, Usable, ServedBy,
           At, host, EnvKnown, Steps, InstallSteps, CleanupSteps, RollbackSteps, UninstallSteps
<1>13. ASSUME SingboxMoveAway PROVE TypeOK'
  <2>1. script' \in Script
    BY ZenonT(60), <1>1, <1>13
       DEF SingboxMoveAway, TypeOK, Script, Steps, InstallSteps, CleanupSteps, RollbackSteps,
           UninstallSteps, Panels, Runtimes, Dirs, At, Goto
  <2> QED
    BY <1>1, <1>13, <2>1, RunsAssumption, VersAssumption
       DEF SingboxMoveAway, TypeOK, Panels, Kinds, Runtimes, Dirs, NoEnv, TornEnv, Usable,
           ServedBy, At, host, EnvKnown, Steps, InstallSteps, CleanupSteps, RollbackSteps,
           UninstallSteps
<1>14. ASSUME SingboxMoveIn PROVE TypeOK'
  <2>1. script' \in Script
    BY ZenonT(60), <1>1, <1>14
       DEF SingboxMoveIn, TypeOK, Script, Steps, InstallSteps, CleanupSteps, RollbackSteps,
           UninstallSteps, Panels, Runtimes, Dirs, At, Goto
  <2> QED
    BY <1>1, <1>14, <2>1, RunsAssumption, VersAssumption
       DEF SingboxMoveIn, TypeOK, Panels, Kinds, Runtimes, Dirs, NoEnv, TornEnv, Usable, ServedBy,
           At, host, EnvKnown, Steps, InstallSteps, CleanupSteps, RollbackSteps, UninstallSteps
<1>15. ASSUME SingboxStart PROVE TypeOK'
  <2>1. script' \in Script
    BY <1>1, <1>15, GotoType
       DEF SingboxStart, Steps, InstallSteps, CleanupSteps, RollbackSteps, UninstallSteps,
           AfterBox, AfterMita, TypeOK
  <2> QED
    BY <1>1, <1>15, <2>1, RunsAssumption, VersAssumption
       DEF SingboxStart, TypeOK, Panels, Kinds, Runtimes, Dirs, NoEnv, TornEnv, Usable, ServedBy,
           At, host, EnvKnown, Steps, InstallSteps, CleanupSteps, RollbackSteps, UninstallSteps
<1>16. ASSUME SingboxRollback PROVE TypeOK'
  <2>1. PICK gone \in {{}, {"bin"}, {"unit"}, {"box"}} :
           /\ RollbackRuntime(gone)
           /\ script' = [script EXCEPT !.pc = "restore", !.rolled = TRUE, !.broken = gone]
    BY <1>16 DEF SingboxRollback
  <2>2. gone \in SUBSET Repairs /\ "restore" \in Steps
    BY DEF Repairs, Steps, CleanupSteps
  <2>3. script' \in Script
    BY <1>2, <2>1, <2>2 DEF Script
  <2>4. bin' \in 0..MaxRuns
    <3>1. bin \in 0..MaxRuns /\ script.old \in 0..MaxRuns /\ 0 \in 0..MaxRuns
      BY <1>1, <1>2, RunsAssumption DEF TypeOK, Script
    <3> QED
      BY <2>1, <3>1 DEF RollbackRuntime
  <2>5. units' \subseteq Runtimes /\ running' \subseteq Runtimes \cup {"panel"}
    BY <1>1, <2>1 DEF RollbackRuntime, UnitsLeft, TypeOK, Runtimes
  <2> QED
    BY <1>1, <1>16, <2>3, <2>4, <2>5 DEF SingboxRollback, TypeOK
<1>17. ASSUME InstallMieru PROVE TypeOK'
  <2>1. script' \in Script
    <3>1. Entered("mita") \in Script
      BY <1>1, EnteredType DEF TypeOK, Runtimes
    <3> QED
      BY ZenonT(60), <1>1, <1>17, <3>1
         DEF InstallMieru, TypeOK, Script, Steps, InstallSteps, CleanupSteps, RollbackSteps,
             UninstallSteps, Panels, Runtimes, Dirs, At, Goto
  <2> QED
    BY <1>1, <1>17, <2>1, RunsAssumption, VersAssumption
       DEF InstallMieru, TypeOK, Panels, Kinds, Runtimes, Dirs, NoEnv, TornEnv, Usable, ServedBy,
           At, host, EnvKnown, Steps, InstallSteps, CleanupSteps, RollbackSteps, UninstallSteps
<1>18. ASSUME SkipMieru PROVE TypeOK'
  <2>1. script' \in Script
    BY <1>1, <1>18, GotoType
       DEF SkipMieru, Steps, InstallSteps, CleanupSteps, RollbackSteps, UninstallSteps, AfterBox,
           AfterMita, TypeOK
  <2> QED
    BY <1>1, <1>18, <2>1, RunsAssumption, VersAssumption
       DEF SkipMieru, TypeOK, Panels, Kinds, Runtimes, Dirs, NoEnv, TornEnv, Usable, ServedBy, At,
           host, EnvKnown, Steps, InstallSteps, CleanupSteps, RollbackSteps, UninstallSteps
<1>19. ASSUME MieruUnit PROVE TypeOK'
  <2>1. script' \in Script
    BY <1>1, <1>19, GotoType
       DEF MieruUnit, Steps, InstallSteps, CleanupSteps, RollbackSteps, UninstallSteps, AfterBox,
           AfterMita, TypeOK
  <2> QED
    BY <1>1, <1>19, <2>1, RunsAssumption, VersAssumption
       DEF MieruUnit, TypeOK, Panels, Kinds, Runtimes, Dirs, NoEnv, TornEnv, Usable, ServedBy, At,
           host, EnvKnown, Steps, InstallSteps, CleanupSteps, RollbackSteps, UninstallSteps
<1>20. ASSUME PersistTree PROVE TypeOK'
  <2>1. script' \in Script
    BY <1>1, <1>20, GotoType
       DEF PersistTree, Steps, InstallSteps, CleanupSteps, RollbackSteps, UninstallSteps, AfterBox,
           AfterMita, TypeOK
  <2> QED
    BY <1>1, <1>20, <2>1, RunsAssumption, VersAssumption
       DEF PersistTree, TypeOK, Panels, Kinds, Runtimes, Dirs, NoEnv, TornEnv, Usable, ServedBy,
           At, host, EnvKnown, Steps, InstallSteps, CleanupSteps, RollbackSteps, UninstallSteps
<1>21. ASSUME PersistEnv PROVE TypeOK'
  <2>1. script' \in Script
    BY <1>1, <1>21, GotoType
       DEF PersistEnv, Steps, InstallSteps, CleanupSteps, RollbackSteps, UninstallSteps, AfterBox,
           AfterMita, TypeOK
  <2> QED
    BY <1>1, <1>21, <2>1, RunsAssumption, VersAssumption
       DEF PersistEnv, TypeOK, Panels, Kinds, Runtimes, Dirs, NoEnv, TornEnv, Usable, ServedBy, At,
           host, EnvKnown, Steps, InstallSteps, CleanupSteps, RollbackSteps, UninstallSteps
<1>22. ASSUME InstallFails PROVE TypeOK'
  <2>1. script' \in Script
    BY <1>1, <1>22, GotoType
       DEF InstallFails, Steps, InstallSteps, CleanupSteps, RollbackSteps, UninstallSteps,
           AfterBox, AfterMita, TypeOK
  <2> QED
    BY <1>1, <1>22, <2>1, RunsAssumption, VersAssumption
       DEF InstallFails, TypeOK, Panels, Kinds, Runtimes, Dirs, NoEnv, TornEnv, Usable, ServedBy,
           At, host, EnvKnown, Steps, InstallSteps, CleanupSteps, RollbackSteps, UninstallSteps
<1>23. ASSUME CleanupRestore PROVE TypeOK'
  <2>1. PICK gone \in SUBSET {"copy", "panel"} :
           /\ IF script.swapped THEN RestorePanel(gone)
              ELSE gone = {} /\ UNCHANGED <<panel, running>>
           /\ script.broken \cup gone \in SUBSET Repairs
           /\ script' = [script EXCEPT !.pc = "purgebox", !.broken = script.broken \cup gone]
    BY <1>2, <1>23, RestoreIsRepair
  <2>2. script' \in Script
    BY <1>2, <2>1, RepairStep DEF Steps, CleanupSteps
  <2>3. CASE script.swapped
    <3>1. script.name = "install"
      BY <1>1, <1>23 DEF CleanupRestore, At, Owners
    <3>2. Len(backups) \in 1..Len(backups)
      BY <1>1, <2>3, <3>1, LenProperties DEF FoundByInstall, TypeOK
    <3>3. backups[Len(backups)] \in Panels
      BY <1>1, <3>2, BackupType
    <3>4. panel \in Panels /\ [panel EXCEPT !.kind = "torn"] \in Panels
      BY <1>1 DEF TypeOK, Panels, Kinds
    <3>5. panel' \in Panels
      BY <2>1, <2>3, <3>3, <3>4 DEF RestorePanel
    <3>6. running' \subseteq Runtimes \cup {"panel"}
      BY <1>1, <2>1, <2>3 DEF RestorePanel, TypeOK, ServedBy, Usable, Runtimes
    <3> QED
      BY <1>1, <1>23, <2>2, <3>5, <3>6 DEF CleanupRestore, TypeOK, host
  <2>4. CASE ~script.swapped
    BY <1>1, <1>23, <2>1, <2>2, <2>4 DEF CleanupRestore, TypeOK, host
  <2> QED
    BY <2>3, <2>4
<1>24. ASSUME CleanupPurgeSingbox PROVE TypeOK'
  <2>1. script' \in Script
    <3>1. \E b \in SUBSET Repairs : script' = [script EXCEPT !.pc = "purgemita", !.broken = b]
      BY <1>2, <1>24, PurgeIsRepair
         DEF CleanupPurgeSingbox, Runtimes, Steps, CleanupSteps
    <3> QED
      BY <1>2, <3>1, RepairStep DEF Steps, CleanupSteps
  <2>2. bin' \in 0..MaxRuns
    BY <1>1, <1>24, RunsAssumption DEF CleanupPurgeSingbox, PurgeSingbox, TypeOK
  <2>3. /\ dirs' \subseteq Dirs /\ units' \subseteq Runtimes
        /\ running' \subseteq Runtimes \cup {"panel"}
    BY <1>1, <1>24 DEF CleanupPurgeSingbox, PurgeSingbox, TypeOK
  <2> QED
    BY <1>1, <1>24, <2>1, <2>2, <2>3 DEF CleanupPurgeSingbox, TypeOK
<1>25. ASSUME CleanupPurgeMieru PROVE TypeOK'
  <2>1. script' \in Script
    <3>1. \E b \in SUBSET Repairs : script' = [script EXCEPT !.pc = "failed", !.broken = b]
      BY <1>2, <1>25, PurgeIsRepair
         DEF CleanupPurgeMieru, Runtimes, Steps, CleanupSteps
    <3> QED
      BY <1>2, <3>1, RepairStep DEF Steps, CleanupSteps
  <2>2. /\ dirs' \subseteq Dirs /\ units' \subseteq Runtimes
        /\ running' \subseteq Runtimes \cup {"panel"}
    BY <1>1, <1>25 DEF CleanupPurgeMieru, PurgeMieru, TypeOK
  <2> QED
    BY <1>1, <1>25, <2>1, <2>2 DEF CleanupPurgeMieru, TypeOK
<1>26. ASSUME RollbackMieru PROVE TypeOK'
  <2>1. script' \in Script
    BY <1>1, <1>26, GotoType
       DEF RollbackMieru, Steps, InstallSteps, CleanupSteps, RollbackSteps, UninstallSteps,
           AfterBox, AfterMita, TypeOK
  <2>2. /\ dirs' \subseteq Dirs /\ units' \subseteq Runtimes
        /\ running' \subseteq Runtimes \cup {"panel"}
    BY <1>1, <1>26 DEF RollbackMieru, PurgeMieru, TypeOK
  <2> QED
    BY <1>1, <1>26, <2>1, <2>2 DEF RollbackMieru, TypeOK
<1>27. ASSUME RollbackStop PROVE TypeOK'
  <2>1. script' \in Script
    BY <1>1, <1>27, GotoType
       DEF RollbackStop, Steps, InstallSteps, CleanupSteps, RollbackSteps, UninstallSteps,
           AfterBox, AfterMita, TypeOK
  <2> QED
    BY <1>1, <1>27, <2>1, RunsAssumption, VersAssumption
       DEF RollbackStop, TypeOK, Panels, Kinds, Runtimes, Dirs, NoEnv, TornEnv, Usable, ServedBy,
           At, host, EnvKnown, Steps, InstallSteps, CleanupSteps, RollbackSteps, UninstallSteps
<1>28. ASSUME RollbackCopy PROVE TypeOK'
  <2>1. script' \in Script
    BY <1>1, <1>28, GotoType
       DEF RollbackCopy, Steps, InstallSteps, CleanupSteps, RollbackSteps, UninstallSteps,
           AfterBox, AfterMita, TypeOK
  <2>2. backups[env] \in Panels
    BY <1>1, <1>28, BackupType DEF RollbackCopy, EnvKnown, At, RollbackSteps
  <2> QED
    BY <1>1, <1>28, <2>1, <2>2 DEF RollbackCopy, TypeOK, host
<1>29. ASSUME RollbackStart PROVE TypeOK'
  <2>1. script' \in Script
    BY <1>1, <1>29, GotoType
       DEF RollbackStart, Steps, InstallSteps, CleanupSteps, RollbackSteps, UninstallSteps,
           AfterBox, AfterMita, TypeOK
  <2> QED
    BY <1>1, <1>29, <2>1, RunsAssumption, VersAssumption
       DEF RollbackStart, TypeOK, Panels, Kinds, Runtimes, Dirs, NoEnv, TornEnv, Usable, ServedBy,
           At, host, EnvKnown, Steps, InstallSteps, CleanupSteps, RollbackSteps, UninstallSteps
<1>30. ASSUME RollbackSingbox PROVE TypeOK'
  <2>1. script' \in Script
    BY <1>1, <1>30, GotoType
       DEF RollbackSingbox, Steps, InstallSteps, CleanupSteps, RollbackSteps, UninstallSteps,
           AfterBox, AfterMita, TypeOK
  <2>2. bin' \in 0..MaxRuns
    BY <1>1, <1>30, RunsAssumption DEF RollbackSingbox, TypeOK
  <2>3. /\ dirs' \subseteq Dirs /\ units' \subseteq Runtimes
        /\ running' \subseteq Runtimes \cup {"panel"}
    BY <1>1, <1>30 DEF RollbackSingbox, TypeOK
  <2> QED
    BY <1>1, <1>30, <2>1, <2>2, <2>3 DEF RollbackSingbox, TypeOK
<1>31. ASSUME RollbackState PROVE TypeOK'
  <2>1. script' \in Script
    BY <1>1, <1>31, GotoType
       DEF RollbackState, Steps, InstallSteps, CleanupSteps, RollbackSteps, UninstallSteps,
           AfterBox, AfterMita, TypeOK
  <2> QED
    BY <1>1, <1>31, <2>1, RunsAssumption, VersAssumption
       DEF RollbackState, TypeOK, Panels, Kinds, Runtimes, Dirs, NoEnv, TornEnv, Usable, ServedBy,
           At, host, EnvKnown, Steps, InstallSteps, CleanupSteps, RollbackSteps, UninstallSteps
<1>32. ASSUME BeginUninstall PROVE TypeOK'
  <2>1. script' \in Script
    BY ZenonT(60), <1>1, <1>32, IdleType
       DEF BeginUninstall, TypeOK, Script, Steps, InstallSteps, CleanupSteps, RollbackSteps,
           UninstallSteps, Panels, Runtimes, Dirs, At, Goto
  <2> QED
    BY <1>1, <1>32, <2>1, RunsAssumption, VersAssumption
       DEF BeginUninstall, TypeOK, Panels, Kinds, Runtimes, Dirs, NoEnv, TornEnv, Usable, ServedBy,
           At, host, EnvKnown, Steps, InstallSteps, CleanupSteps, RollbackSteps, UninstallSteps
<1>33. ASSUME UninstallRecord PROVE TypeOK'
  <2>1. script' \in Script
    BY ZenonT(60), <1>1, <1>33
       DEF UninstallRecord, TypeOK, Script, Steps, InstallSteps, CleanupSteps, RollbackSteps,
           UninstallSteps, Panels, Runtimes, Dirs, At, Goto
  <2> QED
    BY <1>1, <1>33, <2>1, RunsAssumption, VersAssumption
       DEF UninstallRecord, TypeOK, Panels, Kinds, Runtimes, Dirs, NoEnv, TornEnv, Usable,
           ServedBy, At, host, EnvKnown, Steps, InstallSteps, CleanupSteps, RollbackSteps,
           UninstallSteps
<1>34. ASSUME UninstallStop PROVE TypeOK'
  <2>1. script' \in Script
    BY <1>1, <1>34, GotoType
       DEF UninstallStop, Steps, InstallSteps, CleanupSteps, RollbackSteps, UninstallSteps,
           AfterBox, AfterMita, TypeOK
  <2> QED
    BY <1>1, <1>34, <2>1, RunsAssumption, VersAssumption
       DEF UninstallStop, TypeOK, Panels, Kinds, Runtimes, Dirs, NoEnv, TornEnv, Usable, ServedBy,
           At, host, EnvKnown, Steps, InstallSteps, CleanupSteps, RollbackSteps, UninstallSteps
<1>35. ASSUME UninstallCopy PROVE TypeOK'
  <2>1. script' \in Script
    BY <1>1, <1>35, GotoType
       DEF UninstallCopy, Steps, InstallSteps, CleanupSteps, RollbackSteps, UninstallSteps,
           AfterBox, AfterMita, TypeOK
  <2> QED
    BY <1>1, <1>35, <2>1, RunsAssumption, VersAssumption
       DEF UninstallCopy, TypeOK, Panels, Kinds, Runtimes, Dirs, NoEnv, TornEnv, Usable, ServedBy,
           At, host, EnvKnown, Steps, InstallSteps, CleanupSteps, RollbackSteps, UninstallSteps
<1>36. ASSUME UninstallStart PROVE TypeOK'
  <2>1. script' \in Script
    BY <1>1, <1>36, GotoType
       DEF UninstallStart, Steps, InstallSteps, CleanupSteps, RollbackSteps, UninstallSteps,
           AfterBox, AfterMita, TypeOK
  <2> QED
    BY <1>1, <1>36, <2>1, RunsAssumption, VersAssumption
       DEF UninstallStart, TypeOK, Panels, Kinds, Runtimes, Dirs, NoEnv, TornEnv, Usable, ServedBy,
           At, host, EnvKnown, Steps, InstallSteps, CleanupSteps, RollbackSteps, UninstallSteps
<1>37. ASSUME UninstallBack PROVE TypeOK'
  <2>1. PICK gone \in {{"copy"}} \cup SUBSET ({"panel"} \cup script.active) :
           /\ IF "copy" \in gone THEN panel' \in {panel, FoundTorn} /\ UNCHANGED running
              ELSE panel' = script.before.panel /\ StartAgain(gone)
           /\ script' = [script EXCEPT !.pc = "failed", !.broken = gone]
    BY <1>37 DEF UninstallBack
  <2>2. gone \in SUBSET Repairs
    BY <1>2, <2>1 DEF Script, Runtimes, Repairs
  <2>3. script' \in Script
    BY <1>2, <2>1, <2>2, RepairStep DEF Steps, CleanupSteps
  <2>4. panel' \in Panels
    BY <1>1, <1>2, <2>1, FoundTornType DEF TypeOK, Script
  <2>5. running' \subseteq Runtimes \cup {"panel"}
    BY <1>1, <2>1 DEF StartAgain, TypeOK, ServedBy, Usable, Runtimes
  <2> QED
    BY <1>1, <1>37, <2>3, <2>4, <2>5 DEF UninstallBack, TypeOK, host
<1>38. ASSUME UninstallUnits PROVE TypeOK'
  <2>1. script' \in Script
    BY <1>1, <1>38, GotoType
       DEF UninstallUnits, Steps, InstallSteps, CleanupSteps, RollbackSteps, UninstallSteps,
           AfterBox, AfterMita, TypeOK
  <2> QED
    BY <1>1, <1>38, <2>1, RunsAssumption, VersAssumption
       DEF UninstallUnits, TypeOK, Panels, Kinds, Runtimes, Dirs, NoEnv, TornEnv, Usable, ServedBy,
           At, host, EnvKnown, Steps, InstallSteps, CleanupSteps, RollbackSteps, UninstallSteps
<1>39. ASSUME UninstallDirs PROVE TypeOK'
  <2>1. script' \in Script
    BY <1>1, <1>39, GotoType
       DEF UninstallDirs, Steps, InstallSteps, CleanupSteps, RollbackSteps, UninstallSteps,
           AfterBox, AfterMita, TypeOK
  <2> QED
    BY <1>1, <1>39, <2>1, RunsAssumption, VersAssumption
       DEF UninstallDirs, TypeOK, Panels, Kinds, Runtimes, Dirs, NoEnv, TornEnv, Usable, ServedBy,
           At, host, EnvKnown, Steps, InstallSteps, CleanupSteps, RollbackSteps, UninstallSteps
<1>40. ASSUME UninstallEtc PROVE TypeOK'
  <2>1. script' \in Script
    BY <1>1, <1>40, GotoType
       DEF UninstallEtc, Steps, InstallSteps, CleanupSteps, RollbackSteps, UninstallSteps,
           AfterBox, AfterMita, TypeOK
  <2> QED
    BY <1>1, <1>40, <2>1, RunsAssumption, VersAssumption
       DEF UninstallEtc, TypeOK, Panels, Kinds, Runtimes, Dirs, NoEnv, TornEnv, Usable, ServedBy,
           At, host, EnvKnown, Steps, InstallSteps, CleanupSteps, RollbackSteps, UninstallSteps
<1>41. ASSUME UninstallVar PROVE TypeOK'
  <2>1. script' \in Script
    BY <1>1, <1>41, GotoType
       DEF UninstallVar, Steps, InstallSteps, CleanupSteps, RollbackSteps, UninstallSteps,
           AfterBox, AfterMita, TypeOK
  <2> QED
    BY <1>1, <1>41, <2>1, RunsAssumption, VersAssumption
       DEF UninstallVar, TypeOK, Panels, Kinds, Runtimes, Dirs, NoEnv, TornEnv, Usable, ServedBy,
           At, host, EnvKnown, Steps, InstallSteps, CleanupSteps, RollbackSteps, UninstallSteps
<1>42. ASSUME EndScript PROVE TypeOK'
  <2>1. script' \in Script
    BY <1>42, IdleType DEF EndScript
  <2> QED
    BY <1>1, <1>42, <2>1, RunsAssumption, VersAssumption
       DEF EndScript, TypeOK, Panels, Kinds, Runtimes, Dirs, NoEnv, TornEnv, Usable, ServedBy, At,
           host, EnvKnown, Steps, InstallSteps, CleanupSteps, RollbackSteps, UninstallSteps
<1>43. ASSUME Killed PROVE TypeOK'
  <2>1. script' \in Script
    BY <1>43, IdleType DEF Killed
  <2>2. panel' \in Panels
    <3>1. At("rbcopy") => backups[env] \in Panels
      BY <1>1, BackupType DEF EnvKnown, At, RollbackSteps
    <3>2. FoundTorn \in Panels
      BY <1>2, FoundTornType
    <3>3. ASSUME NEW q \in Panels
          PROVE  /\ [q EXCEPT !.kind = "torn"] \in Panels
                 /\ [q EXCEPT !.kind = "tornofficial"] \in Panels
      BY DEF Panels, Kinds
    <3> QED
      BY <1>1, <1>43, <3>1, <3>2, <3>3 DEF Killed, TypeOK
  <2>3. env' \in 0..TornEnv
    BY <1>1, <1>43, RunsAssumption DEF Killed, TypeOK, TornEnv
  <2> QED
    BY <1>1, <1>43, <2>1, <2>2, <2>3 DEF Killed, TypeOK, host
<1>44. ASSUME OfficialInstall PROVE TypeOK'
  <2>1. script' \in Script
    BY <1>1, <1>44 DEF OfficialInstall, TypeOK
  <2> QED
    BY <1>1, <1>44, <2>1, RunsAssumption, VersAssumption
       DEF OfficialInstall, TypeOK, Panels, Kinds, Runtimes, Dirs, NoEnv, TornEnv, Usable,
           ServedBy, At, host, EnvKnown, Steps, InstallSteps, CleanupSteps, RollbackSteps,
           UninstallSteps
<1>45. ASSUME Reboot PROVE TypeOK'
  <2>1. script' \in Script
    BY <1>1, <1>45 DEF Reboot, TypeOK
  <2> QED
    BY <1>1, <1>45, <2>1, RunsAssumption, VersAssumption
       DEF Reboot, TypeOK, Panels, Kinds, Runtimes, Dirs, NoEnv, TornEnv, Usable, ServedBy, At,
           host, EnvKnown, Steps, InstallSteps, CleanupSteps, RollbackSteps, UninstallSteps
<1>46. ASSUME NEW skip \in SUBSET Runtimes, BeginInstall(skip) PROVE TypeOK'
  <2>1. script' \in Script
    BY ZenonT(60), <1>1, <1>46, IdleType
       DEF BeginInstall, TypeOK, Script, Steps, InstallSteps, CleanupSteps, RollbackSteps,
           UninstallSteps, Panels, Runtimes, Dirs, At, Goto
  <2> QED
    BY <1>1, <1>46, <2>1, RunsAssumption, VersAssumption
       DEF BeginInstall, TypeOK, Panels, Kinds, Runtimes, Dirs, NoEnv, TornEnv, Usable, ServedBy,
           At, host, EnvKnown, Steps, InstallSteps, CleanupSteps, RollbackSteps, UninstallSteps
<1>47. ASSUME NEW purge \in SUBSET Runtimes, BeginRollback(purge) PROVE TypeOK'
  <2>1. script' \in Script
    BY ZenonT(60), <1>1, <1>47, IdleType
       DEF BeginRollback, TypeOK, Script, Steps, InstallSteps, CleanupSteps, RollbackSteps,
           UninstallSteps, Panels, Runtimes, Dirs, At, Goto
  <2> QED
    BY <1>1, <1>47, <2>1, RunsAssumption, VersAssumption
       DEF BeginRollback, TypeOK, Panels, Kinds, Runtimes, Dirs, NoEnv, TornEnv, Usable, ServedBy,
           At, host, EnvKnown, Steps, InstallSteps, CleanupSteps, RollbackSteps, UninstallSteps
<1>48. ASSUME NEW r \in Runtimes, AddInbound(r) \/ DelInbound(r) PROVE TypeOK'
  <2>1. script' \in Script
    <3>1. script' = script \/ script' = [script EXCEPT !.edited = TRUE]
      BY <1>48 DEF AddInbound, DelInbound, Edited
    <3> QED
      BY ZenonT(60), <1>2, <3>1 DEF Script
  <2> QED
    BY <1>1, <1>48, <2>1, RunsAssumption, VersAssumption
       DEF AddInbound, DelInbound, TypeOK, Panels, Kinds, Runtimes, Dirs, NoEnv, TornEnv, Usable,
           ServedBy, At, host, EnvKnown, Steps, InstallSteps, CleanupSteps, RollbackSteps,
           UninstallSteps
<1> QED
  BY <1>3, <1>4, <1>5, <1>6, <1>7, <1>8, <1>9, <1>10, <1>11, <1>12, <1>13, <1>14, <1>15, <1>16,
     <1>17, <1>18, <1>19, <1>20, <1>21, <1>22, <1>23, <1>24, <1>25, <1>26, <1>27, <1>28, <1>29,
     <1>30, <1>31, <1>32, <1>33, <1>34, <1>35, <1>36, <1>37, <1>38, <1>39, <1>40, <1>41, <1>42,
     <1>43, <1>44, <1>45, <1>46, <1>47, <1>48
     DEF Next, InstallNext, ActivateNext, SingboxNext,
      MieruNext, CleanupNext, RollbackNext, UninstallNext, HostNext

-----------------------------------------------------------------------------
(* The invariant.                                                          *)

LEMMA ScriptFields ==
    ASSUME script \in Script
    PROVE  DOMAIN script = {"name", "pc", "skip", "panelFirst", "swapped", "was", "started",
                            "active", "had", "changed", "old", "rolled", "edited", "broken",
                            "before"}
  BY DEF Script

LEMMA KeptIsHasOrig == OriginalKept <=> (panel.kind \in {"patched", "torn"} => HasOrig(panel.ver))
  BY DEF OriginalKept, HasOrig

(* Whatever backup is put in place, upstream's of its release is kept.     *)
LEMMA BackupHasOrig ==
    ASSUME TypeOK, BackupsClosed, NEW k \in 1..Len(backups)
    PROVE  Whole(backups[k]) /\ HasOrig(backups[k].ver)
<1>1. Whole(backups[k]) /\ (backups[k].kind = "patched" => HasOrig(backups[k].ver))
  BY DEF BackupsClosed
<1>2. backups[k] \in Panels
  BY BackupType
<1>3. ASSUME backups[k].kind = "orig" PROVE HasOrig(backups[k].ver)
  <2>1. backups[k] = [kind |-> "orig", ver |-> backups[k].ver]
    BY <1>2, <1>3 DEF Panels
  <2> QED
    BY <2>1 DEF HasOrig
<1> QED
  BY <1>1, <1>3 DEF Whole

LEMMA LastBackup ==
    ASSUME TypeOK, Len(backups) > 0
    PROVE  Len(backups) \in 1..Len(backups)
  BY LenProperties DEF TypeOK

(* A step that leaves the backups alone.                                   *)
LEMMA SameBackups ==
    ASSUME TypeOK, BackupsClosed, UNCHANGED backups,
           panel'.kind \in {"patched", "torn"} => HasOrig(panel'.ver)
    PROVE  OriginalKept' /\ BackupsClosed'
  BY DEF OriginalKept, BackupsClosed, HasOrig, Whole

(* What IInv says of the other scripts says nothing while one runs.        *)
LEMMA SilentInstall ==
    ASSUME script'.name = "install", Owners'
    PROVE  /\ FoundByUninstall' /\ UninstallProgress' /\ RollbackProgress'
           /\ UninstallLeavesOnlyDropin' /\ FailedUninstallKeepsAll'
  BY
     DEF Owners, InstallSteps, CleanupSteps, RollbackSteps, UninstallSteps, At, FoundByUninstall,
         UninstallProgress, RollbackProgress,
         UninstallLeavesOnlyDropin, FailedUninstallKeepsAll, OfficialRuns

LEMMA SilentRollback ==
    ASSUME script'.name \in {"rollback", "none"}, Owners'
    PROVE  /\ FoundByUninstall' /\ UninstallProgress' /\ UninstallLeavesOnlyDropin'
           /\ FailedUninstallKeepsAll' /\ FoundByInstall' /\ RuntimesTold' /\ SingboxKnown'
  BY
     DEF Owners, InstallSteps, CleanupSteps, RollbackSteps, UninstallSteps, At, FoundByUninstall,
         UninstallProgress, FoundByInstall, RuntimesTold,
         SingboxKnown, UninstallLeavesOnlyDropin, FailedUninstallKeepsAll, OfficialRuns

LEMMA SilentUninstall ==
    ASSUME script'.name = "uninstall", Owners'
    PROVE  FoundByInstall' /\ RuntimesTold' /\ SingboxKnown' /\ RollbackProgress'
  BY
     DEF Owners, InstallSteps, CleanupSteps, RollbackSteps, UninstallSteps, At, FoundByInstall,
         RuntimesTold, SingboxKnown, RollbackProgress

LEMMA SilentIdle ==
    ASSUME script'.name = "none", Owners'
    PROVE  RollbackProgress'
  BY DEF Owners, InstallSteps, CleanupSteps, RollbackSteps, UninstallSteps, At, RollbackProgress

(* install.sh. *)
LEMMA InstallStep ==
    ASSUME IInv, TypeOK', InstallNext
    PROVE  IInv'
<1>1. /\ TypeOK /\ OriginalKept /\ Owners /\ BackupsClosed /\ EnvKnown
      /\ FoundByInstall /\ FoundByUninstall /\ UninstallProgress /\ RollbackProgress
      /\ EnteredSoFar /\ RunningHaveUnits /\ RuntimesTold /\ SingboxKnown
      /\ UninstallLeavesOnlyDropin /\ FailedUninstallKeepsAll
  BY DEF IInv
<1>2. DOMAIN script = {"name", "pc", "skip", "panelFirst", "swapped", "was", "started",
                       "active", "had", "changed", "old", "rolled", "edited", "broken", "before"}
  BY <1>1, ScriptFields DEF TypeOK
<1>3. ASSUME NEW skip \in SUBSET Runtimes, BeginInstall(skip) PROVE IInv'
  <2>1. script'.name = "install"
    BY <1>3 DEF BeginInstall, Idle, Whole
  <2>2. Owners'
    BY <1>1, <1>2, <1>3, <2>1
       DEF BeginInstall, Idle, Whole, Goto, At, host, Owners, InstallSteps, CleanupSteps,
           RollbackSteps, UninstallSteps
  <2>3. OriginalKept' /\ BackupsClosed'
    BY <1>1, <1>2, <1>3, <2>1
       DEF BeginInstall, Idle, Whole, Goto, At, host, OriginalKept, BackupsClosed, HasOrig, Whole
  <2>4. EnvKnown'
    BY <1>1, <1>2, <1>3, <2>1
       DEF BeginInstall, Idle, Whole, Goto, At, host, EnvKnown, RollbackSteps, NoEnv, TornEnv
  <2>5. FoundByInstall'
    BY <1>1, <1>2, <1>3, <2>1
       DEF BeginInstall, Idle, Whole, Goto, At, host, FoundByInstall, Undone, Mounts, InstallSteps,
           Whole
  <2>6. EnteredSoFar' /\ RunningHaveUnits'
    BY <1>1, <1>2, <1>3, <2>1
       DEF BeginInstall, Idle, Whole, Goto, At, host, EnteredSoFar, RunningHaveUnits,
           InstallSteps, BoxSteps,
           Runtimes
  <2>7. RuntimesTold'
    BY <1>1, <1>2, <1>3, <2>1
       DEF BeginInstall, Idle, Whole, Goto, At, host, RuntimesTold, BoxSteps, Runtimes, Dirs,
           EnteredSoFar, FoundByInstall
  <2>8. SingboxKnown'
    BY <1>1, <1>2, <1>3, <2>1
       DEF BeginInstall, Idle, Whole, Goto, At, host, SingboxKnown, BoxSteps, CleanupSteps,
           EnteredSoFar, RuntimesTold, Runtimes
  <2> QED
    BY <2>1, <2>2, <2>3, <2>4, <2>5, <2>6, <2>7, <2>8, SilentInstall DEF IInv
<1>4. ASSUME BackupCurrentInstall PROVE IInv'
  <2>1. /\ script.name = "install" /\ script'.name = "install"
        /\ script'.before = script.before /\ script'.edited = script.edited
    BY <1>1, <1>2, <1>4
       DEF BackupCurrentInstall, Goto, At, Owners, InstallSteps, RollbackSteps, UninstallSteps
  <2>2. Owners'
    BY <1>1, <1>2, <1>4, <2>1
       DEF BackupCurrentInstall, Goto, At, host, Owners, InstallSteps, CleanupSteps, RollbackSteps,
           UninstallSteps
  <2>3. OriginalKept' /\ BackupsClosed'
    <3>1. panel \in Panels /\ backups \in Seq(Panels)
      BY <1>1 DEF TypeOK
    <3>2. /\ Len(backups') = Len(backups) + 1 /\ Len(backups) \in Nat
          /\ \A k \in 1..Len(backups) : backups'[k] = backups[k]
          /\ backups'[Len(backups) + 1] = panel
      BY <1>4, <3>1, AppendProperties, LenProperties DEF BackupCurrentInstall
    <3>3. ASSUME NEW v, HasOrig(v)
          PROVE  \E j \in 1..Len(backups') : backups'[j] = [kind |-> "orig", ver |-> v]
      BY <3>2, <3>3 DEF HasOrig
    <3>4. Whole(panel) /\ (panel.kind = "patched" => HasOrig(panel.ver))
      BY <1>1, <1>4, <2>1, KeptIsHasOrig DEF BackupCurrentInstall, At, FoundByInstall
    <3>5. OriginalKept'
      BY <1>1, <1>4, <3>2 DEF BackupCurrentInstall, OriginalKept
    <3>6. ASSUME NEW k \in 1..Len(backups')
          PROVE  /\ backups'[k].kind \in {"orig", "patched"}
                 /\ backups'[k].kind = "patched" =>
                       \E j \in 1..Len(backups') :
                          backups'[j] = [kind |-> "orig", ver |-> backups'[k].ver]
      <4>1. CASE k \in 1..Len(backups)
        <5>1. Whole(backups[k]) /\ (backups[k].kind = "patched" => HasOrig(backups[k].ver))
          BY <1>1, <4>1 DEF BackupsClosed
        <5> QED
          BY <3>2, <3>3, <4>1, <5>1 DEF Whole
      <4>2. CASE k = Len(backups) + 1
        BY <3>2, <3>3, <3>4, <4>2 DEF Whole
      <4> QED
        BY <3>2, <4>1, <4>2
    <3> QED
      BY <3>5, <3>6 DEF BackupsClosed, Whole, HasOrig
  <2>4. EnvKnown'
    BY <1>1, <1>2, <1>4, <2>1
       DEF BackupCurrentInstall, Goto, At, host, EnvKnown, RollbackSteps, NoEnv, TornEnv
  <2>5. FoundByInstall'
    BY <1>1, <1>2, <1>4, <2>1
       DEF BackupCurrentInstall, Goto, At, host, FoundByInstall, Undone, Mounts, InstallSteps,
           Whole
  <2>6. EnteredSoFar' /\ RunningHaveUnits'
    BY <1>1, <1>2, <1>4, <2>1
       DEF BackupCurrentInstall, Goto, At, host, EnteredSoFar, RunningHaveUnits, InstallSteps,
           BoxSteps,
           Runtimes
  <2>7. RuntimesTold'
    BY <1>1, <1>2, <1>4, <2>1
       DEF BackupCurrentInstall, Goto, At, host, RuntimesTold, BoxSteps, Runtimes, Dirs,
           EnteredSoFar, FoundByInstall
  <2>8. SingboxKnown'
    BY <1>1, <1>2, <1>4, <2>1
       DEF BackupCurrentInstall, Goto, At, host, SingboxKnown, BoxSteps, CleanupSteps,
           EnteredSoFar, RuntimesTold, Runtimes
  <2> QED
    BY <2>1, <2>2, <2>3, <2>4, <2>5, <2>6, <2>7, <2>8, SilentInstall DEF IInv
<1>5. ASSUME SandboxDirs PROVE IInv'
  <2>1. /\ script.name = "install" /\ script'.name = "install"
        /\ script'.before = script.before /\ script'.edited = script.edited
    BY <1>1, <1>2, <1>5
       DEF SandboxDirs, Goto, At, Owners, InstallSteps, RollbackSteps, UninstallSteps
  <2>2. Owners'
    BY <1>1, <1>2, <1>5, <2>1
       DEF SandboxDirs, Goto, At, host, Owners, InstallSteps, CleanupSteps, RollbackSteps,
           UninstallSteps
  <2>3. OriginalKept' /\ BackupsClosed'
    BY <1>1, <1>2, <1>5, <2>1
       DEF SandboxDirs, Goto, At, host, OriginalKept, BackupsClosed, HasOrig, Whole
  <2>4. EnvKnown'
    BY <1>1, <1>2, <1>5, <2>1
       DEF SandboxDirs, Goto, At, host, EnvKnown, RollbackSteps, NoEnv, TornEnv
  <2>5. FoundByInstall'
    BY <1>1, <1>2, <1>5, <2>1
       DEF SandboxDirs, Goto, At, host, FoundByInstall, Undone, Mounts, InstallSteps, Whole
  <2>6. EnteredSoFar' /\ RunningHaveUnits'
    BY <1>1, <1>2, <1>5, <2>1
       DEF SandboxDirs, Goto, At, host, EnteredSoFar, RunningHaveUnits, InstallSteps, BoxSteps,
           Runtimes
  <2>7. RuntimesTold'
    BY <1>1, <1>2, <1>5, <2>1
       DEF SandboxDirs, Goto, At, host, RuntimesTold, BoxSteps, Runtimes, Dirs, EnteredSoFar,
           FoundByInstall
  <2>8. SingboxKnown'
    BY <1>1, <1>2, <1>5, <2>1
       DEF SandboxDirs, Goto, At, host, SingboxKnown, BoxSteps, CleanupSteps, EnteredSoFar,
           RuntimesTold, Runtimes
  <2> QED
    BY <2>1, <2>2, <2>3, <2>4, <2>5, <2>6, <2>7, <2>8, SilentInstall DEF IInv
<1>6. ASSUME SandboxDropin PROVE IInv'
  <2>1. /\ script.name = "install" /\ script'.name = "install"
        /\ script'.before = script.before /\ script'.edited = script.edited
    BY <1>1, <1>2, <1>6
       DEF SandboxDropin, Goto, At, Owners, InstallSteps, RollbackSteps, UninstallSteps
  <2>2. Owners'
    BY <1>1, <1>2, <1>6, <2>1
       DEF SandboxDropin, Goto, At, host, Owners, InstallSteps, CleanupSteps, RollbackSteps,
           UninstallSteps
  <2>3. OriginalKept' /\ BackupsClosed'
    BY <1>1, <1>2, <1>6, <2>1
       DEF SandboxDropin, Goto, At, host, OriginalKept, BackupsClosed, HasOrig, Whole
  <2>4. EnvKnown'
    BY <1>1, <1>2, <1>6, <2>1
       DEF SandboxDropin, Goto, At, host, EnvKnown, RollbackSteps, NoEnv, TornEnv
  <2>5. FoundByInstall'
    BY <1>1, <1>2, <1>6, <2>1
       DEF SandboxDropin, Goto, At, host, FoundByInstall, Undone, Mounts, InstallSteps, Whole
  <2>6. EnteredSoFar' /\ RunningHaveUnits'
    BY <1>1, <1>2, <1>6, <2>1
       DEF SandboxDropin, Goto, At, host, EnteredSoFar, RunningHaveUnits, InstallSteps, BoxSteps,
           Runtimes
  <2>7. RuntimesTold'
    BY <1>1, <1>2, <1>6, <2>1
       DEF SandboxDropin, Goto, At, host, RuntimesTold, BoxSteps, Runtimes, Dirs, EnteredSoFar,
           FoundByInstall
  <2>8. SingboxKnown'
    BY <1>1, <1>2, <1>6, <2>1
       DEF SandboxDropin, Goto, At, host, SingboxKnown, BoxSteps, CleanupSteps, EnteredSoFar,
           RuntimesTold, Runtimes
  <2> QED
    BY <2>1, <2>2, <2>3, <2>4, <2>5, <2>6, <2>7, <2>8, SilentInstall DEF IInv
<1>7. ASSUME ChooseOrder PROVE IInv'
  <2>1. /\ script.name = "install" /\ script'.name = "install"
        /\ script'.before = script.before /\ script'.edited = script.edited
    BY <1>1, <1>2, <1>7
       DEF ChooseOrder, Goto, At, Owners, InstallSteps, RollbackSteps, UninstallSteps
  <2>2. Owners'
    BY ZenonT(60), <1>1, <1>2, <1>7, <2>1
       DEF ChooseOrder, Goto, At, host, Owners, InstallSteps, CleanupSteps, RollbackSteps,
           UninstallSteps
  <2>3. OriginalKept' /\ BackupsClosed'
    BY <1>1, <1>2, <1>7, <2>1
       DEF ChooseOrder, Goto, At, host, OriginalKept, BackupsClosed, HasOrig, Whole
  <2>4. EnvKnown'
    BY <1>1, <1>2, <1>7, <2>1
       DEF ChooseOrder, Goto, At, host, EnvKnown, RollbackSteps, NoEnv, TornEnv
  <2>5. FoundByInstall'
    BY ZenonT(60), <1>1, <1>2, <1>7, <2>1
       DEF ChooseOrder, Goto, At, host, FoundByInstall, Undone, Mounts, InstallSteps, Whole
  <2>6. EnteredSoFar' /\ RunningHaveUnits'
    BY <1>1, <1>2, <1>7, <2>1
       DEF ChooseOrder, Goto, At, host, EnteredSoFar, RunningHaveUnits, InstallSteps, BoxSteps,
           Runtimes
  <2>7. RuntimesTold'
    <3> SUFFICES ASSUME NEW r \in Runtimes
                 PROVE  IF r \in script.before.units \cup script.before.dirs
                        THEN /\ {r} \cap script.before.dirs \subseteq dirs'
                             /\ r \in units' \cup dirs'
                             /\ r \in script'.started => r \in script'.was
                        ELSE panel'.ver # SandboxVer =>
                             /\ r \notin script'.was
                             /\ r \in script'.started \/ r \notin units' \cup dirs'
                             /\ script'.pc = "failed" \/ (script'.pc = "purgemita" /\ r = "box") =>
                                   r \notin units' \cup dirs'
      BY <2>1 DEF RuntimesTold
    <3>1. IF r \in script.before.units \cup script.before.dirs
          THEN /\ {r} \cap script.before.dirs \subseteq dirs
               /\ r \in units \cup dirs
               /\ r \in script.started => r \in script.was
          ELSE panel.ver # SandboxVer =>
               /\ r \notin script.was
               /\ r \in script.started \/ r \notin units \cup dirs
      BY <1>1, <2>1 DEF RuntimesTold

    <3>2. script.started = {} /\ UNCHANGED <<panel, units, dirs>>
      BY <1>1, <1>7 DEF ChooseOrder, At, EnteredSoFar, host
    <3>3. /\ script'.started = {} /\ script'.pc \in {"stop", "box"}
          /\ script'.was = script.was \/ (script'.was = {"box"} /\ "box" \in units \cup dirs)
      BY <1>2, <1>7, <3>2 DEF ChooseOrder, Goto
    <3> QED
      BY <3>1, <3>2, <3>3
  <2>8. SingboxKnown'
    BY ZenonT(60), <1>1, <1>2, <1>7, <2>1
       DEF ChooseOrder, Goto, At, host, SingboxKnown, BoxSteps, CleanupSteps, EnteredSoFar,
           RuntimesTold, Runtimes
  <2> QED
    BY <2>1, <2>2, <2>3, <2>4, <2>5, <2>6, <2>7, <2>8, SilentInstall DEF IInv
<1>8. ASSUME ActivateStop PROVE IInv'
  <2>1. /\ script.name = "install" /\ script'.name = "install"
        /\ script'.before = script.before /\ script'.edited = script.edited
    BY <1>1, <1>2, <1>8
       DEF ActivateStop, Goto, At, Owners, InstallSteps, RollbackSteps, UninstallSteps
  <2>2. Owners'
    BY <1>1, <1>2, <1>8, <2>1
       DEF ActivateStop, Goto, At, host, Owners, InstallSteps, CleanupSteps, RollbackSteps,
           UninstallSteps
  <2>3. OriginalKept' /\ BackupsClosed'
    BY <1>1, <1>2, <1>8, <2>1
       DEF ActivateStop, Goto, At, host, OriginalKept, BackupsClosed, HasOrig, Whole
  <2>4. EnvKnown'
    BY <1>1, <1>2, <1>8, <2>1
       DEF ActivateStop, Goto, At, host, EnvKnown, RollbackSteps, NoEnv, TornEnv
  <2>5. FoundByInstall'
    BY <1>1, <1>2, <1>8, <2>1
       DEF ActivateStop, Goto, At, host, FoundByInstall, Undone, Mounts, InstallSteps, Whole
  <2>6. EnteredSoFar' /\ RunningHaveUnits'
    BY <1>1, <1>2, <1>8, <2>1
       DEF ActivateStop, Goto, At, host, EnteredSoFar, RunningHaveUnits, InstallSteps, BoxSteps,
           Runtimes
  <2>7. RuntimesTold'
    BY <1>1, <1>2, <1>8, <2>1
       DEF ActivateStop, Goto, At, host, RuntimesTold, BoxSteps, Runtimes, Dirs, EnteredSoFar,
           FoundByInstall
  <2>8. SingboxKnown'
    BY <1>1, <1>2, <1>8, <2>1
       DEF ActivateStop, Goto, At, host, SingboxKnown, BoxSteps, CleanupSteps, EnteredSoFar,
           RuntimesTold, Runtimes
  <2> QED
    BY <2>1, <2>2, <2>3, <2>4, <2>5, <2>6, <2>7, <2>8, SilentInstall DEF IInv
<1>9. ASSUME ActivateCopy PROVE IInv'
  <2>1. /\ script.name = "install" /\ script'.name = "install"
        /\ script'.before = script.before /\ script'.edited = script.edited
    BY <1>1, <1>2, <1>9
       DEF ActivateCopy, Goto, At, Owners, InstallSteps, RollbackSteps, UninstallSteps
  <2>2. Owners'
    BY <1>1, <1>2, <1>9, <2>1
       DEF ActivateCopy, Goto, At, host, Owners, InstallSteps, CleanupSteps, RollbackSteps,
           UninstallSteps
  <2>3. OriginalKept' /\ BackupsClosed'
    <3>1. panel'.ver = panel.ver /\ UNCHANGED backups
      BY <1>1, <1>9 DEF ActivateCopy, TypeOK, Panels
    <3>2. HasOrig(panel.ver)
      BY <1>1, <1>9, <2>1, LastBackup, BackupHasOrig
         DEF ActivateCopy, At, FoundByInstall, InstallSteps
    <3> QED
      BY <1>1, <3>1, <3>2, SameBackups
  <2>4. EnvKnown'
    BY <1>1, <1>2, <1>9, <2>1
       DEF ActivateCopy, Goto, At, host, EnvKnown, RollbackSteps, NoEnv, TornEnv
  <2>5. FoundByInstall'
    BY <1>1, <1>2, <1>9, <2>1
       DEF ActivateCopy, Goto, At, host, FoundByInstall, Undone, Mounts, InstallSteps, Whole
  <2>6. EnteredSoFar' /\ RunningHaveUnits'
    BY <1>1, <1>2, <1>9, <2>1
       DEF ActivateCopy, Goto, At, host, EnteredSoFar, RunningHaveUnits, InstallSteps, BoxSteps,
           Runtimes
  <2>7. RuntimesTold'
    BY <1>1, <1>2, <1>9, <2>1
       DEF ActivateCopy, Goto, At, host, RuntimesTold, BoxSteps, Runtimes, Dirs, EnteredSoFar,
           FoundByInstall
  <2>8. SingboxKnown'
    BY <1>1, <1>2, <1>9, <2>1
       DEF ActivateCopy, Goto, At, host, SingboxKnown, BoxSteps, CleanupSteps, EnteredSoFar,
           RuntimesTold, Runtimes
  <2> QED
    BY <2>1, <2>2, <2>3, <2>4, <2>5, <2>6, <2>7, <2>8, SilentInstall DEF IInv
<1>10. ASSUME ActivateStart PROVE IInv'
  <2>1. /\ script.name = "install" /\ script'.name = "install"
        /\ script'.before = script.before /\ script'.edited = script.edited
    BY <1>1, <1>2, <1>10
       DEF ActivateStart, ServedBy, Usable, Whole, Mounts, Starts, Goto, At, Owners, InstallSteps,
           RollbackSteps, UninstallSteps
  <2>2. Owners'
    BY <1>1, <1>2, <1>10, <2>1
       DEF ActivateStart, ServedBy, Usable, Whole, Mounts, Starts, Goto, At, host, Owners,
           InstallSteps, CleanupSteps, RollbackSteps, UninstallSteps
  <2>3. OriginalKept' /\ BackupsClosed'
    BY <1>1, <1>2, <1>10, <2>1
       DEF ActivateStart, ServedBy, Usable, Whole, Mounts, Starts, Goto, At, host, OriginalKept,
           BackupsClosed, HasOrig, Whole
  <2>4. EnvKnown'
    BY <1>1, <1>2, <1>10, <2>1
       DEF ActivateStart, ServedBy, Usable, Whole, Mounts, Starts, Goto, At, host, EnvKnown,
           RollbackSteps, NoEnv, TornEnv
  <2>5. FoundByInstall'
    BY <1>1, <1>2, <1>10, <2>1
       DEF ActivateStart, ServedBy, Usable, Whole, Mounts, Starts, Goto, At, host, FoundByInstall,
           Undone, Mounts, InstallSteps, Whole
  <2>6. EnteredSoFar' /\ RunningHaveUnits'
    BY <1>1, <1>2, <1>10, <2>1
       DEF ActivateStart, ServedBy, Usable, Whole, Mounts, Starts, Goto, At, host, EnteredSoFar,
           RunningHaveUnits, InstallSteps, BoxSteps, Runtimes
  <2>7. RuntimesTold'
    BY <1>1, <1>2, <1>10, <2>1
       DEF ActivateStart, ServedBy, Usable, Whole, Mounts, Starts, Goto, At, host, RuntimesTold,
           BoxSteps, Runtimes, Dirs, EnteredSoFar, FoundByInstall
  <2>8. SingboxKnown'
    BY <1>1, <1>2, <1>10, <2>1
       DEF ActivateStart, ServedBy, Usable, Whole, Mounts, Starts, Goto, At, host, SingboxKnown,
           BoxSteps, CleanupSteps, EnteredSoFar, RuntimesTold, Runtimes
  <2> QED
    BY <2>1, <2>2, <2>3, <2>4, <2>5, <2>6, <2>7, <2>8, SilentInstall DEF IInv
<1>11. ASSUME PersistTree PROVE IInv'
  <2>1. /\ script.name = "install" /\ script'.name = "install"
        /\ script'.before = script.before /\ script'.edited = script.edited
    BY <1>1, <1>2, <1>11
       DEF PersistTree, Goto, At, Owners, InstallSteps, RollbackSteps, UninstallSteps
  <2>2. Owners'
    BY <1>1, <1>2, <1>11, <2>1
       DEF PersistTree, Goto, At, host, Owners, InstallSteps, CleanupSteps, RollbackSteps,
           UninstallSteps
  <2>3. OriginalKept' /\ BackupsClosed'
    BY <1>1, <1>2, <1>11, <2>1
       DEF PersistTree, Goto, At, host, OriginalKept, BackupsClosed, HasOrig, Whole
  <2>4. EnvKnown'
    BY <1>1, <1>2, <1>11, <2>1
       DEF PersistTree, Goto, At, host, EnvKnown, RollbackSteps, NoEnv, TornEnv
  <2>5. FoundByInstall'
    BY <1>1, <1>2, <1>11, <2>1
       DEF PersistTree, Goto, At, host, FoundByInstall, Undone, Mounts, InstallSteps, Whole
  <2>6. EnteredSoFar' /\ RunningHaveUnits'
    BY <1>1, <1>2, <1>11, <2>1
       DEF PersistTree, Goto, At, host, EnteredSoFar, RunningHaveUnits, InstallSteps, BoxSteps,
           Runtimes
  <2>7. RuntimesTold'
    BY <1>1, <1>2, <1>11, <2>1
       DEF PersistTree, Goto, At, host, RuntimesTold, BoxSteps, Runtimes, Dirs, EnteredSoFar,
           FoundByInstall
  <2>8. SingboxKnown'
    BY <1>1, <1>2, <1>11, <2>1
       DEF PersistTree, Goto, At, host, SingboxKnown, BoxSteps, CleanupSteps, EnteredSoFar,
           RuntimesTold, Runtimes
  <2> QED
    BY <2>1, <2>2, <2>3, <2>4, <2>5, <2>6, <2>7, <2>8, SilentInstall DEF IInv
<1>12. ASSUME PersistEnv PROVE IInv'
  <2>1. /\ script.name = "install" /\ script'.name = "install"
        /\ script'.before = script.before /\ script'.edited = script.edited
    BY <1>1, <1>2, <1>12
       DEF PersistEnv, Goto, At, Owners, InstallSteps, RollbackSteps, UninstallSteps
  <2>2. Owners'
    BY <1>1, <1>2, <1>12, <2>1
       DEF PersistEnv, Goto, At, host, Owners, InstallSteps, CleanupSteps, RollbackSteps,
           UninstallSteps
  <2>3. OriginalKept' /\ BackupsClosed'
    BY <1>1, <1>2, <1>12, <2>1
       DEF PersistEnv, Goto, At, host, OriginalKept, BackupsClosed, HasOrig, Whole
  <2>4. EnvKnown'
    BY <1>1, <1>2, <1>12, <2>1
       DEF PersistEnv, Goto, At, host, EnvKnown, RollbackSteps, NoEnv, TornEnv
  <2>5. FoundByInstall'
    BY <1>1, <1>2, <1>12, <2>1
       DEF PersistEnv, Goto, At, host, FoundByInstall, Undone, Mounts, InstallSteps, Whole
  <2>6. EnteredSoFar' /\ RunningHaveUnits'
    BY <1>1, <1>2, <1>12, <2>1
       DEF PersistEnv, Goto, At, host, EnteredSoFar, RunningHaveUnits, InstallSteps, BoxSteps,
           Runtimes
  <2>7. RuntimesTold'
    BY <1>1, <1>2, <1>12, <2>1
       DEF PersistEnv, Goto, At, host, RuntimesTold, BoxSteps, Runtimes, Dirs, EnteredSoFar,
           FoundByInstall
  <2>8. SingboxKnown'
    BY <1>1, <1>2, <1>12, <2>1
       DEF PersistEnv, Goto, At, host, SingboxKnown, BoxSteps, CleanupSteps, EnteredSoFar,
           RuntimesTold, Runtimes
  <2> QED
    BY <2>1, <2>2, <2>3, <2>4, <2>5, <2>6, <2>7, <2>8, SilentInstall DEF IInv
<1>13. ASSUME InstallSingbox PROVE IInv'
  <2>1. /\ script.name = "install" /\ script'.name = "install"
        /\ script'.before = script.before /\ script'.edited = script.edited
    BY <1>1, <1>2, <1>13
       DEF InstallSingbox, Entered, Goto, At, Owners, InstallSteps, RollbackSteps, UninstallSteps
  <2>2. Owners'
    BY <1>1, <1>2, <1>13, <2>1
       DEF InstallSingbox, Entered, Goto, At, host, Owners, InstallSteps, CleanupSteps,
           RollbackSteps, UninstallSteps
  <2>3. OriginalKept' /\ BackupsClosed'
    BY <1>1, <1>2, <1>13, <2>1
       DEF InstallSingbox, Entered, Goto, At, host, OriginalKept, BackupsClosed, HasOrig, Whole
  <2>4. EnvKnown'
    BY <1>1, <1>2, <1>13, <2>1
       DEF InstallSingbox, Entered, Goto, At, host, EnvKnown, RollbackSteps, NoEnv, TornEnv
  <2>5. FoundByInstall'
    BY <1>1, <1>2, <1>13, <2>1
       DEF InstallSingbox, Entered, Goto, At, host, FoundByInstall, Undone, Mounts, InstallSteps,
           Whole
  <2>6. EnteredSoFar' /\ RunningHaveUnits'
    BY <1>1, <1>2, <1>13, <2>1
       DEF InstallSingbox, Entered, Goto, At, host, EnteredSoFar, RunningHaveUnits, InstallSteps,
           BoxSteps,
           Runtimes
  <2>7. RuntimesTold'
    BY <1>1, <1>2, <1>13, <2>1
       DEF InstallSingbox, Entered, Goto, At, host, RuntimesTold, BoxSteps, Runtimes, Dirs,
           EnteredSoFar, FoundByInstall
  <2>8. SingboxKnown'
    BY <1>1, <1>2, <1>13, <2>1
       DEF InstallSingbox, Entered, Goto, At, host, SingboxKnown, BoxSteps, CleanupSteps,
           EnteredSoFar, RuntimesTold, Runtimes
  <2> QED
    BY <2>1, <2>2, <2>3, <2>4, <2>5, <2>6, <2>7, <2>8, SilentInstall DEF IInv
<1>14. ASSUME SkipSingbox PROVE IInv'
  <2>1. /\ script.name = "install" /\ script'.name = "install"
        /\ script'.before = script.before /\ script'.edited = script.edited
    BY <1>1, <1>2, <1>14
       DEF SkipSingbox, AfterBox, Goto, At, Owners, InstallSteps, RollbackSteps, UninstallSteps
  <2>2. Owners'
    BY <1>1, <1>2, <1>14, <2>1
       DEF SkipSingbox, AfterBox, Goto, At, host, Owners, InstallSteps, CleanupSteps,
           RollbackSteps, UninstallSteps
  <2>3. OriginalKept' /\ BackupsClosed'
    BY <1>1, <1>2, <1>14, <2>1
       DEF SkipSingbox, AfterBox, Goto, At, host, OriginalKept, BackupsClosed, HasOrig, Whole
  <2>4. EnvKnown'
    BY <1>1, <1>2, <1>14, <2>1
       DEF SkipSingbox, AfterBox, Goto, At, host, EnvKnown, RollbackSteps, NoEnv, TornEnv
  <2>5. FoundByInstall'
    BY <1>1, <1>2, <1>14, <2>1
       DEF SkipSingbox, AfterBox, Goto, At, host, FoundByInstall, Undone, Mounts, InstallSteps,
           Whole
  <2>6. EnteredSoFar' /\ RunningHaveUnits'
    BY <1>1, <1>2, <1>14, <2>1
       DEF SkipSingbox, AfterBox, Goto, At, host, EnteredSoFar, RunningHaveUnits, InstallSteps,
           BoxSteps,
           Runtimes
  <2>7. RuntimesTold'
    BY <1>1, <1>2, <1>14, <2>1
       DEF SkipSingbox, AfterBox, Goto, At, host, RuntimesTold, BoxSteps, Runtimes, Dirs,
           EnteredSoFar, FoundByInstall
  <2>8. SingboxKnown'
    BY <1>1, <1>2, <1>14, <2>1
       DEF SkipSingbox, AfterBox, Goto, At, host, SingboxKnown, BoxSteps, CleanupSteps,
           EnteredSoFar, RuntimesTold, Runtimes
  <2> QED
    BY <2>1, <2>2, <2>3, <2>4, <2>5, <2>6, <2>7, <2>8, SilentInstall DEF IInv
<1>15. ASSUME SingboxStop PROVE IInv'
  <2>1. /\ script.name = "install" /\ script'.name = "install"
        /\ script'.before = script.before /\ script'.edited = script.edited
    BY <1>1, <1>2, <1>15
       DEF SingboxStop, Goto, At, Owners, InstallSteps, RollbackSteps, UninstallSteps
  <2>2. Owners'
    BY <1>1, <1>2, <1>15, <2>1
       DEF SingboxStop, Goto, At, host, Owners, InstallSteps, CleanupSteps, RollbackSteps,
           UninstallSteps
  <2>3. OriginalKept' /\ BackupsClosed'
    BY <1>1, <1>2, <1>15, <2>1
       DEF SingboxStop, Goto, At, host, OriginalKept, BackupsClosed, HasOrig, Whole
  <2>4. EnvKnown'
    BY <1>1, <1>2, <1>15, <2>1
       DEF SingboxStop, Goto, At, host, EnvKnown, RollbackSteps, NoEnv, TornEnv
  <2>5. FoundByInstall'
    BY <1>1, <1>2, <1>15, <2>1
       DEF SingboxStop, Goto, At, host, FoundByInstall, Undone, Mounts, InstallSteps, Whole
  <2>6. EnteredSoFar' /\ RunningHaveUnits'
    BY <1>1, <1>2, <1>15, <2>1
       DEF SingboxStop, Goto, At, host, EnteredSoFar, RunningHaveUnits, InstallSteps, BoxSteps,
           Runtimes
  <2>7. RuntimesTold'
    BY <1>1, <1>2, <1>15, <2>1
       DEF SingboxStop, Goto, At, host, RuntimesTold, BoxSteps, Runtimes, Dirs, EnteredSoFar,
           FoundByInstall
  <2>8. SingboxKnown'
    BY <1>1, <1>2, <1>15, <2>1
       DEF SingboxStop, Goto, At, host, SingboxKnown, BoxSteps, CleanupSteps, EnteredSoFar,
           RuntimesTold, Runtimes
  <2> QED
    BY <2>1, <2>2, <2>3, <2>4, <2>5, <2>6, <2>7, <2>8, SilentInstall DEF IInv
<1>16. ASSUME SingboxMoveAway PROVE IInv'
  <2>1. /\ script.name = "install" /\ script'.name = "install"
        /\ script'.before = script.before /\ script'.edited = script.edited
    BY <1>1, <1>2, <1>16
       DEF SingboxMoveAway, Goto, At, Owners, InstallSteps, RollbackSteps, UninstallSteps
  <2>2. Owners'
    BY <1>1, <1>2, <1>16, <2>1
       DEF SingboxMoveAway, Goto, At, host, Owners, InstallSteps, CleanupSteps, RollbackSteps,
           UninstallSteps
  <2>3. OriginalKept' /\ BackupsClosed'
    BY <1>1, <1>2, <1>16, <2>1
       DEF SingboxMoveAway, Goto, At, host, OriginalKept, BackupsClosed, HasOrig, Whole
  <2>4. EnvKnown'
    BY <1>1, <1>2, <1>16, <2>1
       DEF SingboxMoveAway, Goto, At, host, EnvKnown, RollbackSteps, NoEnv, TornEnv
  <2>5. FoundByInstall'
    BY <1>1, <1>2, <1>16, <2>1
       DEF SingboxMoveAway, Goto, At, host, FoundByInstall, Undone, Mounts, InstallSteps, Whole
  <2>6. EnteredSoFar' /\ RunningHaveUnits'
    BY <1>1, <1>2, <1>16, <2>1
       DEF SingboxMoveAway, Goto, At, host, EnteredSoFar, RunningHaveUnits, InstallSteps,
           BoxSteps, Runtimes
  <2>7. RuntimesTold'
    BY <1>1, <1>2, <1>16, <2>1
       DEF SingboxMoveAway, Goto, At, host, RuntimesTold, BoxSteps, Runtimes, Dirs, EnteredSoFar,
           FoundByInstall
  <2>8. SingboxKnown'
    BY <1>1, <1>2, <1>16, <2>1
       DEF SingboxMoveAway, Goto, At, host, SingboxKnown, BoxSteps, CleanupSteps, EnteredSoFar,
           RuntimesTold, Runtimes
  <2> QED
    BY <2>1, <2>2, <2>3, <2>4, <2>5, <2>6, <2>7, <2>8, SilentInstall DEF IInv
<1>17. ASSUME SingboxMoveIn PROVE IInv'
  <2>1. /\ script.name = "install" /\ script'.name = "install"
        /\ script'.before = script.before /\ script'.edited = script.edited
    BY <1>1, <1>2, <1>17
       DEF SingboxMoveIn, Goto, At, Owners, InstallSteps, RollbackSteps, UninstallSteps
  <2>2. Owners'
    BY <1>1, <1>2, <1>17, <2>1
       DEF SingboxMoveIn, Goto, At, host, Owners, InstallSteps, CleanupSteps, RollbackSteps,
           UninstallSteps
  <2>3. OriginalKept' /\ BackupsClosed'
    BY <1>1, <1>2, <1>17, <2>1
       DEF SingboxMoveIn, Goto, At, host, OriginalKept, BackupsClosed, HasOrig, Whole
  <2>4. EnvKnown'
    BY <1>1, <1>2, <1>17, <2>1
       DEF SingboxMoveIn, Goto, At, host, EnvKnown, RollbackSteps, NoEnv, TornEnv
  <2>5. FoundByInstall'
    BY <1>1, <1>2, <1>17, <2>1
       DEF SingboxMoveIn, Goto, At, host, FoundByInstall, Undone, Mounts, InstallSteps, Whole
  <2>6. EnteredSoFar' /\ RunningHaveUnits'
    BY <1>1, <1>2, <1>17, <2>1
       DEF SingboxMoveIn, Goto, At, host, EnteredSoFar, RunningHaveUnits, InstallSteps, BoxSteps,
           Runtimes
  <2>7. RuntimesTold'
    BY <1>1, <1>2, <1>17, <2>1
       DEF SingboxMoveIn, Goto, At, host, RuntimesTold, BoxSteps, Runtimes, Dirs, EnteredSoFar,
           FoundByInstall
  <2>8. SingboxKnown'
    BY <1>1, <1>2, <1>17, <2>1
       DEF SingboxMoveIn, Goto, At, host, SingboxKnown, BoxSteps, CleanupSteps, EnteredSoFar,
           RuntimesTold, Runtimes
  <2> QED
    BY <2>1, <2>2, <2>3, <2>4, <2>5, <2>6, <2>7, <2>8, SilentInstall DEF IInv
<1>18. ASSUME SingboxStart PROVE IInv'
  <2>1. /\ script.name = "install" /\ script'.name = "install"
        /\ script'.before = script.before /\ script'.edited = script.edited
    BY <1>1, <1>2, <1>18
       DEF SingboxStart, AfterBox, Goto, At, Owners, InstallSteps, RollbackSteps, UninstallSteps
  <2>2. Owners'
    BY <1>1, <1>2, <1>18, <2>1
       DEF SingboxStart, AfterBox, Goto, At, host, Owners, InstallSteps, CleanupSteps,
           RollbackSteps, UninstallSteps
  <2>3. OriginalKept' /\ BackupsClosed'
    BY <1>1, <1>2, <1>18, <2>1
       DEF SingboxStart, AfterBox, Goto, At, host, OriginalKept, BackupsClosed, HasOrig, Whole
  <2>4. EnvKnown'
    BY <1>1, <1>2, <1>18, <2>1
       DEF SingboxStart, AfterBox, Goto, At, host, EnvKnown, RollbackSteps, NoEnv, TornEnv
  <2>5. FoundByInstall'
    BY <1>1, <1>2, <1>18, <2>1
       DEF SingboxStart, AfterBox, Goto, At, host, FoundByInstall, Undone, Mounts, InstallSteps,
           Whole
  <2>6. EnteredSoFar' /\ RunningHaveUnits'
    BY <1>1, <1>2, <1>18, <2>1
       DEF SingboxStart, AfterBox, Goto, At, host, EnteredSoFar, RunningHaveUnits, InstallSteps,
           BoxSteps,
           Runtimes
  <2>7. RuntimesTold'
    BY <1>1, <1>2, <1>18, <2>1
       DEF SingboxStart, AfterBox, Goto, At, host, RuntimesTold, BoxSteps, Runtimes, Dirs,
           EnteredSoFar, FoundByInstall
  <2>8. SingboxKnown'
    BY <1>1, <1>2, <1>18, <2>1
       DEF SingboxStart, AfterBox, Goto, At, host, SingboxKnown, BoxSteps, CleanupSteps,
           EnteredSoFar, RuntimesTold, Runtimes
  <2> QED
    BY <2>1, <2>2, <2>3, <2>4, <2>5, <2>6, <2>7, <2>8, SilentInstall DEF IInv
<1>19. ASSUME SingboxRollback PROVE IInv'
  <2>1. PICK gone \in {{}, {"bin"}, {"unit"}, {"box"}} :
           /\ RollbackRuntime(gone)
           /\ script' = [script EXCEPT !.pc = "restore", !.rolled = TRUE, !.broken = gone]
    BY <1>19 DEF SingboxRollback
  <2>2. /\ script'.pc = "restore" /\ script'.rolled /\ script'.broken = gone
        /\ script'.name = script.name /\ script'.before = script.before
        /\ script'.swapped = script.swapped /\ script'.panelFirst = script.panelFirst
        /\ script'.was = script.was /\ script'.started = script.started
        /\ script'.changed = script.changed /\ script'.old = script.old
        /\ script'.had = script.had /\ script'.active = script.active
        /\ script'.edited = script.edited
    BY <1>2, <2>1
  <2>3. script.pc \in {"boxaway", "boxin", "boxstart"} /\ script.name = "install"
    BY <1>1, <1>19 DEF SingboxRollback, Owners, InstallSteps
  <2>4. UNCHANGED <<panel, dirs, dropin, rows, backups, env>>
    BY <1>19 DEF SingboxRollback
  <2>5. Owners'
    BY <2>2, <2>3 DEF Owners, InstallSteps, CleanupSteps, RollbackSteps, UninstallSteps
  <2>6. OriginalKept' /\ BackupsClosed' /\ EnvKnown'
    BY <1>1, <2>2, <2>4 DEF OriginalKept, BackupsClosed, EnvKnown, HasOrig, Whole, RollbackSteps
  <2>7. "panel" \in running => "panel" \in running'
    BY <2>1 DEF RollbackRuntime
  <2>8. FoundByInstall'
    BY <1>1, <2>2, <2>3, <2>4, <2>7 DEF FoundByInstall, Undone, Mounts, InstallSteps
  <2>9. units \ {"box"} \subseteq units' /\ units' \subseteq units \cup {"box"}
    BY <2>1 DEF RollbackRuntime, UnitsLeft
  <2>10. "box" \in running' => "box" \in units'
    BY <2>1 DEF RollbackRuntime
  <2>11. EnteredSoFar' /\ RunningHaveUnits'
    <3>1. running' \subseteq running \cup {"box"}
      BY <2>1 DEF RollbackRuntime
    <3> QED
      BY <1>1, <2>2, <2>3, <2>9, <2>10, <3>1
         DEF EnteredSoFar, RunningHaveUnits, InstallSteps, BoxSteps, Runtimes
  <2>12. RuntimesTold'
    BY <1>1, <2>2, <2>3, <2>4, <2>9 DEF RuntimesTold, EnteredSoFar, BoxSteps, Runtimes
  <2>13. SingboxKnown'
    <3> SUFFICES ASSUME "box" \in script.before.units
                 PROVE  /\ "box" \in units' \/ "unit" \in gone
                        /\ \/ bin' = script.before.bin
                           \/ "bin" \in gone /\ script.old = script.before.bin
                        /\ "box" \in script.before.running /\ bin' # 0 =>
                              "box" \in running' \/ gone \cap {"bin", "unit", "box"} # {}
      BY <1>1, <2>2, <2>3 DEF SingboxKnown, BoxSteps, CleanupSteps, EnteredSoFar
    <3>1. /\ "box" \in units /\ script.had
          /\ "box" \in script.before.running => "box" \in script.active
          /\ IF script.changed THEN script.old = script.before.bin ELSE bin = script.before.bin
      BY <1>1, <2>3 DEF SingboxKnown, BoxSteps, EnteredSoFar, InstallSteps
    <3>2. CASE gone = {}
      BY <2>1, <3>1, <3>2 DEF RollbackRuntime
    <3>3. CASE gone = {"bin"}
      BY <2>1, <3>1, <3>3 DEF RollbackRuntime, UnitsLeft
    <3>4. CASE gone = {"unit"}
      BY <2>1, <3>1, <3>4 DEF RollbackRuntime
    <3>5. CASE gone = {"box"}
      BY <2>1, <3>1, <3>5 DEF RollbackRuntime
    <3> QED
      BY <3>2, <3>3, <3>4, <3>5
  <2> QED
    BY <2>2, <2>3, <2>5, <2>6, <2>8, <2>11, <2>12, <2>13, SilentInstall DEF IInv
<1>20. ASSUME InstallMieru PROVE IInv'
  <2>1. /\ script.name = "install" /\ script'.name = "install"
        /\ script'.before = script.before /\ script'.edited = script.edited
    BY <1>1, <1>2, <1>20
       DEF InstallMieru, Entered, AfterMita, Goto, At, Owners, InstallSteps, RollbackSteps,
           UninstallSteps
  <2>2. Owners'
    BY <1>1, <1>2, <1>20, <2>1
       DEF InstallMieru, Entered, AfterMita, Goto, At, host, Owners, InstallSteps, CleanupSteps,
           RollbackSteps, UninstallSteps
  <2>3. OriginalKept' /\ BackupsClosed'
    BY <1>1, <1>2, <1>20, <2>1
       DEF InstallMieru, Entered, AfterMita, Goto, At, host, OriginalKept, BackupsClosed, HasOrig,
           Whole
  <2>4. EnvKnown'
    BY <1>1, <1>2, <1>20, <2>1
       DEF InstallMieru, Entered, AfterMita, Goto, At, host, EnvKnown, RollbackSteps, NoEnv,
           TornEnv
  <2>5. FoundByInstall'
    BY <1>1, <1>2, <1>20, <2>1
       DEF InstallMieru, Entered, AfterMita, Goto, At, host, FoundByInstall, Undone, Mounts,
           InstallSteps, Whole
  <2>6. EnteredSoFar' /\ RunningHaveUnits'
    BY <1>1, <1>2, <1>20, <2>1
       DEF InstallMieru, Entered, AfterMita, Goto, At, host, EnteredSoFar, RunningHaveUnits,
           InstallSteps,
           BoxSteps, Runtimes
  <2>7. RuntimesTold'
    <3> SUFFICES ASSUME NEW r \in Runtimes
                 PROVE  IF r \in script.before.units \cup script.before.dirs
                        THEN /\ {r} \cap script.before.dirs \subseteq dirs'
                             /\ r \in units' \cup dirs'
                             /\ r \in script'.started => r \in script'.was
                        ELSE panel'.ver # SandboxVer =>
                             /\ r \notin script'.was
                             /\ r \in script'.started \/ r \notin units' \cup dirs'
                             /\ script'.pc = "failed" \/ (script'.pc = "purgemita" /\ r = "box") =>
                                   r \notin units' \cup dirs'
      BY <2>1 DEF RuntimesTold
    <3>1. IF r \in script.before.units \cup script.before.dirs
          THEN /\ {r} \cap script.before.dirs \subseteq dirs
               /\ r \in units \cup dirs
               /\ r \in script.started => r \in script.was
          ELSE panel.ver # SandboxVer =>
               /\ r \notin script.was
               /\ r \in script.started \/ r \notin units \cup dirs
      BY <1>1, <2>1 DEF RuntimesTold

    <3>2. /\ UNCHANGED <<panel, units>> /\ dirs' = dirs \cup {"mita"}
          /\ script'.pc = "mitaunit"
          /\ script'.was = script.was \cup ({"mita"} \cap (units \cup dirs))
          /\ script'.started = script.started \cup {"mita"}
      BY <1>2, <1>20 DEF InstallMieru, Entered
    <3>3. "mita" \notin script.started
      BY <1>1, <1>20 DEF InstallMieru, At, EnteredSoFar
    <3> QED
      BY <3>1, <3>2, <3>3
  <2>8. SingboxKnown'
    BY <1>1, <1>2, <1>20, <2>1
       DEF InstallMieru, Entered, AfterMita, Goto, At, host, SingboxKnown, BoxSteps, CleanupSteps,
           EnteredSoFar, RuntimesTold, Runtimes
  <2> QED
    BY <2>1, <2>2, <2>3, <2>4, <2>5, <2>6, <2>7, <2>8, SilentInstall DEF IInv
<1>21. ASSUME SkipMieru PROVE IInv'
  <2>1. /\ script.name = "install" /\ script'.name = "install"
        /\ script'.before = script.before /\ script'.edited = script.edited
    BY <1>1, <1>2, <1>21
       DEF SkipMieru, AfterMita, Goto, At, Owners, InstallSteps, RollbackSteps, UninstallSteps
  <2>2. Owners'
    BY <1>1, <1>2, <1>21, <2>1
       DEF SkipMieru, AfterMita, Goto, At, host, Owners, InstallSteps, CleanupSteps, RollbackSteps,
           UninstallSteps
  <2>3. OriginalKept' /\ BackupsClosed'
    BY <1>1, <1>2, <1>21, <2>1
       DEF SkipMieru, AfterMita, Goto, At, host, OriginalKept, BackupsClosed, HasOrig, Whole
  <2>4. EnvKnown'
    BY <1>1, <1>2, <1>21, <2>1
       DEF SkipMieru, AfterMita, Goto, At, host, EnvKnown, RollbackSteps, NoEnv, TornEnv
  <2>5. FoundByInstall'
    BY <1>1, <1>2, <1>21, <2>1
       DEF SkipMieru, AfterMita, Goto, At, host, FoundByInstall, Undone, Mounts, InstallSteps,
           Whole
  <2>6. EnteredSoFar' /\ RunningHaveUnits'
    BY <1>1, <1>2, <1>21, <2>1
       DEF SkipMieru, AfterMita, Goto, At, host, EnteredSoFar, RunningHaveUnits, InstallSteps,
           BoxSteps,
           Runtimes
  <2>7. RuntimesTold'
    BY <1>1, <1>2, <1>21, <2>1
       DEF SkipMieru, AfterMita, Goto, At, host, RuntimesTold, BoxSteps, Runtimes, Dirs,
           EnteredSoFar, FoundByInstall
  <2>8. SingboxKnown'
    BY <1>1, <1>2, <1>21, <2>1
       DEF SkipMieru, AfterMita, Goto, At, host, SingboxKnown, BoxSteps, CleanupSteps,
           EnteredSoFar, RuntimesTold, Runtimes
  <2> QED
    BY <2>1, <2>2, <2>3, <2>4, <2>5, <2>6, <2>7, <2>8, SilentInstall DEF IInv
<1>22. ASSUME MieruUnit PROVE IInv'
  <2>1. /\ script.name = "install" /\ script'.name = "install"
        /\ script'.before = script.before /\ script'.edited = script.edited
    BY <1>1, <1>2, <1>22
       DEF MieruUnit, AfterMita, Goto, At, Owners, InstallSteps, RollbackSteps, UninstallSteps
  <2>2. Owners'
    BY <1>1, <1>2, <1>22, <2>1
       DEF MieruUnit, AfterMita, Goto, At, host, Owners, InstallSteps, CleanupSteps, RollbackSteps,
           UninstallSteps
  <2>3. OriginalKept' /\ BackupsClosed'
    BY <1>1, <1>2, <1>22, <2>1
       DEF MieruUnit, AfterMita, Goto, At, host, OriginalKept, BackupsClosed, HasOrig, Whole
  <2>4. EnvKnown'
    BY <1>1, <1>2, <1>22, <2>1
       DEF MieruUnit, AfterMita, Goto, At, host, EnvKnown, RollbackSteps, NoEnv, TornEnv
  <2>5. FoundByInstall'
    BY <1>1, <1>2, <1>22, <2>1
       DEF MieruUnit, AfterMita, Goto, At, host, FoundByInstall, Undone, Mounts, InstallSteps,
           Whole
  <2>6. EnteredSoFar' /\ RunningHaveUnits'
    BY <1>1, <1>2, <1>22, <2>1
       DEF MieruUnit, AfterMita, Goto, At, host, EnteredSoFar, RunningHaveUnits, InstallSteps,
           BoxSteps,
           Runtimes
  <2>7. RuntimesTold'
    BY <1>1, <1>2, <1>22, <2>1
       DEF MieruUnit, AfterMita, Goto, At, host, RuntimesTold, BoxSteps, Runtimes, Dirs,
           EnteredSoFar, FoundByInstall
  <2>8. SingboxKnown'
    BY <1>1, <1>2, <1>22, <2>1
       DEF MieruUnit, AfterMita, Goto, At, host, SingboxKnown, BoxSteps, CleanupSteps,
           EnteredSoFar, RuntimesTold, Runtimes
  <2> QED
    BY <2>1, <2>2, <2>3, <2>4, <2>5, <2>6, <2>7, <2>8, SilentInstall DEF IInv
<1>23. ASSUME InstallFails PROVE IInv'
  <2>1. /\ script.name = "install" /\ script'.name = "install"
        /\ script'.before = script.before /\ script'.edited = script.edited
    BY <1>1, <1>2, <1>23
       DEF InstallFails, Whole, Mounts, Starts, Goto, At, Owners, InstallSteps, RollbackSteps,
           UninstallSteps
  <2>2. Owners'
    BY <1>1, <1>2, <1>23, <2>1
       DEF InstallFails, Whole, Mounts, Starts, Goto, At, host, Owners, InstallSteps, CleanupSteps,
           RollbackSteps, UninstallSteps
  <2>3. OriginalKept' /\ BackupsClosed'
    <3>1. panel'.ver = panel.ver /\ UNCHANGED backups /\ (panel' = panel \/ At("copy"))
      BY <1>1, <1>23 DEF InstallFails, TypeOK, Panels
    <3>2. At("copy") => HasOrig(panel.ver)
      BY <1>1, <2>1, LastBackup, BackupHasOrig DEF At, FoundByInstall, InstallSteps
    <3> QED
      BY <1>1, <3>1, <3>2, SameBackups, KeptIsHasOrig
  <2>4. EnvKnown'
    BY <1>1, <1>2, <1>23, <2>1
       DEF InstallFails, Whole, Mounts, Starts, Goto, At, host, EnvKnown, RollbackSteps, NoEnv,
           TornEnv
  <2>5. FoundByInstall'
    <3>1. panel'.ver = panel.ver /\ (panel' = panel \/ At("copy"))
      BY <1>1, <1>23 DEF InstallFails, TypeOK, Panels
    <3>2. "panel" \in running => "panel" \in running'
      BY <1>23 DEF InstallFails
    <3>3. script.pc \in InstallSteps /\ script'.pc = "restore" /\ script'.swapped = script.swapped
      BY <1>2, <1>23 DEF InstallFails, Goto
    <3>4. UNCHANGED backups
      BY <1>23 DEF InstallFails
    <3> QED
      BY <1>1, <2>1, <3>1, <3>2, <3>3, <3>4 DEF FoundByInstall, At, InstallSteps, Undone, Whole
  <2>6. EnteredSoFar' /\ RunningHaveUnits'
    BY <1>1, <1>2, <1>23, <2>1
       DEF InstallFails, Whole, Mounts, Starts, Goto, At, host, EnteredSoFar, RunningHaveUnits,
           InstallSteps,
           BoxSteps, Runtimes
  <2>7. RuntimesTold'
    <3> SUFFICES ASSUME NEW r \in Runtimes
                 PROVE  IF r \in script.before.units \cup script.before.dirs
                        THEN /\ {r} \cap script.before.dirs \subseteq dirs'
                             /\ r \in units' \cup dirs'
                             /\ r \in script'.started => r \in script'.was
                        ELSE panel'.ver # SandboxVer =>
                             /\ r \notin script'.was
                             /\ r \in script'.started \/ r \notin units' \cup dirs'
                             /\ script'.pc = "failed" \/ (script'.pc = "purgemita" /\ r = "box") =>
                                   r \notin units' \cup dirs'
      BY <2>1 DEF RuntimesTold
    <3>1. IF r \in script.before.units \cup script.before.dirs
          THEN /\ {r} \cap script.before.dirs \subseteq dirs
               /\ r \in units \cup dirs
               /\ r \in script.started => r \in script.was
          ELSE panel.ver # SandboxVer =>
               /\ r \notin script.was
               /\ r \in script.started \/ r \notin units \cup dirs
      BY <1>1, <2>1 DEF RuntimesTold

    <3>2. /\ panel'.ver = panel.ver /\ UNCHANGED <<units, dirs>>
      BY <1>1, <1>23 DEF InstallFails, TypeOK, Panels, host
    <3>3. /\ script'.pc = "restore" /\ script'.was = script.was
          /\ script'.started = script.started
      BY <1>2, <1>23 DEF InstallFails, Goto
    <3> QED
      BY <3>1, <3>2, <3>3
  <2>8. SingboxKnown'
    BY <1>1, <1>2, <1>23, <2>1
       DEF InstallFails, Whole, Mounts, Starts, Goto, At, host, SingboxKnown, BoxSteps,
           CleanupSteps, EnteredSoFar, RuntimesTold, Runtimes
  <2> QED
    BY <2>1, <2>2, <2>3, <2>4, <2>5, <2>6, <2>7, <2>8, SilentInstall DEF IInv
<1>24. ASSUME CleanupRestore PROVE IInv'
  <2>1. PICK gone \in SUBSET {"copy", "panel"} :
           /\ IF script.swapped THEN RestorePanel(gone)
              ELSE gone = {} /\ UNCHANGED <<panel, running>>
           /\ script.broken \cup gone \in SUBSET Repairs
           /\ script' = [script EXCEPT !.pc = "purgebox", !.broken = script.broken \cup gone]
    BY <1>1, <1>24, RestoreIsRepair DEF TypeOK
  <2>2. /\ script'.pc = "purgebox" /\ script'.broken = script.broken \cup gone
        /\ script'.name = script.name /\ script'.before = script.before
        /\ script'.swapped = script.swapped /\ script'.panelFirst = script.panelFirst
        /\ script'.was = script.was /\ script'.started = script.started
        /\ script'.changed = script.changed /\ script'.old = script.old
        /\ script'.rolled = script.rolled /\ script'.edited = script.edited
    BY <1>2, <2>1
  <2>3. script.pc = "restore" /\ script.name = "install"
    BY <1>1, <1>24 DEF CleanupRestore, At, Owners
  <2>4. UNCHANGED <<bin, dirs, units, dropin, rows, backups, env>>
    BY <1>24 DEF CleanupRestore, host
  <2>5. Owners'
    BY <2>2, <2>3 DEF Owners, InstallSteps, CleanupSteps, RollbackSteps, UninstallSteps
  <2>6. ASSUME script.swapped
        PROVE  /\ panel' = script.before.panel \/ "copy" \in gone
               /\ panel'.ver = script.before.panel.ver /\ HasOrig(panel'.ver)
    <3>1. /\ Len(backups) > 0 /\ backups[Len(backups)] = script.before.panel
          /\ panel.ver = script.before.panel.ver
      BY <1>1, <2>3, <2>6 DEF FoundByInstall
    <3>2. HasOrig(script.before.panel.ver)
      BY <1>1, <3>1, LastBackup, BackupHasOrig
    <3>3. [panel EXCEPT !.kind = "torn"].ver = panel.ver
      BY <1>1 DEF TypeOK, Panels
    <3> QED
      BY <2>1, <2>6, <3>1, <3>2, <3>3 DEF RestorePanel
  <2>7. OriginalKept' /\ BackupsClosed'
    BY <1>1, <2>1, <2>4, <2>6, SameBackups, KeptIsHasOrig
  <2>8. EnvKnown'
    BY <1>1, <2>2, <2>4 DEF EnvKnown, RollbackSteps
  <2>9. FoundByInstall'
    <3>1. CASE script.swapped
      <4>1. Whole(script.before.panel)
        BY <1>1, <2>3 DEF FoundByInstall
      <4>2. "panel" \in running' \/ gone # {} \/ ~Mounts
        BY <2>1, <2>6, <3>1, <4>1 DEF RestorePanel, Starts, Mounts
      <4>3. (script.broken \cup gone) \cap {"copy", "panel"} # {} \/ gone = {}
        OBVIOUS
      <4>4. Mounts' = Mounts
        BY <2>4 DEF Mounts
      <4> QED
        BY <1>1, <2>2, <2>3, <2>4, <2>6, <3>1, <4>2, <4>3, <4>4
           DEF FoundByInstall, Undone, InstallSteps
    <3>2. CASE ~script.swapped
      BY <1>1, <2>1, <2>2, <2>3, <2>4, <3>2 DEF FoundByInstall, Undone, InstallSteps
    <3> QED
      BY <3>1, <3>2
  <2>10. running \cap Runtimes \subseteq running' /\ running' \cap Runtimes \subseteq running \cup Usable
    BY <2>1 DEF RestorePanel, ServedBy, Runtimes
  <2>11. EnteredSoFar' /\ RunningHaveUnits'
    BY <1>1, <2>2, <2>4, <2>10
       DEF EnteredSoFar, RunningHaveUnits, InstallSteps, BoxSteps, Runtimes, Usable
  <2>12. RuntimesTold'
    <3>1. script.name = "install" /\ panel'.ver = panel.ver
      BY <1>1, <2>1, <2>3, <2>6 DEF FoundByInstall
    <3> QED
      BY <1>1, <2>2, <2>3, <2>4, <3>1 DEF RuntimesTold, Runtimes
  <2>13. SingboxKnown'
    BY <1>1, <2>2, <2>3, <2>4, <2>10 DEF SingboxKnown, BoxSteps, CleanupSteps, Runtimes
  <2> QED
    BY <2>2, <2>3, <2>5, <2>7, <2>8, <2>9, <2>11, <2>12, <2>13, SilentInstall DEF IInv
<1>25. ASSUME CleanupPurgeSingbox PROVE IInv'
  <2>1. PICK b \in SUBSET Repairs :
           /\ script.broken \subseteq b
           /\ Purged("box", "purgemita") /\ "box" \in units' \cup dirs' => PurgeOf("box") \in b
           /\ b \subseteq script.broken \cup {PurgeOf("box")}
           /\ script' = [script EXCEPT !.pc = "purgemita", !.broken = b]
    BY <1>1, <1>25, PurgeIsRepair DEF CleanupPurgeSingbox, TypeOK, Runtimes, Steps, CleanupSteps
  <2>2. /\ script'.pc = "purgemita" /\ script'.broken = b
        /\ script'.name = script.name /\ script'.before = script.before
        /\ script'.swapped = script.swapped /\ script'.panelFirst = script.panelFirst
        /\ script'.was = script.was /\ script'.started = script.started
        /\ script'.changed = script.changed /\ script'.old = script.old
        /\ script'.rolled = script.rolled /\ script'.edited = script.edited
    BY <1>2, <2>1
  <2>3. script.pc = "purgebox" /\ script.name = "install"
    BY <1>1, <1>25 DEF CleanupPurgeSingbox, At, Owners
  <2>4. /\ UNCHANGED <<panel, dropin, rows, backups, env>>
        /\ dirs' \subseteq dirs /\ dirs \ {"box", "certs"} \subseteq dirs'
        /\ units' \subseteq units /\ units \ {"box"} \subseteq units'
        /\ running' \in {running, running \ {"box"}}
        /\ "box" \notin units' => units' = units \/ running' = running \ {"box"}
        /\ ~Introduced("box") => UNCHANGED <<bin, dirs, units, running>>
    BY <1>25 DEF CleanupPurgeSingbox, PurgeSingbox
  <2>5. Owners'
    BY <2>2, <2>3 DEF Owners, InstallSteps, CleanupSteps, RollbackSteps, UninstallSteps
  <2>6. OriginalKept' /\ BackupsClosed' /\ EnvKnown'
    BY <1>1, <2>2, <2>4 DEF OriginalKept, BackupsClosed, EnvKnown, HasOrig, Whole, RollbackSteps
  <2>7. FoundByInstall'
    <3>1. "panel" \in running => "panel" \in running'
      BY <2>4
    <3>2. ~Mounts => ~Mounts'
      BY <2>4 DEF Mounts
    <3>3. b \cap {"copy", "panel"} = script.broken \cap {"copy", "panel"}
      BY <2>1 DEF PurgeOf
    <3> QED
      BY <1>1, <2>1, <2>2, <2>3, <2>4, <3>1, <3>2, <3>3 DEF FoundByInstall, Undone, InstallSteps
  <2>8. EnteredSoFar' /\ RunningHaveUnits'
    BY <1>1, <2>2, <2>4 DEF EnteredSoFar, RunningHaveUnits, InstallSteps, BoxSteps, Runtimes
  <2>9. RuntimesTold'
    <3> SUFFICES ASSUME NEW q \in Runtimes
                 PROVE
          IF q \in script.before.units \cup script.before.dirs
          THEN /\ {q} \cap script.before.dirs \subseteq dirs'
               /\ q \in units' \cup dirs'
               /\ q \in script.started => q \in script.was
          ELSE panel.ver # SandboxVer =>
               /\ q \notin script.was
               /\ q \in script.started \/ q \notin units' \cup dirs'
               /\ q = "box" => q \notin units' \cup dirs' \/ PurgeOf(q) \in b
      BY <2>2, <2>3, <2>4 DEF RuntimesTold
    <3>1. IF q \in script.before.units \cup script.before.dirs
          THEN /\ {q} \cap script.before.dirs \subseteq dirs
               /\ q \in units \cup dirs
               /\ q \in script.started => q \in script.was
          ELSE panel.ver # SandboxVer =>
               /\ q \notin script.was
               /\ q \in script.started \/ q \notin units \cup dirs
      BY <1>1, <2>3 DEF RuntimesTold
    <3>2. CASE q = "mita"
      BY <2>4, <3>1, <3>2
    <3>3. CASE q = "box" /\ ~Introduced("box")
      BY <2>4, <3>1, <3>3 DEF Introduced
    <3>4. CASE q = "box" /\ Introduced("box")
      <4>1. Purged("box", "purgemita")
        BY <1>25, <3>4 DEF CleanupPurgeSingbox
      <4> QED
        BY <2>1, <2>4, <3>1, <3>4, <4>1 DEF Introduced
    <3> QED
      BY <3>2, <3>3, <3>4 DEF Runtimes
  <2>10. SingboxKnown'
    <3> SUFFICES ASSUME "box" \in script.before.units PROVE SingboxKnown'
      BY <2>2 DEF SingboxKnown
    <3>1. UNCHANGED <<bin, dirs, units, running>>
      BY <1>1, <2>3, <2>4 DEF RuntimesTold, Introduced, Runtimes
    <3> QED
      BY <1>1, <2>1, <2>2, <2>3, <3>1 DEF SingboxKnown, BoxSteps, CleanupSteps
  <2> QED
    BY <2>2, <2>3, <2>5, <2>6, <2>7, <2>8, <2>9, <2>10, SilentInstall DEF IInv
<1>26. ASSUME CleanupPurgeMieru PROVE IInv'
  <2>1. PICK b \in SUBSET Repairs :
           /\ script.broken \subseteq b
           /\ Purged("mita", "failed") /\ "mita" \in units' \cup dirs' => PurgeOf("mita") \in b
           /\ b \subseteq script.broken \cup {PurgeOf("mita")}
           /\ script' = [script EXCEPT !.pc = "failed", !.broken = b]
    BY <1>1, <1>26, PurgeIsRepair DEF CleanupPurgeMieru, TypeOK, Runtimes, Steps, CleanupSteps
  <2>2. /\ script'.pc = "failed" /\ script'.broken = b
        /\ script'.name = script.name /\ script'.before = script.before
        /\ script'.swapped = script.swapped /\ script'.panelFirst = script.panelFirst
        /\ script'.was = script.was /\ script'.started = script.started
        /\ script'.changed = script.changed /\ script'.old = script.old
        /\ script'.rolled = script.rolled /\ script'.edited = script.edited
    BY <1>2, <2>1
  <2>3. script.pc = "purgemita" /\ script.name = "install"
    BY <1>1, <1>26 DEF CleanupPurgeMieru, At, Owners
  <2>4. /\ UNCHANGED <<panel, bin, dropin, rows, backups, env>>
        /\ dirs' \subseteq dirs /\ dirs \ {"mita"} \subseteq dirs'
        /\ units' \subseteq units /\ units \ {"mita"} \subseteq units'
        /\ running' \in {running, running \ {"mita"}}
        /\ "mita" \notin units' => units' = units \/ running' = running \ {"mita"}
        /\ ~Introduced("mita") => UNCHANGED <<dirs, units, running>>
    BY <1>26 DEF CleanupPurgeMieru, PurgeMieru
  <2>5. Owners'
    BY <2>2, <2>3 DEF Owners, InstallSteps, CleanupSteps, RollbackSteps, UninstallSteps
  <2>6. OriginalKept' /\ BackupsClosed' /\ EnvKnown'
    BY <1>1, <2>2, <2>4 DEF OriginalKept, BackupsClosed, EnvKnown, HasOrig, Whole, RollbackSteps
  <2>7. FoundByInstall'
    <3>1. "panel" \in running => "panel" \in running'
      BY <2>4
    <3>2. ~Mounts => ~Mounts'
      BY <2>4 DEF Mounts
    <3>3. b \cap {"copy", "panel"} = script.broken \cap {"copy", "panel"}
      BY <2>1 DEF PurgeOf
    <3> QED
      BY <1>1, <2>1, <2>2, <2>3, <2>4, <3>1, <3>2, <3>3 DEF FoundByInstall, Undone, InstallSteps
  <2>8. EnteredSoFar' /\ RunningHaveUnits'
    BY <1>1, <2>2, <2>4 DEF EnteredSoFar, RunningHaveUnits, InstallSteps, BoxSteps, Runtimes
  <2>9. RuntimesTold'
    <3> SUFFICES ASSUME NEW q \in Runtimes
                 PROVE
          IF q \in script.before.units \cup script.before.dirs
          THEN /\ {q} \cap script.before.dirs \subseteq dirs'
               /\ q \in units' \cup dirs'
               /\ q \in script.started => q \in script.was
          ELSE panel.ver # SandboxVer =>
               /\ q \notin script.was
               /\ q \in script.started \/ q \notin units' \cup dirs'
               /\ q \notin units' \cup dirs' \/ PurgeOf(q) \in b
      BY <2>2, <2>3, <2>4 DEF RuntimesTold
    <3>1. IF q \in script.before.units \cup script.before.dirs
          THEN /\ {q} \cap script.before.dirs \subseteq dirs
               /\ q \in units \cup dirs
               /\ q \in script.started => q \in script.was
          ELSE panel.ver # SandboxVer =>
               /\ q \notin script.was
               /\ q \in script.started \/ q \notin units \cup dirs
               /\ q = "box" => q \notin units \cup dirs \/ PurgeOf(q) \in script.broken
      BY <1>1, <2>3 DEF RuntimesTold
    <3>2. CASE q = "box"
      BY <2>1, <2>4, <3>1, <3>2
    <3>3. CASE q = "mita" /\ ~Introduced("mita")
      BY <2>4, <3>1, <3>3 DEF Introduced
    <3>4. CASE q = "mita" /\ Introduced("mita")
      <4>1. Purged("mita", "failed")
        BY <1>26, <3>4 DEF CleanupPurgeMieru
      <4> QED
        BY <2>1, <2>4, <3>1, <3>4, <4>1 DEF Introduced
    <3> QED
      BY <3>2, <3>3, <3>4 DEF Runtimes
  <2>10. SingboxKnown'
    BY <1>1, <2>1, <2>2, <2>3, <2>4 DEF SingboxKnown, BoxSteps, CleanupSteps
  <2> QED
    BY <2>2, <2>3, <2>5, <2>6, <2>7, <2>8, <2>9, <2>10, SilentInstall DEF IInv
<1> QED
  BY <1>3, <1>4, <1>5, <1>6, <1>7, <1>8, <1>9, <1>10, <1>11, <1>12, <1>13, <1>14, <1>15, <1>16,
     <1>17, <1>18, <1>19, <1>20, <1>21, <1>22, <1>23, <1>24, <1>25, <1>26
     DEF InstallNext, ActivateNext, SingboxNext, MieruNext, CleanupNext

(* rollback.sh. *)
LEMMA RollbackStep ==
    ASSUME IInv, TypeOK', RollbackNext
    PROVE  IInv'
<1>1. /\ TypeOK /\ OriginalKept /\ Owners /\ BackupsClosed /\ EnvKnown
      /\ FoundByInstall /\ FoundByUninstall /\ UninstallProgress /\ RollbackProgress
      /\ EnteredSoFar /\ RunningHaveUnits /\ RuntimesTold /\ SingboxKnown
      /\ UninstallLeavesOnlyDropin /\ FailedUninstallKeepsAll
  BY DEF IInv
<1>2. DOMAIN script = {"name", "pc", "skip", "panelFirst", "swapped", "was", "started",
                       "active", "had", "changed", "old", "rolled", "edited", "broken", "before"}
  BY <1>1, ScriptFields DEF TypeOK
<1>3. ASSUME NEW purge \in SUBSET Runtimes, BeginRollback(purge) PROVE IInv'
  <2>1. script'.name = "rollback"
    BY <1>3 DEF BeginRollback, Idle
  <2>2. Owners'
    BY <1>1, <1>2, <1>3, <2>1
       DEF BeginRollback, Idle, Goto, At, host, Owners, InstallSteps, CleanupSteps, RollbackSteps,
           UninstallSteps
  <2>3. OriginalKept' /\ BackupsClosed'
    BY <1>1, <1>2, <1>3, <2>1
       DEF BeginRollback, Idle, Goto, At, host, OriginalKept, BackupsClosed, HasOrig, Whole
  <2>4. EnvKnown'
    BY <1>1, <1>2, <1>3, <2>1
       DEF BeginRollback, Idle, Goto, At, host, EnvKnown, RollbackSteps, NoEnv, TornEnv
  <2>5. EnteredSoFar' /\ RunningHaveUnits'
    BY <1>1, <1>2, <1>3, <2>1
       DEF BeginRollback, Idle, Goto, At, host, EnteredSoFar, RunningHaveUnits, InstallSteps,
           BoxSteps, Runtimes
  <2>6. RollbackProgress'
    BY <1>1, <1>2, <1>3, <2>1 DEF BeginRollback, Idle, Goto, At, host, RollbackProgress
  <2> QED
    BY <2>1, <2>2, <2>3, <2>4, <2>5, <2>6, SilentRollback DEF IInv
<1>4. ASSUME RollbackMieru PROVE IInv'
  <2>1. /\ script.name = "rollback" /\ script'.name = "rollback"
        /\ script'.before = script.before /\ script'.edited = script.edited
    BY <1>1, <1>2, <1>4
       DEF RollbackMieru, Goto, At, Owners, InstallSteps, RollbackSteps, UninstallSteps
  <2>2. Owners'
    BY <1>1, <1>2, <1>4, <2>1
       DEF RollbackMieru, Goto, At, host, Owners, InstallSteps, CleanupSteps, RollbackSteps,
           UninstallSteps
  <2>3. OriginalKept' /\ BackupsClosed'
    BY <1>1, <1>2, <1>4, <2>1
       DEF RollbackMieru, Goto, At, host, OriginalKept, BackupsClosed, HasOrig, Whole
  <2>4. EnvKnown'
    BY <1>1, <1>2, <1>4, <2>1
       DEF RollbackMieru, Goto, At, host, EnvKnown, RollbackSteps, NoEnv, TornEnv
  <2>5. EnteredSoFar' /\ RunningHaveUnits'
    <3>1. /\ units' \in {units, units \ {"mita"}} /\ running' = running \ {"mita"}
          /\ script'.pc = "rbstop"
          /\ script'.started = script.started /\ script'.changed = script.changed
      BY <1>2, <1>4 DEF RollbackMieru, PurgeMieru, Goto
    <3> QED
      BY <1>1, <3>1 DEF EnteredSoFar, RunningHaveUnits, InstallSteps, BoxSteps, Runtimes
  <2>6. RollbackProgress'
    BY <1>1, <1>2, <1>4, <2>1 DEF RollbackMieru, Goto, At, host, RollbackProgress
  <2> QED
    BY <2>1, <2>2, <2>3, <2>4, <2>5, <2>6, SilentRollback DEF IInv
<1>5. ASSUME RollbackStop PROVE IInv'
  <2>1. /\ script.name = "rollback" /\ script'.name = "rollback"
        /\ script'.before = script.before /\ script'.edited = script.edited
    BY <1>1, <1>2, <1>5
       DEF RollbackStop, Goto, At, Owners, InstallSteps, RollbackSteps, UninstallSteps
  <2>2. Owners'
    BY <1>1, <1>2, <1>5, <2>1
       DEF RollbackStop, Goto, At, host, Owners, InstallSteps, CleanupSteps, RollbackSteps,
           UninstallSteps
  <2>3. OriginalKept' /\ BackupsClosed'
    BY <1>1, <1>2, <1>5, <2>1
       DEF RollbackStop, Goto, At, host, OriginalKept, BackupsClosed, HasOrig, Whole
  <2>4. EnvKnown'
    BY <1>1, <1>2, <1>5, <2>1
       DEF RollbackStop, Goto, At, host, EnvKnown, RollbackSteps, NoEnv, TornEnv
  <2>5. EnteredSoFar' /\ RunningHaveUnits'
    BY <1>1, <1>2, <1>5, <2>1
       DEF RollbackStop, Goto, At, host, EnteredSoFar, RunningHaveUnits, InstallSteps, BoxSteps,
           Runtimes
  <2>6. RollbackProgress'
    BY <1>1, <1>2, <1>5, <2>1 DEF RollbackStop, Goto, At, host, RollbackProgress
  <2> QED
    BY <2>1, <2>2, <2>3, <2>4, <2>5, <2>6, SilentRollback DEF IInv
<1>6. ASSUME RollbackCopy PROVE IInv'
  <2>1. /\ script.name = "rollback" /\ script'.name = "rollback"
        /\ script'.before = script.before /\ script'.edited = script.edited
    BY <1>1, <1>2, <1>6
       DEF RollbackCopy, Goto, At, Owners, InstallSteps, RollbackSteps, UninstallSteps
  <2>2. Owners'
    BY <1>1, <1>2, <1>6, <2>1
       DEF RollbackCopy, Goto, At, host, Owners, InstallSteps, CleanupSteps, RollbackSteps,
           UninstallSteps
  <2>3. OriginalKept' /\ BackupsClosed'
    <3>1. panel' = backups[env] /\ UNCHANGED backups /\ env \in 1..Len(backups)
      BY <1>1, <1>6 DEF RollbackCopy, At, EnvKnown, RollbackSteps
    <3> QED
      BY <1>1, <3>1, BackupHasOrig, SameBackups
  <2>4. EnvKnown'
    BY <1>1, <1>2, <1>6, <2>1
       DEF RollbackCopy, Goto, At, host, EnvKnown, RollbackSteps, NoEnv, TornEnv
  <2>5. EnteredSoFar' /\ RunningHaveUnits'
    BY <1>1, <1>2, <1>6, <2>1
       DEF RollbackCopy, Goto, At, host, EnteredSoFar, RunningHaveUnits, InstallSteps, BoxSteps,
           Runtimes
  <2>6. RollbackProgress'
    BY <1>1, <1>2, <1>6, <2>1 DEF RollbackCopy, Goto, At, host, RollbackProgress
  <2> QED
    BY <2>1, <2>2, <2>3, <2>4, <2>5, <2>6, SilentRollback DEF IInv
<1>7. ASSUME RollbackStart PROVE IInv'
  <2>1. /\ script.name = "rollback" /\ script'.name = "rollback"
        /\ script'.before = script.before /\ script'.edited = script.edited
    BY <1>1, <1>2, <1>7
       DEF RollbackStart, ServedBy, Usable, Whole, Mounts, Starts, Goto, At, Owners, InstallSteps,
           RollbackSteps, UninstallSteps
  <2>2. Owners'
    BY <1>1, <1>2, <1>7, <2>1
       DEF RollbackStart, ServedBy, Usable, Whole, Mounts, Starts, Goto, At, host, Owners,
           InstallSteps, CleanupSteps, RollbackSteps, UninstallSteps
  <2>3. OriginalKept' /\ BackupsClosed'
    BY <1>1, <1>2, <1>7, <2>1
       DEF RollbackStart, ServedBy, Usable, Whole, Mounts, Starts, Goto, At, host, OriginalKept,
           BackupsClosed, HasOrig, Whole
  <2>4. EnvKnown'
    BY <1>1, <1>2, <1>7, <2>1
       DEF RollbackStart, ServedBy, Usable, Whole, Mounts, Starts, Goto, At, host, EnvKnown,
           RollbackSteps, NoEnv, TornEnv
  <2>5. EnteredSoFar' /\ RunningHaveUnits'
    BY <1>1, <1>2, <1>7, <2>1
       DEF RollbackStart, ServedBy, Usable, Whole, Mounts, Starts, Goto, At, host, EnteredSoFar,
           RunningHaveUnits, InstallSteps, BoxSteps, Runtimes
  <2>6. RollbackProgress'
    BY <1>1, <1>2, <1>7, <2>1
       DEF RollbackStart, ServedBy, Usable, Whole, Mounts, Starts, Goto, At, host,
           RollbackProgress
  <2> QED
    BY <2>1, <2>2, <2>3, <2>4, <2>5, <2>6, SilentRollback DEF IInv
<1>8. ASSUME RollbackSingbox PROVE IInv'
  <2>1. /\ script.name = "rollback" /\ script'.name = "rollback"
        /\ script'.before = script.before /\ script'.edited = script.edited
    BY <1>1, <1>2, <1>8
       DEF RollbackSingbox, Goto, At, Owners, InstallSteps, RollbackSteps, UninstallSteps
  <2>2. Owners'
    BY <1>1, <1>2, <1>8, <2>1
       DEF RollbackSingbox, Goto, At, host, Owners, InstallSteps, CleanupSteps, RollbackSteps,
           UninstallSteps
  <2>3. OriginalKept' /\ BackupsClosed'
    BY <1>1, <1>2, <1>8, <2>1
       DEF RollbackSingbox, Goto, At, host, OriginalKept, BackupsClosed, HasOrig, Whole
  <2>4. EnvKnown'
    BY <1>1, <1>2, <1>8, <2>1
       DEF RollbackSingbox, Goto, At, host, EnvKnown, RollbackSteps, NoEnv, TornEnv
  <2>5. EnteredSoFar' /\ RunningHaveUnits'
    BY <1>1, <1>2, <1>8, <2>1
       DEF RollbackSingbox, Goto, At, host, EnteredSoFar, RunningHaveUnits, InstallSteps,
           BoxSteps, Runtimes
  <2>6. RollbackProgress'
    BY <1>1, <1>2, <1>8, <2>1 DEF RollbackSingbox, Goto, At, host, RollbackProgress
  <2> QED
    BY <2>1, <2>2, <2>3, <2>4, <2>5, <2>6, SilentRollback DEF IInv
<1>9. ASSUME RollbackState PROVE IInv'
  <2>1. /\ script.name = "rollback" /\ script'.name = "rollback"
        /\ script'.before = script.before /\ script'.edited = script.edited
    BY <1>1, <1>2, <1>9
       DEF RollbackState, Goto, At, Owners, InstallSteps, RollbackSteps, UninstallSteps
  <2>2. Owners'
    BY <1>1, <1>2, <1>9, <2>1
       DEF RollbackState, Goto, At, host, Owners, InstallSteps, CleanupSteps, RollbackSteps,
           UninstallSteps
  <2>3. OriginalKept' /\ BackupsClosed'
    BY <1>1, <1>2, <1>9, <2>1
       DEF RollbackState, Goto, At, host, OriginalKept, BackupsClosed, HasOrig, Whole
  <2>4. EnvKnown'
    BY <1>1, <1>2, <1>9, <2>1
       DEF RollbackState, Goto, At, host, EnvKnown, RollbackSteps, NoEnv, TornEnv
  <2>5. EnteredSoFar' /\ RunningHaveUnits'
    BY <1>1, <1>2, <1>9, <2>1
       DEF RollbackState, Goto, At, host, EnteredSoFar, RunningHaveUnits, InstallSteps, BoxSteps,
           Runtimes
  <2>6. RollbackProgress'
    BY <1>1, <1>2, <1>9, <2>1 DEF RollbackState, Goto, At, host, RollbackProgress
  <2> QED
    BY <2>1, <2>2, <2>3, <2>4, <2>5, <2>6, SilentRollback DEF IInv
<1> QED
  BY <1>3, <1>4, <1>5, <1>6, <1>7, <1>8, <1>9 DEF RollbackNext

(* uninstall.sh. *)
LEMMA UninstallStep ==
    ASSUME IInv, TypeOK', UninstallNext
    PROVE  IInv'
<1>1. /\ TypeOK /\ OriginalKept /\ Owners /\ BackupsClosed /\ EnvKnown
      /\ FoundByInstall /\ FoundByUninstall /\ UninstallProgress /\ RollbackProgress
      /\ EnteredSoFar /\ RunningHaveUnits /\ RuntimesTold /\ SingboxKnown
      /\ UninstallLeavesOnlyDropin /\ FailedUninstallKeepsAll
  BY DEF IInv
<1>2. DOMAIN script = {"name", "pc", "skip", "panelFirst", "swapped", "was", "started",
                       "active", "had", "changed", "old", "rolled", "edited", "broken", "before"}
  BY <1>1, ScriptFields DEF TypeOK
<1>3. ASSUME BeginUninstall PROVE IInv'
  <2>1. script'.name = "uninstall"
    BY <1>3 DEF BeginUninstall, Idle, Whole
  <2>2. Owners'
    BY <1>1, <1>2, <1>3, <2>1
       DEF BeginUninstall, Idle, Whole, Goto, At, host, Owners, InstallSteps, CleanupSteps,
           RollbackSteps, UninstallSteps
  <2>3. OriginalKept' /\ BackupsClosed'
    BY <1>1, <1>2, <1>3, <2>1
       DEF BeginUninstall, Idle, Whole, Goto, At, host, OriginalKept, BackupsClosed, HasOrig,
           Whole
  <2>4. EnvKnown'
    BY <1>1, <1>2, <1>3, <2>1
       DEF BeginUninstall, Idle, Whole, Goto, At, host, EnvKnown, RollbackSteps, NoEnv, TornEnv
  <2>5. EnteredSoFar' /\ RunningHaveUnits'
    BY <1>1, <1>2, <1>3, <2>1
       DEF BeginUninstall, Idle, Whole, Goto, At, host, EnteredSoFar, RunningHaveUnits,
           InstallSteps, BoxSteps,
           Runtimes
  <2>6. FoundByUninstall'
    <3>1. /\ script'.pc = "unrecord" /\ script'.edited = FALSE
          /\ script'.before = [panel |-> panel, bin |-> bin, dirs |-> dirs,
                               units |-> units, running |-> running, dropin |-> dropin]
      BY <1>3 DEF BeginUninstall, Idle
    <3>2. /\ rows = {} /\ Whole(panel)
          /\ UNCHANGED <<panel, running, rows, backups, bin, dirs, units, dropin>>
      BY <1>3 DEF BeginUninstall, host
    <3>3. panel.kind = "patched" => HasOrig(panel.ver)
      BY <1>1, KeptIsHasOrig
    <3> QED
      BY <3>1, <3>2, <3>3 DEF FoundByUninstall, BeforeRemoval, HasOrig, Whole
  <2>7. UninstallProgress'
    BY <1>1, <1>2, <1>3, <2>1
       DEF BeginUninstall, Idle, Whole, Goto, At, host, UninstallProgress, OfficialRuns,
           FoundByUninstall, RunningHaveUnits, Dirs, Runtimes, NoEnv
  <2>8. UninstallLeavesOnlyDropin' /\ FailedUninstallKeepsAll'
    BY <1>1, <1>2, <1>3, <2>1
       DEF BeginUninstall, Idle, Whole, Goto, At, host, UninstallLeavesOnlyDropin,
           FailedUninstallKeepsAll, UninstallProgress, OfficialRuns, FoundByUninstall,
           BeforeRemoval, Mounts, Starts, Usable, Runtimes
  <2> QED
    BY <2>1, <2>2, <2>3, <2>4, <2>5, <2>6, <2>7, <2>8, SilentUninstall DEF IInv
<1>4. ASSUME UninstallRecord PROVE IInv'
  <2>1. /\ script.name = "uninstall" /\ script'.name = "uninstall"
        /\ script'.before = script.before /\ script'.edited = script.edited
    BY <1>1, <1>2, <1>4
       DEF UninstallRecord, Goto, At, Owners, InstallSteps, RollbackSteps, UninstallSteps
  <2>2. Owners'
    BY <1>1, <1>2, <1>4, <2>1
       DEF UninstallRecord, Goto, At, host, Owners, InstallSteps, CleanupSteps, RollbackSteps,
           UninstallSteps
  <2>3. OriginalKept' /\ BackupsClosed'
    BY <1>1, <1>2, <1>4, <2>1
       DEF UninstallRecord, Goto, At, host, OriginalKept, BackupsClosed, HasOrig, Whole
  <2>4. EnvKnown'
    BY <1>1, <1>2, <1>4, <2>1
       DEF UninstallRecord, Goto, At, host, EnvKnown, RollbackSteps, NoEnv, TornEnv
  <2>5. EnteredSoFar' /\ RunningHaveUnits'
    BY <1>1, <1>2, <1>4, <2>1
       DEF UninstallRecord, Goto, At, host, EnteredSoFar, RunningHaveUnits, InstallSteps,
           BoxSteps, Runtimes
  <2>6. FoundByUninstall'
    BY <1>1, <1>2, <1>4, <2>1
       DEF UninstallRecord, Goto, At, host, FoundByUninstall, BeforeRemoval, HasOrig, Whole,
           Runtimes
  <2>7. UninstallProgress'
    BY <1>1, <1>2, <1>4, <2>1
       DEF UninstallRecord, Goto, At, host, UninstallProgress, OfficialRuns, FoundByUninstall,
           RunningHaveUnits, Dirs, Runtimes, NoEnv
  <2>8. UninstallLeavesOnlyDropin' /\ FailedUninstallKeepsAll'
    BY <1>1, <1>2, <1>4, <2>1
       DEF UninstallRecord, Goto, At, host, UninstallLeavesOnlyDropin, FailedUninstallKeepsAll,
           UninstallProgress, OfficialRuns, FoundByUninstall, BeforeRemoval, Mounts, Starts,
           Usable, Runtimes
  <2> QED
    BY <2>1, <2>2, <2>3, <2>4, <2>5, <2>6, <2>7, <2>8, SilentUninstall DEF IInv
<1>5. ASSUME UninstallStop PROVE IInv'
  <2>1. /\ script.name = "uninstall" /\ script'.name = "uninstall"
        /\ script'.before = script.before /\ script'.edited = script.edited
    BY <1>1, <1>2, <1>5
       DEF UninstallStop, Goto, At, Owners, InstallSteps, RollbackSteps, UninstallSteps
  <2>2. Owners'
    BY <1>1, <1>2, <1>5, <2>1
       DEF UninstallStop, Goto, At, host, Owners, InstallSteps, CleanupSteps, RollbackSteps,
           UninstallSteps
  <2>3. OriginalKept' /\ BackupsClosed'
    BY <1>1, <1>2, <1>5, <2>1
       DEF UninstallStop, Goto, At, host, OriginalKept, BackupsClosed, HasOrig, Whole
  <2>4. EnvKnown'
    BY <1>1, <1>2, <1>5, <2>1
       DEF UninstallStop, Goto, At, host, EnvKnown, RollbackSteps, NoEnv, TornEnv
  <2>5. EnteredSoFar' /\ RunningHaveUnits'
    BY <1>1, <1>2, <1>5, <2>1
       DEF UninstallStop, Goto, At, host, EnteredSoFar, RunningHaveUnits, InstallSteps, BoxSteps,
           Runtimes
  <2>6. FoundByUninstall'
    BY <1>1, <1>2, <1>5, <2>1
       DEF UninstallStop, Goto, At, host, FoundByUninstall, BeforeRemoval, HasOrig, Whole,
           Runtimes
  <2>7. UninstallProgress'
    BY <1>1, <1>2, <1>5, <2>1
       DEF UninstallStop, Goto, At, host, UninstallProgress, OfficialRuns, FoundByUninstall,
           RunningHaveUnits, Dirs, Runtimes, NoEnv
  <2>8. UninstallLeavesOnlyDropin' /\ FailedUninstallKeepsAll'
    BY <1>1, <1>2, <1>5, <2>1
       DEF UninstallStop, Goto, At, host, UninstallLeavesOnlyDropin, FailedUninstallKeepsAll,
           UninstallProgress, OfficialRuns, FoundByUninstall, BeforeRemoval, Mounts, Starts,
           Usable, Runtimes
  <2> QED
    BY <2>1, <2>2, <2>3, <2>4, <2>5, <2>6, <2>7, <2>8, SilentUninstall DEF IInv
<1>6. ASSUME UninstallCopy PROVE IInv'
  <2>1. /\ script.name = "uninstall" /\ script'.name = "uninstall"
        /\ script'.before = script.before /\ script'.edited = script.edited
    BY <1>1, <1>2, <1>6
       DEF UninstallCopy, Goto, At, Owners, InstallSteps, RollbackSteps, UninstallSteps
  <2>2. Owners'
    BY <1>1, <1>2, <1>6, <2>1
       DEF UninstallCopy, Goto, At, host, Owners, InstallSteps, CleanupSteps, RollbackSteps,
           UninstallSteps
  <2>3. OriginalKept' /\ BackupsClosed'
    BY <1>1, <1>2, <1>6, <2>1
       DEF UninstallCopy, Goto, At, host, OriginalKept, BackupsClosed, HasOrig, Whole
  <2>4. EnvKnown'
    BY <1>1, <1>2, <1>6, <2>1
       DEF UninstallCopy, Goto, At, host, EnvKnown, RollbackSteps, NoEnv, TornEnv
  <2>5. EnteredSoFar' /\ RunningHaveUnits'
    BY <1>1, <1>2, <1>6, <2>1
       DEF UninstallCopy, Goto, At, host, EnteredSoFar, RunningHaveUnits, InstallSteps, BoxSteps,
           Runtimes
  <2>6. FoundByUninstall'
    BY <1>1, <1>2, <1>6, <2>1
       DEF UninstallCopy, Goto, At, host, FoundByUninstall, BeforeRemoval, HasOrig, Whole,
           Runtimes
  <2>7. UninstallProgress'
    BY <1>1, <1>2, <1>6, <2>1
       DEF UninstallCopy, Goto, At, host, UninstallProgress, OfficialRuns, FoundByUninstall,
           RunningHaveUnits, Dirs, Runtimes, NoEnv
  <2>8. UninstallLeavesOnlyDropin' /\ FailedUninstallKeepsAll'
    BY <1>1, <1>2, <1>6, <2>1
       DEF UninstallCopy, Goto, At, host, UninstallLeavesOnlyDropin, FailedUninstallKeepsAll,
           UninstallProgress, OfficialRuns, FoundByUninstall, BeforeRemoval, Mounts, Starts,
           Usable, Runtimes
  <2> QED
    BY <2>1, <2>2, <2>3, <2>4, <2>5, <2>6, <2>7, <2>8, SilentUninstall DEF IInv
<1>7. ASSUME UninstallStart PROVE IInv'
  <2>1. /\ script.name = "uninstall" /\ script'.name = "uninstall"
        /\ script'.before = script.before /\ script'.edited = script.edited
    BY <1>1, <1>2, <1>7
       DEF UninstallStart, Whole, Mounts, Starts, Goto, At, Owners, InstallSteps, RollbackSteps,
           UninstallSteps
  <2>2. Owners'
    BY <1>1, <1>2, <1>7, <2>1
       DEF UninstallStart, Whole, Mounts, Starts, Goto, At, host, Owners, InstallSteps,
           CleanupSteps, RollbackSteps, UninstallSteps
  <2>3. OriginalKept' /\ BackupsClosed'
    BY <1>1, <1>2, <1>7, <2>1
       DEF UninstallStart, Whole, Mounts, Starts, Goto, At, host, OriginalKept, BackupsClosed,
           HasOrig, Whole
  <2>4. EnvKnown'
    BY <1>1, <1>2, <1>7, <2>1
       DEF UninstallStart, Whole, Mounts, Starts, Goto, At, host, EnvKnown, RollbackSteps, NoEnv,
           TornEnv
  <2>5. EnteredSoFar' /\ RunningHaveUnits'
    BY <1>1, <1>2, <1>7, <2>1
       DEF UninstallStart, Whole, Mounts, Starts, Goto, At, host, EnteredSoFar, RunningHaveUnits,
           InstallSteps,
           BoxSteps, Runtimes
  <2>6. FoundByUninstall'
    BY <1>1, <1>2, <1>7, <2>1
       DEF UninstallStart, Whole, Mounts, Starts, Goto, At, host, FoundByUninstall, BeforeRemoval,
           HasOrig, Whole, Runtimes
  <2>7. UninstallProgress'
    BY <1>1, <1>2, <1>7, <2>1
       DEF UninstallStart, Whole, Mounts, Starts, Goto, At, host, UninstallProgress, OfficialRuns,
           FoundByUninstall, RunningHaveUnits, Dirs, Runtimes, NoEnv
  <2>8. UninstallLeavesOnlyDropin' /\ FailedUninstallKeepsAll'
    BY <1>1, <1>2, <1>7, <2>1
       DEF UninstallStart, Whole, Mounts, Starts, Goto, At, host, UninstallLeavesOnlyDropin,
           FailedUninstallKeepsAll, UninstallProgress, OfficialRuns, FoundByUninstall,
           BeforeRemoval, Mounts, Starts, Usable, Runtimes
  <2> QED
    BY <2>1, <2>2, <2>3, <2>4, <2>5, <2>6, <2>7, <2>8, SilentUninstall DEF IInv
<1>8. ASSUME UninstallBack PROVE IInv'
  <2>1. PICK gone \in {{"copy"}} \cup SUBSET ({"panel"} \cup script.active) :
           /\ IF "copy" \in gone THEN panel' \in {panel, FoundTorn} /\ UNCHANGED running
              ELSE panel' = script.before.panel /\ StartAgain(gone)
           /\ script' = [script EXCEPT !.pc = "failed", !.broken = gone]
    BY <1>8 DEF UninstallBack
  <2>2. /\ script'.pc = "failed" /\ script'.broken = gone
        /\ script'.name = script.name /\ script'.before = script.before
        /\ script'.started = script.started /\ script'.changed = script.changed
        /\ script'.active = script.active /\ script'.edited = script.edited
    BY <1>2, <2>1
  <2>3. script.pc = "unback" /\ script.name = "uninstall"
    BY <1>1, <1>8 DEF UninstallBack, At, Owners, UninstallSteps
  <2>4. UNCHANGED <<bin, dirs, units, dropin, rows, backups, env>>
    BY <1>8 DEF UninstallBack, host
  <2>5. Owners'
    BY <2>2, <2>3 DEF Owners, InstallSteps, CleanupSteps, RollbackSteps, UninstallSteps
  <2>6. /\ panel'.ver = script.before.panel.ver
        /\ panel'.kind \in {"patched", "torn"} => HasOrig(panel'.ver)
    <3>1. /\ panel.ver = script.before.panel.ver /\ Whole(script.before.panel)
          /\ script.before.panel.kind = "patched" => HasOrig(script.before.panel.ver)
      BY <1>1, <2>3 DEF FoundByUninstall, BeforeRemoval
    <3>2. CASE panel' = panel
      BY <1>1, <3>1, <3>2, KeptIsHasOrig
    <3>3. CASE panel' = FoundTorn
      BY <1>1, <3>1, <3>3, FoundTornType DEF TypeOK
    <3>4. CASE panel' = script.before.panel
      BY <3>1, <3>4 DEF Whole
    <3> QED
      BY <2>1, <3>2, <3>3, <3>4
  <2>7. OriginalKept' /\ BackupsClosed' /\ EnvKnown'
    BY <1>1, <2>2, <2>4, <2>6, SameBackups DEF EnvKnown, RollbackSteps
  <2>8. running \subseteq running' /\ running' \cap Runtimes \subseteq running \cup Usable
    BY <2>1 DEF StartAgain, ServedBy, Runtimes
  <2>9. EnteredSoFar' /\ RunningHaveUnits'
    BY <1>1, <2>2, <2>4, <2>8
       DEF EnteredSoFar, RunningHaveUnits, InstallSteps, BoxSteps, Runtimes, Usable
  <2>10. FoundByUninstall'
    BY <1>1, <2>2, <2>3, <2>4, <2>6 DEF FoundByUninstall, BeforeRemoval
  <2>11. UninstallProgress'
    BY <2>2 DEF UninstallProgress, OfficialRuns
  <2>12. /\ Whole(script.before.panel)
         /\ bin = script.before.bin /\ dirs = script.before.dirs /\ units = script.before.units
         /\ script.before.running \cap Runtimes \subseteq script.active \/ script.edited
    BY <1>1, <2>3 DEF FoundByUninstall, BeforeRemoval
  <2>13. ASSUME "copy" \notin gone
         PROVE  /\ panel' = script.before.panel
                /\ "panel" \in running' \cup gone \/ ~Mounts'
                /\ \/ script.before.running \cap Usable' \subseteq running' \cup gone
                   \/ script.edited
    <3>1. panel' = script.before.panel /\ StartAgain(gone)
      BY <2>1, <2>13
    <3>2. Mounts' = Mounts /\ Usable' = Usable /\ Usable \subseteq Runtimes
      BY <1>1, <2>4 DEF Mounts, Usable, TypeOK
    <3>3. Starts(panel') \/ ~Mounts
      BY <2>12, <3>1 DEF Starts, Mounts, Whole
    <3>4. "panel" \in running' \cup gone \/ ~Mounts
      BY <3>1, <3>3 DEF StartAgain
    <3>5. script.active \cap Usable \subseteq running' \cup gone
      BY <3>1 DEF StartAgain
    <3> QED
      BY <2>12, <3>1, <3>2, <3>4, <3>5
  <2>14. UninstallLeavesOnlyDropin' /\ FailedUninstallKeepsAll'
    BY <2>2, <2>4, <2>12, <2>13 DEF UninstallLeavesOnlyDropin, FailedUninstallKeepsAll, At
  <2> QED
    BY <2>2, <2>3, <2>5, <2>7, <2>9, <2>10, <2>11, <2>14, SilentUninstall DEF IInv
<1>9. ASSUME UninstallUnits PROVE IInv'
  <2>1. /\ script.name = "uninstall" /\ script'.name = "uninstall"
        /\ script'.before = script.before /\ script'.edited = script.edited
    BY <1>1, <1>2, <1>9
       DEF UninstallUnits, Goto, At, Owners, InstallSteps, RollbackSteps, UninstallSteps
  <2>2. Owners'
    BY <1>1, <1>2, <1>9, <2>1
       DEF UninstallUnits, Goto, At, host, Owners, InstallSteps, CleanupSteps, RollbackSteps,
           UninstallSteps
  <2>3. OriginalKept' /\ BackupsClosed'
    BY <1>1, <1>2, <1>9, <2>1
       DEF UninstallUnits, Goto, At, host, OriginalKept, BackupsClosed, HasOrig, Whole
  <2>4. EnvKnown'
    BY <1>1, <1>2, <1>9, <2>1
       DEF UninstallUnits, Goto, At, host, EnvKnown, RollbackSteps, NoEnv, TornEnv
  <2>5. EnteredSoFar' /\ RunningHaveUnits'
    BY <1>1, <1>2, <1>9, <2>1
       DEF UninstallUnits, Goto, At, host, EnteredSoFar, RunningHaveUnits, InstallSteps, BoxSteps,
           Runtimes
  <2>6. FoundByUninstall'
    BY <1>1, <1>2, <1>9, <2>1
       DEF UninstallUnits, Goto, At, host, FoundByUninstall, BeforeRemoval, HasOrig, Whole,
           Runtimes
  <2>7. UninstallProgress'
    <3>1. /\ script'.pc = "undirs" /\ units' = {} /\ running' = running \ Runtimes /\ UNCHANGED panel
          /\ At("ununits")
      BY <1>2, <1>9 DEF UninstallUnits, Goto
    <3>2. panel.kind = "orig" /\ "panel" \in running
      BY <1>1, <3>1 DEF UninstallProgress, OfficialRuns, At
    <3>3. running' = {"panel"}
      BY <1>1, <3>1, <3>2 DEF TypeOK, Runtimes
    <3> QED
      BY <3>1, <3>2, <3>3 DEF UninstallProgress
  <2>8. UninstallLeavesOnlyDropin' /\ FailedUninstallKeepsAll'
    BY <1>1, <1>2, <1>9, <2>1
       DEF UninstallUnits, Goto, At, host, UninstallLeavesOnlyDropin, FailedUninstallKeepsAll,
           UninstallProgress, OfficialRuns, FoundByUninstall, BeforeRemoval, Mounts, Starts,
           Usable, Runtimes
  <2> QED
    BY <2>1, <2>2, <2>3, <2>4, <2>5, <2>6, <2>7, <2>8, SilentUninstall DEF IInv
<1>10. ASSUME UninstallDirs PROVE IInv'
  <2>1. /\ script.name = "uninstall" /\ script'.name = "uninstall"
        /\ script'.before = script.before /\ script'.edited = script.edited
    BY <1>1, <1>2, <1>10
       DEF UninstallDirs, Goto, At, Owners, InstallSteps, RollbackSteps, UninstallSteps
  <2>2. Owners'
    BY <1>1, <1>2, <1>10, <2>1
       DEF UninstallDirs, Goto, At, host, Owners, InstallSteps, CleanupSteps, RollbackSteps,
           UninstallSteps
  <2>3. OriginalKept' /\ BackupsClosed'
    BY <1>1, <1>2, <1>10, <2>1
       DEF UninstallDirs, Goto, At, host, OriginalKept, BackupsClosed, HasOrig, Whole
  <2>4. EnvKnown'
    BY <1>1, <1>2, <1>10, <2>1
       DEF UninstallDirs, Goto, At, host, EnvKnown, RollbackSteps, NoEnv, TornEnv
  <2>5. EnteredSoFar' /\ RunningHaveUnits'
    BY <1>1, <1>2, <1>10, <2>1
       DEF UninstallDirs, Goto, At, host, EnteredSoFar, RunningHaveUnits, InstallSteps, BoxSteps,
           Runtimes
  <2>6. FoundByUninstall'
    BY <1>1, <1>2, <1>10, <2>1
       DEF UninstallDirs, Goto, At, host, FoundByUninstall, BeforeRemoval, HasOrig, Whole,
           Runtimes
  <2>7. UninstallProgress'
    <3>1. /\ script'.pc = "unetc" /\ bin' = 0 /\ dirs' = dirs \ {"box", "certs", "mita"}
          /\ UNCHANGED <<panel, units, running>> /\ At("undirs")
      BY <1>2, <1>10 DEF UninstallDirs, Goto
    <3>2. /\ panel.kind = "orig" /\ "panel" \in running
          /\ units = {} /\ running = {"panel"}
      BY <1>1, <3>1 DEF UninstallProgress, OfficialRuns, At
    <3>3. dirs' \subseteq {"etc"}
      BY <1>1, <3>1 DEF TypeOK, Dirs
    <3> QED
      BY <3>1, <3>2, <3>3 DEF UninstallProgress
  <2>8. UninstallLeavesOnlyDropin' /\ FailedUninstallKeepsAll'
    BY <1>1, <1>2, <1>10, <2>1
       DEF UninstallDirs, Goto, At, host, UninstallLeavesOnlyDropin, FailedUninstallKeepsAll,
           UninstallProgress, OfficialRuns, FoundByUninstall, BeforeRemoval, Mounts, Starts,
           Usable, Runtimes
  <2> QED
    BY <2>1, <2>2, <2>3, <2>4, <2>5, <2>6, <2>7, <2>8, SilentUninstall DEF IInv
<1>11. ASSUME UninstallEtc PROVE IInv'
  <2>1. /\ script.name = "uninstall" /\ script'.name = "uninstall"
        /\ script'.before = script.before /\ script'.edited = script.edited
    BY <1>1, <1>2, <1>11
       DEF UninstallEtc, Goto, At, Owners, InstallSteps, RollbackSteps, UninstallSteps
  <2>2. Owners'
    BY <1>1, <1>2, <1>11, <2>1
       DEF UninstallEtc, Goto, At, host, Owners, InstallSteps, CleanupSteps, RollbackSteps,
           UninstallSteps
  <2>3. OriginalKept' /\ BackupsClosed'
    BY <1>1, <1>2, <1>11, <2>1
       DEF UninstallEtc, Goto, At, host, OriginalKept, BackupsClosed, HasOrig, Whole
  <2>4. EnvKnown'
    BY <1>1, <1>2, <1>11, <2>1
       DEF UninstallEtc, Goto, At, host, EnvKnown, RollbackSteps, NoEnv, TornEnv
  <2>5. EnteredSoFar' /\ RunningHaveUnits'
    BY <1>1, <1>2, <1>11, <2>1
       DEF UninstallEtc, Goto, At, host, EnteredSoFar, RunningHaveUnits, InstallSteps, BoxSteps,
           Runtimes
  <2>6. FoundByUninstall'
    BY <1>1, <1>2, <1>11, <2>1
       DEF UninstallEtc, Goto, At, host, FoundByUninstall, BeforeRemoval, HasOrig, Whole, Runtimes
  <2>7. UninstallProgress'
    BY <1>1, <1>2, <1>11, <2>1
       DEF UninstallEtc, Goto, At, host, UninstallProgress, OfficialRuns, FoundByUninstall,
           RunningHaveUnits, Dirs, Runtimes, NoEnv
  <2>8. UninstallLeavesOnlyDropin' /\ FailedUninstallKeepsAll'
    BY <1>1, <1>2, <1>11, <2>1
       DEF UninstallEtc, Goto, At, host, UninstallLeavesOnlyDropin, FailedUninstallKeepsAll,
           UninstallProgress, OfficialRuns, FoundByUninstall, BeforeRemoval, Mounts, Starts,
           Usable, Runtimes
  <2> QED
    BY <2>1, <2>2, <2>3, <2>4, <2>5, <2>6, <2>7, <2>8, SilentUninstall DEF IInv
<1>12. ASSUME UninstallVar PROVE IInv'
  <2>1. /\ script.name = "uninstall" /\ script'.name = "uninstall"
        /\ script'.before = script.before /\ script'.edited = script.edited
    BY <1>1, <1>2, <1>12
       DEF UninstallVar, Goto, At, Owners, InstallSteps, RollbackSteps, UninstallSteps
  <2>2. Owners'
    BY <1>1, <1>2, <1>12, <2>1
       DEF UninstallVar, Goto, At, host, Owners, InstallSteps, CleanupSteps, RollbackSteps,
           UninstallSteps
  <2>3. OriginalKept' /\ BackupsClosed'
    <3>1. backups' = <<>> /\ panel'.kind = "orig"
      BY <1>1, <1>12 DEF UninstallVar, At, UninstallProgress, OfficialRuns
    <3>2. Len(backups') = 0
      BY <3>1
    <3> QED
      BY <3>1, <3>2 DEF OriginalKept, BackupsClosed
  <2>4. EnvKnown'
    <3>1. env' = 0 /\ Len(backups') = 0 /\ script'.pc = "done"
      BY <1>1, <1>2, <1>12 DEF UninstallVar, At, UninstallProgress, Goto, NoEnv
    <3> QED
      BY <3>1 DEF EnvKnown, RollbackSteps
  <2>5. EnteredSoFar' /\ RunningHaveUnits'
    BY <1>1, <1>2, <1>12, <2>1
       DEF UninstallVar, Goto, At, host, EnteredSoFar, RunningHaveUnits, InstallSteps, BoxSteps,
           Runtimes
  <2>6. FoundByUninstall'
    BY <1>1, <1>2, <1>12, <2>1
       DEF UninstallVar, Goto, At, host, FoundByUninstall, BeforeRemoval, HasOrig, Whole, Runtimes
  <2>7. UninstallProgress'
    BY <1>1, <1>2, <1>12, <2>1
       DEF UninstallVar, Goto, At, host, UninstallProgress, OfficialRuns, FoundByUninstall,
           RunningHaveUnits, Dirs, Runtimes, NoEnv
  <2>8. UninstallLeavesOnlyDropin' /\ FailedUninstallKeepsAll'
    <3>1. /\ script'.pc = "done" /\ At("unvar") /\ backups' = <<>>
          /\ UNCHANGED <<panel, running, rows, env, bin, dirs, units, dropin>>
      BY <1>2, <1>12 DEF UninstallVar, Goto, host
    <3>2. /\ panel.kind = "orig" /\ panel.ver = script.before.panel.ver
          /\ running = {"panel"} /\ units = {} /\ dirs = {} /\ bin = 0 /\ env = NoEnv
          /\ rows = {} \/ script.edited
          /\ dropin = script.before.dropin
      BY <1>1, <2>1, <3>1 DEF At, UninstallProgress, OfficialRuns, FoundByUninstall
    <3>3. panel \in Panels /\ script.before.panel \in Panels
      BY <1>1 DEF TypeOK, Script
    <3>4. panel = [script.before.panel EXCEPT !.kind = "orig"]
      BY <3>2, <3>3 DEF Panels
    <3>5. Mounts' = ~dropin'
      BY <1>1, <3>1, <3>2 DEF Mounts, Dirs, TypeOK
    <3> QED
      BY <2>1, <3>1, <3>2, <3>4, <3>5 DEF UninstallLeavesOnlyDropin, FailedUninstallKeepsAll, At
  <2> QED
    BY <2>1, <2>2, <2>3, <2>4, <2>5, <2>6, <2>7, <2>8, SilentUninstall DEF IInv
<1> QED
  BY <1>3, <1>4, <1>5, <1>6, <1>7, <1>8, <1>9, <1>10, <1>11, <1>12 DEF UninstallNext

(* The rest of the host, no script running afterwards. *)
LEMMA HostStep ==
    ASSUME IInv, TypeOK', EndScript \/ Killed \/ OfficialInstall \/ Reboot
    PROVE  IInv'
<1>1. /\ TypeOK /\ OriginalKept /\ Owners /\ BackupsClosed /\ EnvKnown
      /\ FoundByInstall /\ FoundByUninstall /\ UninstallProgress /\ RollbackProgress
      /\ EnteredSoFar /\ RunningHaveUnits /\ RuntimesTold /\ SingboxKnown
      /\ UninstallLeavesOnlyDropin /\ FailedUninstallKeepsAll
  BY DEF IInv
<1>2. DOMAIN script = {"name", "pc", "skip", "panelFirst", "swapped", "was", "started",
                       "active", "had", "changed", "old", "rolled", "edited", "broken", "before"}
  BY <1>1, ScriptFields DEF TypeOK
<1>3. ASSUME EndScript PROVE IInv'
  <2>1. script'.name = "none"
    BY <1>1, <1>3 DEF EndScript, Idle, At, Owners
  <2>2. Owners'
    BY <1>1, <1>2, <1>3, <2>1
       DEF EndScript, Idle, Goto, At, host, Owners, InstallSteps, CleanupSteps, RollbackSteps,
           UninstallSteps
  <2>3. OriginalKept' /\ BackupsClosed'
    BY <1>1, <1>2, <1>3, <2>1
       DEF EndScript, Idle, Goto, At, host, OriginalKept, BackupsClosed, HasOrig, Whole
  <2>4. EnvKnown'
    BY <1>1, <1>2, <1>3, <2>1
       DEF EndScript, Idle, Goto, At, host, EnvKnown, RollbackSteps, NoEnv, TornEnv
  <2>5. EnteredSoFar' /\ RunningHaveUnits'
    BY <1>1, <1>2, <1>3, <2>1
       DEF EndScript, Idle, Goto, At, host, EnteredSoFar, RunningHaveUnits, InstallSteps,
           BoxSteps, Runtimes
  <2> QED
    BY <2>1, <2>2, <2>3, <2>4, <2>5, SilentRollback, SilentIdle DEF IInv
<1>4. ASSUME Killed PROVE IInv'
  <2>1. script'.name = "none"
    BY <1>1, <1>4 DEF Killed, Idle, At, Owners
  <2>2. Owners'
    BY <1>1, <1>2, <1>4, <2>1
       DEF Killed, Idle, Goto, At, host, Owners, InstallSteps, CleanupSteps, RollbackSteps,
           UninstallSteps
  <2>3. OriginalKept' /\ BackupsClosed'
    <3>1. UNCHANGED backups
      BY <1>4 DEF Killed
    <3>2. \/ panel' = panel
          \/ /\ At("copy") \/ (At("restore") /\ script.swapped)
             /\ panel'.ver = panel.ver
          \/ At("rbcopy") /\ panel'.ver = backups[env].ver
          \/ panel'.kind = "tornofficial"
          \/ At("unback") /\ panel' = FoundTorn
      <4>1. panel \in Panels /\ (At("rbcopy") => backups[env] \in Panels)
        BY <1>1, BackupType DEF TypeOK, EnvKnown, At, RollbackSteps
      <4> QED
        BY <1>4, <4>1 DEF Killed, Panels
    <3>3. At("copy") \/ (At("restore") /\ script.swapped) => HasOrig(panel.ver)
      BY <1>1, LastBackup, BackupHasOrig DEF At, Owners, FoundByInstall, InstallSteps
    <3>4. At("rbcopy") => HasOrig(backups[env].ver)
      BY <1>1, BackupHasOrig DEF At, EnvKnown, RollbackSteps
    <3>5. At("unback") /\ FoundTorn.kind \in {"patched", "torn"} => HasOrig(FoundTorn.ver)
      BY <1>1, FoundTornType
         DEF At, Owners, UninstallSteps, FoundByUninstall, BeforeRemoval, TypeOK
    <3> QED
      BY <1>1, <3>1, <3>2, <3>3, <3>4, <3>5, SameBackups, KeptIsHasOrig
  <2>4. EnvKnown'
    BY <1>1, <1>2, <1>4, <2>1
       DEF Killed, Idle, Goto, At, host, EnvKnown, RollbackSteps, NoEnv, TornEnv
  <2>5. EnteredSoFar' /\ RunningHaveUnits'
    BY <1>1, <1>2, <1>4, <2>1
       DEF Killed, Idle, Goto, At, host, EnteredSoFar, RunningHaveUnits, InstallSteps, BoxSteps,
           Runtimes
  <2> QED
    BY <2>1, <2>2, <2>3, <2>4, <2>5, SilentRollback, SilentIdle DEF IInv
<1>5. ASSUME OfficialInstall PROVE IInv'
  <2>1. script'.name = "none"
    BY <1>1, <1>5 DEF OfficialInstall, Mounts, At, Owners
  <2>2. Owners'
    BY <1>1, <1>2, <1>5, <2>1
       DEF OfficialInstall, Mounts, Goto, At, host, Owners, InstallSteps, CleanupSteps,
           RollbackSteps, UninstallSteps
  <2>3. OriginalKept' /\ BackupsClosed'
    BY <1>1, <1>2, <1>5, <2>1
       DEF OfficialInstall, Mounts, Goto, At, host, OriginalKept, BackupsClosed, HasOrig, Whole
  <2>4. EnvKnown'
    BY <1>1, <1>2, <1>5, <2>1
       DEF OfficialInstall, Mounts, Goto, At, host, EnvKnown, RollbackSteps, NoEnv, TornEnv
  <2>5. EnteredSoFar' /\ RunningHaveUnits'
    BY <1>1, <1>2, <1>5, <2>1
       DEF OfficialInstall, Mounts, Goto, At, host, EnteredSoFar, RunningHaveUnits, InstallSteps,
           BoxSteps,
           Runtimes
  <2> QED
    BY <2>1, <2>2, <2>3, <2>4, <2>5, SilentRollback, SilentIdle DEF IInv
<1>6. ASSUME Reboot PROVE IInv'
  <2>1. script'.name = "none"
    BY <1>1, <1>6 DEF Reboot, Usable, Whole, Mounts, Starts, At, Owners
  <2>2. Owners'
    BY <1>1, <1>2, <1>6, <2>1
       DEF Reboot, Usable, Whole, Mounts, Starts, Goto, At, host, Owners, InstallSteps,
           CleanupSteps, RollbackSteps, UninstallSteps
  <2>3. OriginalKept' /\ BackupsClosed'
    BY <1>1, <1>2, <1>6, <2>1
       DEF Reboot, Usable, Whole, Mounts, Starts, Goto, At, host, OriginalKept, BackupsClosed,
           HasOrig, Whole
  <2>4. EnvKnown'
    BY <1>1, <1>2, <1>6, <2>1
       DEF Reboot, Usable, Whole, Mounts, Starts, Goto, At, host, EnvKnown, RollbackSteps, NoEnv,
           TornEnv
  <2>5. EnteredSoFar' /\ RunningHaveUnits'
    BY <1>1, <1>2, <1>6, <2>1
       DEF Reboot, Usable, Whole, Mounts, Starts, Goto, At, host, EnteredSoFar, RunningHaveUnits,
           InstallSteps,
           BoxSteps, Runtimes
  <2> QED
    BY <2>1, <2>2, <2>3, <2>4, <2>5, SilentRollback, SilentIdle DEF IInv
<1> QED
  BY <1>3, <1>4, <1>5, <1>6

(* Edits while any script runs. *)
LEMMA InboundStep ==
    ASSUME IInv, TypeOK', NEW r \in Runtimes, AddInbound(r) \/ DelInbound(r)
    PROVE  IInv'
<1>1. /\ TypeOK /\ OriginalKept /\ Owners /\ BackupsClosed /\ EnvKnown
      /\ FoundByInstall /\ FoundByUninstall /\ UninstallProgress /\ RollbackProgress
      /\ EnteredSoFar /\ RunningHaveUnits /\ RuntimesTold /\ SingboxKnown
      /\ UninstallLeavesOnlyDropin /\ FailedUninstallKeepsAll
  BY DEF IInv
<1>2. DOMAIN script = {"name", "pc", "skip", "panelFirst", "swapped", "was", "started",
                       "active", "had", "changed", "old", "rolled", "edited", "broken", "before"}
  BY <1>1, ScriptFields DEF TypeOK
<1>3. ASSUME AddInbound(r) PROVE IInv'
  <2>1. script'.name = script.name /\ script'.before = script.before
    BY <1>2, <1>3 DEF AddInbound, Edited, Usable, Goto
  <2>2. Owners'
    BY <1>1, <1>2, <1>3, <2>1
       DEF AddInbound, Edited, Usable, Goto, At, host, Owners, InstallSteps, CleanupSteps,
           RollbackSteps, UninstallSteps
  <2>3. OriginalKept' /\ BackupsClosed'
    BY <1>1, <1>2, <1>3, <2>1
       DEF AddInbound, Edited, Usable, Goto, At, host, OriginalKept, BackupsClosed, HasOrig, Whole
  <2>4. EnvKnown'
    BY <1>1, <1>2, <1>3, <2>1
       DEF AddInbound, Edited, Usable, Goto, At, host, EnvKnown, RollbackSteps, NoEnv, TornEnv
  <2>5. FoundByInstall'
    BY <1>1, <1>2, <1>3, <2>1
       DEF AddInbound, Edited, Usable, Goto, At, host, FoundByInstall, Undone, Mounts,
           InstallSteps, Whole
  <2>6. EnteredSoFar' /\ RunningHaveUnits'
    BY <1>1, <1>2, <1>3, <2>1
       DEF AddInbound, Edited, Usable, Goto, At, host, EnteredSoFar, RunningHaveUnits,
           InstallSteps, BoxSteps,
           Runtimes
  <2>7. RuntimesTold'
    BY <1>1, <1>2, <1>3, <2>1
       DEF AddInbound, Edited, Usable, Goto, At, host, RuntimesTold, BoxSteps, Runtimes, Dirs,
           EnteredSoFar, FoundByInstall
  <2>8. SingboxKnown'
    BY <1>1, <1>2, <1>3, <2>1
       DEF AddInbound, Edited, Usable, Goto, At, host, SingboxKnown, BoxSteps, CleanupSteps,
           EnteredSoFar, RuntimesTold, Runtimes
  <2>9. FoundByUninstall'
    <3>1. /\ UNCHANGED <<panel, bin, dirs, units, dropin, backups>>
          /\ running \subseteq running'
      BY <1>3 DEF AddInbound, host
    <3>2. /\ script'.pc = script.pc /\ script'.active = script.active
          /\ script'.edited = (script.edited \/ ~At("idle"))
      BY <1>1, <1>2, <1>3 DEF AddInbound, Edited, At, TypeOK, Script, Idle
    <3>3. script.name = "uninstall" => ~At("idle")
      BY <1>1 DEF Owners, At
    <3> QED
      BY <1>1, <2>1, <3>1, <3>2, <3>3 DEF FoundByUninstall, BeforeRemoval, HasOrig, Whole
  <2>10. UninstallProgress'
    BY <1>1, <1>2, <1>3, <2>1
       DEF AddInbound, Edited, Usable, Goto, At, host, UninstallProgress, OfficialRuns,
           FoundByUninstall, RunningHaveUnits, Dirs, Runtimes, NoEnv
  <2>11. UninstallLeavesOnlyDropin' /\ FailedUninstallKeepsAll'
    BY <1>1, <1>2, <1>3, <2>1
       DEF AddInbound, Edited, Usable, Goto, At, host, UninstallLeavesOnlyDropin,
           FailedUninstallKeepsAll, UninstallProgress, OfficialRuns, FoundByUninstall,
           BeforeRemoval, Mounts, Starts, Usable, Runtimes
  <2>12. RollbackProgress'
    BY <1>1, <1>2, <1>3, <2>1 DEF AddInbound, Edited, Usable, Goto, At, host, RollbackProgress
  <2> QED
    BY <2>1, <2>2, <2>3, <2>4, <2>5, <2>6, <2>7, <2>8, <2>9, <2>10, <2>11, <2>12 DEF IInv
<1>4. ASSUME DelInbound(r) PROVE IInv'
  <2>1. script'.name = script.name /\ script'.before = script.before
    BY <1>2, <1>4 DEF DelInbound, Edited, Whole, Goto
  <2>2. Owners'
    BY <1>1, <1>2, <1>4, <2>1
       DEF DelInbound, Edited, Whole, Goto, At, host, Owners, InstallSteps, CleanupSteps,
           RollbackSteps, UninstallSteps
  <2>3. OriginalKept' /\ BackupsClosed'
    BY <1>1, <1>2, <1>4, <2>1
       DEF DelInbound, Edited, Whole, Goto, At, host, OriginalKept, BackupsClosed, HasOrig, Whole
  <2>4. EnvKnown'
    BY <1>1, <1>2, <1>4, <2>1
       DEF DelInbound, Edited, Whole, Goto, At, host, EnvKnown, RollbackSteps, NoEnv, TornEnv
  <2>5. FoundByInstall'
    BY <1>1, <1>2, <1>4, <2>1
       DEF DelInbound, Edited, Whole, Goto, At, host, FoundByInstall, Undone, Mounts, InstallSteps,
           Whole
  <2>6. EnteredSoFar' /\ RunningHaveUnits'
    BY <1>1, <1>2, <1>4, <2>1
       DEF DelInbound, Edited, Whole, Goto, At, host, EnteredSoFar, RunningHaveUnits,
           InstallSteps, BoxSteps,
           Runtimes
  <2>7. RuntimesTold'
    BY <1>1, <1>2, <1>4, <2>1
       DEF DelInbound, Edited, Whole, Goto, At, host, RuntimesTold, BoxSteps, Runtimes, Dirs,
           EnteredSoFar, FoundByInstall
  <2>8. SingboxKnown'
    BY <1>1, <1>2, <1>4, <2>1
       DEF DelInbound, Edited, Whole, Goto, At, host, SingboxKnown, BoxSteps, CleanupSteps,
           EnteredSoFar, RuntimesTold, Runtimes
  <2>9. FoundByUninstall'
    BY <1>1, <1>2, <1>4, <2>1
       DEF DelInbound, Edited, Whole, Goto, At, host, FoundByUninstall, BeforeRemoval, HasOrig,
           Whole, Runtimes
  <2>10. UninstallProgress'
    BY <1>1, <1>2, <1>4, <2>1
       DEF DelInbound, Edited, Whole, Goto, At, host, UninstallProgress, OfficialRuns,
           FoundByUninstall, RunningHaveUnits, Dirs, Runtimes, NoEnv
  <2>11. UninstallLeavesOnlyDropin' /\ FailedUninstallKeepsAll'
    BY <1>1, <1>2, <1>4, <2>1
       DEF DelInbound, Edited, Whole, Goto, At, host, UninstallLeavesOnlyDropin,
           FailedUninstallKeepsAll, UninstallProgress, OfficialRuns, FoundByUninstall,
           BeforeRemoval, Mounts, Starts, Usable, Runtimes
  <2>12. RollbackProgress'
    BY <1>1, <1>2, <1>4, <2>1 DEF DelInbound, Edited, Whole, Goto, At, host, RollbackProgress
  <2> QED
    BY <2>1, <2>2, <2>3, <2>4, <2>5, <2>6, <2>7, <2>8, <2>9, <2>10, <2>11, <2>12 DEF IInv
<1> QED
  BY <1>3, <1>4

LEMMA InitIInv == Init => IInv
<1> SUFFICES ASSUME Init PROVE IInv
  OBVIOUS
<1>1. script = Idle /\ Idle.name = "none" /\ Idle.pc = "idle" /\ Idle.started = {} /\ ~Idle.changed
  BY DEF Init, Idle
<1>2. Len(backups) = 0 /\ backups \in Seq(Panels)
  BY DEF Init
<1>3. TypeOK
  <2>1. panel \in Panels
    BY VersAssumption DEF Init, Panels, Kinds
  <2>2. script \in Script
    BY <1>1, IdleType
  <2>3. bin \in 0..MaxRuns /\ env \in 0..TornEnv /\ Len(backups) <= MaxRuns
    BY <1>2, RunsAssumption DEF Init, NoEnv, TornEnv
  <2>4. dirs \subseteq Dirs /\ units \subseteq Runtimes /\ rows \subseteq Runtimes
    BY DEF Init
  <2>5. running \subseteq Runtimes \cup {"panel"} /\ dropin \in BOOLEAN
    BY DEF Init
  <2> QED
    BY <1>2, <2>1, <2>2, <2>3, <2>4, <2>5 DEF TypeOK
<1>4. Owners
  BY <1>1 DEF Owners, InstallSteps, CleanupSteps, RollbackSteps, UninstallSteps
<1>5. OriginalKept /\ BackupsClosed
  BY <1>2 DEF Init, OriginalKept, BackupsClosed
<1>6. EnvKnown
  BY <1>1, <1>2 DEF Init, EnvKnown, RollbackSteps, NoEnv
<1>7. EnteredSoFar /\ RunningHaveUnits
  BY <1>1 DEF Init, EnteredSoFar, RunningHaveUnits, InstallSteps, BoxSteps, Runtimes
<1>8. FoundByInstall /\ FoundByUninstall /\ RuntimesTold /\ SingboxKnown
  BY <1>1 DEF FoundByInstall, FoundByUninstall, RuntimesTold, SingboxKnown
<1>9. /\ UninstallProgress /\ RollbackProgress
      /\ UninstallLeavesOnlyDropin /\ FailedUninstallKeepsAll
  BY <1>1 DEF UninstallProgress, OfficialRuns, RollbackProgress, UninstallLeavesOnlyDropin,
              FailedUninstallKeepsAll
<1> QED
  BY <1>3, <1>4, <1>5, <1>6, <1>7, <1>8, <1>9 DEF IInv

LEMMA NextIInv == IInv /\ [Next]_vars => IInv'
<1>1. ASSUME IInv, Next PROVE IInv'
  <2>1. TypeOK'
    BY <1>1, TypeStep
  <2> QED
    BY <1>1, <2>1, InstallStep, RollbackStep, UninstallStep, HostStep, InboundStep
       DEF Next, HostNext
<1>2. ASSUME IInv, UNCHANGED vars PROVE IInv'
  BY <1>2 DEF vars, IInv, TypeOK, OriginalKept, Owners, BackupsClosed, EnvKnown, HasOrig,
              FoundByInstall, FoundByUninstall, UninstallProgress, RollbackProgress,
              EnteredSoFar, RunningHaveUnits, InstallSteps, RuntimesTold, SingboxKnown,
              UninstallLeavesOnlyDropin, FailedUninstallKeepsAll, At, Mounts, Usable
<1> QED
  BY <1>1, <1>2

-----------------------------------------------------------------------------
(* What the scripts promise.                                               *)

\* The host and the script's variables keep their types wherever a script
\* fails or is killed.
THEOREM TypeCorrect == Spec => []TypeOK
<1>1. IInv => TypeOK
  BY DEF IInv
<1> QED
  BY InitIInv, NextIInv, <1>1, PTL DEF Spec

\* Through any number of installations, rollbacks, kills and official
\* updates, a patched or torn panel has upstream's binary of its release in
\* some backup.
THEOREM OriginalAlwaysKept == Spec => []OriginalKept
<1>1. IInv => OriginalKept
  BY DEF IInv
<1> QED
  BY InitIInv, NextIInv, <1>1, PTL DEF Spec

\* install.env, when it can be read, names a backup that exists and is whole.
THEOREM RollbackPossible == Spec => []RollbackTarget
<1>1. IInv => RollbackTarget
  <2> SUFFICES ASSUME IInv, env \notin {NoEnv, TornEnv}
               PROVE  env <= Len(backups) /\ Whole(backups[env])
    BY DEF RollbackTarget
  <2>1. env \in 1..Len(backups)
    BY LenProperties DEF IInv, EnvKnown, NoEnv, TypeOK
  <2> QED
    BY <2>1, BackupHasOrig, LenProperties DEF IInv, TypeOK
<1> QED
  BY InitIInv, NextIInv, <1>1, PTL DEF Spec

\* cleanup of install.sh: a reported failure leaves the panel that was found,
\* running if it ran and can, unless the copy or the start that cleanup makes
\* fails too; then that panel is in the backup of this run.
THEOREM FailedInstallRestoresPanel == Spec => []FailedInstallKeepsPanel
<1>1. IInv => FailedInstallKeepsPanel
  BY DEF IInv, FoundByInstall, FailedInstallKeepsPanel, At, Undone
<1> QED
  BY InitIInv, NextIInv, <1>1, PTL DEF Spec

\* cleanup purges what this run introduced, outside the sandboxed release, and
\* nothing else; it leaves some of it only where a purge fails.
THEOREM FailedInstallSparesRuntimes == Spec => []FailedInstallKeepsRuntimes
<1>1. IInv => FailedInstallKeepsRuntimes
  BY DEF IInv, RuntimesTold, RunningHaveUnits, FailedInstallKeepsRuntimes, At
<1> QED
  BY InitIInv, NextIInv, <1>1, PTL DEF Spec

\* rollback_runtime of install-singbox.sh gives the old runtime back, part by
\* part except where a step of its own fails.
THEOREM RuntimeRestored == Spec => []RuntimeAsFound
<1>1. IInv => RuntimeAsFound
  BY DEF IInv, SingboxKnown, RuntimeAsFound, At
<1> QED
  BY InitIInv, NextIInv, <1>1, PTL DEF Spec

\* uninstall.sh removes nothing when upstream's panel does not start, and runs
\* what it stopped again unless a second start fails.
THEOREM FailedUninstallUndone == Spec => []FailedUninstallKeepsAll
<1>1. IInv => FailedUninstallKeepsAll
  BY DEF IInv
<1> QED
  BY InitIInv, NextIInv, <1>1, PTL DEF Spec

\* A finished uninstall has left upstream's panel and nothing of its own but
\* the drop-in of the sandboxed release, which no script removes.
THEOREM UninstallComplete == Spec => []UninstallLeavesOnlyDropin
<1>1. IInv => UninstallLeavesOnlyDropin
  BY DEF IInv
<1> QED
  BY InitIInv, NextIInv, <1>1, PTL DEF Spec

\* rollback.sh and uninstall.sh drop install.env only with a panel running.
THEOREM StateGivenUpLast == Spec => StateKeptUntilPanelRuns
<1>1. ASSUME IInv, [Next]_vars PROVE StateKept
  <2>1. TypeOK /\ EnvKnown /\ UninstallProgress /\ RollbackProgress
    BY <1>1 DEF IInv
  <2> SUFFICES ASSUME env \in 1..Len(backups), env' = NoEnv
               PROVE  "panel" \in running /\ (panel = backups[env] \/ panel.kind = "orig")
    BY DEF StateKept
  <2>2. Len(backups) \in Nat /\ Len(backups) > 0 /\ env # 0 /\ env' = 0
    BY <2>1, LenProperties DEF TypeOK, NoEnv
  <2>3. Next
    BY <1>1, <2>2 DEF vars
  <2>4. RollbackState \/ UninstallEtc
    <3>1. TornEnv # 0
      BY RunsAssumption DEF TornEnv
    <3>2. ~ActivateNext
      BY <2>2 DEF ActivateNext, BackupCurrentInstall, SandboxDirs, SandboxDropin, ChooseOrder,
                  ActivateStop, ActivateCopy, ActivateStart, PersistTree, PersistEnv
    <3>3. ~SingboxNext /\ ~MieruNext
      BY <2>2 DEF SingboxNext, InstallSingbox, SkipSingbox, SingboxStop, SingboxMoveAway,
                  SingboxMoveIn, SingboxStart, SingboxRollback, MieruNext, InstallMieru,
                  SkipMieru, MieruUnit
    <3>4. ~CleanupNext /\ \A skip : ~BeginInstall(skip)
      <4>1. ~InstallFails
        BY <2>2, <3>1 DEF InstallFails
      <4>2. ~CleanupRestore /\ ~CleanupPurgeSingbox /\ ~CleanupPurgeMieru
        BY <2>2 DEF CleanupRestore, CleanupPurgeSingbox, CleanupPurgeMieru
      <4>3. \A skip : ~BeginInstall(skip)
        BY <2>2 DEF BeginInstall
      <4> QED
        BY <4>1, <4>2, <4>3 DEF CleanupNext
    <3>5. RollbackNext => RollbackState
      <4>1. \A purge : ~BeginRollback(purge)
        BY <2>2 DEF BeginRollback
      <4>2. ~RollbackMieru /\ ~RollbackStop /\ ~RollbackCopy
        BY <2>2 DEF RollbackMieru, RollbackStop, RollbackCopy
      <4>3. ~RollbackStart /\ ~RollbackSingbox
        BY <2>2 DEF RollbackStart, RollbackSingbox
      <4> QED
        BY <4>1, <4>2, <4>3 DEF RollbackNext
    <3>6. UninstallNext => UninstallEtc
      BY <2>2 DEF UninstallNext, BeginUninstall, UninstallRecord, UninstallStop, UninstallCopy,
                  UninstallStart, UninstallBack, UninstallUnits, UninstallDirs, UninstallVar
    <3>7. ~HostNext
      BY <2>2, <3>1 DEF HostNext, EndScript, Killed, OfficialInstall, Reboot, AddInbound, DelInbound
    <3> QED
      BY <2>3, <3>2, <3>3, <3>4, <3>5, <3>6, <3>7 DEF Next, InstallNext
  <2> QED
    BY <2>1, <2>4
       DEF RollbackState, UninstallEtc, At, UninstallProgress, OfficialRuns, RollbackProgress
<1>2. IInv /\ [Next]_vars => StateKept
  BY <1>1
<1> QED
  BY InitIInv, NextIInv, <1>2, PTL DEF Spec, StateKeptUntilPanelRuns
=============================================================================
