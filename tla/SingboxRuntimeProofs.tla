------------------------ MODULE SingboxRuntimeProofs ------------------------
(***************************************************************************)
(* Theorems about SingboxRuntime for every set of callers, databases and   *)
(* documents, and for every combination of faults.                         *)
(***************************************************************************)
EXTENDS SingboxRuntime, TLAPS

(* Between the build and the return a call holds a document, and after the *)
(* check one that was accepted; what was read as the old content is not a  *)
(* rejected document either.                                               *)
Offers(p) ==
    /\ pc[p] = "clients" => seen[p] \in InboundRows
    /\ pc[p] \notin {"idle", "build", "clients"} => cfg[p] \in Configs
    /\ pc[p] \notin {"idle", "build", "clients", "check"} => cfg[p] \in Valid
    /\ {old[p]} \intersect Configs \subseteq Valid

(* A core that runs something else than config.json is about to be         *)
(* restarted or stopped by a call that is past its rename.                 *)
Owing ==
    Active /\ core # file /\ ~disturbed => \E p \in Procs : pc[p] \in Unsettled

IInv ==
    /\ TypeOK
    /\ OnlyCheckedRuns
    /\ \A p \in Procs : Offers(p)
    /\ Owing

-----------------------------------------------------------------------------

(* No call is in flight at the start, so nothing has been offered, and the *)
(* core runs the checked file it found, or nothing.                        *)
LEMMA InitInductive == Init => IInv
<1> SUFFICES ASSUME Init PROVE IInv
  OBVIOUS
<1> USE ConstantsAssumption DEF Init
<1>1. TypeOK
  BY DEF TypeOK, Contents, PCs, Databases
<1>2. OnlyCheckedRuns
  BY DEF OnlyCheckedRuns
<1>3. \A p \in Procs : Offers(p)
  BY DEF Offers
<1>4. Owing
  BY DEF Owing, Active, Contents
<1>5. QED
  BY <1>1, <1>2, <1>3, <1>4 DEF IInv

(* Whatever the two reads of a build found, the builder makes a document   *)
(* of it or reports an error.                                              *)
LEMMA Renders ==
    \A i \in InboundRows, c \in ClientRows :
        Render[<<i, c>>] \in Configs \union {BuildError}
<1> TAKE i \in InboundRows, c \in ClientRows
<1>1. <<i, c>> \in InboundRows \X ClientRows
  OBVIOUS
<1>2. QED
  BY <1>1, ConstantsAssumption

(* Every action keeps the types.                                           *)
LEMMA TypeStep ==
    ASSUME TypeOK, \A p \in Procs : Offers(p), [Next]_vars
    PROVE  TypeOK'
<1> USE ConstantsAssumption DEF TypeOK, Contents, PCs
<1>1. ASSUME NEW p \in Procs, Edit(p) \/ Rebuild(p) \/ JobTick(p) PROVE TypeOK'
  BY <1>1 DEF Edit, Rebuild, JobTick, Call
<1>2. ASSUME NEW p \in Procs, ReadInbounds(p) \/ BuildIntegratedConfig(p)
      PROVE  TypeOK'
  BY <1>2, Renders DEF Offers, ReadInbounds, BuildIntegratedConfig, Databases,
                       Return, Goto
<1>3. ASSUME NEW p \in Procs, CheckBytes(p) PROVE TypeOK'
  BY <1>3 DEF CheckBytes, Return, Goto
<1>4. ASSUME NEW p \in Procs, ReadOld(p) PROVE TypeOK'
  BY <1>4 DEF ReadOld, Return, Goto
<1>5. ASSUME NEW p \in Procs, Status(p) PROVE TypeOK'
  BY <1>5 DEF Status, Return, Goto
<1>6. ASSUME NEW p \in Procs, Bounce(p) PROVE TypeOK'
  BY <1>6 DEF Bounce, RestartOk, RestartFails, Return
<1>7. ASSUME NEW p \in Procs, Swap(p) PROVE TypeOK'
  BY <1>7 DEF Swap, Return, Goto, Offers
<1>8. ASSUME NEW p \in Procs, Restart(p) PROVE TypeOK'
  BY <1>8 DEF Restart, RestartOk, RestartFails, Return, Goto
<1>9. ASSUME NEW p \in Procs, Rollback(p) PROVE TypeOK'
  BY <1>9 DEF Rollback, Goto
<1>10. ASSUME NEW p \in Procs, Rewrite(p) PROVE TypeOK'
  BY <1>10 DEF Rewrite, Goto
<1>11. ASSUME NEW p \in Procs, Rerestart(p) PROVE TypeOK'
  BY <1>11 DEF Rerestart, RestartOk, RestartFails, Return
<1>12. ASSUME NEW p \in Procs, Stop(p) PROVE TypeOK'
  BY <1>12 DEF Stop, Return
<1>13. CASE Expire \/ CoreExit \/ AutoRestart
  BY <1>13 DEF Expire, CoreExit, AutoRestart, Active
<1>14. CASE PanelCrash
  BY <1>14 DEF PanelCrash
<1>15. CASE UNCHANGED vars
  BY <1>15 DEF vars
<1>16. QED
  BY <1>1, <1>2, <1>3, <1>4, <1>5, <1>6, <1>7, <1>8, <1>9, <1>10, <1>11,
     <1>12, <1>13, <1>14, <1>15 DEF Next, ReconcileStep

(* No action puts a rejected document into a call, the file or the core.   *)
LEMMA CheckedStep ==
    ASSUME TypeOK, OnlyCheckedRuns, \A p \in Procs : Offers(p), [Next]_vars
    PROVE  OnlyCheckedRuns' /\ \A p \in Procs : Offers(p)'
<1> DEFINE Goal == OnlyCheckedRuns' /\ \A p \in Procs : Offers(p)'
<1> USE ConstantsAssumption DEF TypeOK, Contents, OnlyCheckedRuns, Offers
<1>1. ASSUME NEW p \in Procs, Edit(p) \/ Rebuild(p) \/ JobTick(p) PROVE Goal
  BY <1>1 DEF Edit, Rebuild, JobTick, Call
<1>2. ASSUME NEW p \in Procs, ReadInbounds(p) \/ BuildIntegratedConfig(p)
      PROVE  Goal
  BY <1>2, Renders DEF ReadInbounds, BuildIntegratedConfig, Databases,
                       Return, Goto
<1>3. ASSUME NEW p \in Procs, CheckBytes(p) PROVE Goal
  BY <1>3 DEF CheckBytes, Return, Goto
<1>4. ASSUME NEW p \in Procs, ReadOld(p) PROVE Goal
  BY <1>4 DEF ReadOld, Return, Goto
<1>5. ASSUME NEW p \in Procs, Status(p) PROVE Goal
  BY <1>5 DEF Status, Return, Goto
<1>6. ASSUME NEW p \in Procs, Bounce(p) PROVE Goal
  BY <1>6 DEF Bounce, RestartOk, RestartFails, Return
<1>7. ASSUME NEW p \in Procs, Swap(p) PROVE Goal
  BY <1>7 DEF Swap, Return, Goto
<1>8. ASSUME NEW p \in Procs, Restart(p) PROVE Goal
  BY <1>8 DEF Restart, RestartOk, RestartFails, Return, Goto
<1>9. ASSUME NEW p \in Procs, Rollback(p) PROVE Goal
  BY <1>9 DEF Rollback, Goto
<1>10. ASSUME NEW p \in Procs, Rewrite(p) PROVE Goal
  BY <1>10 DEF Rewrite, Goto
<1>11. ASSUME NEW p \in Procs, Rerestart(p) PROVE Goal
  BY <1>11 DEF Rerestart, RestartOk, RestartFails, Return
<1>12. ASSUME NEW p \in Procs, Stop(p) PROVE Goal
  BY <1>12 DEF Stop, Return
<1>13. CASE Expire \/ CoreExit \/ AutoRestart \/ PanelCrash
  BY <1>13 DEF Expire, CoreExit, AutoRestart, PanelCrash
<1>14. CASE UNCHANGED vars
  BY <1>14 DEF vars
<1>15. QED
  BY <1>1, <1>2, <1>3, <1>4, <1>5, <1>6, <1>7, <1>8, <1>9, <1>10, <1>11,
     <1>12, <1>13, <1>14 DEF Next, ReconcileStep

(* A step that parts the file from the core leaves its caller in Unsettled,*)
(* and a call leaves Unsettled only by restarting or stopping the unit.    *)
LEMMA OwingStep ==
    ASSUME TypeOK, Owing, [Next]_vars
    PROVE  Owing'
<1> USE ConstantsAssumption DEF TypeOK, Contents, Owing, Active, Unsettled
<1>1. ASSUME NEW p \in Procs, Edit(p) \/ Rebuild(p) \/ JobTick(p) PROVE Owing'
  BY <1>1 DEF Edit, Rebuild, JobTick, Call
<1>2. ASSUME NEW p \in Procs, ReadInbounds(p) \/ BuildIntegratedConfig(p)
      PROVE  Owing'
  BY <1>2 DEF ReadInbounds, BuildIntegratedConfig, Return, Goto
<1>3. ASSUME NEW p \in Procs, CheckBytes(p) PROVE Owing'
  BY <1>3 DEF CheckBytes, Return, Goto
<1>4. ASSUME NEW p \in Procs, ReadOld(p) PROVE Owing'
  BY <1>4 DEF ReadOld, Return, Goto
<1>5. ASSUME NEW p \in Procs, Status(p) PROVE Owing'
  BY <1>5 DEF Status, Return, Goto
<1>6. ASSUME NEW p \in Procs, Bounce(p) PROVE Owing'
  BY <1>6 DEF Bounce, RestartOk, RestartFails, Return
<1>7. ASSUME NEW p \in Procs, Swap(p) PROVE Owing'
  BY <1>7 DEF Swap, Return, Goto
<1>8. ASSUME NEW p \in Procs, Restart(p) PROVE Owing'
  BY <1>8 DEF Restart, RestartOk, RestartFails, Return, Goto
<1>9. ASSUME NEW p \in Procs, Rollback(p) PROVE Owing'
  BY <1>9 DEF Rollback, Goto
<1>10. ASSUME NEW p \in Procs, Rewrite(p) PROVE Owing'
  BY <1>10 DEF Rewrite, Goto
<1>11. ASSUME NEW p \in Procs, Rerestart(p) PROVE Owing'
  BY <1>11 DEF Rerestart, RestartOk, RestartFails, Return
<1>12. ASSUME NEW p \in Procs, Stop(p) PROVE Owing'
  BY <1>12 DEF Stop, Return
<1>13. CASE Expire \/ CoreExit \/ AutoRestart \/ PanelCrash
  BY <1>13 DEF Expire, CoreExit, AutoRestart, PanelCrash
<1>14. CASE UNCHANGED vars
  BY <1>14 DEF vars
<1>15. QED
  BY <1>1, <1>2, <1>3, <1>4, <1>5, <1>6, <1>7, <1>8, <1>9, <1>10, <1>11,
     <1>12, <1>13, <1>14 DEF Next, ReconcileStep

(* The inductive invariant: whatever the callers and the faults, types,    *)
(* checked documents and the restart that is owed survive every step of    *)
(* Reconcile, Apply and the unit (runtime.go:83-156).                      *)
THEOREM Inductive == Spec => []IInv
<1>1. IInv /\ [Next]_vars => IInv'
  BY TypeStep, CheckedStep, OwingStep DEF IInv
<1>2. QED
  BY InitInductive, <1>1, PTL DEF Spec

-----------------------------------------------------------------------------

(* Type correctness of Reconcile, Apply and the unit they drive.           *)
THEOREM TypeCorrect == Spec => []TypeOK
BY Inductive, PTL DEF IInv

(* Whatever overlaps, fails or is killed, no rejected document is loaded   *)
(* or left in config.json.                                                 *)
THEOREM OnlyChecked == Spec => []OnlyCheckedRuns
BY Inductive, PTL DEF IInv

(* Any number of unlocked callers leave file and core in step, as long as  *)
(* the panel is not killed and systemctl can act.                          *)
THEOREM InSyncAlways == Spec => []InSync
<1>1. IInv => InSync
  BY DEF IInv, Owing, InSync, Quiet, Unsettled
<1>2. QED
  BY Inductive, <1>1, PTL

-----------------------------------------------------------------------------
(* Calls that do not overlap, by any number of callers.                    *)

(* The part of Apply from the read of config.json to the return.           *)
Applying == {"read", "status", "bounce", "swap"} \union Unsettled

(* What a lock around that part would give: builds may still overlap.      *)
AppliesApart ==
    \A p, q \in Procs : pc[p] \in Applying /\ pc[q] \in Applying => p = q

(* What a lock around the whole of Reconcile would give.                   *)
CallsApart == \A p, q \in Procs : pc[p] # "idle" /\ pc[q] # "idle" => p = q

(* The call that applies and goes on knows what is on disk; one that       *)
(* rolls back ends in an error, wherever the rollback has left the file.   *)
OnDisk ==
    \A p \in Procs :
        /\ pc[p] \in {"status", "bounce", "restart"} => file = cfg[p]
        /\ pc[p] # "idle" => result[p] = "none"

(* A call that applies alone keeps track of the file: builds of others, the*)
(* time that passes, exits of the core and kills do not touch it.          *)
LEMMA OnDiskStep ==
    ASSUME TypeOK, AppliesApart, OnDisk, [Next]_vars
    PROVE  OnDisk'
<1> USE ConstantsAssumption DEF TypeOK, OnDisk, AppliesApart, Applying, Unsettled
<1>1. ASSUME NEW p \in Procs, Edit(p) \/ Rebuild(p) \/ JobTick(p) PROVE OnDisk'
  BY <1>1 DEF Edit, Rebuild, JobTick, Call
<1>2. ASSUME NEW p \in Procs,
             ReadInbounds(p) \/ BuildIntegratedConfig(p) \/ CheckBytes(p)
      PROVE  OnDisk'
  BY <1>2 DEF ReadInbounds, BuildIntegratedConfig, CheckBytes, Return, Goto
<1>3. ASSUME NEW p \in Procs, ReadOld(p) \/ Status(p) PROVE OnDisk'
  BY <1>3 DEF ReadOld, Status, Return, Goto
<1>4. ASSUME NEW p \in Procs, Bounce(p) \/ Restart(p) PROVE OnDisk'
  BY <1>4 DEF Bounce, Restart, Return, Goto
<1>5. ASSUME NEW p \in Procs, Swap(p) PROVE OnDisk'
  BY <1>5 DEF Swap, Return, Goto
<1>6. ASSUME NEW p \in Procs, Rollback(p) \/ Rewrite(p) PROVE OnDisk'
  BY <1>6 DEF Rollback, Rewrite, Goto
<1>7. ASSUME NEW p \in Procs, Rerestart(p) \/ Stop(p) PROVE OnDisk'
  BY <1>7 DEF Rerestart, Stop, Return
<1>8. CASE Expire \/ CoreExit \/ AutoRestart \/ PanelCrash
  BY <1>8 DEF Expire, CoreExit, AutoRestart, PanelCrash
<1>9. CASE UNCHANGED vars
  BY <1>9 DEF vars
<1>10. QED
  BY <1>1, <1>2, <1>3, <1>4, <1>5, <1>6, <1>7, <1>8, <1>9 DEF Next, ReconcileStep

(* The return of nil: a restart has just loaded the file, or the shortcut  *)
(* found the file standing for what runs because nobody else owes it a     *)
(* restart (Owing).                                                        *)
LEMMA NilStep ==
    ASSUME IInv, OnDisk, AppliesApart, [Next]_vars, NEW c \in Procs,
           pc[c] # "idle", result'[c] = "ok", ~disturbed'
    PROVE  core' = cfg[c]
<1> USE ConstantsAssumption DEF IInv, TypeOK, OnDisk
<1>1. result[c] = "none" /\ result' # result
  OBVIOUS
<1>2. ASSUME NEW p \in Procs, Edit(p) \/ Rebuild(p) \/ JobTick(p) PROVE FALSE
  BY <1>1, <1>2 DEF Edit, Rebuild, JobTick, Call
<1>3. ASSUME NEW p \in Procs,
             ReadInbounds(p) \/ BuildIntegratedConfig(p) \/ CheckBytes(p)
      PROVE  FALSE
  BY <1>1, <1>3 DEF ReadInbounds, BuildIntegratedConfig, CheckBytes, Return, Goto
<1>4. ASSUME NEW p \in Procs, ReadOld(p) \/ Swap(p) PROVE FALSE
  BY <1>1, <1>4 DEF ReadOld, Swap, Return, Goto
<1>5. ASSUME NEW p \in Procs, Rollback(p) \/ Rewrite(p) PROVE FALSE
  BY <1>1, <1>5 DEF Rollback, Rewrite, Goto
<1>6. ASSUME NEW p \in Procs, Rerestart(p) \/ Stop(p) PROVE FALSE
  BY <1>1, <1>6 DEF Rerestart, Stop, Return
<1>7. ASSUME NEW p \in Procs, Bounce(p) \/ Restart(p) PROVE core' = cfg[c]
  <2>1. p = c
    BY <1>1, <1>7 DEF Bounce, Restart, Return, Goto
  <2>2. QED
    BY <2>1, <1>1, <1>7 DEF Bounce, Restart, RestartOk, RestartFails, Return, Goto
<1>8. ASSUME NEW p \in Procs, Status(p) PROVE core' = cfg[c]
  <2>1. p = c /\ Active /\ core' = core /\ ~disturbed /\ pc[c] = "status"
    BY <1>1, <1>8 DEF Status, Return, Goto
  <2>2. \A q \in Procs : pc[q] \notin Unsettled
    BY <2>1 DEF AppliesApart, Applying, Unsettled
  <2>3. QED
    BY <2>1, <2>2 DEF Owing
<1>9. CASE Expire \/ CoreExit \/ AutoRestart \/ PanelCrash
  BY <1>1, <1>9 DEF Expire, CoreExit, AutoRestart, PanelCrash
<1>10. CASE UNCHANGED vars
  BY <1>1, <1>10 DEF vars
<1>11. QED
  BY <1>2, <1>3, <1>4, <1>5, <1>6, <1>7, <1>8, <1>9, <1>10 DEF Next, ReconcileStep

(* As long as no two calls apply at once, a Reconcile that returns nil     *)
(* leaves a process that loaded the document this very call rendered,      *)
(* whatever fails, rollbacks included.                                     *)
THEOREM OkServed == Spec /\ []AppliesApart => OkMeansServed
<1>1. Init => OnDisk
  BY DEF Init, OnDisk
<1>2. IInv /\ OnDisk /\ AppliesApart /\ [Next]_vars => OnDisk'
  BY OnDiskStep DEF IInv
<1>3. IInv /\ OnDisk /\ AppliesApart /\ [Next]_vars => [OkLoaded]_vars
  BY NilStep DEF OkLoaded
<1>4. QED
  BY <1>1, <1>2, <1>3, Inductive, PTL DEF Spec, OkMeansServed

-----------------------------------------------------------------------------
(* What a call has read is current, or something has lapsed since.         *)

(* As long as nothing has lapsed since a call began, the inbounds a build  *)
(* holds, the document made of them and the file when all calls ended well *)
(* are those of the tables: only an expiry changes the tables under the    *)
(* call in progress.                                                       *)
Current ==
    ~lapsed =>
      /\ \A p \in Procs :
            /\ pc[p] = "clients" => seen[p] = db.inbounds
            /\ pc[p] \notin {"idle", "build", "clients"} => cfg[p] = Rendering(db)
      /\ Quiet /\ (\A p \in Procs : result[p] = "ok") => file = Rendering(db)

(* A call in progress keeps up with the tables: whatever changes them, its *)
(* two reads notwithstanding, is noted as a lapse.                         *)
LEMMA CurrentStep ==
    ASSUME TypeOK, OnDisk, CallsApart, CallsApart', Current, [Next]_vars
    PROVE  Current'
<1> USE ConstantsAssumption
        DEF TypeOK, OnDisk, CallsApart, Current, Quiet, Rendering
<1>1. ASSUME NEW p \in Procs, Edit(p) \/ Rebuild(p) \/ JobTick(p) PROVE Current'
  BY <1>1 DEF Edit, Rebuild, JobTick, Call
<1>2. ASSUME NEW p \in Procs, ReadInbounds(p) \/ BuildIntegratedConfig(p)
      PROVE  Current'
  BY <1>2 DEF ReadInbounds, BuildIntegratedConfig, Return, Goto
<1>3. ASSUME NEW p \in Procs, CheckBytes(p) \/ ReadOld(p) PROVE Current'
  BY <1>3 DEF CheckBytes, ReadOld, Return, Goto
<1>4. ASSUME NEW p \in Procs, Status(p) \/ Bounce(p) \/ Restart(p) PROVE Current'
  <2>1. /\ pc[p] \in {"status", "bounce", "restart"}
        /\ pc' \in {[pc EXCEPT ![p] = l] : l \in {"idle", "bounce", "rollback"}}
        /\ UNCHANGED <<db, file, seen, cfg, lapsed>>
    BY <1>4 DEF Status, Bounce, Restart, Return, Goto
  <2>2. ~lapsed => file = Rendering(db)
    BY <2>1
  <2>3. QED
    BY <2>1, <2>2
<1>5. ASSUME NEW p \in Procs, Swap(p) PROVE Current'
  BY <1>5 DEF Swap, Return, Goto
<1>6. ASSUME NEW p \in Procs, Rollback(p) \/ Rewrite(p) PROVE Current'
  BY <1>6 DEF Rollback, Rewrite, Goto
<1>7. ASSUME NEW p \in Procs, Rerestart(p) \/ Stop(p) PROVE Current'
  BY <1>7 DEF Rerestart, Stop, Return
<1>8. CASE Expire \/ CoreExit \/ AutoRestart \/ PanelCrash
  BY <1>8 DEF Expire, CoreExit, AutoRestart, PanelCrash
<1>9. CASE UNCHANGED vars
  BY <1>9 DEF vars
<1>10. QED
  BY <1>1, <1>2, <1>3, <1>4, <1>5, <1>6, <1>7, <1>8, <1>9 DEF Next, ReconcileStep

(* As long as calls do not overlap: once all have returned nil and nothing *)
(* has lapsed since, config.json is the rendering of the tables as they    *)
(* are, although changes may have torn builds.                             *)
THEOREM Rebuilt == Spec /\ []CallsApart => []RebuiltFromTables
<1>1. Init => OnDisk /\ Current
  BY DEF Init, OnDisk, Current
<1>2. CallsApart => AppliesApart
  BY DEF CallsApart, AppliesApart, Applying, Unsettled
<1>3. IInv /\ OnDisk /\ AppliesApart /\ [Next]_vars => OnDisk'
  BY OnDiskStep DEF IInv
<1>4. IInv /\ OnDisk /\ Current /\ CallsApart /\ CallsApart' /\ [Next]_vars
        => Current'
  BY CurrentStep DEF IInv
<1>5. Current => RebuiltFromTables
  BY DEF Current, RebuiltFromTables
<1>6. QED
  BY <1>1, <1>2, <1>3, <1>4, <1>5, Inductive, PTL DEF Spec

-----------------------------------------------------------------------------
(* Calls whose applying parts do not overlap implement ConfigPublisher.    *)

(* The call that applies knows what it has left on disk, whichever way its *)
(* rollback goes.                                                          *)
Undone ==
    \A p \in Procs :
        /\ pc[p] = "swap" => file = old[p]
        /\ pc[p] = "rollback" => file = cfg[p]
        /\ pc[p] = "rewrite" => file = Torn
        /\ pc[p] \in {"rerestart", "stop"} =>
              \/ file = old[p]
              \/ "rollback" \in Faults /\ file \in {cfg[p], Torn}

(* While no two calls apply at once, nobody else writes the file of one    *)
(* that does.                                                              *)
LEMMA UndoneStep ==
    ASSUME TypeOK, AppliesApart, OnDisk, Undone, [Next]_vars
    PROVE  Undone'
<1> USE ConstantsAssumption DEF TypeOK, OnDisk, Undone, AppliesApart, Applying, Unsettled
<1>1. ASSUME NEW p \in Procs, Edit(p) \/ Rebuild(p) \/ JobTick(p) PROVE Undone'
  BY <1>1 DEF Edit, Rebuild, JobTick, Call
<1>2. ASSUME NEW p \in Procs,
             ReadInbounds(p) \/ BuildIntegratedConfig(p) \/ CheckBytes(p)
      PROVE  Undone'
  BY <1>2 DEF ReadInbounds, BuildIntegratedConfig, CheckBytes, Return, Goto
<1>3. ASSUME NEW p \in Procs, ReadOld(p) \/ Status(p) PROVE Undone'
  BY <1>3 DEF ReadOld, Status, Return, Goto
<1>4. ASSUME NEW p \in Procs, Bounce(p) \/ Restart(p) PROVE Undone'
  BY <1>4 DEF Bounce, Restart, Return, Goto
<1>5. ASSUME NEW p \in Procs, Swap(p) PROVE Undone'
  BY <1>5 DEF Swap, Return, Goto
<1>6. ASSUME NEW p \in Procs, Rollback(p) PROVE Undone'
  BY <1>6 DEF Rollback, Goto
<1>7. ASSUME NEW p \in Procs, Rewrite(p) PROVE Undone'
  BY <1>7 DEF Rewrite, Goto
<1>8. ASSUME NEW p \in Procs, Rerestart(p) \/ Stop(p) PROVE Undone'
  BY <1>8 DEF Rerestart, Stop, Return
<1>9. CASE Expire \/ CoreExit \/ AutoRestart \/ PanelCrash
  BY <1>9 DEF Expire, CoreExit, AutoRestart, PanelCrash
<1>10. CASE UNCHANGED vars
  BY <1>10 DEF vars
<1>11. QED
  BY <1>1, <1>2, <1>3, <1>4, <1>5, <1>6, <1>7, <1>8, <1>9, <1>10 DEF Next, ReconcileStep

(* What is published before and after a step of the call that applies.     *)
LEMMA PublishedByApply ==
    ASSUME TypeOK, AppliesApart, NEW p \in Procs, pc[p] \in Applying,
           NEW l \in PCs, pc' = [pc EXCEPT ![p] = l]
    PROVE  /\ Published = IF pc[p] \in Unsettled THEN old[p] ELSE file
           /\ Published' = IF l \in Unsettled THEN old'[p] ELSE file'
<1>1. \A q \in Procs : q # p => pc[q] \notin Unsettled
  BY DEF AppliesApart, Applying
<1>2. /\ Midway = IF pc[p] \in Unsettled THEN {p} ELSE {}
      /\ Midway' = IF l \in Unsettled THEN {p} ELSE {}
  BY <1>1 DEF Midway, TypeOK
<1>3. (CHOOSE q \in {p} : TRUE) = p /\ {p} # {}
  OBVIOUS
<1>4. QED
  BY <1>2, <1>3 DEF Published

(* A step outside it changes nothing of that.                              *)
LEMMA PublishedByOthers ==
    ASSUME TypeOK, NEW p \in Procs, pc[p] \notin Unsettled,
           NEW l \in PCs \ Unsettled, pc' = [pc EXCEPT ![p] = l], UNCHANGED <<file, old>>
    PROVE  Published' = Published
<1>1. Midway' = Midway
  BY DEF Midway, TypeOK
<1>2. QED
  BY <1>1 DEF Published

(* A document is on offer from the build to the return.                    *)
LEMMA OfferedByCall ==
    ASSUME TypeOK, NEW p \in Procs, NEW l \in PCs, pc' = [pc EXCEPT ![p] = l],
           NEW c, cfg' = [cfg EXCEPT ![p] = c]
    PROVE  Offered' = [Offered EXCEPT ![p] =
                          IF l \in {"idle", "build", "clients"} THEN NoFile ELSE c]
BY DEF Offered, TypeOK

(* What a call offers, read off the place where it stands.                 *)
LEMMA WhatIsOffered ==
    ASSUME NEW p \in Procs
    PROVE  Offered[p] = IF pc[p] \in {"idle", "build", "clients"} THEN NoFile ELSE cfg[p]
BY DEF Offered

(* A call that keeps its document and its side of the build offers the     *)
(* same.                                                                   *)
LEMMA SameOffer ==
    ASSUME TypeOK, NEW p \in Procs, NEW l \in PCs, pc' = [pc EXCEPT ![p] = l], cfg' = cfg,
           pc[p] \in {"idle", "build", "clients"} <=> l \in {"idle", "build", "clients"}
    PROVE  Offered' = Offered
<1>1. \A q \in Procs : pc'[q] \in {"idle", "build", "clients"} <=> pc[q] \in {"idle", "build", "clients"}
  BY DEF TypeOK
<1>2. \A q \in Procs :
          (IF pc'[q] \in {"idle", "build", "clients"} THEN NoFile ELSE cfg'[q])
              = IF pc[q] \in {"idle", "build", "clients"} THEN NoFile ELSE cfg[q]
  BY <1>1
<1>3. QED
  BY <1>2 DEF Offered

(* A step of the call that applies, as ConfigPublisher sees it.            *)
LEMMA SeenOfApply ==
    ASSUME IInv, AppliesApart, OnDisk, NEW p \in Procs, pc[p] \in Applying,
           NEW l \in PCs \ {"build", "clients"}, pc' = [pc EXCEPT ![p] = l], cfg' = cfg
    PROVE  /\ result[p] = "none" /\ Offered[p] = cfg[p] /\ cfg[p] \in Valid
           /\ Offered' = IF l = "idle" THEN [Offered EXCEPT ![p] = NoFile] ELSE Offered
           /\ Published = IF pc[p] \in Unsettled THEN old[p] ELSE file
           /\ Published' = IF l \in Unsettled THEN old'[p] ELSE file'
<1>1. TypeOK /\ Offers(p)
  BY DEF IInv
<1>2. pc[p] \notin {"idle", "build", "clients", "check"}
  BY DEF Applying, Unsettled
<1>3. result[p] = "none" /\ Offered[p] = cfg[p] /\ cfg[p] \in Valid
  BY <1>1, <1>2, WhatIsOffered DEF OnDisk, Offers
<1>4. cfg' = [cfg EXCEPT ![p] = cfg[p]]
  BY <1>1 DEF TypeOK
<1>5. Offered' = IF l = "idle" THEN [Offered EXCEPT ![p] = NoFile] ELSE Offered
  <2>1. CASE l = "idle"
    BY <1>1, <1>4, <2>1, OfferedByCall
  <2>2. CASE l # "idle"
    BY <1>1, <1>2, <2>2, SameOffer
  <2>3. QED
    BY <2>1, <2>2
<1>6. QED
  BY <1>1, <1>3, <1>5, PublishedByApply

(* Each step of a call is one of ConfigPublisher or changes nothing it     *)
(* sees: the swap is invisible until the restart, and a rollback ends      *)
(* where the call began, unless it fails itself.                           *)
LEMMA PublisherStep ==
    ASSUME IInv, AppliesApart, OnDisk, Undone, [Next]_vars
    PROVE  [Publisher!Next]_(Publisher!vars)
<1> USE ConstantsAssumption
<1>0. TypeOK /\ \A p \in Procs : Offers(p)
  BY DEF IInv
<1>1. ASSUME NEW p \in Procs, Edit(p) \/ Rebuild(p) \/ JobTick(p) PROVE Publisher!Begin(p)
  <2>1. /\ pc[p] = "idle" /\ pc' = [pc EXCEPT ![p] = "build"]
        /\ UNCHANGED <<file, cfg, old>> /\ result' = [result EXCEPT ![p] = "none"] /\ db' \in Databases
    BY <1>0, <1>1 DEF Edit, Rebuild, JobTick, Call, TypeOK
  <2>2. Published' = Published
    BY <1>0, <2>1, PublishedByOthers DEF PCs, Unsettled
  <2>3. Offered[p] = NoFile /\ Offered' = Offered
    BY <1>0, <2>1, WhatIsOffered, SameOffer DEF PCs
  <2>4. QED
    BY <2>1, <2>2, <2>3 DEF Publisher!Begin
<1>2. ASSUME NEW p \in Procs, ReadInbounds(p) PROVE UNCHANGED Publisher!vars
  <2>1. /\ pc[p] = "build" /\ pc' = [pc EXCEPT ![p] = "clients"]
        /\ UNCHANGED <<db, file, cfg, old, result>>
    BY <1>0, <1>2 DEF ReadInbounds, Goto, TypeOK
  <2>2. Published' = Published
    BY <1>0, <2>1, PublishedByOthers DEF PCs, Unsettled
  <2>3. Offered[p] = NoFile /\ Offered' = Offered
    BY <1>0, <2>1, WhatIsOffered, SameOffer DEF PCs
  <2>4. QED
    BY <2>1, <2>2, <2>3 DEF Publisher!vars
<1>3. ASSUME NEW p \in Procs, BuildIntegratedConfig(p)
      PROVE  Publisher!Offer(p) \/ Publisher!Refuse(p)
  <2> DEFINE built == Render[<<seen[p], db.clients>>]
  <2>1. /\ pc[p] = "clients" /\ result[p] = "none" /\ seen[p] \in InboundRows
        /\ cfg' = [cfg EXCEPT ![p] = built] /\ UNCHANGED <<db, file, old>>
    BY <1>0, <1>3 DEF BuildIntegratedConfig, OnDisk, Offers
  <2>2. CASE built = BuildError
    <3>1. pc' = [pc EXCEPT ![p] = "idle"] /\ result' = [result EXCEPT ![p] = "err"]
      BY <1>3, <2>2 DEF BuildIntegratedConfig, Return
    <3>2. Published' = Published
      BY <1>0, <2>1, <3>1, PublishedByOthers DEF PCs, Unsettled
    <3>3. Offered' = [Offered EXCEPT ![p] = NoFile]
      BY <1>0, <2>1, <3>1, OfferedByCall DEF PCs
    <3>4. QED
      BY <2>1, <3>1, <3>2, <3>3 DEF Publisher!Refuse, Publisher!End
  <2>3. CASE built # BuildError
    <3>1. pc' = [pc EXCEPT ![p] = "check"] /\ result' = result
      BY <1>3, <2>3 DEF BuildIntegratedConfig, Goto
    <3>2. Published' = Published
      BY <1>0, <2>1, <3>1, PublishedByOthers DEF PCs, Unsettled
    <3>3. Offered[p] = NoFile /\ Offered' = [Offered EXCEPT ![p] = built]
      BY <1>0, <2>1, <3>1, WhatIsOffered, OfferedByCall DEF PCs
    <3>4. QED
      BY <2>1, <3>1, <3>2, <3>3 DEF Publisher!Offer
  <2>4. QED
    BY <2>2, <2>3
<1>4. ASSUME NEW p \in Procs, CheckBytes(p)
      PROVE  UNCHANGED Publisher!vars \/ Publisher!Refuse(p)
  <2>1. /\ pc[p] = "check" /\ result[p] = "none" /\ cfg' = [cfg EXCEPT ![p] = cfg[p]]
        /\ UNCHANGED <<db, file, cfg, old>>
    BY <1>0, <1>4 DEF CheckBytes, OnDisk, TypeOK
  <2>2. CASE pc' = [pc EXCEPT ![p] = "read"] /\ result' = result
    <3>1. Published' = Published
      BY <1>0, <2>1, <2>2, PublishedByOthers DEF PCs, Unsettled
    <3>2. Offered' = Offered
      BY <1>0, <2>1, <2>2, WhatIsOffered, SameOffer DEF PCs
    <3>3. QED
      BY <2>1, <2>2, <3>1, <3>2 DEF Publisher!vars
  <2>3. CASE pc' = [pc EXCEPT ![p] = "idle"] /\ result' = [result EXCEPT ![p] = "err"]
    <3>1. Published' = Published
      BY <1>0, <2>1, <2>3, PublishedByOthers DEF PCs, Unsettled
    <3>2. Offered' = [Offered EXCEPT ![p] = NoFile]
      BY <1>0, <2>1, <2>3, OfferedByCall DEF PCs
    <3>3. QED
      BY <2>1, <2>3, <3>1, <3>2 DEF Publisher!Refuse, Publisher!End
  <2>4. QED
    BY <1>4, <2>2, <2>3 DEF CheckBytes, Goto, Return
<1>5. ASSUME NEW p \in Procs, ReadOld(p)
      PROVE  UNCHANGED Publisher!vars \/ Publisher!Refuse(p)
  <2>1. pc[p] = "read" /\ pc[p] \in Applying \ Unsettled /\ UNCHANGED <<db, file, cfg>>
    BY <1>5 DEF ReadOld, Applying, Unsettled
  <2>2. CASE \E l \in {"status", "swap"} : Goto(p, l)
    BY <2>1, <2>2, SeenOfApply DEF Goto, PCs, Unsettled, Publisher!vars
  <2>3. CASE Return(p, "err")
    BY <2>1, <2>3, SeenOfApply DEF Return, PCs, Unsettled, Publisher!Refuse, Publisher!End
  <2>4. QED
    BY <1>5, <2>2, <2>3 DEF ReadOld
<1>6. ASSUME NEW p \in Procs, Status(p) \/ Bounce(p)
      PROVE  UNCHANGED Publisher!vars \/ Publisher!Publish(p) \/ Publisher!Refuse(p)
  <2>1. /\ pc[p] \in {"status", "bounce"} /\ pc[p] \in Applying \ Unsettled
        /\ UNCHANGED <<db, file, cfg>> /\ file = cfg[p]
    BY <1>6 DEF Status, Bounce, Applying, Unsettled, OnDisk
  <2>2. CASE Goto(p, "bounce")
    <3>1. pc' = [pc EXCEPT ![p] = "bounce"] /\ result' = result
      BY <2>2 DEF Goto
    <3>2. "bounce" \in PCs \ {"build", "clients"} /\ "bounce" \notin Unsettled
      BY DEF PCs, Unsettled
    <3>3. Published' = file' /\ Published = file /\ Offered' = Offered
      BY <2>1, <3>1, <3>2, SeenOfApply
    <3>4. QED
      BY <2>1, <3>1, <3>3 DEF Publisher!vars
  <2>3. CASE Return(p, "ok")
    BY <2>1, <2>3, SeenOfApply DEF Return, PCs, Unsettled, Publisher!Publish, Publisher!End
  <2>4. CASE Return(p, "err")
    BY <2>1, <2>4, SeenOfApply DEF Return, PCs, Unsettled, Publisher!Refuse, Publisher!End
  <2>5. QED
    <3>1. CASE Status(p)
      BY <3>1, <2>2, <2>3 DEF Status
    <3>2. CASE Bounce(p)
      BY <3>2, <2>3, <2>4 DEF Bounce
    <3>3. QED
      BY <1>6, <3>1, <3>2
<1>7. ASSUME NEW p \in Procs, Swap(p)
      PROVE  UNCHANGED Publisher!vars \/ Publisher!Refuse(p)
  <2>1. /\ pc[p] = "swap" /\ pc[p] \in Applying \ Unsettled
        /\ UNCHANGED <<db, cfg, old>> /\ file = old[p]
    BY <1>7 DEF Swap, Applying, Unsettled, Undone
  <2>2. CASE Goto(p, "restart")
    BY <2>1, <2>2, SeenOfApply DEF Goto, PCs, Unsettled, Publisher!vars
  <2>3. CASE Return(p, "err") /\ UNCHANGED file
    BY <2>1, <2>3, SeenOfApply DEF Return, PCs, Unsettled, Publisher!Refuse, Publisher!End
  <2>4. QED
    BY <1>7, <2>2, <2>3 DEF Swap
<1>8. ASSUME NEW p \in Procs, Restart(p)
      PROVE  UNCHANGED Publisher!vars \/ Publisher!Publish(p)
  <2>1. /\ pc[p] = "restart" /\ pc[p] \in Applying \intersect Unsettled
        /\ UNCHANGED <<db, file, cfg, old>> /\ file = cfg[p]
    BY <1>8 DEF Restart, Applying, Unsettled, OnDisk
  <2>2. CASE Goto(p, "rollback")
    BY <2>1, <2>2, SeenOfApply DEF Goto, PCs, Unsettled, Publisher!vars
  <2>3. CASE Return(p, "ok")
    BY <2>1, <2>3, SeenOfApply DEF Return, PCs, Unsettled, Publisher!Publish, Publisher!End
  <2>4. QED
    BY <1>8, <2>2, <2>3 DEF Restart
<1>9. ASSUME NEW p \in Procs, Rollback(p) \/ Rewrite(p) PROVE UNCHANGED Publisher!vars
  <2>1. /\ pc[p] \in Applying \intersect Unsettled /\ UNCHANGED <<db, cfg, old>>
        /\ \E l \in {"rewrite", "rerestart", "stop"} : Goto(p, l)
    BY <1>9 DEF Rollback, Rewrite, Applying, Unsettled
  <2>2. QED
    BY <2>1, SeenOfApply DEF Goto, PCs, Unsettled, Publisher!vars
<1>10. ASSUME NEW p \in Procs, Rerestart(p) \/ Stop(p)
       PROVE  Publisher!Refuse(p) \/ Publisher!RollbackFails(p)
  <2>1. /\ pc[p] \in {"rerestart", "stop"} /\ pc[p] \in Applying \intersect Unsettled
        /\ UNCHANGED <<db, file, cfg, old>> /\ Return(p, "err")
    BY <1>10 DEF Rerestart, Stop, Applying, Unsettled
  <2>2. /\ result[p] = "none" /\ Offered[p] = cfg[p] /\ cfg[p] \in Valid
        /\ Offered' = [Offered EXCEPT ![p] = NoFile]
        /\ Published = old[p] /\ Published' = file /\ db' = db
        /\ result' = [result EXCEPT ![p] = "err"]
    BY <2>1, SeenOfApply DEF Return, PCs, Unsettled
  <2>3. CASE file = old[p]
    BY <2>2, <2>3 DEF Publisher!Refuse, Publisher!End
  <2>4. CASE "rollback" \in Faults /\ file \in {cfg[p], Torn}
    BY <2>2, <2>4 DEF Publisher!RollbackFails, Publisher!End
  <2>5. QED
    BY <2>1, <2>3, <2>4 DEF Undone
<1>11. ASSUME PanelCrash PROVE Publisher!Die
  <2>1. /\ Midway' = {} /\ db' = db /\ file' = file /\ "crash" \in Faults
        /\ Offered' = [p \in Procs |-> NoFile] /\ result' = [p \in Procs |-> "none"]
    BY <1>11 DEF PanelCrash, Midway, Offered, Unsettled
  <2>2. Published' = file
    BY <2>1 DEF Published
  <2>3. ASSUME Midway # {}, Published # file
        PROVE  \E p \in Procs : Offered[p] \in Valid /\ file \in {Offered[p], Torn}
    <3>1. PICK p \in Midway : Published = old[p]
      BY <2>3 DEF Published
    <3>2. p \in Procs /\ pc[p] \in Unsettled /\ file # old[p]
      BY <2>3, <3>1 DEF Midway
    <3>3. Offered[p] = cfg[p] /\ cfg[p] \in Valid
      BY <1>0, <3>2, WhatIsOffered DEF Offers, Unsettled
    <3>4. file \in {cfg[p], Torn}
      BY <3>2 DEF Undone, OnDisk, Unsettled
    <3>5. QED
      BY <3>2, <3>3, <3>4
  <2>4. Published = file \/ \E p \in Procs : Offered[p] \in Valid /\ file \in {Offered[p], Torn}
    BY <2>3 DEF Published
  <2>5. QED
    BY <2>1, <2>2, <2>4 DEF Publisher!Die
<1>12. ASSUME UNCHANGED <<file, pc, cfg, old>>
       PROVE  Published' = Published /\ Offered' = Offered
  <2>1. Midway' = Midway /\ Offered' = Offered
    BY <1>12 DEF Midway, Offered
  <2>2. QED
    BY <1>12, <2>1 DEF Published
<1>13. ASSUME Expire PROVE Publisher!Change
  BY <1>12, <1>13 DEF Expire, Publisher!Change
<1>14. ASSUME CoreExit \/ AutoRestart \/ UNCHANGED vars PROVE UNCHANGED Publisher!vars
  BY <1>12, <1>14 DEF CoreExit, AutoRestart, vars, Publisher!vars
<1>15. ASSUME NEW p \in Procs, Edit(p) \/ Rebuild(p) \/ JobTick(p) \/ ReconcileStep(p)
       PROVE  [Publisher!Next]_(Publisher!vars)
  BY <1>1, <1>2, <1>3, <1>4, <1>5, <1>6, <1>7, <1>8, <1>9, <1>10, <1>15
     DEF ReconcileStep, Publisher!Next
<1>16. CASE Expire \/ PanelCrash
  BY <1>11, <1>13, <1>16 DEF Publisher!Next
<1>17. QED
  BY <1>14, <1>15, <1>16 DEF Next

(* Apply publishes as a whole or not at all, and says so, for any number   *)
(* of callers of which no two apply at once, whatever fails; only a        *)
(* rollback that fails itself and a kill may spoil what is published, and  *)
(* they only with the document on offer or a file cut short.               *)
THEOREM ApplyAtomic == Spec /\ []AppliesApart => ApplyIsAtomic
<1>1. Init => OnDisk /\ Undone
  BY DEF Init, OnDisk, Undone
<1>2. IInv /\ AppliesApart /\ OnDisk /\ Undone /\ [Next]_vars => OnDisk' /\ Undone'
  BY OnDiskStep, UndoneStep DEF IInv
<1>3. Init => Publisher!Init
  BY DEF Init, Offered, Publisher!Init
<1>4. IInv /\ AppliesApart /\ OnDisk /\ Undone /\ [Next]_vars
        => [Publisher!Next]_(Publisher!vars)
  BY PublisherStep
<1>5. QED
  BY <1>1, <1>2, <1>3, <1>4, Inductive, PTL DEF Spec, ApplyIsAtomic, Publisher!Spec

=============================================================================
