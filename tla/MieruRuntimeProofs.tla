------------------------- MODULE MieruRuntimeProofs -------------------------
(***************************************************************************)
(* Theorems about MieruRuntime for every set of inbounds, documents and    *)
(* ports, for any number of callers and every combination of faults: types *)
(* whatever the callers do, and what they can rely on while their calls do *)
(* not overlap.                                                            *)
(***************************************************************************)
EXTENDS MieruRuntime, TLAPS

(* The instance is found by its file, and what is up loaded that file.     *)
InOrder(i) ==
    /\ i \in enabled \/ unit[i] # Down => file[i] # NoFile
    /\ Alive(i) => unit[i] = file[i]

(* The document the call rendered for i is in place and loaded.            *)
Served(c, i) ==
    /\ file[i] = built[c][i]
    /\ unit[i] \in {built[c][i], Waiting}
    /\ i \in enabled

Applying == {"enable", "verify", "restart", "swap", "start", "started", "rollback"}
Removing == {"remove", "delete"}

(* Where the call stands tells what it works on, and the file of it.       *)
Position(c) ==
    /\ pc[c] \in Applying \union {"next"} => \A i \in left[c] : built[c][i] # NoFile
    /\ pc[c] \in Applying => built[c][at[c]] # NoFile
    /\ pc[c] \in Applying \ {"swap"} => file[at[c]] = built[c][at[c]]
    /\ pc[c] = "rerestart" => file[at[c]] # NoFile
    /\ pc[c] = "swap" => old[c] # built[c][at[c]] /\ file[at[c]] = old[c]
    /\ pc[c] \in {"enable", "verify", "restart"} => old[c] = built[c][at[c]]
    /\ pc[c] # "idle" => result[c] = "none"

(* The rollback has restored the file, unless it failed.                   *)
Undone(c) ==
    pc[c] \in {"rerestart", "disable"} =>
        /\ built[c][at[c]] # NoFile
        /\ \/ file[at[c]] = old[c]
           \/ "rollback" \in Faults /\ file[at[c]] \in {built[c][at[c]], Torn}

(* What the loop has passed is in place, whatever became of the processes. *)
Passed(c) ==
    \A i \in Ids :
        /\ built[c][i] # NoFile
        /\ \/ pc[c] = "next" /\ i \notin left[c]
           \/ pc[c] \in Applying /\ i \notin left[c] \union {at[c]}
           \/ pc[c] \in Removing
        => file[i] = built[c][i]

(* The removal loop still has before it all that is not wanted.            *)
Leftovers(c) ==
    pc[c] \in Removing =>
        /\ \A i \in left[c] : built[c][i] = NoFile
        /\ pc[c] = "delete" => /\ built[c][at[c]] = NoFile
                               /\ unit[at[c]] = Down
                               /\ at[c] \notin enabled
        /\ \A i \in Ids : file[i] # NoFile /\ built[c][i] = NoFile =>
              i \in left[c] \/ (pc[c] = "delete" /\ i = at[c])

(* All instances are in order, but the one whose document the call has     *)
(* just exchanged; of that one only its first rollback loses the file.     *)
Order(c) ==
    \A i \in Ids :
        \/ InOrder(i)
        \/ /\ i = at[c]
           /\ \/ pc[c] \in {"start", "rollback", "rerestart"} /\ file[i] # NoFile
              \/ pc[c] = "disable"

(* What the loop has passed is served.                                     *)
Progress(c) ==
    /\ pc[c] \in {"verify", "started"} => at[c] \in enabled
    /\ \A i \in Ids :
          /\ built[c][i] # NoFile
          /\ \/ pc[c] = "next" /\ i \notin left[c]
             \/ pc[c] \in Applying /\ i \notin left[c] \union {at[c]}
             \/ pc[c] \in Removing
          => Served(c, i)

IInv(c) ==
    /\ Position(c)
    /\ Undone(c)
    /\ Passed(c)
    /\ Leftovers(c)
    /\ ~disturbed => Order(c) /\ Progress(c)

-----------------------------------------------------------------------------

(* A started instance runs its document, or waits to be started again.     *)
LEMMA LaunchResult ==
    ASSUME TypeOK, NEW i \in Ids, Launch(i)
    PROVE  /\ \E u \in {Waiting, file[i]} :
                 /\ unit' = [unit EXCEPT ![i] = u]
                 /\ u # Waiting => file[i] \in Docs
           /\ socket' \subseteq Ids
BY ConstantsAssumption DEF TypeOK, Launch, SocketsAfterStop, Alive

(* Types of the units after any of the commands the runtime gives systemd. *)
LEMMA CommandTypes ==
    ASSUME TypeOK, NEW i \in Ids,
           \/ RestartUnit(i) \/ RestartUnitFails(i) \/ DisableUnit(i)
           \/ SystemctlFails
    PROVE  /\ unit' \in [Ids -> Docs \union {Down, Waiting}]
           /\ enabled' \subseteq Ids
           /\ socket' \subseteq Ids
           /\ disturbed' \in BOOLEAN
<1> USE DEF TypeOK
<1>1. CASE RestartUnit(i)
  BY <1>1, LaunchResult DEF RestartUnit
<1>2. CASE RestartUnitFails(i) \/ DisableUnit(i) \/ SystemctlFails
  BY <1>2 DEF RestartUnitFails, DisableUnit, SystemctlFails, SocketsAfterStop
<1>3. QED
  BY <1>1, <1>2

(* Types of the program counter and the result of a call.                  *)
LEMMA ControlTypes ==
    ASSUME TypeOK, NEW p \in Procs,
           (\E l \in PCs : Goto(p, l)) \/ (\E r \in {"ok", "err"} : Return(p, r))
    PROVE  pc' \in [Procs -> PCs] /\ result' \in [Procs -> {"none", "ok", "err"}]
BY DEF TypeOK, Goto, Return, PCs

(* Every action keeps the types.                                           *)
LEMMA TypeStep ==
    ASSUME TypeOK, [Next]_vars
    PROVE  TypeOK'
<1> USE ConstantsAssumption DEF TypeOK, Contents, PCs
<1>1. ASSUME NEW p \in Procs, Edit(p) PROVE TypeOK'
  BY <1>1 DEF Edit, Call, Tables
<1>2. ASSUME NEW p \in Procs, Rebuild(p) PROVE TypeOK'
  BY <1>2 DEF Rebuild, Call
<1>3. ASSUME NEW p \in Procs, BuildIntegratedConfigs(p) PROVE TypeOK'
  <2>1. CASE \E i \in Ids : want[i] = Broken
    BY <1>3, <2>1 DEF BuildIntegratedConfigs, system, Return
  <2>2. CASE \A i \in Ids : want[i] # Broken
    <3>1. want \in [Ids -> Docs \union {NoFile}]
      BY <2>2 DEF Tables
    <3>2. built' \in [Procs -> [Ids -> Docs \union {NoFile}]]
      BY <1>3, <2>2, <3>1 DEF BuildIntegratedConfigs
    <3>3. left' \in [Procs -> SUBSET Ids]
      <4> DEFINE wanted == {i \in Ids : want[i] # NoFile}
      <4>1. left' = [left EXCEPT ![p] = wanted]
        BY <1>3, <2>2 DEF BuildIntegratedConfigs
      <4>2. wanted \in SUBSET Ids
        OBVIOUS
      <4> HIDE DEF wanted
      <4>3. QED
        BY <4>1, <4>2
    <3>4. QED
      BY <1>3, <2>2, <3>2, <3>3 DEF BuildIntegratedConfigs, system, Goto
  <2>3. QED
    BY <2>1, <2>2
<1>4. ASSUME NEW p \in Procs, ApplyBegin(p) PROVE TypeOK'
  <2>1. PICK i \in left[p] :
            /\ left' = [left EXCEPT ![p] = @ \ {i}]
            /\ at' = [at EXCEPT ![p] = i]
            /\ old' = [old EXCEPT ![p] = file[i]]
            /\ \/ Goto(p, IF file[i] = built[p][i] THEN "enable" ELSE "swap")
               \/ Return(p, "err")
    BY <1>4 DEF ApplyBegin
  <2>2. i \in Ids
    BY <2>1
  <2>3. left' \in [Procs -> SUBSET Ids]
    BY <2>1
  <2>4. at' \in [Procs -> Ids] /\ old' \in [Procs -> Docs \union {NoFile, Torn}]
    BY <2>1, <2>2
  <2>5. QED
    BY <1>4, <2>1, <2>3, <2>4, ControlTypes DEF ApplyBegin, system
<1>5. ASSUME NEW p \in Procs, Enable(p) PROVE TypeOK'
  <2>1. CASE SystemctlFails /\ Return(p, "err")
    BY <1>5, <2>1, CommandTypes DEF Enable, Return
  <2>2. CASE enabled' = enabled \union {at[p]} /\ Goto(p, "verify") /\ UNCHANGED <<unit, socket, disturbed>>
    BY <1>5, <2>2 DEF Enable, Goto
  <2>3. QED
    BY <1>5, <2>1, <2>2 DEF Enable
<1>6. ASSUME NEW p \in Procs, VerifyOld(p) PROVE TypeOK'
  BY <1>6 DEF VerifyOld, system, Goto, Return
<1>7. ASSUME NEW p \in Procs, RestartOld(p) PROVE TypeOK'
  BY <1>7, CommandTypes DEF RestartOld, system, Goto, Return
<1>8. ASSUME NEW p \in Procs, Swap(p) PROVE TypeOK'
  <2>1. file' \in [Ids -> Docs \union {NoFile, Torn}]
    <3>1. at[p] \in Ids /\ built[p][at[p]] \in Docs \union {NoFile}
      OBVIOUS
    <3>2. QED
      BY <1>8, <3>1 DEF Swap
  <2>2. QED
    BY <1>8, <2>1, ControlTypes DEF Swap
<1>9. ASSUME NEW p \in Procs, RestartNew(p) PROVE TypeOK'
  BY <1>9, CommandTypes DEF RestartNew, system, Goto, Return
<1>10. ASSUME NEW p \in Procs, VerifyNew(p) PROVE TypeOK'
  BY ZenonT(60), <1>10 DEF VerifyNew, system, Goto, Return
<1>11. ASSUME NEW p \in Procs, Rollback(p) PROVE TypeOK'
  BY <1>11 DEF Rollback, system, Goto, Return
<1>12. ASSUME NEW p \in Procs, Rerestart(p) PROVE TypeOK'
  BY <1>12, CommandTypes DEF Rerestart, system, Goto, Return
<1>13. ASSUME NEW p \in Procs, DisableNew(p) PROVE TypeOK'
  BY <1>13, CommandTypes DEF DisableNew, system, Goto, Return
<1>14. ASSUME NEW p \in Procs, ConfiguredIDs(p) PROVE TypeOK'
  <2>1. left' \in [Procs -> SUBSET Ids]
    BY <1>14 DEF ConfiguredIDs
  <2>2. QED
    BY <1>14, <2>1, ControlTypes DEF ConfiguredIDs, system
<1>15. ASSUME NEW p \in Procs, RemoveDisable(p) PROVE TypeOK'
  <2>1. PICK i \in left[p] :
            /\ left' = [left EXCEPT ![p] = @ \ {i}]
            /\ at' = [at EXCEPT ![p] = i]
            /\ \/ DisableUnit(i) /\ Goto(p, "delete")
               \/ SystemctlFails /\ Return(p, "err")
    BY <1>15 DEF RemoveDisable
  <2>2. i \in Ids
    BY <2>1
  <2>3. left' \in [Procs -> SUBSET Ids] /\ at' \in [Procs -> Ids]
    BY <2>1, <2>2
  <2>4. QED
    BY <1>15, <2>1, <2>2, <2>3, CommandTypes, ControlTypes DEF RemoveDisable
<1>16. ASSUME NEW p \in Procs, RemoveFile(p) PROVE TypeOK'
  BY <1>16 DEF RemoveFile, system, Goto, Return
<1>17. ASSUME NEW p \in Procs, Done(p) PROVE TypeOK'
  BY <1>17 DEF Done, system, Goto, Return
<1>18. ASSUME NEW i \in Ids, InstanceExit(i) PROVE TypeOK'
  BY <1>18 DEF InstanceExit, call
<1>19. ASSUME NEW i \in Ids, AutoRestart(i) PROVE TypeOK'
  BY <1>19, LaunchResult DEF AutoRestart, call
<1>20. CASE PanelCrash \/ HostReboot
  BY ZenonT(60), <1>20 DEF PanelCrash, HostReboot, system
<1>21. CASE UNCHANGED vars
  BY <1>21 DEF vars
<1>22. QED
  BY <1>1, <1>2, <1>3, <1>4, <1>5, <1>6, <1>7, <1>8, <1>9, <1>10, <1>11, <1>12, <1>13, <1>14, <1>15, <1>16, <1>17, <1>18, <1>19, <1>20, <1>21
     DEF Next, ReconcileStep

(* Type correctness of the tables, the instances and any number of calls.  *)
THEOREM TypeCorrect == Spec => []TypeOK
<1>1. Init => TypeOK
  <2>1. [i \in Ids |-> NoFile] \in Tables
    BY ConstantsAssumption DEF Tables
  <2>2. ASSUME Init
        PROVE  /\ file \in [Ids -> Contents]
               /\ unit \in [Ids -> Docs \union {Down, Waiting}]
               /\ pc \in [Procs -> PCs]
               /\ old \in [Procs -> Contents]
               /\ result \in [Procs -> {"none", "ok", "err"}]
    BY <2>2 DEF Init, Contents, PCs
  <2>3. ASSUME Init
        PROVE  /\ built \in [Procs -> [Ids -> Docs \union {NoFile}]]
               /\ left \in [Procs -> SUBSET Ids]
    BY <2>3 DEF Init
  <2>4. QED
    BY <2>1, <2>2, <2>3 DEF Init, TypeOK
<1>2. QED
  BY <1>1, TypeStep, PTL DEF Spec

-----------------------------------------------------------------------------
(* Calls that do not overlap: what a lock around Reconcile would give.     *)

CallsApart == \A p, q \in Procs : pc[p] # "idle" /\ pc[q] # "idle" => p = q

(* No caller but c is in a call.                                           *)
Alone(c) == \A q \in Procs \ {c} : pc[q] = "idle"

(* The processes, the panel and the host.                                  *)
Surroundings ==
    \/ \E i \in Ids : InstanceExit(i) \/ AutoRestart(i)
    \/ PanelCrash
    \/ HostReboot

(* An idle caller that stays idle takes no step, so that while c is alone  *)
(* each step is one of c or of its surroundings.                           *)
LEMMA StepOfCaller ==
    ASSUME TypeOK, NEW c \in Procs, Alone(c), Alone(c)', [Next]_vars
    PROVE  \/ Edit(c) \/ Rebuild(c) \/ ReconcileStep(c)
           \/ Surroundings
           \/ UNCHANGED vars
<1>1. ASSUME NEW p \in Procs \ {c} PROVE ~(Edit(p) \/ Rebuild(p))
  BY <1>1 DEF Alone, TypeOK, Edit, Rebuild, Call
<1>2. ASSUME NEW p \in Procs \ {c} PROVE ~ReconcileStep(p)
  BY <1>2 DEF Alone, ReconcileStep, BuildIntegratedConfigs, ApplyBegin, Enable,
     VerifyOld, RestartOld, Swap, RestartNew, VerifyNew, Rollback, Rerestart,
     DisableNew, ConfiguredIDs, RemoveDisable, RemoveFile, Done
<1>3. QED
  BY <1>1, <1>2 DEF Next, Surroundings

(* Restarting a unit whose file holds a document keeps it in order.        *)
LEMMA LaunchInOrder ==
    ASSUME TypeOK, NEW i \in Ids, Launch(i), UNCHANGED file, file[i] # NoFile
    PROVE  /\ Alive(i)' => unit'[i] = file'[i]
           /\ unit'[i] \in {file[i], Waiting}
           /\ \A j \in Ids \ {i} : unit'[j] = unit[j]
BY LaunchResult, ConstantsAssumption DEF TypeOK, Alive

(* Position only speaks of the call and of the file it works on, so that   *)
(* only steps of the call disturb it.                                      *)
LEMMA PositionStep ==
    ASSUME TypeOK, NEW c \in Procs, Alone(c), Alone(c)',
           Position(c), [Next]_vars
    PROVE  Position(c)'
<1> USE ConstantsAssumption DEF TypeOK, Position, Applying, Contents
<1>1. CASE Edit(c) \/ Rebuild(c)
  BY <1>1 DEF Edit, Rebuild, Call
<1>2. CASE BuildIntegratedConfigs(c)
  BY <1>2 DEF BuildIntegratedConfigs, system, Goto, Return, Tables
<1>3. CASE ApplyBegin(c)
  BY <1>3 DEF ApplyBegin, system, Goto, Return
<1>4. CASE Enable(c) \/ VerifyOld(c) \/ RestartOld(c)
  BY <1>4 DEF Enable, VerifyOld, RestartOld, system, Goto, Return
<1>5. CASE Swap(c)
  BY <1>5 DEF Swap, Goto, Return
<1>6. CASE RestartNew(c) \/ VerifyNew(c)
  BY <1>6 DEF RestartNew, VerifyNew, system, Goto, Return
<1>7. CASE Rollback(c)
  BY <1>7 DEF Rollback, Goto
<1>8. CASE Rerestart(c) \/ DisableNew(c)
  BY <1>8 DEF Rerestart, DisableNew, Return
<1>9. CASE ConfiguredIDs(c) \/ RemoveDisable(c) \/ RemoveFile(c) \/ Done(c)
  BY <1>9 DEF ConfiguredIDs, RemoveDisable, RemoveFile, Done, system, Goto, Return
<1>10. CASE \E i \in Ids : InstanceExit(i) \/ AutoRestart(i)
  BY <1>10 DEF InstanceExit, AutoRestart, call
<1>11. CASE PanelCrash \/ HostReboot
  BY <1>11 DEF PanelCrash, HostReboot, system
<1>12. CASE UNCHANGED vars
  BY <1>12 DEF vars
<1>13. QED
  BY <1>1, <1>2, <1>3, <1>4, <1>5, <1>6, <1>7, <1>8, <1>9, <1>10, <1>11, <1>12,
     StepOfCaller DEF Surroundings, ReconcileStep

(* A rollback knows the document it takes back.                            *)
LEMMA UndoneStep ==
    ASSUME TypeOK, NEW c \in Procs, Alone(c), Alone(c)',
           Position(c), Undone(c), [Next]_vars
    PROVE  Undone(c)'
<1> USE ConstantsAssumption DEF TypeOK, Position, Undone, Applying, Contents
<1>1. CASE Edit(c) \/ Rebuild(c)
  BY <1>1 DEF Edit, Rebuild, Call
<1>2. CASE BuildIntegratedConfigs(c) \/ ApplyBegin(c)
  BY <1>2 DEF BuildIntegratedConfigs, ApplyBegin, system, Goto, Return
<1>3. CASE Enable(c) \/ VerifyOld(c) \/ RestartOld(c) \/ Swap(c)
  BY <1>3 DEF Enable, VerifyOld, RestartOld, Swap, system, Goto, Return
<1>4. CASE RestartNew(c) \/ VerifyNew(c)
  BY <1>4 DEF RestartNew, VerifyNew, system, Goto, Return
<1>5. CASE Rollback(c)
  BY <1>5 DEF Rollback, Goto
<1>6. CASE Rerestart(c) \/ DisableNew(c)
  BY <1>6 DEF Rerestart, DisableNew, Return
<1>7. CASE ConfiguredIDs(c) \/ RemoveDisable(c) \/ RemoveFile(c) \/ Done(c)
  BY <1>7 DEF ConfiguredIDs, RemoveDisable, RemoveFile, Done, system, Goto, Return
<1>8. CASE \E i \in Ids : InstanceExit(i) \/ AutoRestart(i)
  BY <1>8 DEF InstanceExit, AutoRestart, call
<1>9. CASE PanelCrash \/ HostReboot
  BY <1>9 DEF PanelCrash, HostReboot, system
<1>10. CASE UNCHANGED vars
  BY <1>10 DEF vars
<1>11. QED
  BY <1>1, <1>2, <1>3, <1>4, <1>5, <1>6, <1>7, <1>8, <1>9, <1>10,
     StepOfCaller DEF Surroundings, ReconcileStep

(* The files of what the loop has passed are not touched again, only those *)
(* of what is not wanted.                                                  *)
LEMMA PassedStep ==
    ASSUME TypeOK, NEW c \in Procs, Alone(c), Alone(c)',
           Position(c), Leftovers(c), Passed(c), [Next]_vars
    PROVE  Passed(c)'
<1> USE ConstantsAssumption DEF TypeOK, Position, Leftovers, Passed, Applying, Removing,
        Contents
<1>1. CASE Edit(c) \/ Rebuild(c)
  BY <1>1 DEF Edit, Rebuild, Call
<1>2. CASE BuildIntegratedConfigs(c)
  BY <1>2 DEF BuildIntegratedConfigs, system, Goto, Return
<1>3. CASE ApplyBegin(c)
  BY <1>3 DEF ApplyBegin, system, Goto, Return
<1>4. CASE Enable(c) \/ VerifyOld(c) \/ RestartOld(c)
  BY <1>4 DEF Enable, VerifyOld, RestartOld, system, Goto, Return
<1>5. CASE Swap(c)
  BY <1>5 DEF Swap, Goto, Return
<1>6. CASE RestartNew(c) \/ VerifyNew(c)
  BY <1>6 DEF RestartNew, VerifyNew, system, Goto, Return
<1>7. CASE Rollback(c)
  BY <1>7 DEF Rollback, Goto
<1>8. CASE Rerestart(c) \/ DisableNew(c)
  BY <1>8 DEF Rerestart, DisableNew, Return
<1>9. CASE ConfiguredIDs(c) \/ RemoveDisable(c) \/ Done(c)
  BY <1>9 DEF ConfiguredIDs, RemoveDisable, Done, system, Goto, Return
<1>10. CASE RemoveFile(c)
  BY <1>10 DEF RemoveFile, Goto, Return
<1>11. CASE \E i \in Ids : InstanceExit(i) \/ AutoRestart(i)
  BY <1>11 DEF InstanceExit, AutoRestart, call
<1>12. CASE PanelCrash \/ HostReboot
  BY <1>12 DEF PanelCrash, HostReboot, system
<1>13. CASE UNCHANGED vars
  BY <1>13 DEF vars
<1>14. QED
  BY <1>1, <1>2, <1>3, <1>4, <1>5, <1>6, <1>7, <1>8, <1>9, <1>10, <1>11, <1>12, <1>13,
     StepOfCaller DEF Surroundings, ReconcileStep

(* The removal loop forgets an inbound only after its unit is disabled.     *)
LEMMA LeftoversStep ==
    ASSUME TypeOK, NEW c \in Procs, Alone(c), Alone(c)',
           Leftovers(c), [Next]_vars
    PROVE  Leftovers(c)'
<1> USE ConstantsAssumption DEF TypeOK, Leftovers, Removing, Contents
<1>1. CASE Edit(c) \/ Rebuild(c)
  BY <1>1 DEF Edit, Rebuild, Call
<1>2. CASE BuildIntegratedConfigs(c) \/ ApplyBegin(c)
  BY <1>2 DEF BuildIntegratedConfigs, ApplyBegin, system, Goto, Return
<1>3. CASE Enable(c) \/ VerifyOld(c) \/ RestartOld(c) \/ Swap(c)
  BY <1>3 DEF Enable, VerifyOld, RestartOld, Swap, system, Goto, Return
<1>4. CASE RestartNew(c) \/ VerifyNew(c) \/ Rollback(c) \/ Rerestart(c) \/ DisableNew(c)
  BY <1>4 DEF RestartNew, VerifyNew, Rollback, Rerestart, DisableNew, system, Goto, Return
<1>5. CASE ConfiguredIDs(c)
  BY <1>5 DEF ConfiguredIDs, system, Goto, Return
<1>6. CASE RemoveDisable(c)
  BY <1>6 DEF RemoveDisable, DisableUnit, Goto, Return
<1>7. CASE RemoveFile(c) \/ Done(c)
  BY SMTT(30), <1>7 DEF RemoveFile, Done, system, Goto, Return
<1>8. ASSUME NEW i \in Ids, InstanceExit(i) PROVE Leftovers(c)'
  BY <1>8 DEF InstanceExit, call, Alive
<1>9. ASSUME NEW i \in Ids, AutoRestart(i) PROVE Leftovers(c)'
  BY <1>9, LaunchResult DEF AutoRestart, call
<1>10. CASE PanelCrash \/ HostReboot
  BY <1>10 DEF PanelCrash, HostReboot, system
<1>11. CASE UNCHANGED vars
  BY <1>11 DEF vars
<1>12. QED
  BY <1>1, <1>2, <1>3, <1>4, <1>5, <1>6, <1>7, <1>8, <1>9, <1>10, <1>11,
     StepOfCaller DEF Surroundings, ReconcileStep

(* Each action of a call that disturbs the order of an instance is at the  *)
(* instance it works on, and leaves it again only in order.                *)
LEMMA OrderStep ==
    ASSUME TypeOK, NEW c \in Procs, Alone(c), Alone(c)',
           Position(c), Leftovers(c), Order(c),
           [Next]_vars, ~disturbed, ~disturbed'
    PROVE  Order(c)'
<1> USE ConstantsAssumption DEF TypeOK, Position, Leftovers, Order, InOrder, Alive,
        Applying, Removing, Contents
<1>1. CASE Edit(c) \/ Rebuild(c)
  BY <1>1 DEF Edit, Rebuild, Call
<1>2. CASE BuildIntegratedConfigs(c) \/ ApplyBegin(c)
  BY <1>2 DEF BuildIntegratedConfigs, ApplyBegin, system, Goto, Return
<1>3. CASE Enable(c) \/ VerifyOld(c)
  BY <1>3 DEF Enable, VerifyOld, system, Goto, SystemctlFails
<1>4. CASE Swap(c)
  BY <1>4 DEF Swap, Goto, Return
<1>5. CASE VerifyNew(c)
  BY <1>5 DEF VerifyNew, system, Goto, Return
<1>6. CASE Rollback(c)
  BY <1>6 DEF Rollback, Goto
<1>7. CASE ConfiguredIDs(c) \/ Done(c)
  BY <1>7 DEF ConfiguredIDs, Done, system, Goto, Return
<1>8. CASE RemoveDisable(c)
  BY <1>8 DEF RemoveDisable, DisableUnit, SystemctlFails, Goto
<1>9. CASE RemoveFile(c)
  BY <1>9 DEF RemoveFile, Goto, Return
<1>10. CASE DisableNew(c)
  BY <1>10 DEF DisableNew, DisableUnit, SystemctlFails, Return
<1>11. CASE RestartOld(c)
  <2>1. CASE RestartUnit(at[c])
    BY <1>11, <2>1, LaunchInOrder DEF RestartOld, RestartUnit, Goto, Return
  <2>2. CASE RestartUnitFails(at[c])
    BY <1>11, <2>2 DEF RestartOld, RestartUnitFails, Goto, Return
  <2>3. QED
    BY <1>11, <2>1, <2>2 DEF RestartOld
<1>12. CASE RestartNew(c)
  <2>1. CASE RestartUnit(at[c])
    BY <1>12, <2>1, LaunchInOrder DEF RestartNew, RestartUnit, Goto
  <2>2. CASE RestartUnitFails(at[c])
    BY <1>12, <2>2 DEF RestartNew, RestartUnitFails, Goto
  <2>3. QED
    BY <1>12, <2>1, <2>2 DEF RestartNew
<1>13. CASE Rerestart(c)
  <2>1. CASE RestartUnit(at[c])
    BY <1>13, <2>1, LaunchInOrder DEF Rerestart, RestartUnit, Return
  <2>2. CASE RestartUnitFails(at[c])
    BY SMTT(30), <1>13, <2>2 DEF Rerestart, RestartUnitFails, Return
  <2>3. QED
    BY <1>13, <2>1, <2>2 DEF Rerestart
<1>14. ASSUME NEW i \in Ids, InstanceExit(i) PROVE Order(c)'
  BY <1>14 DEF InstanceExit, call, Alive
<1>15. ASSUME NEW i \in Ids, AutoRestart(i) PROVE Order(c)'
  BY <1>15, LaunchResult DEF AutoRestart, call
<1>16. CASE PanelCrash \/ HostReboot
  BY <1>16 DEF PanelCrash, HostReboot, system
<1>17. CASE UNCHANGED vars
  BY <1>17 DEF vars
<1>18. QED
  BY <1>1, <1>2, <1>3, <1>4, <1>5, <1>6, <1>7, <1>8, <1>9, <1>10, <1>11, <1>12, <1>13, <1>14, <1>15, <1>16, <1>17,
     StepOfCaller DEF Surroundings, ReconcileStep

(* The apply loop moves on only over an instance that answers and is       *)
(* enabled, and nothing the call does later disturbs it.                   *)
LEMMA ProgressStep ==
    ASSUME TypeOK, NEW c \in Procs, Alone(c), Alone(c)',
           Position(c), Leftovers(c), Order(c),
           Progress(c), [Next]_vars, ~disturbed, ~disturbed'
    PROVE  Progress(c)'
<1> USE ConstantsAssumption DEF TypeOK, Position, Leftovers, Order, InOrder, Progress,
        Served, Alive, Applying, Removing, Contents
<1>1. CASE Edit(c) \/ Rebuild(c)
  BY <1>1 DEF Edit, Rebuild, Call
<1>2. CASE BuildIntegratedConfigs(c)
  BY <1>2 DEF BuildIntegratedConfigs, system, Goto, Return
<1>3. CASE ApplyBegin(c)
  BY <1>3 DEF ApplyBegin, system, Goto, Return
<1>4. CASE Enable(c)
  BY <1>4 DEF Enable, Goto, SystemctlFails
<1>5. CASE VerifyOld(c)
  BY <1>5 DEF VerifyOld, system, Goto, Answers
<1>6. CASE Swap(c)
  BY <1>6 DEF Swap, Goto, Return
<1>7. CASE VerifyNew(c)
  BY <1>7 DEF VerifyNew, system, Goto, Return, Answers
<1>8. CASE Rollback(c)
  BY <1>8 DEF Rollback, Goto
<1>9. CASE ConfiguredIDs(c) \/ Done(c)
  BY <1>9 DEF ConfiguredIDs, Done, system, Goto, Return
<1>10. CASE RemoveDisable(c)
  BY <1>10 DEF RemoveDisable, DisableUnit, SystemctlFails, Goto
<1>11. CASE RemoveFile(c)
  BY <1>11 DEF RemoveFile, Goto, Return
<1>12. CASE DisableNew(c)
  BY <1>12 DEF DisableNew, DisableUnit, SystemctlFails, Return
<1>13. CASE RestartOld(c)
  <2>1. CASE RestartUnit(at[c])
    BY <1>13, <2>1, LaunchInOrder DEF RestartOld, RestartUnit, Goto, Return
  <2>2. CASE RestartUnitFails(at[c])
    BY <1>13, <2>2 DEF RestartOld, RestartUnitFails, Goto, Return
  <2>3. QED
    BY <1>13, <2>1, <2>2 DEF RestartOld
<1>14. CASE RestartNew(c)
  <2>1. CASE RestartUnit(at[c])
    BY <1>14, <2>1, LaunchInOrder DEF RestartNew, RestartUnit, Goto
  <2>2. CASE RestartUnitFails(at[c])
    BY <1>14, <2>2 DEF RestartNew, RestartUnitFails, Goto
  <2>3. QED
    BY <1>14, <2>1, <2>2 DEF RestartNew
<1>15. CASE Rerestart(c)
  <2>1. CASE RestartUnit(at[c])
    BY <1>15, <2>1, LaunchInOrder DEF Rerestart, RestartUnit, Return
  <2>2. CASE RestartUnitFails(at[c])
    BY <1>15, <2>2 DEF Rerestart, RestartUnitFails, Return
  <2>3. QED
    BY <1>15, <2>1, <2>2 DEF Rerestart
<1>16. ASSUME NEW i \in Ids, InstanceExit(i) PROVE Progress(c)'
  BY <1>16 DEF InstanceExit, call, Alive
<1>17. ASSUME NEW i \in Ids, AutoRestart(i) PROVE Progress(c)'
  BY <1>17, LaunchResult DEF AutoRestart, call
<1>18. CASE PanelCrash \/ HostReboot
  BY <1>18 DEF PanelCrash, HostReboot, system
<1>19. CASE UNCHANGED vars
  BY <1>19 DEF vars
<1>20. QED
  BY <1>1, <1>2, <1>3, <1>4, <1>5, <1>6, <1>7, <1>8, <1>9, <1>10, <1>11, <1>12, <1>13, <1>14, <1>15, <1>16, <1>17, <1>18, <1>19,
     StepOfCaller DEF Surroundings, ReconcileStep

(* While calls do not overlap, what holds of a caller that is alone holds  *)
(* after every step: the one that was in a call, or enters one, is alone   *)
(* before and after it, and when it is idle again the others know as much. *)
Known == \A c \in Procs : Alone(c) => IInv(c)

(* Every step hands the invariant on.                                      *)
LEMMA KnownStep ==
    ASSUME TypeOK, TypeOK', CallsApart, CallsApart', Known, [Next]_vars
    PROVE  Known'
<1>1. ASSUME NEW c \in Procs, Alone(c), Alone(c)' PROVE IInv(c)'
  <2>1. IInv(c)
    BY <1>1 DEF Known
  <2>2. Position(c)' /\ Leftovers(c)' /\ Undone(c)' /\ Passed(c)'
    BY <1>1, <2>1, PositionStep, LeftoversStep, UndoneStep, PassedStep DEF IInv
  <2>3. ASSUME ~disturbed' PROVE ~disturbed
    BY <2>3 DEF Next, vars, ReconcileStep, Edit, Rebuild, Call, BuildIntegratedConfigs,
           ApplyBegin, Enable, VerifyOld, RestartOld, Swap, RestartNew, VerifyNew, Rollback,
           Rerestart, DisableNew, ConfiguredIDs, RemoveDisable, RemoveFile, Done, RestartUnit,
           RestartUnitFails, DisableUnit, SystemctlFails, InstanceExit, AutoRestart,
           PanelCrash, HostReboot
  <2>4. ASSUME ~disturbed' PROVE Order(c)' /\ Progress(c)'
    BY <1>1, <2>1, <2>3, <2>4, OrderStep, ProgressStep DEF IInv
  <2>5. QED
    BY <2>2, <2>4 DEF IInv
<1>2. ASSUME NEW c \in Procs, ~Alone(c), Alone(c)' PROVE IInv(c)'
  <2>1. PICK q \in Procs \ {c} : pc[q] # "idle"
    BY <1>2 DEF Alone
  <2>2. Alone(q) /\ pc'[q] = "idle"
    BY <1>2, <2>1 DEF CallsApart, Alone
  <2>3. pc'[c] = "idle"
    <3>1. pc[c] = "idle"
      BY <2>1 DEF CallsApart
    <3>2. ASSUME NEW p \in Procs \ {q} PROVE ~ReconcileStep(p)
      BY <2>2, <3>2 DEF Alone, ReconcileStep, BuildIntegratedConfigs, ApplyBegin,
         Enable, VerifyOld, RestartOld, Swap, RestartNew, VerifyNew, Rollback,
         Rerestart, DisableNew, ConfiguredIDs, RemoveDisable, RemoveFile, Done
    <3>3. ASSUME NEW p \in Procs, Edit(p) \/ Rebuild(p) PROVE FALSE
      BY <2>1, <2>2, <3>3 DEF TypeOK, Edit, Rebuild, Call
    <3>4. ASSUME ReconcileStep(q) PROVE pc'[c] = pc[c]
      BY <3>4, <2>1 DEF TypeOK, Goto, Return, ReconcileStep, BuildIntegratedConfigs,
         ApplyBegin, Enable, VerifyOld, RestartOld, Swap, RestartNew, VerifyNew,
         Rollback, Rerestart, DisableNew, ConfiguredIDs, RemoveDisable, RemoveFile, Done
    <3>5. ASSUME NEW i \in Ids, InstanceExit(i) \/ AutoRestart(i) PROVE pc'[c] = pc[c]
      BY <3>5 DEF InstanceExit, AutoRestart, call
    <3>6. CASE PanelCrash \/ HostReboot
      BY <3>6 DEF PanelCrash, HostReboot
    <3>7. CASE UNCHANGED vars
      BY <3>1, <3>7 DEF vars
    <3>8. QED
      BY <3>1, <3>2, <3>3, <3>4, <3>5, <3>6, <3>7 DEF Next
  <2>4. Alone(q)'
    BY <1>2, <2>3 DEF Alone
  <2>5. IInv(q)'
    BY <1>1, <2>2, <2>4
  <2>6. QED
    BY <2>2, <2>3, <2>5
       DEF IInv, Position, Undone, Passed, Leftovers, Order, Progress, Applying, Removing
<1>3. QED
  BY <1>1, <1>2 DEF Known

(* And Init has it.                                                        *)
LEMMA Inductive == Spec /\ []CallsApart => []Known
<1>1. Init => Known
  BY ConstantsAssumption DEF Init, Known, IInv, Position, Undone, Passed, Leftovers, Order,
     InOrder, Progress, Alive, Applying, Removing
<1>2. QED
  BY <1>1, KnownStep, TypeCorrect, PTL DEF Spec

(* Callers that do not overlap lose no instance from sight: between calls  *)
(* whatever runs, restarts or would start at boot has its file, and what   *)
(* is up has loaded it, unless the panel or host died or a systemctl did   *)
(* nothing.                                                                *)
THEOREM AccountedAlways ==
    ASSUME Procs # {}
    PROVE  Spec /\ []CallsApart => []Accounted
<1>1. Known => Accounted
  <2> SUFFICES ASSUME Known, Quiet, ~disturbed, NEW i \in Ids PROVE InOrder(i)
    BY DEF Accounted, InOrder
  <2>1. PICK c \in Procs : TRUE
    OBVIOUS
  <2>2. IInv(c) /\ pc[c] = "idle"
    BY DEF Known, Alone, Quiet
  <2>3. QED
    BY <2>2 DEF IInv, Order
<1>2. QED
  BY <1>1, Inductive, PTL

(* When a Reconcile that overlaps no other returns nil, all wanted         *)
(* documents are in place, loaded and enabled, and every other instance is *)
(* stopped and forgotten.                                                  *)
THEOREM NilMeansServed == Spec /\ []CallsApart => OkMeansServed
<1>1. TypeOK /\ Known /\ CallsApart /\ CallsApart' /\ [Next]_vars => [OkServed]_vars
  <2> SUFFICES ASSUME TypeOK, Known, CallsApart, CallsApart', [Next]_vars,
                      ~UNCHANGED vars, NEW c \in Procs,
                      pc[c] # "idle", result'[c] = "ok", ~disturbed', NEW i \in Ids
               PROVE  IF built[c][i] = NoFile
                      THEN file'[i] = NoFile /\ unit'[i] = Down /\ i \notin enabled'
                      ELSE /\ file'[i] = built[c][i]
                           /\ unit'[i] \in {built[c][i], Waiting}
                           /\ i \in enabled'
    BY DEF OkServed
  <2>1. Alone(c) /\ IInv(c) /\ result[c] = "none"
    BY DEF CallsApart, Alone, Known, IInv, Position
  <2>2. Done(c)
    <3>1. ASSUME NEW p \in Procs, Edit(p) \/ Rebuild(p) PROVE FALSE
      BY <2>1, <3>1 DEF Edit, Rebuild, Call, TypeOK
    <3>2. ~(PanelCrash \/ HostReboot)
      BY DEF PanelCrash, HostReboot
    <3>3. \A j \in Ids : ~(InstanceExit(j) \/ AutoRestart(j))
      BY <2>1 DEF InstanceExit, AutoRestart, call, TypeOK
    <3>4. ASSUME NEW p \in Procs \ {c} PROVE ~ReconcileStep(p)
      BY <2>1, <3>4 DEF Alone, ReconcileStep, BuildIntegratedConfigs, ApplyBegin,
         Enable, VerifyOld, RestartOld, Swap, RestartNew, VerifyNew, Rollback,
         Rerestart, DisableNew, ConfiguredIDs, RemoveDisable, RemoveFile, Done
    <3>5. ~(BuildIntegratedConfigs(c) \/ ApplyBegin(c) \/ Enable(c) \/ VerifyOld(c)
              \/ RestartOld(c) \/ Swap(c) \/ RestartNew(c) \/ VerifyNew(c))
      BY <2>1 DEF BuildIntegratedConfigs, ApplyBegin, Enable, VerifyOld, RestartOld,
                  Swap, RestartNew, VerifyNew, Goto, Return, TypeOK
    <3>6. ~(Rollback(c) \/ Rerestart(c) \/ DisableNew(c) \/ ConfiguredIDs(c)
              \/ RemoveDisable(c) \/ RemoveFile(c))
      BY <2>1 DEF Rollback, Rerestart, DisableNew, ConfiguredIDs, RemoveDisable,
                  RemoveFile, Goto, Return, TypeOK
    <3>7. QED
      BY <3>1, <3>2, <3>3, <3>4, <3>5, <3>6 DEF Next, ReconcileStep
  <2>3. UNCHANGED <<file, unit, enabled, disturbed>> /\ pc[c] = "remove" /\ left[c] = {}
    BY <2>2 DEF Done, system
  <2>4. CASE built[c][i] = NoFile
    BY <2>1, <2>3, <2>4 DEF IInv, Leftovers, Removing, Order, InOrder
  <2>5. CASE built[c][i] # NoFile
    BY <2>1, <2>3, <2>5 DEF IInv, Progress, Removing, Served
  <2>6. QED
    BY <2>4, <2>5
<1>2. QED
  BY <1>1, Inductive, TypeCorrect, PTL DEF Spec, OkMeansServed

-----------------------------------------------------------------------------
(* Calls that do not overlap implement InstancePublisher.                  *)

(* The published documents while no caller but c is in a call.             *)
Seen(c) == IF pc[c] \in Unsettled THEN [file EXCEPT ![at[c]] = old[c]] ELSE file

(* Published is what that one caller leaves to be seen.                    *)
LEMMA PublishedBefore ==
    ASSUME TypeOK, NEW c \in Procs, Alone(c)
    PROVE  Published = Seen(c)
<1>1. \A i \in Ids : Midway(i) = IF pc[c] \in Unsettled /\ at[c] = i THEN {c} ELSE {}
  BY DEF Midway, Alone, Unsettled
<1>2. (CHOOSE q \in {c} : TRUE) = c /\ {c} # {}
  OBVIOUS
<1>3. \A i \in Ids : Published[i] = IF pc[c] \in Unsettled /\ at[c] = i THEN old[c] ELSE file[i]
  BY <1>1, <1>2 DEF Published
<1>4. Published = [i \in Ids |-> Published[i]]
  BY DEF Published
<1>5. QED
  BY <1>3, <1>4 DEF Seen, TypeOK

(* The same after a step.                                                  *)
LEMMA PublishedAfter ==
    ASSUME TypeOK', NEW c \in Procs, Alone(c)'
    PROVE  Published' = Seen(c)'
<1>1. \A i \in Ids : Midway(i)' = IF pc'[c] \in Unsettled /\ at'[c] = i THEN {c} ELSE {}
  BY DEF Midway, Alone, Unsettled
<1>2. (CHOOSE q \in {c} : TRUE) = c /\ {c} # {}
  OBVIOUS
<1>3. \A i \in Ids :
          Published'[i] = IF pc'[c] \in Unsettled /\ at'[c] = i THEN old'[c] ELSE file'[i]
  BY <1>1, <1>2 DEF Published
<1>4. Published' = [i \in Ids |-> Published'[i]]
  BY DEF Published
<1>5. QED
  BY <1>3, <1>4 DEF Seen, TypeOK

(* A step of a call that has planned, as InstancePublisher sees it.        *)
LEMMA SeenOfCall ==
    ASSUME TypeOK, TypeOK', NEW c \in Procs, Alone(c), Alone(c)', Position(c),
           pc[c] \notin {"idle", "build"},
           NEW l \in PCs \ {"build"}, pc' = [pc EXCEPT ![c] = l]
    PROVE  /\ c \in Planning /\ result[c] = "none" /\ at[c] \in Ids
           /\ Planning' = IF l = "idle" THEN Planning \ {c} ELSE Planning
           /\ Published = Seen(c)
           /\ Published' = IF l \in Unsettled THEN [file' EXCEPT ![at'[c]] = old'[c]] ELSE file'
<1>1. c \in Planning /\ result[c] = "none" /\ at[c] \in Ids
  BY DEF Planning, Position, TypeOK
<1>2. Planning' = IF l = "idle" THEN Planning \ {c} ELSE Planning
  BY DEF Planning, TypeOK
<1>3. pc'[c] = l
  BY DEF TypeOK
<1>4. QED
  BY <1>1, <1>2, <1>3, PublishedBefore, PublishedAfter DEF Seen

(* A return with an error that leaves the published documents alone.       *)
LEMMA GivesUp ==
    ASSUME TypeOK, TypeOK', NEW c \in Procs, Alone(c), Alone(c)', Position(c),
           pc[c] \notin {"idle", "build"}, Return(c, "err"),
           UNCHANGED <<want, file, built>>, Seen(c) = file
    PROVE  Publisher!GiveUp(c)
BY SeenOfCall DEF Return, PCs, Unsettled, Publisher!GiveUp, Publisher!End

(* A step within a call that leaves them alone.                            *)
LEMMA GoesOn ==
    ASSUME TypeOK, TypeOK', NEW c \in Procs, Alone(c), Alone(c)', Position(c),
           pc[c] \notin {"idle", "build"}, NEW l \in PCs \ {"idle", "build"}, Goto(c, l),
           UNCHANGED <<want, built>>,
           Seen(c) = IF l \in Unsettled THEN [file' EXCEPT ![at'[c]] = old'[c]] ELSE file'
    PROVE  UNCHANGED Publisher!vars
<1>1. pc' = [pc EXCEPT ![c] = l] /\ result' = result
  BY DEF Goto
<1>2. l \in PCs \ {"build"} /\ l # "idle"
  OBVIOUS
<1>3. Planning' = Planning
  BY <1>1, <1>2, SeenOfCall
<1>4. /\ Published = Seen(c)
      /\ Published' = IF l \in Unsettled THEN [file' EXCEPT ![at'[c]] = old'[c]] ELSE file'
  BY <1>1, <1>2, SeenOfCall
<1>5. Published' = Published
  BY <1>4
<1>6. QED
  BY <1>1, <1>3, <1>5 DEF Publisher!vars

(* Each step of a caller that is alone is one of InstancePublisher or      *)
(* changes nothing it sees: a swap is invisible until the process answers, *)
(* and a rollback ends where the swap began, unless it fails itself.       *)
LEMMA CallerStep ==
    ASSUME TypeOK, TypeOK', NEW c \in Procs, Alone(c), Alone(c)', IInv(c),
           Edit(c) \/ Rebuild(c) \/ ReconcileStep(c)
    PROVE  [Publisher!Next]_(Publisher!vars)
<1> USE DEF IInv
<1> DEFINE Changes == \/ Publisher!Begin(c) \/ Publisher!Plan(c)
                      \/ Publisher!Finish(c) \/ Publisher!GiveUp(c)
                      \/ \E i \in Ids : \/ Publisher!Publish(c, i)
                                         \/ Publisher!Withdraw(c, i)
                                         \/ Publisher!RollbackFails(c, i)
           Sees == Changes \/ UNCHANGED Publisher!vars
<1>1. ASSUME Edit(c) \/ Rebuild(c) PROVE Sees
  <2>1. /\ pc[c] = "idle" /\ pc' = [pc EXCEPT ![c] = "build"]
        /\ UNCHANGED <<file, built>> /\ result' = [result EXCEPT ![c] = "none"]
        /\ want' \in Tables
    BY <1>1 DEF Edit, Rebuild, Call, TypeOK
  <2>2. c \notin Planning /\ Planning' = Planning
    BY <2>1 DEF Planning, TypeOK
  <2>3. Published' = Published
    BY <2>1, PublishedBefore, PublishedAfter DEF Seen, Unsettled, TypeOK
  <2>4. QED
    BY <2>1, <2>2, <2>3 DEF Publisher!Begin
<1>2. ASSUME BuildIntegratedConfigs(c) PROVE Sees
  <2>1. /\ pc[c] = "build" /\ result[c] = "none" /\ c \notin Planning
        /\ UNCHANGED <<want, file>>
    BY <1>2 DEF BuildIntegratedConfigs, system, Position, Planning
  <2>2. CASE \E i \in Ids : want[i] = Broken
    <3>1. /\ pc' = [pc EXCEPT ![c] = "idle"] /\ result' = [result EXCEPT ![c] = "err"]
          /\ built' = built
      BY <1>2, <2>2 DEF BuildIntegratedConfigs, Return
    <3>2. Planning' = Planning \ {c}
      BY <2>1, <3>1 DEF Planning, TypeOK
    <3>3. Published' = Published
      BY <2>1, <3>1, PublishedBefore, PublishedAfter DEF Seen, Unsettled, TypeOK
    <3>4. QED
      BY <2>1, <3>1, <3>2, <3>3 DEF Publisher!GiveUp, Publisher!End
  <2>3. CASE \A i \in Ids : want[i] # Broken
    <3>1. /\ pc' = [pc EXCEPT ![c] = "next"] /\ result' = result
          /\ built' = [built EXCEPT ![c] = want]
      BY <1>2, <2>3 DEF BuildIntegratedConfigs, Goto
    <3>2. Planning' = Planning \union {c}
      BY <2>1, <3>1 DEF Planning, TypeOK
    <3>3. Published' = Published
      BY <2>1, <3>1, PublishedBefore, PublishedAfter DEF Seen, Unsettled, TypeOK
    <3>4. QED
      BY <2>1, <2>3, <3>1, <3>2, <3>3 DEF Publisher!Plan
  <2>4. QED
    BY <2>2, <2>3
<1>3. ASSUME ApplyBegin(c) PROVE Sees
  <2>1. /\ pc[c] = "next" /\ Seen(c) = file /\ UNCHANGED <<want, file, built>>
        /\ (\E l \in {"enable", "swap"} : Goto(c, l)) \/ Return(c, "err")
    BY <1>3 DEF ApplyBegin, system, Seen, Unsettled
  <2>2. QED
    BY <2>1, GivesUp, GoesOn DEF PCs, Unsettled
<1>4. ASSUME Enable(c) \/ VerifyOld(c) PROVE Sees
  <2>1. /\ pc[c] \in {"enable", "verify"} /\ Seen(c) = file
        /\ UNCHANGED <<want, file, built>>
        /\ (\E l \in {"verify", "next", "restart"} : Goto(c, l)) \/ Return(c, "err")
    BY <1>4 DEF Enable, VerifyOld, system, Seen, Unsettled
  <2>2. QED
    BY <2>1, GivesUp, GoesOn DEF PCs, Unsettled
<1>5. ASSUME RestartOld(c) PROVE Sees
  <2>1. /\ pc[c] = "restart" /\ Seen(c) = file /\ UNCHANGED <<want, file, built, old, at>>
        /\ Goto(c, "started") \/ Return(c, "err")
    BY <1>5 DEF RestartOld, Seen, Unsettled
  <2>2. file = [file EXCEPT ![at[c]] = old[c]]
    BY <2>1 DEF Position, Applying, TypeOK
  <2>3. QED
    BY <2>1, <2>2, GivesUp, GoesOn DEF PCs
<1>6. ASSUME Swap(c) PROVE Sees
  <2>1. /\ pc[c] = "swap" /\ Seen(c) = file /\ UNCHANGED <<want, built, old, at>>
    BY <1>6 DEF Swap, Seen, Unsettled
  <2>2. CASE Goto(c, "start") /\ file' = [file EXCEPT ![at[c]] = built[c][at[c]]]
    <3>1. file = [file' EXCEPT ![at[c]] = old[c]]
      BY <2>1, <2>2 DEF Position, TypeOK
    <3>2. QED
      BY <2>1, <2>2, <3>1, GoesOn DEF PCs, Unsettled
  <2>3. CASE Return(c, "err") /\ UNCHANGED file
    BY <2>1, <2>3, GivesUp
  <2>4. QED
    BY <1>6, <2>2, <2>3 DEF Swap
<1>7. ASSUME RestartNew(c) PROVE Sees
  <2>1. /\ pc[c] = "start" /\ UNCHANGED <<want, file, built, old, at>>
        /\ \E l \in {"started", "rollback"} : Goto(c, l)
    BY <1>7 DEF RestartNew
  <2>2. QED
    BY <2>1, GoesOn DEF PCs, Unsettled, Seen
<1>8. ASSUME VerifyNew(c) PROVE Sees
  <2>1. /\ pc[c] = "started" /\ UNCHANGED <<want, file, built, old, at>>
        /\ file[at[c]] = built[c][at[c]] /\ built[c][at[c]] # NoFile
        /\ Seen(c) = [file EXCEPT ![at[c]] = old[c]]
    BY <1>8 DEF VerifyNew, system, Position, Applying, Seen, Unsettled
  <2>2. CASE Goto(c, "next")
    <3>1. pc' = [pc EXCEPT ![c] = "next"] /\ result' = result
      BY <2>2 DEF Goto
    <3>2. "next" \in PCs \ {"build", "idle"} /\ "next" \notin Unsettled
      BY DEF PCs, Unsettled
    <3>3. /\ c \in Planning /\ at[c] \in Ids /\ Planning' = Planning
          /\ Published = [file EXCEPT ![at[c]] = old[c]] /\ Published' = file
      BY <2>1, <3>1, <3>2, SeenOfCall
    <3>4. Published' = [Published EXCEPT ![at[c]] = built[c][at[c]]]
      BY <2>1, <3>3 DEF TypeOK
    <3>5. Publisher!Publish(c, at[c])
      BY <2>1, <3>1, <3>3, <3>4 DEF Publisher!Publish, Publisher!Wanted
    <3>6. QED
      BY <3>3, <3>5
  <2>3. CASE Return(c, "err") /\ old[c] = built[c][at[c]]
    <3>1. Seen(c) = file
      BY <2>1, <2>3 DEF TypeOK
    <3>2. QED
      BY <2>1, <2>3, <3>1, GivesUp
  <2>4. CASE Goto(c, "rollback")
    BY <2>1, <2>4, GoesOn DEF PCs, Unsettled
  <2>5. QED
    BY <1>8, <2>2, <2>3, <2>4 DEF VerifyNew
<1>9. ASSUME Rollback(c) PROVE Sees
  <2>1. /\ pc[c] = "rollback" /\ UNCHANGED <<want, built, old, at>>
        /\ \E content \in {old[c], file[at[c]], Torn} :
               file' = [file EXCEPT ![at[c]] = content]
        /\ \E l \in {"disable", "rerestart"} : Goto(c, l)
    BY <1>9 DEF Rollback, TypeOK
  <2>2. Seen(c) = [file' EXCEPT ![at[c]] = old[c]]
    BY <2>1 DEF Seen, Unsettled, TypeOK
  <2>3. QED
    BY <2>1, <2>2, GoesOn DEF PCs, Unsettled
<1>10. ASSUME Rerestart(c) \/ DisableNew(c) PROVE Sees
  <2>1. /\ pc[c] \in {"rerestart", "disable"} /\ UNCHANGED <<want, file, built>>
        /\ Return(c, "err") /\ Seen(c) = [file EXCEPT ![at[c]] = old[c]]
    BY <1>10 DEF Rerestart, DisableNew, Seen, Unsettled
  <2>2. CASE file[at[c]] = old[c]
    <3>1. Seen(c) = file
      BY <2>1, <2>2 DEF TypeOK
    <3>2. QED
      BY <2>1, <3>1, GivesUp
  <2>3. CASE "rollback" \in Faults /\ file[at[c]] \in {built[c][at[c]], Torn}
    <3>1. pc' = [pc EXCEPT ![c] = "idle"] /\ result' = [result EXCEPT ![c] = "err"]
      BY <2>1 DEF Return
    <3>2. "idle" \in PCs \ {"build"} /\ "idle" \notin Unsettled
      BY DEF PCs, Unsettled
    <3>3. /\ c \in Planning /\ result[c] = "none" /\ at[c] \in Ids
          /\ Planning' = Planning \ {c}
          /\ Published = [file EXCEPT ![at[c]] = old[c]] /\ Published' = file
      BY <2>1, <3>1, <3>2, SeenOfCall
    <3>4. Published' = [Published EXCEPT ![at[c]] = file[at[c]]]
      BY <3>3 DEF TypeOK
    <3>5. built[c][at[c]] # NoFile
      BY <2>1 DEF Undone
    <3>6. Publisher!RollbackFails(c, at[c])
      BY <2>1, <2>3, <3>1, <3>3, <3>4, <3>5
         DEF Publisher!RollbackFails, Publisher!Spoil, Publisher!Wanted, Publisher!End
    <3>7. QED
      BY <3>3, <3>6
  <2>4. QED
    BY <2>1, <2>2, <2>3 DEF Undone
<1>11. ASSUME ConfiguredIDs(c) \/ RemoveDisable(c) PROVE Sees
  <2>1. /\ pc[c] \in {"next", "remove"} /\ Seen(c) = file
        /\ UNCHANGED <<want, file, built>>
        /\ (\E l \in {"remove", "delete"} : Goto(c, l)) \/ Return(c, "err")
    BY <1>11 DEF ConfiguredIDs, RemoveDisable, system, Seen, Unsettled
  <2>2. QED
    BY <2>1, GivesUp, GoesOn DEF PCs, Unsettled
<1>12. ASSUME RemoveFile(c) PROVE Sees
  <2>1. /\ pc[c] = "delete" /\ Seen(c) = file /\ UNCHANGED <<want, built>>
        /\ built[c][at[c]] = NoFile
        /\ \A i \in Ids : built[c][i] # NoFile => file[i] = built[c][i]
    BY <1>12 DEF RemoveFile, Seen, Unsettled, Leftovers, Passed, Removing
  <2>2. CASE Goto(c, "remove") /\ file' = [file EXCEPT ![at[c]] = NoFile]
    <3>1. pc' = [pc EXCEPT ![c] = "remove"] /\ result' = result
      BY <2>2 DEF Goto
    <3>2. "remove" \in PCs \ {"build", "idle"} /\ "remove" \notin Unsettled
      BY DEF PCs, Unsettled
    <3>3. /\ c \in Planning /\ at[c] \in Ids /\ Planning' = Planning
          /\ Published = file /\ Published' = file'
      BY <2>1, <3>1, <3>2, SeenOfCall
    <3>4. Publisher!Withdraw(c, at[c])
      BY <2>1, <2>2, <3>1, <3>3 DEF Publisher!Withdraw, Publisher!Wanted
    <3>5. QED
      BY <3>3, <3>4
  <2>3. CASE Return(c, "err") /\ UNCHANGED file
    BY <2>1, <2>3, GivesUp
  <2>4. QED
    BY <1>12, <2>2, <2>3 DEF RemoveFile
<1>13. ASSUME Done(c) PROVE Sees
  <2>1. /\ pc[c] = "remove" /\ left[c] = {} /\ UNCHANGED <<want, file, built>>
        /\ pc' = [pc EXCEPT ![c] = "idle"] /\ result' = [result EXCEPT ![c] = "ok"]
        /\ Seen(c) = file
    BY <1>13 DEF Done, system, Return, Seen, Unsettled
  <2>2. "idle" \in PCs \ {"build"} /\ "idle" \notin Unsettled
    BY DEF PCs, Unsettled
  <2>3. /\ c \in Planning /\ result[c] = "none" /\ Planning' = Planning \ {c}
        /\ Published = file /\ Published' = file
    BY <2>1, <2>2, SeenOfCall
  <2>4. \A i \in Ids : file[i] = built[c][i]
    BY <2>1 DEF Leftovers, Passed, Removing
  <2>5. file = built[c]
    BY <2>4 DEF TypeOK
  <2>6. QED
    BY <2>1, <2>3, <2>5 DEF Publisher!Finish, Publisher!End
<1>14. Sees
  BY <1>1, <1>2, <1>3, <1>4, <1>5, <1>6, <1>7, <1>8, <1>9, <1>10, <1>11, <1>12, <1>13
     DEF ReconcileStep
<1>15. QED
  BY <1>14 DEF Publisher!Next

(* A kill catches at most one call halfway, and shows what it left.        *)
LEMMA DeathStep ==
    ASSUME TypeOK, CallsApart, Known, PanelCrash \/ HostReboot
    PROVE  Publisher!Die
<1>1. /\ pc' = [p \in Procs |-> "idle"] /\ result' = [p \in Procs |-> "none"]
      /\ UNCHANGED <<want, file, built>> /\ Faults \intersect {"crash", "reboot"} # {}
  BY DEF PanelCrash, HostReboot, system
<1>2. Planning' = {} /\ \A i \in Ids : Midway(i)' = {}
  BY <1>1 DEF Planning, Midway, Unsettled
<1>3. Published' = file
  BY <1>1, <1>2 DEF Published, TypeOK
<1>4. CASE \A i \in Ids : Midway(i) = {}
  <2>1. Published = file
    BY <1>4 DEF Published, TypeOK
  <2>2. QED
    BY <1>1, <1>2, <1>3, <2>1 DEF Publisher!Die
<1>5. CASE \E i \in Ids : Midway(i) # {}
  <2>1. PICK c \in Procs : pc[c] \in Unsettled
    BY <1>5 DEF Midway
  <2>2. Alone(c) /\ IInv(c)
    BY <2>1 DEF CallsApart, Alone, Known, Unsettled
  <2>3. /\ c \in Planning /\ at[c] \in Ids
        /\ Published = [file EXCEPT ![at[c]] = old[c]]
    BY <2>1, <2>2, PublishedBefore DEF Planning, Seen, Unsettled, TypeOK
  <2>4. Published' = [Published EXCEPT ![at[c]] = file[at[c]]]
    BY <1>3, <2>3 DEF TypeOK
  <2>5. built[c][at[c]] # NoFile
    BY <2>1, <2>2 DEF IInv, Position, Undone, Applying, Unsettled
  <2>6. Published' = Published \/ file[at[c]] \in {built[c][at[c]], Torn}
    <3>1. CASE pc[c] \in {"start", "started", "rollback"}
      BY <2>2, <3>1 DEF IInv, Position, Applying
    <3>2. CASE pc[c] \in {"rerestart", "disable"}
      <4>1. file[at[c]] = old[c] \/ file[at[c]] \in {built[c][at[c]], Torn}
        BY <2>2, <3>2 DEF IInv, Undone
      <4>2. QED
        BY <1>3, <2>3, <4>1 DEF TypeOK
    <3>3. QED
      BY <2>1, <3>1, <3>2 DEF Unsettled
  <2>7. Published' = Published \/ Publisher!Spoil(c, at[c])
    BY <2>3, <2>4, <2>5, <2>6 DEF Publisher!Spoil, Publisher!Wanted
  <2>8. QED
    BY <1>1, <1>2, <2>3, <2>7 DEF Publisher!Die
<1>6. QED
  BY <1>4, <1>5

(* While calls do not overlap every step maps to one of InstancePublisher  *)
(* or to none.                                                             *)
LEMMA PublisherStep ==
    ASSUME TypeOK, TypeOK', CallsApart, CallsApart', Known, [Next]_vars
    PROVE  [Publisher!Next]_(Publisher!vars)
<1>1. ASSUME NEW p \in Procs, Edit(p) \/ Rebuild(p) \/ ReconcileStep(p)
      PROVE  [Publisher!Next]_(Publisher!vars)
  <2>1. \E l \in PCs : pc' = [pc EXCEPT ![p] = l]
    <3>1. CASE Edit(p) \/ Rebuild(p)
      BY <3>1 DEF Edit, Rebuild, Call, PCs
    <3>2. CASE ReconcileStep(p)
      <4>1. \/ BuildIntegratedConfigs(p) \/ ApplyBegin(p) \/ Enable(p) \/ VerifyOld(p)
            \/ RestartOld(p) \/ Swap(p) \/ RestartNew(p) \/ VerifyNew(p)
            => \E l \in PCs : pc' = [pc EXCEPT ![p] = l]
        BY DEF BuildIntegratedConfigs, ApplyBegin, Enable, VerifyOld, RestartOld, Swap,
               RestartNew, VerifyNew, Goto, Return, PCs
      <4>2. \/ Rollback(p) \/ Rerestart(p) \/ DisableNew(p) \/ ConfiguredIDs(p)
            \/ RemoveDisable(p) \/ RemoveFile(p) \/ Done(p)
            => \E l \in PCs : pc' = [pc EXCEPT ![p] = l]
        BY DEF Rollback, Rerestart, DisableNew, ConfiguredIDs, RemoveDisable, RemoveFile,
               Done, Goto, Return, PCs
      <4>3. QED
        BY <3>2, <4>1, <4>2 DEF ReconcileStep
    <3>3. QED
      BY <1>1, <3>1, <3>2
  <2>2. \A q \in Procs \ {p} : pc'[q] = pc[q]
    BY <2>1 DEF TypeOK
  <2>3. pc[p] # "idle" \/ pc'[p] # "idle"
    <3>1. CASE Edit(p) \/ Rebuild(p)
      BY <3>1 DEF Edit, Rebuild, Call, TypeOK
    <3>2. CASE ReconcileStep(p)
      BY <3>2 DEF ReconcileStep, BuildIntegratedConfigs, ApplyBegin, Enable, VerifyOld,
         RestartOld, Swap, RestartNew, VerifyNew, Rollback, Rerestart, DisableNew,
         ConfiguredIDs, RemoveDisable, RemoveFile, Done
    <3>3. QED
      BY <1>1, <3>1, <3>2
  <2>4. Alone(p) /\ Alone(p)'
    BY <2>2, <2>3 DEF CallsApart, Alone
  <2>5. QED
    BY <1>1, <2>4, CallerStep DEF Known
<1>2. ASSUME UNCHANGED <<want, file, call>> PROVE UNCHANGED Publisher!vars
  <2>1. UNCHANGED <<want, file, pc, built, at, old, result>>
    BY <1>2 DEF call
  <2>2. Planning' = Planning /\ \A i \in Ids : Midway(i)' = Midway(i)
    BY <2>1 DEF Planning, Midway
  <2>3. Published' = Published
    <3>1. ASSUME NEW i \in Ids PROVE Published'[i] = Published[i]
      <4> DEFINE now == Midway(i)
                 then == Midway(i)'
      <4>1. now = then
        BY <2>2
      <4>2. (CHOOSE p \in now : TRUE) = CHOOSE p \in then : TRUE
        BY <4>1
      <4>3. /\ Published[i] = IF now = {} THEN file[i] ELSE old[CHOOSE p \in now : TRUE]
            /\ Published'[i] = IF then = {} THEN file'[i] ELSE old'[CHOOSE p \in then : TRUE]
        BY DEF Published
      <4> HIDE DEF now, then
      <4>4. QED
        BY <2>1, <4>1, <4>2, <4>3
    <3>2. Published = [i \in Ids |-> Published[i]] /\ Published' = [i \in Ids |-> Published'[i]]
      BY DEF Published
    <3>3. QED
      BY <3>1, <3>2
  <2>4. QED
    BY <2>1, <2>2, <2>3 DEF Publisher!vars
<1>3. CASE \E i \in Ids : InstanceExit(i) \/ AutoRestart(i)
  BY <1>2, <1>3 DEF InstanceExit, AutoRestart
<1>4. CASE PanelCrash \/ HostReboot
  BY <1>4, DeathStep DEF Publisher!Next
<1>5. CASE UNCHANGED vars
  BY <1>2, <1>5 DEF vars, call
<1>6. QED
  BY <1>1, <1>3, <1>4, <1>5 DEF Next

(* Reconcile publishes one document at a time and withdraws nothing before *)
(* all it wants is in place, for any number of callers whose calls do not  *)
(* overlap, whatever fails; only a failed rollback and a kill may spoil a  *)
(* document, of one instance.                                              *)
THEOREM PublishesInOrder == Spec /\ []CallsApart => ReconcilePublishes
<1>1. Init => Publisher!Init
  <2> SUFFICES ASSUME Init PROVE Publisher!Init
    OBVIOUS
  <2>1. Planning = {} /\ \A i \in Ids : Midway(i) = {}
    BY DEF Init, Planning, Midway, Unsettled
  <2>2. Published = [i \in Ids |-> NoFile]
    <3>1. \A i \in Ids : Published[i] = NoFile
      BY <2>1 DEF Init, Published
    <3>2. Published = [i \in Ids |-> Published[i]]
      BY DEF Published
    <3>3. QED
      BY <3>1, <3>2
  <2>3. want \in Tables
    BY ConstantsAssumption DEF Init, Tables
  <2>4. QED
    BY <2>1, <2>2, <2>3 DEF Init, Publisher!Init
<1>2. TypeOK /\ TypeOK' /\ CallsApart /\ CallsApart' /\ Known /\ [Next]_vars
        => [Publisher!Next]_(Publisher!vars)
  BY PublisherStep
<1>3. QED
  BY <1>1, <1>2, Inductive, TypeCorrect, PTL DEF Spec, ReconcilePublishes, Publisher!Spec

=============================================================================
