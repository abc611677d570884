---------------------------- MODULE MieruRuntime ----------------------------
(***************************************************************************)
(* Reconcile of the Mieru runtime: one mita process, one <id>.json and one *)
(* instance of the template unit x-ui-mieru@ per enabled inbound.          *)
(*                                                                         *)
(* Reconcile applies the wanted documents one inbound after the other, in  *)
(* the order of a Go map, and returns at the first error; only when all of *)
(* them run does it look for instances that are no longer wanted.  mita    *)
(* has no offline check, so Apply starts the new document and asks the     *)
(* process, over its management socket, whether it is RUNNING.             *)
(***************************************************************************)
EXTENDS Naturals, FiniteSets

CONSTANTS
    Procs,       \* goroutines that may call Reconcile
    Ids,         \* inbounds
    Docs,        \* rendered <id>.json documents
    Renderings,  \* Renderings[i]: the documents inbound i can ask for
    Port,        \* Port[d]: where a process running d listens
    Startable,   \* the documents mita can start from, given a free port
    Faults,      \* which of FaultKinds may happen in this instance
    Broken,      \* an inbound the builder cannot render
    NoFile,      \* no document: nothing wanted, or no file
    Torn,        \* a file whose rewriting was cut short
    Down,        \* the unit is stopped
    Waiting      \* the process exited, systemd starts it again after RestartSec

(* io: a file operation before the rename, or listing or deleting a file,  *)
(* fails.  rollback: restoring or removing the file fails.  restart: the   *)
(* unit's start job fails.  slow: mita misses a deadline of VerifyRunning. *)
(* systemctl: the command fails and does nothing.  exit: a mita process    *)
(* ends by itself.  crash: the panel dies.  reboot: the host restarts.     *)
FaultKinds ==
    {"io", "rollback", "restart", "slow", "systemctl", "exit", "crash", "reboot"}

ASSUME ConstantsAssumption ==
    /\ Renderings \in [Ids -> SUBSET Docs]
    /\ DOMAIN Port = Docs
    /\ Startable \subseteq Docs
    /\ Faults \subseteq FaultKinds
    /\ \A special \in {Broken, NoFile, Torn, Down, Waiting} : special \notin Docs
    /\ Broken # NoFile /\ NoFile # Torn /\ Down # Waiting

VARIABLES
    want,      \* want[i]: what the tables say inbound i should run
    file,      \* file[i]: content of <i>.json
    unit,      \* unit[i]: the document a live mita loaded, Down or Waiting
    enabled,   \* the instances systemd starts at boot
    socket,    \* the management sockets that exist in /run/x-ui-mieru
    pc,        \* pc[p]: where p's Reconcile call stands
    built,     \* built[p]: the documents p's call rendered, per inbound
    left,      \* left[p]: the inbounds p's current loop has not reached
    at,        \* at[p]: the inbound p is working on
    old,       \* old[p]: what p read from the file of at[p]
    result,    \* result[p]: what p's last call returned
    disturbed  \* history: a crash, a reboot, or a systemctl that did nothing

system == <<want, file, unit, enabled, socket>>
call == <<pc, built, left, at, old, result>>
vars == <<want, file, unit, enabled, socket, pc, built, left, at, old, result,
          disturbed>>

-----------------------------------------------------------------------------

Contents == Docs \union {NoFile, Torn}

PCs == {"idle", "build", "next", "enable", "verify", "restart", "swap", "start",
        "started", "rollback", "rerestart", "disable", "remove", "delete"}

(* What the panel's port check lets an operator store: no two inbounds on  *)
(* one port.  An inbound that is disabled, deleted or without an active    *)
(* client wants NoFile; a deleted one gives up its port.                   *)
Tables ==
    {w \in [Ids -> Docs \union {NoFile, Broken}] :
        /\ \A i \in Ids : w[i] \in Renderings[i] \union {NoFile, Broken}
        /\ \A i, j \in Ids :
              i # j /\ {w[i], w[j]} \subseteq Docs => Port[w[i]] # Port[w[j]]}

(* Type correctness, the one type invariant of the module, over the tables,*)
(* the instances and every Reconcile call.                                 *)
TypeOK ==
    /\ want \in Tables
    /\ file \in [Ids -> Contents]
    /\ unit \in [Ids -> Docs \union {Down, Waiting}]
    /\ enabled \subseteq Ids
    /\ socket \subseteq Ids
    /\ pc \in [Procs -> PCs]
    /\ built \in [Procs -> [Ids -> Docs \union {NoFile}]]
    /\ left \in [Procs -> SUBSET Ids]
    /\ at \in [Procs -> Ids]
    /\ old \in [Procs -> Contents]
    /\ result \in [Procs -> {"none", "ok", "err"}]
    /\ disturbed \in BOOLEAN

Init ==
    /\ want = [i \in Ids |-> NoFile]
    /\ file = [i \in Ids |-> NoFile]
    /\ unit = [i \in Ids |-> Down]
    /\ enabled = {}
    /\ socket = {}
    /\ pc = [p \in Procs |-> "idle"]
    /\ built = [p \in Procs |-> [i \in Ids |-> NoFile]]
    /\ left = [p \in Procs |-> {}]
    /\ at \in [Procs -> Ids]
    /\ old = [p \in Procs |-> NoFile]
    /\ result = [p \in Procs |-> "none"]
    /\ disturbed = FALSE

-----------------------------------------------------------------------------
(* The template unit.  All instances share RuntimeDirectory=x-ui-mieru,    *)
(* which systemd removes, sockets included, whenever one of them stops.    *)

Alive(i) == unit[i] \in Docs

SocketsAfterStop(i) == IF Alive(i) THEN {} ELSE socket

(* The instance is (re)started: it runs if it can read its document and    *)
(* bind its port, and exits otherwise, removing the shared directory.      *)
Launch(i) ==
    LET portFree == \A j \in Ids \ {i} : Alive(j) => Port[unit[j]] # Port[file[i]]
    IN  IF file[i] \in Startable /\ portFree
        THEN /\ unit' = [unit EXCEPT ![i] = file[i]]
             /\ socket' = SocketsAfterStop(i) \union {i}
        ELSE /\ unit' = [unit EXCEPT ![i] = Waiting]
             /\ socket' = {}

(* Runtime.Restart: systemctl enable, then systemctl restart.              *)
RestartUnit(i) ==
    /\ enabled' = enabled \union {i}
    /\ Launch(i)
    /\ UNCHANGED disturbed

RestartUnitFails(i) ==
    \/ /\ "restart" \in Faults
       /\ enabled' = enabled \union {i}
       /\ unit' = [unit EXCEPT ![i] = Down]
       /\ socket' = SocketsAfterStop(i)
       /\ UNCHANGED disturbed
    \/ /\ "systemctl" \in Faults
       /\ enabled' \in {enabled, enabled \union {i}}
       /\ disturbed' = TRUE
       /\ UNCHANGED <<unit, socket>>

(* Runtime.Disable: systemctl disable --now.                               *)
DisableUnit(i) ==
    /\ enabled' = enabled \ {i}
    /\ unit' = [unit EXCEPT ![i] = Down]
    /\ socket' = SocketsAfterStop(i)
    /\ UNCHANGED disturbed

SystemctlFails ==
    /\ "systemctl" \in Faults
    /\ disturbed' = TRUE
    /\ UNCHANGED <<enabled, unit, socket>>

(* `mita status` reaches the process through its socket.                   *)
Answers(i) == Alive(i) /\ i \in socket

-----------------------------------------------------------------------------

Goto(p, label) ==
    /\ pc' = [pc EXCEPT ![p] = label]
    /\ UNCHANGED result

Return(p, r) ==
    /\ pc' = [pc EXCEPT ![p] = "idle"]
    /\ result' = [result EXCEPT ![p] = r]

Call(p) ==
    /\ pc[p] = "idle"
    /\ pc' = [pc EXCEPT ![p] = "build"]
    /\ result' = [result EXCEPT ![p] = "none"]
    /\ UNCHANGED <<file, unit, enabled, socket, built, left, at, old, disturbed>>

(* A handler changes one inbound, or the clients that make it active, and  *)
(* dispatches to one of the Local methods.                                 *)
Edit(p) ==
    /\ Call(p)
    /\ \E i \in Ids, w \in Docs \union {NoFile, Broken} :
          w # want[i] /\ want' = [want EXCEPT ![i] = w]
    /\ want' \in Tables

(* GetXrayConfig and the traffic job reconcile without a change of theirs. *)
Rebuild(p) == Call(p) /\ UNCHANGED want

(* Mutant: an inbound that cannot be rendered is logged, not an error.     *)
BuildIgnoresErrors(p) ==
    /\ pc[p] = "build"
    /\ built' = [built EXCEPT ![p] = want]
    /\ left' = [left EXCEPT ![p] = {i \in Ids : want[i] # NoFile}]
    /\ Goto(p, "next")
    /\ UNCHANGED <<system, at, old, disturbed>>

BuildIntegratedConfigs(p) ==
    /\ pc[p] = "build"
    /\ IF \E i \in Ids : want[i] = Broken
       THEN Return(p, "err") /\ UNCHANGED <<built, left>>
       ELSE /\ built' = [built EXCEPT ![p] = want]
            /\ left' = [left EXCEPT ![p] = {i \in Ids : want[i] # NoFile}]
            /\ Goto(p, "next")
    /\ UNCHANGED <<system, at, old, disturbed>>

(* The next element of the map: CheckBytes of its document (JSON and the   *)
(* mita binary, nothing of the content) and the read of its file.          *)
ApplyBegin(p) ==
    /\ pc[p] = "next"
    /\ \E i \in left[p] :
          /\ left' = [left EXCEPT ![p] = @ \ {i}]
          /\ at' = [at EXCEPT ![p] = i]
          /\ old' = [old EXCEPT ![p] = file[i]]
          /\ \/ Goto(p, IF file[i] = built[p][i] THEN "enable" ELSE "swap")
             \/ "io" \in Faults /\ Return(p, "err")
    /\ UNCHANGED <<system, built, disturbed>>

(* Mutant: an unchanged document is enabled, and its process not asked.    *)
EnableOnly(p) ==
    /\ pc[p] = "enable"
    /\ enabled' = enabled \union {at[p]}
    /\ Goto(p, "next")
    /\ UNCHANGED <<want, file, unit, socket, built, left, at, old, disturbed>>

Enable(p) ==
    /\ pc[p] = "enable"
    /\ \/ /\ enabled' = enabled \union {at[p]}
          /\ Goto(p, "verify")
          /\ UNCHANGED <<unit, socket, disturbed>>
       \/ SystemctlFails /\ Return(p, "err")
    /\ UNCHANGED <<want, file, built, left, at, old>>

(* VerifyRunning of a document that did not change, two seconds.           *)
VerifyOld(p) ==
    /\ pc[p] = "verify"
    /\ \/ Answers(at[p]) /\ Goto(p, "next")
       \/ (~Answers(at[p]) \/ "slow" \in Faults) /\ Goto(p, "restart")
    /\ UNCHANGED <<system, built, left, at, old, disturbed>>

RestartOld(p) ==
    /\ pc[p] = "restart"
    /\ \/ RestartUnit(at[p]) /\ Goto(p, "started")
       \/ RestartUnitFails(at[p]) /\ Return(p, "err")
    /\ UNCHANGED <<want, file, built, left, at, old>>

Swap(p) ==
    /\ pc[p] = "swap"
    /\ \/ /\ file' = [file EXCEPT ![at[p]] = built[p][at[p]]]
          /\ Goto(p, "start")
       \/ "io" \in Faults /\ Return(p, "err") /\ UNCHANGED file
    /\ UNCHANGED <<want, unit, enabled, socket, built, left, at, old, disturbed>>

RestartNew(p) ==
    /\ pc[p] = "start"
    /\ \/ RestartUnit(at[p]) /\ Goto(p, "started")
       \/ RestartUnitFails(at[p]) /\ Goto(p, "rollback")
    /\ UNCHANGED <<want, file, built, left, at, old>>

(* VerifyRunning after a restart, five seconds.  Only a call that swapped  *)
(* the file has something to roll back.                                    *)
VerifyNew(p) ==
    /\ pc[p] = "started"
    /\ \/ Answers(at[p]) /\ Goto(p, "next")
       \/ /\ ~Answers(at[p]) \/ "slow" \in Faults
          /\ IF old[p] = built[p][at[p]] THEN Return(p, "err") ELSE Goto(p, "rollback")
    /\ UNCHANGED <<system, built, left, at, old, disturbed>>

(* Mutant: the rollback of a first document removes it and no more.        *)
RollbackKeepsUnit(p) ==
    /\ pc[p] = "rollback"
    /\ file' = [file EXCEPT ![at[p]] = old[p]]
    /\ IF old[p] = NoFile THEN Return(p, "err") ELSE Goto(p, "rerestart")
    /\ UNCHANGED <<want, unit, enabled, socket, built, left, at, old, disturbed>>

(* Errors of the rollback are ignored.  With no previous document the file *)
(* is removed first and the unit disabled afterwards.                      *)
Rollback(p) ==
    /\ pc[p] = "rollback"
    /\ \/ file' = [file EXCEPT ![at[p]] = old[p]]
       \/ "rollback" \in Faults /\ UNCHANGED file
       \/ "rollback" \in Faults /\ old[p] # NoFile /\ file' = [file EXCEPT ![at[p]] = Torn]
    /\ Goto(p, IF old[p] = NoFile THEN "disable" ELSE "rerestart")
    /\ UNCHANGED <<want, unit, enabled, socket, built, left, at, old, disturbed>>

Rerestart(p) ==
    /\ pc[p] = "rerestart"
    /\ RestartUnit(at[p]) \/ RestartUnitFails(at[p])
    /\ Return(p, "err")
    /\ UNCHANGED <<want, file, built, left, at, old>>

DisableNew(p) ==
    /\ pc[p] = "disable"
    /\ DisableUnit(at[p]) \/ SystemctlFails
    /\ Return(p, "err")
    /\ UNCHANGED <<want, file, built, left, at, old>>

(* Mutant: stale instances are looked for before the wanted ones all run.  *)
ConfiguredIDsEarly(p) ==
    /\ pc[p] = "next"
    /\ left' = [left EXCEPT ![p] = {i \in Ids : file[i] # NoFile /\ built[p][i] = NoFile}]
    /\ Goto(p, "remove")
    /\ UNCHANGED <<system, built, at, old, disturbed>>

(* All wanted documents run: what else has a file is stale.                *)
ConfiguredIDs(p) ==
    /\ pc[p] = "next"
    /\ left[p] = {}
    /\ \/ /\ left' = [left EXCEPT ![p] =
                        {i \in Ids : file[i] # NoFile /\ built[p][i] = NoFile}]
          /\ Goto(p, "remove")
       \/ "io" \in Faults /\ Return(p, "err") /\ UNCHANGED left
    /\ UNCHANGED <<system, built, at, old, disturbed>>

RemoveDisable(p) ==
    /\ pc[p] = "remove"
    /\ \E i \in left[p] :
          /\ left' = [left EXCEPT ![p] = @ \ {i}]
          /\ at' = [at EXCEPT ![p] = i]
          /\ \/ DisableUnit(i) /\ Goto(p, "delete")
             \/ SystemctlFails /\ Return(p, "err")
    /\ UNCHANGED <<want, file, built, old>>

RemoveFile(p) ==
    /\ pc[p] = "delete"
    /\ \/ file' = [file EXCEPT ![at[p]] = NoFile] /\ Goto(p, "remove")
       \/ "io" \in Faults /\ Return(p, "err") /\ UNCHANGED file
    /\ UNCHANGED <<want, unit, enabled, socket, built, left, at, old, disturbed>>

Done(p) ==
    /\ pc[p] = "remove"
    /\ left[p] = {}
    /\ Return(p, "ok")
    /\ UNCHANGED <<system, built, left, at, old, disturbed>>

ReconcileStep(p) ==
    \/ BuildIntegratedConfigs(p) \/ ApplyBegin(p) \/ Enable(p) \/ VerifyOld(p)
    \/ RestartOld(p) \/ Swap(p) \/ RestartNew(p) \/ VerifyNew(p) \/ Rollback(p)
    \/ Rerestart(p) \/ DisableNew(p) \/ ConfiguredIDs(p) \/ RemoveDisable(p)
    \/ RemoveFile(p) \/ Done(p)

-----------------------------------------------------------------------------
(* The processes, the panel and the host.                                  *)

InstanceExit(i) ==
    /\ "exit" \in Faults
    /\ Alive(i)
    /\ unit' = [unit EXCEPT ![i] = Waiting]
    /\ socket' = {}
    /\ UNCHANGED <<want, file, enabled, call, disturbed>>

AutoRestart(i) ==
    /\ unit[i] = Waiting
    /\ Launch(i)
    /\ UNCHANGED <<want, file, enabled, call, disturbed>>

PanelCrash ==
    /\ "crash" \in Faults
    /\ pc' = [p \in Procs |-> "idle"]
    /\ result' = [p \in Procs |-> "none"]
    /\ disturbed' = TRUE
    /\ UNCHANGED <<system, built, left, at, old>>

HostReboot ==
    /\ "reboot" \in Faults
    /\ unit' = [i \in Ids |-> IF i \in enabled THEN Waiting ELSE Down]
    /\ socket' = {}
    /\ pc' = [p \in Procs |-> "idle"]
    /\ result' = [p \in Procs |-> "none"]
    /\ disturbed' = TRUE
    /\ UNCHANGED <<want, file, enabled, built, left, at, old>>

Next ==
    \/ \E p \in Procs : Edit(p) \/ Rebuild(p) \/ ReconcileStep(p)
    \/ \E i \in Ids : InstanceExit(i) \/ AutoRestart(i)
    \/ PanelCrash
    \/ HostReboot

Spec == Init /\ [][Next]_vars

(* A call that runs goes on, systemd starts an exited process again, and   *)
(* Xray's configuration is rebuilt over and over.                          *)
RetrySpec ==
    /\ Spec
    /\ \A p \in Procs : WF_vars(ReconcileStep(p)) /\ WF_vars(Rebuild(p))
    /\ \A i \in Ids : WF_vars(AutoRestart(i))

-----------------------------------------------------------------------------

Quiet == \A p \in Procs : pc[p] = "idle"

(* Between calls every instance that runs, restarts or would start at boot *)
(* has its file, the only trace ConfiguredIDs finds it by, and a process   *)
(* that is up loaded what the file holds.  A rollback that removes the file*)
(* before it disables the unit endangers the first, every restart that can *)
(* fail after the rename the second (runtime.go:55-62, 83-85).             *)
Accounted ==
    Quiet /\ ~disturbed =>
        \A i \in Ids :
            /\ i \in enabled \/ unit[i] # Down => file[i] # NoFile
            /\ Alive(i) => unit[i] = file[i]

(* The step by which Reconcile returns nil leaves every inbound of the     *)
(* tables it read with its document in place and loaded, and stopped and   *)
(* forgotten every other instance, whatever earlier calls that failed half *)
(* way had left behind (integrated.go:15-32).                              *)
OkServed ==
    \A p \in Procs :
        pc[p] # "idle" /\ result'[p] = "ok" /\ ~disturbed' =>
            \A i \in Ids :
                IF built[p][i] = NoFile
                THEN file'[i] = NoFile /\ unit'[i] = Down /\ i \notin enabled'
                ELSE /\ file'[i] = built[p][i]
                     /\ unit'[i] \in {built[p][i], Waiting}
                     /\ i \in enabled'

OkMeansServed == [][OkServed]_vars

(* Between the rename and the answer of the process, or the end of the     *)
(* rollback, the previous document is still the published one.             *)
Unsettled == {"start", "started", "rollback", "rerestart", "disable"}

Midway(i) == {p \in Procs : pc[p] \in Unsettled /\ at[p] = i}

Published ==
    [i \in Ids |-> IF Midway(i) = {} THEN file[i] ELSE old[CHOOSE p \in Midway(i) : TRUE]]

Planning == {p \in Procs : pc[p] \notin {"idle", "build"}}

Publisher ==
    INSTANCE InstancePublisher WITH
        Callers  <- Procs,
        Nothing  <- NoFile,
        Damaged  <- Torn,
        stored   <- Published,
        planning <- Planning,
        plan     <- built,
        outcome  <- result

(* Reconcile implements InstancePublisher: one document at a time, each    *)
(* with its previous one restored if it does not run, and no instance that *)
(* is no longer wanted is removed before all wanted ones are in place,     *)
(* whatever fails on the way (integrated.go:15-32, runtime.go:23-75).      *)
ReconcilePublishes == Publisher!Spec

-----------------------------------------------------------------------------
(* Statements that the code does not keep.                                 *)

(* "The configuration, socket and metrics state of Mieru instances are     *)
(* isolated from each other" (README.md:119): a live instance has its      *)
(* management socket, whatever happens to the other instances.             *)
SocketsIsolated == \A i \in Ids : Alive(i) => i \in socket

(* Inbounds can be disabled and changed as native ones can (README.md:70): *)
(* tables that mita can start, left alone, are reached by retrying.        *)
Converges ==
    \A w \in Tables :
        (\A i \in Ids : w[i] \in Startable \union {NoFile}) =>
            (<>[](want = w) => <>[](file = w))

=============================================================================
