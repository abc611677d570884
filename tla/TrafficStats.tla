---------------------------- MODULE TrafficStats ----------------------------
(***************************************************************************)
(* The supplemental traffic job: it polls the cumulative counters of       *)
(* sing-box and of every mita instance, turns them into deltas against the *)
(* baselines it remembers, bills the deltas through AddTraffic and, when   *)
(* that disabled a client, reconciles the cores.                           *)
(*                                                                         *)
(* A counter belongs to one core and to one account: a client, or an       *)
(* inbound tag, on which canonicalStatsTag folds the "-inner" counters.    *)
(* The bill of an account is the sum over its counters; billed keeps the   *)
(* summands apart.  Uplink and downlink are two counters.  Snell has no    *)
(* user counters: the counter of its inbound is billed to the inbound and, *)
(* which is what members of Snell stand for, to its only client.  cron     *)
(* starts a Run every five seconds whether or not the previous one has     *)
(* returned.                                                               *)
(***************************************************************************)
EXTENDS Integers, FiniteSets, Functions

CONSTANTS
    Runs,      \* invocations of the job that may be in progress at once
    Counters,  \* the counters the cores export
    Core,      \* Core[n]: 0 for sing-box, or the id of a Mieru inbound
    Owner,     \* Owner[n]: the account counter n is billed to
    Snell,     \* counters of Snell inbounds
    Quota,     \* traffic after which AddTraffic disables an account
    Slack,     \* baselines kept beyond twice the counters seen (16)
    MaxMoved,  \* bound: bytes moved per counter in one behaviour
    MaxOld,    \* bound: bytes a counter holds when the panel starts
    Faults     \* which of FaultKinds may happen in this instance

(* rpc: a poll fails.  add: AddTraffic fails.  reconcile: it fails for     *)
(* some cores.  core: sing-box is restarted by someone else or exits.      *)
(* panel: the panel dies and starts again.                                 *)
FaultKinds == {"rpc", "add", "reconcile", "core", "panel"}

Singbox == 0
Cores == {Singbox} \union {Core[n] : n \in Counters}

ASSUME ConstantsAssumption ==
    /\ Core \in [Counters -> Nat]
    /\ DOMAIN Owner = Counters
    /\ Snell \subseteq {n \in Counters : Core[n] = Singbox}
    /\ Quota \in Nat /\ Slack \in Nat /\ MaxMoved \in Nat /\ MaxOld \in Nat
    /\ Faults \subseteq FaultKinds

VARIABLES
    counter,  \* counter[n]: cumulative value in the core
    moved,    \* history: bytes counted by n since the start
    billed,   \* billed[n]: what AddTraffic has booked because of n
    enabled,  \* accounts the tables have enabled
    contested, \* Snell counters whose inbound has a second client enabled
    served,   \* counters whose account its core still serves
    last,     \* the remembered value of every counter seen
    ready,    \* cores whose baseline has been taken
    pc,       \* pc[r]: where a Run stands
    left,     \* left[r]: cores it has not polled yet
    reply,    \* reply[r]: the snapshot a poll returned
    delta,    \* delta[r]: what it has collected so far
    skipped,  \* history: skipped[n], bytes moved before the first baseline
    lossy     \* history: counters that a failure, a restart or a second
              \* Snell client may have lost traffic of

jobs == <<pc, left, reply, delta>>
vars == <<counter, moved, billed, enabled, contested, served, last, ready, pc, left,
          reply, delta, skipped, lossy>>

-----------------------------------------------------------------------------

Accounts == {Owner[n] : n \in Counters}
CountersOf(c) == {n \in Counters : Core[n] = c}
Nothing == [n \in Counters |-> 0]
Snapshot(s) == DOMAIN s \subseteq Counters /\ s \in [DOMAIN s -> Nat]

(* Type correctness, the one type invariant of the module.                 *)
TypeOK ==
    /\ counter \in [Counters -> Nat]
    /\ moved \in [Counters -> Nat]
    /\ billed \in [Counters -> Nat]
    /\ enabled \subseteq Accounts
    /\ contested \subseteq Snell
    /\ served \subseteq Counters
    /\ Snapshot(last)
    /\ ready \subseteq Cores
    /\ pc \in [Runs -> {"idle", "poll", "apply", "add", "reconcile"}]
    /\ left \in [Runs -> SUBSET Cores]
    /\ DOMAIN reply = Runs /\ \A r \in Runs : Snapshot(reply[r])
    /\ delta \in [Runs -> [Counters -> Nat]]
    /\ skipped \in [Counters -> Int]
    /\ lossy \subseteq Counters

Empty == [n \in {} |-> 0]

Init ==
    /\ counter \in [Counters -> 0 .. MaxOld]
    /\ moved = Nothing
    /\ billed = Nothing
    /\ enabled = Accounts
    /\ contested = {}
    /\ served = Counters
    /\ last = Empty
    /\ ready = {}
    /\ pc = [r \in Runs |-> "idle"]
    /\ left = [r \in Runs |-> {}]
    /\ reply = [r \in Runs |-> Empty]
    /\ delta = [r \in Runs |-> Nothing]
    /\ skipped = Nothing
    /\ lossy = {}

Goto(r, label) == pc' = [pc EXCEPT ![r] = label]

-----------------------------------------------------------------------------
(* The cores.                                                              *)

Move(n) ==
    /\ n \in served
    /\ moved[n] < MaxMoved
    /\ counter' = [counter EXCEPT ![n] = @ + 1]
    /\ moved' = [moved EXCEPT ![n] = @ + 1]
    /\ UNCHANGED <<billed, enabled, contested, served, last, ready, jobs, skipped,
                   lossy>>

(* sing-box keeps its counters in memory; mita saves its own.              *)
RestartSingbox ==
    /\ counter' = [n \in Counters |-> IF Core[n] = Singbox THEN 0 ELSE counter[n]]
    /\ lossy' = lossy \union CountersOf(Singbox)

CoreRestart ==
    /\ "core" \in Faults
    /\ RestartSingbox
    /\ UNCHANGED <<moved, billed, enabled, contested, served, last, ready, jobs,
                   skipped>>

-----------------------------------------------------------------------------
(* The second client of a Snell inbound, enabled in the tables but expired *)
(* or cut off: the renderer leaves it out and goes on serving the first.   *)

Contest(n) ==
    /\ n \in Snell \ contested
    /\ contested' = contested \union {n}
    /\ lossy' = lossy \union {n}
    /\ UNCHANGED <<counter, moved, billed, enabled, served, last, ready, jobs,
                   skipped>>

Settle(n) ==
    /\ n \in contested
    /\ contested' = contested \ {n}
    /\ UNCHANGED <<counter, moved, billed, enabled, served, last, ready, jobs,
                   skipped, lossy>>

-----------------------------------------------------------------------------
(* A Run.                                                                  *)

Start(r) ==
    /\ pc[r] = "idle"
    /\ Goto(r, "poll")
    /\ left' = [left EXCEPT ![r] = Cores]
    /\ delta' = [delta EXCEPT ![r] = Nothing]
    /\ UNCHANGED <<counter, moved, billed, enabled, contested, served, last, ready,
                   reply, skipped, lossy>>

(* The next core, sing-box first and the inbounds by id: a counter that    *)
(* has not moved may or may not be part of the answer.                     *)
Poll(r) ==
    /\ pc[r] = "poll"
    /\ \E c \in left[r] :
          /\ \A d \in left[r] : c <= d
          /\ \/ /\ \E seen \in SUBSET CountersOf(c) :
                      /\ \A n \in CountersOf(c) : counter[n] > 0 => n \in seen
                      /\ reply' = [reply EXCEPT ![r] = [n \in seen |-> counter[n]]]
                /\ Goto(r, "apply")
                /\ UNCHANGED left
             \/ /\ "rpc" \in Faults
                /\ left' = [left EXCEPT ![r] = @ \ {c}]
                /\ UNCHANGED <<pc, reply>>
    /\ UNCHANGED <<counter, moved, billed, enabled, contested, served, last, ready,
                   delta, skipped, lossy>>

(* Mutant: a counter that went down is not noticed.                        *)
NewBytesNoReset(snapshot, base, n) ==
    IF n \notin DOMAIN snapshot THEN 0
    ELSE snapshot[n] - IF n \in DOMAIN base THEN base[n] ELSE 0

(* Mutant: a counter that is new only sets its baseline.                   *)
NewBytesFromSecond(snapshot, base, n) ==
    IF n \notin DOMAIN snapshot \intersect DOMAIN base THEN 0
    ELSE IF base[n] <= snapshot[n] THEN snapshot[n] - base[n]
    ELSE snapshot[n]

(* New bytes in a snapshot; a counter that is new or went down counts in   *)
(* full, as after a restart of its core.                                   *)
NewBytes(snapshot, base, n) ==
    IF n \notin DOMAIN snapshot THEN 0
    ELSE IF n \in DOMAIN base /\ base[n] <= snapshot[n] THEN snapshot[n] - base[n]
    ELSE snapshot[n]

(* The counters whose remembered value survives a snapshot although it     *)
(* does not mention them: mieruMetricDelta replaces the whole map of its   *)
(* inbound, applyStatsSnapshot keeps the rest until it grows too large.    *)
Kept(c, seen) ==
    LET known == (DOMAIN last \intersect CountersOf(c)) \union seen
    IN  IF c = Singbox /\ Cardinality(known) <= 2 * Cardinality(seen) + Slack
        THEN known \ seen
        ELSE {}

(* Mutant: the pruning deletes the names it saw.                           *)
RememberUnseen(c, snapshot) ==
    last' = [n \in (DOMAIN last \ CountersOf(c)) \union Kept(c, DOMAIN snapshot) |-> last[n]]

Remember(c, snapshot) ==
    LET seen == DOMAIN snapshot
        others == DOMAIN last \ CountersOf(c)
    IN  last' = [n \in others \union Kept(c, seen) \union seen |->
                    IF n \in seen THEN snapshot[n] ELSE last[n]]

(* snellSingleClientTraffic knows whom to bill if exactly one of the       *)
(* clients attached to the inbound is enabled; what expired counts too.    *)
Attributed(n) == n \in Snell => n \notin contested /\ Owner[n] \in enabled

(* applyStatsSnapshot and mieruMetricDelta, each under its mutex, and the  *)
(* attribution of the Snell counters that follows at once.                 *)
ApplySnapshot(r) ==
    /\ pc[r] = "apply"
    /\ \E c \in left[r] :
          /\ \A d \in left[r] : c <= d
          /\ Remember(c, reply[r])
          /\ ready' = ready \union {c}
          /\ IF c \in ready
             THEN /\ delta' = [delta EXCEPT ![r] = [n \in Counters |->
                        @[n] + IF Core[n] = c /\ Attributed(n)
                               THEN NewBytes(reply[r], last, n) ELSE 0]]
                  /\ UNCHANGED skipped
             ELSE /\ skipped' = [n \in Counters |->
                        IF Core[n] = c
                        THEN moved[n] - NewBytes(counter, reply[r], n)
                        ELSE skipped[n]]
                  /\ UNCHANGED delta
          /\ left' = [left EXCEPT ![r] = @ \ {c}]
    /\ reply' = [reply EXCEPT ![r] = Empty]
    /\ Goto(r, "poll")
    /\ UNCHANGED <<counter, moved, billed, enabled, contested, served, lossy>>

Collected(r) ==
    /\ pc[r] = "poll"
    /\ left[r] = {}
    /\ Goto(r, IF delta[r] = Nothing THEN "idle" ELSE "add")
    /\ UNCHANGED <<counter, moved, billed, enabled, contested, served, last, ready,
                   left, reply, delta, skipped, lossy>>

Bill(bills, a) == SumFunctionOnSet(bills, {n \in Counters : Owner[n] = a})

(* Mutant: Reconcile only when AddTraffic asks for a restart of Xray.      *)
AddTrafficForgetsDisabled(r) ==
    /\ pc[r] = "add"
    /\ billed' = [n \in Counters |-> billed[n] + delta[r][n]]
    /\ enabled' = {a \in enabled : Bill(billed', a) < Quota}
    /\ lossy' = lossy \union {n \in Snell : Owner[n] \notin enabled'}
    /\ Goto(r, "idle")
    /\ delta' = [delta EXCEPT ![r] = Nothing]
    /\ UNCHANGED <<counter, moved, contested, served, last, ready, left, reply,
                   skipped>>

(* AddTraffic books the deltas and disables who is over quota, in one      *)
(* transaction; when it fails the deltas are dropped, the baselines stay.  *)
(* A Snell inbound whose client is disabled has nobody to be billed to.    *)
AddTraffic(r) ==
    /\ pc[r] = "add"
    /\ \/ /\ billed' = [n \in Counters |-> billed[n] + delta[r][n]]
          /\ enabled' = {a \in enabled : Bill(billed', a) < Quota}
          /\ Goto(r, IF enabled' = enabled THEN "idle" ELSE "reconcile")
          /\ lossy' = lossy \union {n \in Snell : Owner[n] \notin enabled'}
       \/ /\ "add" \in Faults
          /\ lossy' = lossy \union {n \in Counters : delta[r][n] > 0}
          /\ Goto(r, "idle")
          /\ UNCHANGED <<billed, enabled>>
    /\ delta' = [delta EXCEPT ![r] = Nothing]
    /\ UNCHANGED <<counter, moved, contested, served, last, ready, left, reply,
                   skipped>>

(* sbox.Reconcile and mcore.Reconcile; an error is logged, nothing more.   *)
(* A document that has not changed leaves sing-box running; one that       *)
(* failed may have restarted it all the same.                              *)
Reconcile(r) ==
    /\ pc[r] = "reconcile"
    /\ \E failed \in IF "reconcile" \in Faults THEN SUBSET Cores ELSE {{}} :
          /\ served' = {n \in Counters : IF Core[n] \in failed THEN n \in served
                                                         ELSE Owner[n] \in enabled}
          /\ \/ RestartSingbox
             \/ /\ CountersOf(Singbox) \intersect served
                      = CountersOf(Singbox) \intersect served'
                /\ UNCHANGED <<counter, lossy>>
    /\ Goto(r, "idle")
    /\ UNCHANGED <<moved, billed, enabled, contested, last, ready, left, reply, delta,
                   skipped>>

(* The panel dies, and its first GetXrayConfig reconciles: that call takes *)
(* the place of one Run.                                                   *)
PanelRestart(r) ==
    /\ "panel" \in Faults
    /\ pc' = [q \in Runs |-> IF q = r THEN "reconcile" ELSE "idle"]
    /\ left' = [q \in Runs |-> {}]
    /\ delta' = [q \in Runs |-> Nothing]
    /\ reply' = [q \in Runs |-> Empty]
    /\ last' = Empty
    /\ ready' = {}
    /\ lossy' = Counters
    /\ UNCHANGED <<counter, moved, billed, enabled, contested, served, skipped>>

RunStep(r) ==
    \/ Start(r) \/ Poll(r) \/ ApplySnapshot(r)
    \/ Collected(r) \/ AddTraffic(r) \/ Reconcile(r)

Next ==
    \/ \E n \in Counters : Move(n) \/ Contest(n) \/ Settle(n)
    \/ CoreRestart
    \/ \E r \in Runs : RunStep(r) \/ PanelRestart(r)

Spec == Init /\ [][Next]_vars

(* cron keeps starting the job, and a Run that started goes on.            *)
FairSpec == Spec /\ \A r \in Runs : WF_vars(RunStep(r))

-----------------------------------------------------------------------------

(* Bytes of n that the next poll would report.                             *)
Unpolled(n) == IF Core[n] \in ready THEN NewBytes(counter, last, n) ELSE 0

(* No byte is billed twice, and none that an earlier panel already billed: *)
(* restarts of core or panel, failed polls, forgotten baselines and lost   *)
(* deltas included.  "A panel restart never re-adds counters already held  *)
(* by the still-running sing-box process" (stats.go:69-72, 112-114).       *)
NeverOverbilled == \A n \in Counters : billed[n] <= moved[n]

(* Traffic since the baseline is billed, in a Run's hands, or reported by  *)
(* the next poll, unless a restart of its core or a failed AddTraffic lost *)
(* some, or a Snell inbound has had a second client or a disabled one: the *)
(* pruning, a failed poll, an answer that omits a counter and the lookup   *)
(* of the client to bill lose nothing (stats.go:90-157,                    *)
(* mieru/stats.go:182-214, v13-patch.py:165-181).                          *)
NothingLost ==
    \A n \in Counters \ lossy :
        Core[n] \in ready =>
            moved[n] = skipped[n] + billed[n] + Unpolled(n)
                       + SumFunction([r \in Runs |-> delta[r][n]])

(* Nobody is cut off early: an account is only disabled after its counters *)
(* have really moved the quota, bytes from before the baseline and answers *)
(* to several polls counted once (job:57-80).                              *)
NoneCutOffEarly == \A a \in Accounts \ enabled : Bill(moved, a) >= Quota

(* An account that the tables have disabled is cut off, or a Run stands    *)
(* before its Reconcile: neither an overlapping Run nor the death of the   *)
(* panel loses the call, if it does not fail (job:76-87).                  *)
DisabledAreCut ==
    "reconcile" \notin Faults =>
        \A n \in served : Owner[n] \notin enabled => \E r \in Runs : pc[r] = "reconcile"

(* An account whose bill reached its quota is cut off by every core, also  *)
(* when the panel dies between AddTraffic and Reconcile (job:76-87).       *)
QuotaEnforced ==
    \A a \in Accounts :
        Bill(billed, a) >= Quota ~> \A n \in served : Owner[n] # a

=============================================================================
