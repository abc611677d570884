------------------------- MODULE TrafficStatsProofs -------------------------
(***************************************************************************)
(* Theorems about TrafficStats for every set of counters, cores and        *)
(* accounts, every quota, any number of Runs and every combination of      *)
(* failures.  What a byte is billed for needs Runs that do not overlap.    *)
(***************************************************************************)
EXTENDS TrafficStats, SumTheorems, TLAPS

(* The core whose answer a Run handles: the least one it has left.         *)
Current(r, c) == c \in left[r] /\ \A d \in left[r] : c <= d

(* What was billed, is in the hands of the Run and would be found by the   *)
(* next poll never exceeds what was moved.                                 *)
Covered(r, n) == billed[n] + delta[r][n] + Unpolled(n) <= moved[n]

(* The same with the answer at hand taken for the baseline: its own new    *)
(* bytes, and what the core counted since it answered.                     *)
CoveredByReply(r, c, n) ==
    billed[n] + delta[r][n]
        + (IF c \in ready THEN NewBytes(reply[r], last, n) ELSE 0)
        + NewBytes(counter, reply[r], n) <= moved[n]

IInv(r) ==
    /\ \A n \in Counters : Covered(r, n)
    /\ pc[r] = "apply" =>
          \A c \in Cores : Current(r, c) =>
              /\ DOMAIN reply[r] \subseteq CountersOf(c)
              /\ \A n \in CountersOf(c) : CoveredByReply(r, c, n)

-----------------------------------------------------------------------------

(* New bytes are bytes, and never more than the counter shows.             *)
LEMMA NewBytesBound ==
    ASSUME NEW s, NEW b, NEW n, n \in DOMAIN s => s[n] \in Nat,
           n \in DOMAIN b => b[n] \in Nat
    PROVE  /\ NewBytes(s, b, n) \in Nat
           /\ n \in DOMAIN s => NewBytes(s, b, n) <= s[n]
BY DEF NewBytes

(* Cores are polled in the order of their numbers.                         *)
LEMMA CoresAreNaturals == Cores \subseteq Nat
BY ConstantsAssumption DEF Cores, Singbox

(* Two least numbers of a set are one.                                     *)
LEMMA OneLeast ==
    ASSUME NEW S, S \subseteq Nat, NEW c \in S, NEW d \in S,
           \A e \in S : c <= e, \A e \in S : d <= e
    PROVE  d = c
<1>1. c <= d /\ d <= c /\ c \in Nat /\ d \in Nat
  OBVIOUS
<1>2. QED
  BY <1>1

(* Every action keeps the types.                                           *)
LEMMA TypeStep ==
    ASSUME TypeOK, [Next]_vars
    PROVE  TypeOK'
<1> USE ConstantsAssumption, CoresAreNaturals DEF TypeOK, Snapshot, Nothing, Empty
<1>1. ASSUME NEW n \in Counters, Move(n) PROVE TypeOK'
  BY <1>1 DEF Move, jobs
<1>2. CASE CoreRestart
  BY <1>2 DEF CoreRestart, RestartSingbox, CountersOf, jobs
<1>3. ASSUME NEW r \in Runs, Start(r) PROVE TypeOK'
  BY <1>3 DEF Start, Goto
<1>4. ASSUME NEW r \in Runs, Poll(r) PROVE TypeOK'
  <2>1. PICK c \in left[r] : \/ \E seen \in SUBSET CountersOf(c) :
                                    reply' = [reply EXCEPT ![r] = [n \in seen |-> counter[n]]]
                              \/ UNCHANGED reply
    BY <1>4 DEF Poll
  <2>2. DOMAIN reply' = Runs /\ \A q \in Runs : Snapshot(reply'[q])
    <3>1. ASSUME NEW seen \in SUBSET CountersOf(c)
          PROVE  Snapshot([n \in seen |-> counter[n]])
      BY DEF CountersOf
    <3>2. QED
      BY ZenonT(60), <2>1, <3>1
  <2>3. QED
    BY <1>4, <2>2 DEF Poll, Goto
<1>5. ASSUME NEW r \in Runs, ApplySnapshot(r) PROVE TypeOK'
  <2>1. PICK c \in left[r] :
            /\ Remember(c, reply[r])
            /\ ready' = ready \union {c}
            /\ IF c \in ready
               THEN /\ delta' = [delta EXCEPT ![r] = [n \in Counters |->
                          @[n] + IF Core[n] = c /\ Attributed(n)
                                 THEN NewBytes(reply[r], last, n) ELSE 0]]
                    /\ UNCHANGED skipped
               ELSE /\ skipped' = [n \in Counters |->
                          IF Core[n] = c
                          THEN moved[n] - NewBytes(counter, reply[r], n)
                          ELSE skipped[n]]
                    /\ UNCHANGED delta
            /\ left' = [left EXCEPT ![r] = @ \ {c}]
    BY <1>5 DEF ApplySnapshot
  <2>0. /\ \A n \in DOMAIN last : n \in Counters /\ last[n] \in Nat
        /\ \A n \in DOMAIN reply[r] : n \in Counters /\ reply[r][n] \in Nat
    OBVIOUS
  <2>2. \A n \in Counters : NewBytes(reply[r], last, n) \in Nat
    BY <2>0, NewBytesBound
  <2>3. \A n \in Counters : NewBytes(counter, reply[r], n) \in Nat
    BY <2>0, NewBytesBound
  <2>4. Snapshot(last')
    <3>1. \A n \in DOMAIN last' :
             n \in Counters /\ last'[n] \in Nat
      BY <2>1, <2>0 DEF Remember, Kept, CountersOf
    <3>2. last' = [n \in DOMAIN last' |-> last'[n]]
      BY <2>1 DEF Remember
    <3>3. QED
      BY <3>1, <3>2
  <2>5. delta' \in [Runs -> [Counters -> Nat]]
    <3>1. [n \in Counters |->
              delta[r][n] + IF Core[n] = c /\ Attributed(n)
                            THEN NewBytes(reply[r], last, n) ELSE 0]
             \in [Counters -> Nat]
      BY <2>2
    <3>2. QED
      BY <2>1, <3>1
  <2>6. skipped' \in [Counters -> Int]
    BY <2>1, <2>3
  <2>7. QED
    BY ZenonT(60), <1>5, <2>1, <2>4, <2>5, <2>6 DEF ApplySnapshot, Goto
<1>6. ASSUME NEW r \in Runs, Collected(r) PROVE TypeOK'
  BY <1>6 DEF Collected, Goto
<1>7. ASSUME NEW r \in Runs, AddTraffic(r) PROVE TypeOK'
  <2>1. [n \in Counters |-> billed[n] + delta[r][n]] \in [Counters -> Nat]
    OBVIOUS
  <2>2. lossy' \subseteq Counters
    BY <1>7 DEF AddTraffic
  <2>3. QED
    BY <1>7, <2>1, <2>2 DEF AddTraffic, Goto
<1>8. ASSUME NEW r \in Runs, Reconcile(r) PROVE TypeOK'
  <2>1. \/ counter' = [n \in Counters |-> IF Core[n] = Singbox THEN 0 ELSE counter[n]]
           /\ lossy' = lossy \union CountersOf(Singbox)
        \/ counter' = counter /\ lossy' = lossy
    BY <1>8 DEF Reconcile, RestartSingbox
  <2>0. [n \in Counters |-> IF Core[n] = Singbox THEN 0 ELSE counter[n]] \in [Counters -> Nat]
    OBVIOUS
  <2>2. counter' \in [Counters -> Nat] /\ lossy' \subseteq Counters
    BY <2>1, <2>0 DEF CountersOf
  <2>3. served' \subseteq Counters
    BY <1>8 DEF Reconcile
  <2>4. QED
    BY <1>8, <2>2, <2>3 DEF Reconcile, Goto
<1>9. ASSUME NEW r \in Runs, PanelRestart(r) PROVE TypeOK'
  BY <1>9 DEF PanelRestart
<1>10. ASSUME NEW n \in Counters, Contest(n) \/ Settle(n) PROVE TypeOK'
  BY <1>10 DEF Contest, Settle, jobs
<1>11. CASE UNCHANGED vars
  BY <1>11 DEF vars, jobs
<1>12. QED
  BY <1>1, <1>2, <1>3, <1>4, <1>5, <1>6, <1>7, <1>8, <1>9, <1>10, <1>11
     DEF Next, RunStep

(* Type correctness of the counters, the baselines and every Run.          *)
THEOREM TypeCorrect == Spec => []TypeOK
<1>1. Init => TypeOK
  <2>1. Snapshot(Empty)
    BY DEF Empty, Snapshot
  <2>2. Nothing \in [Counters -> Nat] /\ Nothing \in [Counters -> Int]
    BY DEF Nothing
  <2>3. ASSUME Init PROVE counter \in [Counters -> Nat]
    BY <2>3, ConstantsAssumption DEF Init
  <2>4. QED
    BY <2>1, <2>2, <2>3 DEF Init, TypeOK
<1>2. QED
  BY <1>1, TypeStep, PTL DEF Spec

-----------------------------------------------------------------------------

(* A Run that is idle or about to reconcile has booked or dropped all that *)
(* it collected.                                                           *)
EmptyHands == \A r \in Runs : pc[r] \in {"idle", "reconcile"} => delta[r] = Nothing

(* Every way back to idle, and the one to Reconcile, drops the deltas.     *)
LEMMA HandsEmptied == Spec => []EmptyHands
<1>1. Init => EmptyHands
  BY DEF Init, EmptyHands
<1>2. TypeOK /\ EmptyHands /\ [Next]_vars => EmptyHands'
  <2> SUFFICES ASSUME TypeOK, EmptyHands, [Next]_vars PROVE EmptyHands'
    OBVIOUS
  <2> USE DEF TypeOK, EmptyHands
  <2>1. ASSUME NEW r \in Runs, Start(r) \/ Poll(r) \/ Collected(r) PROVE EmptyHands'
    BY <2>1 DEF Start, Poll, Collected, Goto
  <2>2. ASSUME NEW r \in Runs, ApplySnapshot(r) PROVE EmptyHands'
    <3>1. pc' = [pc EXCEPT ![r] = "poll"] /\ \A q \in Runs \ {r} : delta'[q] = delta[q]
      BY <2>2 DEF ApplySnapshot, Goto
    <3>2. QED
      BY <3>1
  <2>3. ASSUME NEW r \in Runs, AddTraffic(r) PROVE EmptyHands'
    BY <2>3 DEF AddTraffic, Goto
  <2>4. ASSUME NEW r \in Runs, Reconcile(r) \/ PanelRestart(r) PROVE EmptyHands'
    BY <2>4 DEF Reconcile, PanelRestart, Goto
  <2>5. CASE CoreRestart \/ (\E n \in Counters : Move(n) \/ Contest(n) \/ Settle(n))
    BY <2>5 DEF CoreRestart, Move, Contest, Settle, jobs
  <2>6. CASE UNCHANGED vars
    BY <2>6 DEF vars, jobs
  <2>7. QED
    BY <2>1, <2>2, <2>3, <2>4, <2>5, <2>6 DEF Next, RunStep
<1>3. QED
  BY <1>1, <1>2, TypeCorrect, PTL DEF Spec

-----------------------------------------------------------------------------
(* Runs that do not overlap.                                               *)

RunsApart == \A q, r \in Runs : pc[q] # "idle" /\ pc[r] # "idle" => q = r

(* No Run but r is under way.                                              *)
Alone(r) == \A q \in Runs \ {r} : pc[q] = "idle"

(* The cores and the tables.                                               *)
Surroundings ==
    \/ \E n \in Counters : Move(n) \/ Contest(n) \/ Settle(n)
    \/ CoreRestart

(* A Run that is idle and stays idle takes no step.                        *)
LEMMA StepOfRun ==
    ASSUME TypeOK, NEW r \in Runs, Alone(r), Alone(r)', [Next]_vars
    PROVE  RunStep(r) \/ PanelRestart(r) \/ Surroundings \/ UNCHANGED vars
<1>1. ASSUME NEW q \in Runs \ {r} PROVE ~RunStep(q) /\ ~PanelRestart(q)
  BY <1>1 DEF Alone, TypeOK, RunStep, Start, Poll, ApplySnapshot, Collected,
              AddTraffic, Reconcile, PanelRestart, Goto
<1>2. QED
  BY <1>1 DEF Next, Surroundings

(* When Runs do not overlap, the one under way at either end of a step is  *)
(* alone at both, or the panel has died.                                   *)
LEMMA HandOver ==
    ASSUME TypeOK, RunsApart, RunsApart', [Next]_vars,
           NEW r \in Runs, ~Alone(r), Alone(r)'
    PROVE  \/ \E p \in Runs : PanelRestart(p)
           \/ \E q \in Runs : /\ Alone(q) /\ Alone(q)'
                            /\ pc'[q] = "idle" /\ pc'[r] = "idle"
<1>1. PICK q \in Runs \ {r} : pc[q] # "idle"
  BY DEF Alone
<1>2. Alone(q) /\ pc'[q] = "idle" /\ pc[r] = "idle"
  BY <1>1 DEF RunsApart, Alone
<1> SUFFICES ASSUME \A p \in Runs : ~PanelRestart(p)
             PROVE  pc'[r] = "idle"
  BY <1>2 DEF Alone
<1>3. ASSUME NEW p \in Runs \ {q}, RunStep(p) PROVE FALSE
  BY <1>1, <1>2, <1>3 DEF Alone, TypeOK, RunStep, Start, Poll, ApplySnapshot,
                          Collected, AddTraffic, Reconcile, Goto
<1>4. ASSUME RunStep(q) PROVE pc'[r] = "idle"
  BY <1>1, <1>2, <1>4 DEF TypeOK, RunStep, Start, Poll, ApplySnapshot,
                          Collected, AddTraffic, Reconcile, Goto
<1>5. CASE CoreRestart \/ (\E n \in Counters : Move(n) \/ Contest(n) \/ Settle(n))
  BY <1>2, <1>5 DEF CoreRestart, Move, Contest, Settle, jobs
<1>6. CASE UNCHANGED vars
  BY <1>2, <1>6 DEF vars, jobs
<1>7. QED
  BY <1>3, <1>4, <1>5, <1>6 DEF Next

(* A baseline of zero or none asks for the whole counter; any other for no *)
(* more than that.                                                         *)
LEMMA MoreBaseline ==
    ASSUME TypeOK, NEW n \in Counters, NEW b, n \in DOMAIN b => b[n] \in Nat
    PROVE  /\ NewBytes(counter, b, n) \in Nat
           /\ NewBytes(counter, b, n) <= counter[n]
           /\ n \notin DOMAIN b => NewBytes(counter, b, n) = counter[n]
BY DEF NewBytes, TypeOK

(* The baseline only moves together with what is collected: a poll, a      *)
(* baseline taken over, a restart on either side and a failed booking all  *)
(* keep what is billed or can still be billed below what was moved.        *)
LEMMA CoveredStep ==
    ASSUME NEW r \in Runs, Alone(r), Alone(r)', TypeOK, TypeOK', IInv(r), [Next]_vars
    PROVE  IInv(r)'
<1> USE ConstantsAssumption, CoresAreNaturals DEF TypeOK, Snapshot, Nothing, Empty
<1>1. ASSUME NEW n \in Counters, Move(n) PROVE IInv(r)'
  <2>1. ASSUME NEW m \in Counters PROVE Covered(r, m)'
    BY <1>1, <2>1 DEF Move, jobs, IInv, Covered, Unpolled, NewBytes
  <2>2. ASSUME pc[r] = "apply", NEW c \in Cores, Current(r, c), NEW m \in CountersOf(c)
        PROVE  CoveredByReply(r, c, m)'
    <3>1. CoveredByReply(r, c, m) /\ m \in Counters
      BY <2>2 DEF IInv, CountersOf
    <3>2. NewBytes(reply[r], last, m) \in Nat
      BY <3>1, NewBytesBound
    <3>3. NewBytes(counter', reply[r], m) - NewBytes(counter, reply[r], m)
             <= moved'[m] - moved[m]
      BY <1>1, <3>1 DEF Move, NewBytes
    <3>4. NewBytes(counter', reply[r], m) \in Nat /\ NewBytes(counter, reply[r], m) \in Nat
      BY <1>1, <3>1, NewBytesBound
    <3>5. QED
      BY <1>1, <3>1, <3>2, <3>3, <3>4 DEF Move, jobs, CoveredByReply, NewBytes
  <2>3. QED
    BY <1>1, <2>1, <2>2 DEF IInv, Move, jobs, Current
<1>2. CASE CoreRestart
  BY <1>2 DEF CoreRestart, RestartSingbox, jobs, IInv, Covered, CoveredByReply, Unpolled,
              NewBytes, Current, CountersOf
<1>3. CASE Start(r)
  BY <1>3 DEF Start, Goto, IInv, Covered, Unpolled, NewBytes
<1>4. CASE Poll(r)
  <2>1. \A n \in Counters : Covered(r, n)'
    BY <1>4 DEF Poll, IInv, Covered, Unpolled, NewBytes
  <2>2. CASE pc'[r] # "apply"
    BY <2>1, <2>2 DEF IInv
  <2>3. CASE pc'[r] = "apply"
    <3>1. PICK c \in left[r], seen \in SUBSET Counters :
              /\ seen \subseteq CountersOf(c)
              /\ \A d \in left[r] : c <= d
              /\ \A n \in CountersOf(c) : counter[n] > 0 => n \in seen
              /\ reply' = [reply EXCEPT ![r] = [n \in seen |-> counter[n]]]
              /\ UNCHANGED left
      BY ZenonT(60), <1>4, <2>3 DEF Poll, CountersOf
    <3>2. UNCHANGED <<counter, moved, billed, last, ready, delta>>
      BY <1>4 DEF Poll
    <3>3. reply'[r] = [n \in seen |-> counter[n]]
      BY <3>1
    <3>4. \A d \in Cores : Current(r, d)' => d = c
      <4>1. left[r] \subseteq Nat /\ left' = left /\ c \in left[r]
        BY <3>1
      <4>2. ASSUME NEW d \in left[r], \A e \in left[r] : d <= e PROVE d = c
        BY <3>1, <4>1, <4>2, OneLeast
      <4>3. QED
        BY <4>1, <4>2 DEF Current
    <3>5. ASSUME NEW n \in CountersOf(c) PROVE CoveredByReply(r, c, n)'
      <4>1. n \in Counters /\ Core[n] = c /\ Covered(r, n)
        BY DEF CountersOf, IInv
      <4>2. NewBytes(counter, reply'[r], n) = 0
        BY <3>1, <3>3, <4>1 DEF NewBytes
      <4>3. NewBytes(reply'[r], last, n) = IF n \in seen THEN NewBytes(counter, last, n) ELSE 0
        BY <3>3, <4>1 DEF NewBytes
      <4>4. NewBytes(counter, last, n) \in Nat
        BY <4>1, MoreBaseline
      <4>5. QED
        BY <3>2, <4>1, <4>2, <4>3, <4>4 DEF Covered, CoveredByReply, Unpolled
    <3>6. QED
      <4>1. DOMAIN reply'[r] \subseteq CountersOf(c)
        BY <3>1, <3>3
      <4>2. QED
        BY <2>1, <3>4, <3>5, <4>1 DEF IInv, CountersOf
  <2>4. QED
    BY <2>2, <2>3
<1>5. CASE ApplySnapshot(r)
  <2>1. PICK c \in left[r] :
            /\ \A d \in left[r] : c <= d
            /\ Remember(c, reply[r])
            /\ ready' = ready \union {c}
            /\ IF c \in ready
               THEN delta' = [delta EXCEPT ![r] = [n \in Counters |->
                        @[n] + IF Core[n] = c /\ Attributed(n)
                               THEN NewBytes(reply[r], last, n) ELSE 0]]
               ELSE UNCHANGED delta
    BY <1>5 DEF ApplySnapshot
  <2>2. Current(r, c) /\ c \in Cores
    BY <2>1 DEF Current
  <2>3. UNCHANGED <<counter, moved, billed>> /\ pc' = [pc EXCEPT ![r] = "poll"]
    BY <1>5 DEF ApplySnapshot, Goto
  <2>4. ASSUME NEW n \in Counters, Core[n] = c PROVE Covered(r, n)'
    <3>1. CoveredByReply(r, c, n)
      BY <1>5, <2>2, <2>4 DEF ApplySnapshot, IInv, CountersOf
    <3>2. delta'[r][n] = delta[r][n] + IF c \in ready /\ Attributed(n)
                                        THEN NewBytes(reply[r], last, n) ELSE 0
      BY <2>1, <2>4
    <3>3. NewBytes(counter, last', n) <= NewBytes(counter, reply[r], n)
      <4>1. CASE n \in DOMAIN reply[r]
        BY <2>1, <4>1 DEF Remember, NewBytes
      <4>2. CASE n \notin DOMAIN reply[r]
        BY <4>2, MoreBaseline
      <4>3. QED
        BY <4>1, <4>2
    <3>4. /\ NewBytes(counter, last', n) \in Nat /\ NewBytes(counter, reply[r], n) \in Nat
          /\ NewBytes(reply[r], last, n) \in Nat
      BY MoreBaseline, NewBytesBound
    <3>5. Unpolled(n)' = NewBytes(counter, last', n)
      BY <2>1, <2>3, <2>4 DEF Unpolled, NewBytes
    <3>6. /\ billed[n] \in Nat /\ moved[n] \in Nat /\ delta[r][n] \in Nat
          /\ billed'[n] = billed[n] /\ moved'[n] = moved[n]
      BY <2>3
    <3>7. QED
      BY <3>1, <3>2, <3>3, <3>4, <3>5, <3>6 DEF Covered, CoveredByReply
  <2>5. ASSUME NEW n \in Counters, Core[n] # c PROVE Covered(r, n)'
    <3>1. Covered(r, n)
      BY DEF IInv
    <3>2. delta'[r][n] = delta[r][n]
      BY <2>1, <2>5
    <3>3. NewBytes(counter', last', n) = NewBytes(counter, last, n)
      <4>1. DOMAIN reply[r] \subseteq CountersOf(c)
        BY <1>5, <2>2 DEF ApplySnapshot, IInv
      <4>2. QED
        BY <2>1, <2>3, <2>5, <4>1 DEF Remember, NewBytes, CountersOf, Kept
    <3>4. QED
      BY <2>1, <2>3, <2>5, <3>1, <3>2, <3>3 DEF Covered, Unpolled
  <2>6. QED
    BY <2>3, <2>4, <2>5 DEF IInv
<1>6. CASE Collected(r)
  BY <1>6 DEF Collected, Goto, IInv, Covered, Unpolled, NewBytes
<1>7. CASE AddTraffic(r)
  BY <1>7 DEF AddTraffic, Goto, IInv, Covered, Unpolled, NewBytes
<1>8. CASE Reconcile(r)
  BY <1>8 DEF Reconcile, RestartSingbox, Goto, IInv, Covered, Unpolled, NewBytes
<1>9. CASE PanelRestart(r)
  <2>1. \A n \in Counters : Unpolled(n) \in Nat
    BY MoreBaseline DEF Unpolled
  <2>2. \A n \in Counters : Covered(r, n)'
    <3>1. \A n \in Counters : Unpolled(n)' = 0 /\ delta'[r][n] = 0
      BY <1>9 DEF PanelRestart, Unpolled
    <3>2. QED
      BY <1>9, <2>1, <3>1 DEF PanelRestart, IInv, Covered
  <2>3. QED
    BY <1>9, <2>2 DEF PanelRestart, IInv
<1>10. ASSUME NEW n \in Counters, Contest(n) \/ Settle(n) PROVE IInv(r)'
  BY ZenonT(60), <1>10 DEF Contest, Settle, jobs, IInv, Covered, CoveredByReply, Unpolled,
               NewBytes, Current
<1>11. CASE UNCHANGED vars
  BY <1>11 DEF vars, jobs, IInv, Covered, CoveredByReply, Unpolled, NewBytes, Current
<1>12. QED
  BY <1>1, <1>2, <1>3, <1>4, <1>5, <1>6, <1>7, <1>8, <1>9, <1>10, <1>11,
     StepOfRun DEF Surroundings, RunStep

(* While Runs do not overlap, the bound holds for the one under way, and   *)
(* for all of them in between, since they then all have empty hands.       *)
BillsCovered == \A r \in Runs : Alone(r) => IInv(r)

(* The invariant passes from the Run that ends to the one that starts.     *)
LEMMA CoveredAlways == Spec /\ []RunsApart => []BillsCovered
<1>1. Init => BillsCovered
  BY ConstantsAssumption DEF Init, BillsCovered, IInv, Covered, Unpolled, Nothing
<1>2. ASSUME TypeOK, TypeOK', EmptyHands', RunsApart, RunsApart', BillsCovered, [Next]_vars
      PROVE  BillsCovered'
  <2> SUFFICES ASSUME NEW r \in Runs, Alone(r)' PROVE IInv(r)'
    BY DEF BillsCovered
  <2>1. CASE Alone(r)
    BY <1>2, <2>1, CoveredStep DEF BillsCovered
  <2>2. ASSUME ~Alone(r), NEW p \in Runs, PanelRestart(p) PROVE IInv(r)'
    <3>1. PICK q \in Runs : IInv(q)
      BY <1>2, <2>2 DEF BillsCovered, Alone, RunsApart
    <3>2. \A n \in Counters : Unpolled(n)' = 0 /\ delta'[r][n] = 0
      BY <2>2 DEF PanelRestart, Unpolled, Nothing
    <3>3. \A n \in Counters : billed[n] <= moved[n]
      <4>1. \A n \in Counters : Unpolled(n) \in Nat /\ delta[q][n] \in Nat
        BY <1>2, MoreBaseline DEF Unpolled, TypeOK, Snapshot
      <4>2. QED
        BY <1>2, <3>1, <4>1 DEF IInv, Covered, TypeOK
    <3>4. billed' = billed /\ moved' = moved /\ pc'[r] # "apply"
      BY <2>2 DEF PanelRestart
    <3>5. QED
      BY <1>2, <3>2, <3>3, <3>4 DEF IInv, Covered, TypeOK
  <2>3. ASSUME NEW q \in Runs, Alone(q), Alone(q)', pc'[q] = "idle", pc'[r] = "idle"
        PROVE  IInv(r)'
    <3>1. IInv(q)'
      BY <1>2, <2>3, CoveredStep DEF BillsCovered
    <3>2. delta'[q] = delta'[r]
      BY <1>2, <2>3 DEF EmptyHands
    <3>3. QED
      BY <2>3, <3>1, <3>2 DEF IInv, Covered
  <2>4. CASE ~Alone(r)
    BY <1>2, <2>2, <2>3, <2>4, HandOver
  <2>5. QED
    BY <2>1, <2>4
<1>3. QED
  <2>1. TypeOK /\ TypeOK' /\ EmptyHands' /\ RunsApart /\ RunsApart' /\ BillsCovered /\ [Next]_vars
          => BillsCovered'
    BY <1>2
  <2>2. QED
    BY <1>1, <2>1, TypeCorrect, HandsEmptied, PTL DEF Spec

(* A job whose Runs do not overlap never bills a byte twice, through any   *)
(* restarts, failed polls and lost deltas.                                 *)
THEOREM NoOverbilling ==
    ASSUME Runs # {}
    PROVE  Spec /\ []RunsApart => []NeverOverbilled
<1>1. TypeOK /\ RunsApart /\ BillsCovered => NeverOverbilled
  <2> SUFFICES ASSUME TypeOK, RunsApart, BillsCovered,
                      NEW n \in Counters
               PROVE  billed[n] <= moved[n]
    BY DEF NeverOverbilled
  <2>1. PICK r \in Runs : IInv(r)
    BY DEF BillsCovered, Alone, RunsApart
  <2>2. Unpolled(n) \in Nat
    BY MoreBaseline DEF Unpolled, TypeOK, Snapshot
  <2>3. delta[r][n] \in Nat /\ billed[n] \in Nat /\ moved[n] \in Nat
    BY DEF TypeOK
  <2>4. QED
    BY <2>1, <2>2, <2>3 DEF IInv, Covered
<1>2. QED
  BY <1>1, CoveredAlways, TypeCorrect, PTL

-----------------------------------------------------------------------------

(* What a counter that nothing was lost of has moved: before its baseline  *)
(* nothing of it is billed or about to be, and afterwards every byte is    *)
(* skipped, billed, collected or found by the next poll.                   *)
Conserved(r, n) ==
    /\ Attributed(n)
    /\ n \in DOMAIN last => last[n] <= counter[n]
    /\ IF Core[n] \in ready
       THEN moved[n] = skipped[n] + billed[n] + NewBytes(counter, last, n) + delta[r][n]
       ELSE billed[n] = 0 /\ delta[r][n] = 0

(* An answer lies between the baseline and the counter; a counter that it  *)
(* omits had never moved.                                                  *)
AnswerFits(r, n) ==
    /\ n \in DOMAIN reply[r] => reply[r][n] <= counter[n]
    /\ n \in DOMAIN last => last[n] <= IF n \in DOMAIN reply[r] THEN reply[r][n] ELSE 0

Ledger(r) ==
    /\ \A n \in DOMAIN last : Core[n] \in ready
    /\ \A n \in Counters \ lossy : Conserved(r, n)
    /\ pc[r] = "apply" =>
          \A c \in Cores : Current(r, c) =>
              /\ DOMAIN reply[r] \subseteq CountersOf(c)
              /\ \A n \in CountersOf(c) \ lossy : AnswerFits(r, n)

(* No step of a lone Run loses a byte it does not mark as lost.            *)
LEMMA LedgerStep ==
    ASSUME NEW r \in Runs, Alone(r), Alone(r)', TypeOK, TypeOK', EmptyHands,
           Ledger(r), [Next]_vars
    PROVE  Ledger(r)'
<1> USE ConstantsAssumption, CoresAreNaturals DEF TypeOK, Snapshot, Nothing, Empty
<1>1. ASSUME NEW n \in Counters, Move(n) PROVE Ledger(r)'
  <2>1. ASSUME NEW m \in Counters \ lossy PROVE Conserved(r, m)'
    BY <1>1, <2>1 DEF Move, jobs, Ledger, Conserved, Attributed, NewBytes
  <2>2. ASSUME pc[r] = "apply", NEW c \in Cores, Current(r, c), NEW m \in CountersOf(c) \ lossy
        PROVE  AnswerFits(r, m)'
    BY <1>1, <2>2 DEF Move, jobs, Ledger, AnswerFits, CountersOf
  <2>3. QED
    BY <1>1, <2>1, <2>2 DEF Ledger, Move, jobs, Current
<1>2. CASE CoreRestart
  <2>1. ASSUME NEW m \in Counters \ lossy' PROVE m \in Counters \ lossy /\ counter'[m] = counter[m]
    BY <1>2, <2>1 DEF CoreRestart, RestartSingbox, CountersOf
  <2>2. UNCHANGED <<moved, billed, enabled, contested, last, ready, pc, left, reply, delta, skipped>>
    BY <1>2 DEF CoreRestart, jobs
  <2>3. ASSUME NEW m \in Counters \ lossy' PROVE Conserved(r, m)'
    <3>1. NewBytes(counter', last, m) = NewBytes(counter, last, m)
      BY <2>1, <2>3 DEF NewBytes
    <3>2. QED
      BY <2>1, <2>2, <2>3, <3>1 DEF Ledger, Conserved, Attributed
  <2>4. ASSUME pc[r] = "apply", NEW c \in Cores, Current(r, c), NEW m \in CountersOf(c) \ lossy'
        PROVE  AnswerFits(r, m)'
    BY <2>1, <2>2, <2>4 DEF Ledger, AnswerFits, CountersOf
  <2>5. QED
    BY <2>2, <2>3, <2>4 DEF Ledger, Current
<1>3. CASE Start(r)
  <2>1. UNCHANGED <<counter, moved, billed, enabled, contested, last, ready, skipped, lossy>>
        /\ pc'[r] = "poll" /\ pc[r] = "idle" /\ delta'[r] = Nothing
    BY <1>3 DEF Start, Goto
  <2>2. delta'[r] = delta[r]
    BY <2>1 DEF EmptyHands
  <2>3. \A n \in Counters \ lossy : Conserved(r, n)'
    BY <2>1, <2>2 DEF Ledger, Conserved, Attributed, NewBytes
  <2>4. QED
    BY <2>1, <2>3 DEF Ledger
<1>4. CASE Poll(r)
  <2>1. UNCHANGED <<counter, moved, billed, enabled, contested, last, ready, delta, skipped, lossy>>
    BY <1>4 DEF Poll
  <2>2. \A n \in Counters \ lossy : Conserved(r, n)'
    BY <2>1 DEF Ledger, Conserved, Attributed, NewBytes
  <2>3. pc'[r] \notin {"idle", "reconcile"}
    BY <1>4 DEF Poll, Goto
  <2>4. CASE pc'[r] # "apply"
    BY <2>1, <2>2, <2>3, <2>4 DEF Ledger
  <2>5. CASE pc'[r] = "apply"
    <3>1. PICK c \in left[r], seen \in SUBSET Counters :
              /\ seen \subseteq CountersOf(c)
              /\ \A d \in left[r] : c <= d
              /\ \A n \in CountersOf(c) : counter[n] > 0 => n \in seen
              /\ reply' = [reply EXCEPT ![r] = [n \in seen |-> counter[n]]]
              /\ UNCHANGED left
      BY ZenonT(60), <1>4, <2>5 DEF Poll, CountersOf
    <3>2. reply'[r] = [n \in seen |-> counter[n]]
      BY <3>1
    <3>3. \A d \in Cores : Current(r, d)' => d = c
      <4>1. left[r] \subseteq Nat /\ left' = left /\ c \in left[r]
        BY <3>1
      <4>2. ASSUME NEW d \in left[r], \A e \in left[r] : d <= e PROVE d = c
        BY <3>1, <4>1, <4>2, OneLeast
      <4>3. QED
        BY <4>1, <4>2 DEF Current
    <3>4. ASSUME NEW n \in CountersOf(c) \ lossy PROVE AnswerFits(r, n)'
      <4>1. n \in Counters /\ counter[n] \in Nat /\ Conserved(r, n)
        BY DEF CountersOf, Ledger
      <4>2. QED
        BY <2>1, <3>1, <3>2, <4>1 DEF Conserved, AnswerFits
    <3>5. QED
      BY <2>1, <2>2, <2>3, <3>1, <3>2, <3>3, <3>4 DEF Ledger
  <2>6. QED
    BY <2>4, <2>5
<1>5. CASE ApplySnapshot(r)
  <2>1. PICK c \in left[r] :
            /\ \A d \in left[r] : c <= d
            /\ Remember(c, reply[r])
            /\ ready' = ready \union {c}
            /\ IF c \in ready
               THEN /\ delta' = [delta EXCEPT ![r] = [n \in Counters |->
                          @[n] + IF Core[n] = c /\ Attributed(n)
                                 THEN NewBytes(reply[r], last, n) ELSE 0]]
                    /\ UNCHANGED skipped
               ELSE /\ skipped' = [n \in Counters |->
                          IF Core[n] = c
                          THEN moved[n] - NewBytes(counter, reply[r], n)
                          ELSE skipped[n]]
                    /\ UNCHANGED delta
    BY <1>5 DEF ApplySnapshot
  <2>2. Current(r, c) /\ c \in Cores /\ pc[r] = "apply"
    BY <1>5, <2>1 DEF ApplySnapshot, Current
  <2>3. UNCHANGED <<counter, moved, billed, enabled, contested, lossy>> /\ pc'[r] = "poll"
    BY <1>5 DEF ApplySnapshot, Goto
  <2>4. DOMAIN reply[r] \subseteq CountersOf(c)
    BY <2>2 DEF Ledger
  <2>5. DOMAIN last' = (DOMAIN last \ CountersOf(c)) \union Kept(c, DOMAIN reply[r])
                       \union DOMAIN reply[r]
        /\ \A n \in DOMAIN last' : last'[n] = IF n \in DOMAIN reply[r] THEN reply[r][n] ELSE last[n]
    BY <2>1 DEF Remember
  <2>6. Kept(c, DOMAIN reply[r]) \subseteq DOMAIN last \intersect CountersOf(c)
    BY DEF Kept
  <2>7. \A n \in DOMAIN last' : Core[n] \in ready'
    BY <2>1, <2>4, <2>5, <2>6 DEF Ledger, CountersOf
  <2>8. ASSUME NEW n \in Counters \ lossy, Core[n] = c PROVE Conserved(r, n)'
    <3>1. AnswerFits(r, n) /\ Conserved(r, n)
      BY <2>2, <2>8 DEF Ledger, CountersOf
    <3>2. /\ n \in DOMAIN reply[r] => n \in DOMAIN last' /\ last'[n] = reply[r][n]
          /\ n \in DOMAIN last' \ DOMAIN reply[r] => n \in DOMAIN last /\ last'[n] = last[n]
      BY <2>5, <2>6, <2>8 DEF CountersOf
    <3>3. /\ n \in DOMAIN counter /\ counter[n] \in Nat
          /\ n \in DOMAIN last => last[n] \in Nat
          /\ n \in DOMAIN reply[r] => reply[r][n] \in Nat
      OBVIOUS
    <3>4. /\ NewBytes(reply[r], last, n) + NewBytes(counter, last', n) = NewBytes(counter, last, n)
          /\ NewBytes(counter, reply[r], n) \in Nat
          /\ n \notin DOMAIN last => NewBytes(counter, last', n) = NewBytes(counter, reply[r], n)
      \* What is collected and what the next poll would still find together
      \* make up what it would have found before.
      <4> DEFINE snapshot == reply[r]
      <4>1. /\ n \in DOMAIN snapshot => snapshot[n] \in Nat /\ snapshot[n] <= counter[n]
            /\ n \in DOMAIN last => last[n] \in Nat
                  /\ last[n] <= IF n \in DOMAIN snapshot THEN snapshot[n] ELSE 0
        BY <3>1, <3>3 DEF AnswerFits
      <4>2. /\ n \in DOMAIN snapshot => n \in DOMAIN last' /\ last'[n] = snapshot[n]
            /\ n \in DOMAIN last' \ DOMAIN snapshot => n \in DOMAIN last /\ last'[n] = last[n]
        BY <3>2
      <4>3. counter[n] \in Nat /\ n \in DOMAIN counter
        BY <3>3
      <4> HIDE DEF snapshot
      <4>4. /\ NewBytes(snapshot, last, n) + NewBytes(counter, last', n) = NewBytes(counter, last, n)
            /\ NewBytes(counter, snapshot, n) \in Nat
            /\ n \notin DOMAIN last => NewBytes(counter, last', n) = NewBytes(counter, snapshot, n)
        <5> DEFINE after == last'
        <5>1. /\ n \in DOMAIN snapshot => n \in DOMAIN after /\ after[n] = snapshot[n]
              /\ n \in DOMAIN after \ DOMAIN snapshot => n \in DOMAIN last /\ after[n] = last[n]
          BY <4>2
        <5> HIDE DEF after
        <5>2. /\ NewBytes(snapshot, last, n) + NewBytes(counter, after, n) = NewBytes(counter, last, n)
              /\ NewBytes(counter, snapshot, n) \in Nat
              /\ n \notin DOMAIN last => NewBytes(counter, after, n) = NewBytes(counter, snapshot, n)
          <6>1. CASE n \in DOMAIN snapshot
            BY <4>1, <4>3, <5>1, <6>1 DEF NewBytes
          <6>2. CASE n \notin DOMAIN snapshot
            BY <4>1, <4>3, <5>1, <6>2 DEF NewBytes
          <6>3. QED
            BY <6>1, <6>2
        <5>3. QED
          BY <5>2 DEF after
      <4>5. QED
        BY <4>4 DEF snapshot
    <3>5. n \in DOMAIN last' => last'[n] <= counter'[n]
      <4>1. CASE n \in DOMAIN reply[r]
        BY <2>3, <3>1, <3>2, <4>1 DEF AnswerFits
      <4>2. CASE n \notin DOMAIN reply[r]
        BY <2>3, <3>1, <3>2, <4>2 DEF Conserved
      <4>3. QED
        BY <4>1, <4>2
    <3>6. Attributed(n) /\ Attributed(n)'
      BY <2>3, <3>1 DEF Conserved, Attributed
    <3>7. /\ NewBytes(reply[r], last, n) \in Nat /\ NewBytes(counter, last', n) \in Nat
          /\ NewBytes(counter, last, n) \in Nat
      BY <3>3, NewBytesBound
    <3>8. CASE c \in ready
      <4>1. delta'[r][n] = delta[r][n] + NewBytes(reply[r], last, n) /\ skipped' = skipped
        BY <2>1, <2>8, <3>6, <3>8
      <4>2. moved[n] = skipped[n] + billed[n] + NewBytes(counter, last, n) + delta[r][n]
        BY <2>8, <3>1, <3>8 DEF Conserved
      <4>3. moved[n] = skipped[n] + billed[n] + NewBytes(counter, last', n) + delta'[r][n]
        BY <3>4, <3>7, <4>1, <4>2
      <4>4. QED
        BY <2>1, <2>3, <2>8, <3>5, <3>6, <4>1, <4>3 DEF Conserved
    <3>9. CASE c \notin ready
      <4>1. n \notin DOMAIN last
        BY <2>8, <3>9 DEF Ledger
      <4>2. delta' = delta /\ skipped'[n] = moved[n] - NewBytes(counter, reply[r], n)
        BY <2>1, <2>8, <3>9
      <4>3. billed[n] = 0 /\ delta[r][n] = 0
        BY <2>8, <3>1, <3>9 DEF Conserved
      <4>4. moved[n] = skipped'[n] + billed[n] + NewBytes(counter, last', n) + delta'[r][n]
        BY <3>4, <4>1, <4>2, <4>3
      <4>5. QED
        BY <2>1, <2>3, <2>8, <3>5, <3>6, <4>4 DEF Conserved
    <3>10. QED
      BY <3>8, <3>9
  <2>9. ASSUME NEW n \in Counters \ lossy, Core[n] # c PROVE Conserved(r, n)'
    <3>1. Conserved(r, n)
      BY DEF Ledger
    <3>2. delta'[r][n] = delta[r][n] /\ skipped'[n] = skipped[n]
      BY <2>1, <2>9
    <3>3. n \notin DOMAIN reply[r] /\ n \notin Kept(c, DOMAIN reply[r])
      BY <2>4, <2>6, <2>9 DEF CountersOf
    <3>4. /\ n \in DOMAIN last' <=> n \in DOMAIN last
          /\ n \in DOMAIN last => last'[n] = last[n]
      BY <2>5, <2>9, <3>3 DEF CountersOf
    <3>5. NewBytes(counter, last', n) = NewBytes(counter, last, n)
      BY <3>4 DEF NewBytes
    <3>6. Core[n] \in ready' <=> Core[n] \in ready
      BY <2>1, <2>9
    <3>7. QED
      BY <2>3, <3>1, <3>2, <3>4, <3>5, <3>6 DEF Conserved, Attributed
  <2>10. QED
    BY <2>3, <2>7, <2>8, <2>9 DEF Ledger
<1>6. CASE Collected(r)
  BY <1>6 DEF Collected, Goto, Ledger, Conserved, Attributed, NewBytes
<1>7. CASE AddTraffic(r)
  <2>1. UNCHANGED <<counter, moved, contested, last, ready, skipped>>
        /\ delta'[r] = Nothing /\ pc'[r] # "apply"
    BY <1>7 DEF AddTraffic, Goto
  <2>2. ASSUME NEW n \in Counters \ lossy' PROVE Conserved(r, n)'
    <3>1. CASE billed' = [m \in Counters |-> billed[m] + delta[r][m]]
               /\ lossy' = lossy \union {m \in Snell : Owner[m] \notin enabled'}
      <4>1. Conserved(r, n) /\ billed'[n] = billed[n] + delta[r][n]
            /\ (n \in Snell => Owner[n] \in enabled')
        BY <2>2, <3>1 DEF Ledger
      <4>2. NewBytes(counter, last, n) \in Nat
        BY NewBytesBound
      <4>3. QED
        BY <2>1, <4>1, <4>2 DEF Conserved, Attributed
    <3>2. CASE UNCHANGED <<billed, enabled>>
               /\ lossy' = lossy \union {m \in Counters : delta[r][m] > 0}
      <4>1. Conserved(r, n) /\ delta[r][n] = 0
        BY <2>2, <3>2 DEF Ledger
      <4>2. QED
        BY <2>1, <3>2, <4>1 DEF Conserved, Attributed
    <3>3. QED
      BY <1>7, <3>1, <3>2 DEF AddTraffic
  <2>3. QED
    BY <2>1, <2>2 DEF Ledger
<1>8. CASE Reconcile(r)
  <2>1. UNCHANGED <<moved, billed, enabled, contested, last, ready, delta, skipped>>
        /\ pc'[r] = "idle" /\ pc[r] = "reconcile"
    BY <1>8 DEF Reconcile, Goto
  <2>2. RestartSingbox \/ UNCHANGED <<counter, lossy>>
    BY <1>8 DEF Reconcile
  <2>3. ASSUME NEW n \in Counters \ lossy' PROVE n \in Counters \ lossy /\ counter'[n] = counter[n]
    BY <2>2, <2>3 DEF RestartSingbox, CountersOf
  <2>4. ASSUME NEW n \in Counters \ lossy' PROVE Conserved(r, n)'
    <3>1. NewBytes(counter', last, n) = NewBytes(counter, last, n)
      BY <2>3, <2>4 DEF NewBytes
    <3>2. QED
      BY <2>1, <2>3, <2>4, <3>1 DEF Ledger, Conserved, Attributed
  <2>5. QED
    BY <2>1, <2>4 DEF Ledger
<1>9. CASE PanelRestart(r)
  BY <1>9 DEF PanelRestart, Ledger
<1>10. ASSUME NEW n \in Counters, Contest(n) \/ Settle(n) PROVE Ledger(r)'
  <2>1. UNCHANGED <<counter, moved, billed, enabled, last, ready, pc, left, reply, delta, skipped>>
    BY <1>10 DEF Contest, Settle, jobs
  <2>2. ASSUME NEW m \in Counters \ lossy' PROVE m \notin lossy /\ (m \in contested' => m \in contested)
    BY <1>10, <2>2 DEF Contest, Settle
  <2>3. ASSUME NEW m \in Counters \ lossy' PROVE Conserved(r, m)'
    BY <2>1, <2>2, <2>3 DEF Ledger, Conserved, Attributed, NewBytes
  <2>4. ASSUME pc[r] = "apply", NEW c \in Cores, Current(r, c), NEW m \in CountersOf(c) \ lossy'
        PROVE  AnswerFits(r, m)'
    BY <2>1, <2>2, <2>4 DEF Ledger, AnswerFits, CountersOf
  <2>5. QED
    BY <2>1, <2>3, <2>4 DEF Ledger, Current
<1>11. CASE UNCHANGED vars
  BY <1>11 DEF vars, jobs, Ledger, Conserved, Attributed, AnswerFits, NewBytes, Current
<1>12. QED
  BY <1>1, <1>2, <1>3, <1>4, <1>5, <1>6, <1>7, <1>8, <1>9, <1>10, <1>11,
     StepOfRun DEF Surroundings, RunStep

(* The ledger holds for the Run under way, and in between for all.         *)
BytesLedgered == \A r \in Runs : Alone(r) => Ledger(r)

(* So does the ledger.                                                     *)
LEMMA LedgerAlways == Spec /\ []RunsApart => []BytesLedgered
<1>1. Init => BytesLedgered
  <2> SUFFICES ASSUME Init, NEW r \in Runs PROVE Ledger(r)
    BY DEF BytesLedgered
  <2>1. DOMAIN last = {} /\ ready = {} /\ contested = {} /\ enabled = Accounts
        /\ billed = Nothing /\ delta[r] = Nothing /\ pc[r] = "idle"
    BY DEF Init, Empty
  <2>2. QED
    BY <2>1 DEF Ledger, Conserved, Attributed, Nothing, Accounts
<1>2. ASSUME TypeOK, TypeOK', EmptyHands, EmptyHands', RunsApart, RunsApart', BytesLedgered,
             [Next]_vars
      PROVE  BytesLedgered'
  <2> SUFFICES ASSUME NEW r \in Runs, Alone(r)' PROVE Ledger(r)'
    BY DEF BytesLedgered
  <2>1. CASE Alone(r)
    BY <1>2, <2>1, LedgerStep DEF BytesLedgered
  <2>2. ASSUME NEW p \in Runs, PanelRestart(p) PROVE Ledger(r)'
    BY <2>2 DEF PanelRestart, Ledger, Empty
  <2>3. ASSUME NEW q \in Runs, Alone(q), Alone(q)', pc'[q] = "idle", pc'[r] = "idle"
        PROVE  Ledger(r)'
    <3>1. Ledger(q)'
      BY <1>2, <2>3, LedgerStep DEF BytesLedgered
    <3>2. delta'[q] = delta'[r]
      BY <1>2, <2>3 DEF EmptyHands
    <3>3. QED
      BY <2>3, <3>1, <3>2 DEF Ledger, Conserved, Attributed
  <2>4. CASE ~Alone(r)
    BY <1>2, <2>2, <2>3, <2>4, HandOver
  <2>5. QED
    BY <2>1, <2>4
<1>3. QED
  <2>1. TypeOK /\ TypeOK' /\ EmptyHands /\ EmptyHands' /\ RunsApart /\ RunsApart'
          /\ BytesLedgered /\ [Next]_vars => BytesLedgered'
    BY <1>2
  <2>2. QED
    BY <1>1, <2>1, TypeCorrect, HandsEmptied, PTL DEF Spec

(* A job whose Runs do not overlap loses no byte of a counter it has a     *)
(* baseline of, except to a restart of the core or the panel, a failed     *)
(* booking or a Snell inbound without a client to bill.                    *)
THEOREM NoLoss ==
    ASSUME IsFiniteSet(Runs), Runs # {}
    PROVE  Spec /\ []RunsApart => []NothingLost
<1>1. TypeOK /\ EmptyHands /\ RunsApart /\ BytesLedgered => NothingLost
  <2> SUFFICES ASSUME TypeOK, EmptyHands, RunsApart, BytesLedgered,
                      NEW n \in Counters \ lossy, Core[n] \in ready
               PROVE  moved[n] = skipped[n] + billed[n] + Unpolled(n)
                                 + SumFunction([q \in Runs |-> delta[q][n]])
    BY DEF NothingLost
  <2>1. PICK r \in Runs : Alone(r)
    BY DEF Alone, RunsApart
  <2> DEFINE d == [q \in Runs |-> delta[q][n]]
  <2>2. SumFunction(d) = delta[r][n]
    <3>1. delta[r][n] \in Int
      <4>1. delta[r] \in [Counters -> Nat]
        BY DEF TypeOK
      <4>2. QED
        BY <4>1
    <3>2. \A q \in Runs \ {r} : delta[q][n] = 0
      BY <2>1 DEF Alone, EmptyHands, Nothing
    <3>3. DOMAIN d = Runs /\ d[r] = delta[r][n] /\ \A q \in Runs \ {r} : d[q] = 0
      BY <3>2
    <3>4. SumFunctionOnSet(d, Runs) = d[r]
      <4> HIDE DEF d
      <4>1. QED
        BY <3>1, <3>3, SumOfOne
    <3>5. SumFunction(d) = SumFunctionOnSet(d, DOMAIN d)
      BY DEF SumFunction
    <3> HIDE DEF d
    <3>6. QED
      BY <3>3, <3>4, <3>5
  <2>3. moved[n] = skipped[n] + billed[n] + NewBytes(counter, last, n) + delta[r][n]
    BY <2>1 DEF BytesLedgered, Ledger, Conserved
  <2>4. QED
    BY <2>2, <2>3 DEF Unpolled
<1>2. QED
  BY <1>1, LedgerAlways, TypeCorrect, HandsEmptied, PTL

-----------------------------------------------------------------------------

(* Whoever disables an account goes on to Reconcile, and nobody else's     *)
(* step takes a Run from there.                                            *)
LEMMA DisabledAreCutStep ==
    ASSUME "reconcile" \notin Faults, TypeOK, DisabledAreCut, [Next]_vars
    PROVE  DisabledAreCut'
<1> DEFINE Owed == \E r \in Runs : pc[r] = "reconcile"
           Exposed(n) == n \in served /\ Owner[n] \notin enabled
<1>1. \A n : Exposed(n) => Owed
  BY DEF DisabledAreCut
<1>2. pc \in [Runs -> {"idle", "poll", "apply", "add", "reconcile"}]
  BY DEF TypeOK
<1>3. ASSUME NEW r \in Runs, Start(r) \/ Poll(r) \/ ApplySnapshot(r) \/ Collected(r)
      PROVE  DisabledAreCut'
  <2>1. UNCHANGED <<served, enabled>> /\ pc[r] # "reconcile" /\ \A q \in Runs \ {r} : pc'[q] = pc[q]
    BY <1>2, <1>3 DEF Start, Poll, ApplySnapshot, Collected, Goto
  <2>2. Owed => Owed'
    BY <2>1
  <2> QED
    BY <1>1, <2>1, <2>2 DEF DisabledAreCut
<1>4. ASSUME NEW r \in Runs, AddTraffic(r) PROVE DisabledAreCut'
  <2>1. served' = served /\ pc[r] = "add" /\ \A q \in Runs \ {r} : pc'[q] = pc[q]
    BY <1>2, <1>4 DEF AddTraffic, Goto
  <2>2. enabled' = enabled \/ pc'[r] = "reconcile"
    BY <1>2, <1>4 DEF AddTraffic, Goto
  <2>3. Owed => Owed'
    BY <2>1
  <2> QED
    BY <1>1, <2>1, <2>2, <2>3 DEF DisabledAreCut
<1>5. ASSUME NEW r \in Runs, Reconcile(r) PROVE DisabledAreCut'
  BY <1>5 DEF Reconcile, DisabledAreCut
<1>6. ASSUME NEW r \in Runs, PanelRestart(r) PROVE DisabledAreCut'
  BY <1>6 DEF PanelRestart, DisabledAreCut
<1>7. CASE CoreRestart \/ (\E n \in Counters : Move(n) \/ Contest(n) \/ Settle(n)) \/ UNCHANGED vars
  <2>1. UNCHANGED <<served, enabled, pc>>
    BY <1>7 DEF CoreRestart, Move, Contest, Settle, vars, jobs
  <2> QED
    BY <2>1 DEF DisabledAreCut
<1> QED
  BY <1>3, <1>4, <1>5, <1>6, <1>7 DEF Next, RunStep

(* Any number of overlapping Runs, panels that die and lost polls and      *)
(* bookings: a disabled account is cut off or about to be.                 *)
THEOREM DisabledCutOff == Spec => []DisabledAreCut
<1>1. Init => DisabledAreCut
  BY DEF Init, DisabledAreCut, Accounts
<1>2. TypeOK /\ DisabledAreCut /\ [Next]_vars => DisabledAreCut'
  BY DisabledAreCutStep DEF DisabledAreCut
<1>3. QED
  BY <1>1, <1>2, TypeCorrect, PTL DEF Spec

-----------------------------------------------------------------------------

(* The bill of a disabled account has reached the quota.                   *)
BilledEnough == \A a \in Accounts \ enabled : Bill(billed, a) >= Quota

(* Bills only grow.                                                        *)
LEMMA BilledEnoughStep ==
    ASSUME IsFiniteSet(Counters), TypeOK, BilledEnough, [Next]_vars
    PROVE  BilledEnough'
<1> USE ConstantsAssumption DEF TypeOK
<1>1. ASSUME UNCHANGED <<billed, enabled>> PROVE BilledEnough'
  BY <1>1 DEF BilledEnough, Bill
<1>2. ASSUME NEW r \in Runs, AddTraffic(r) PROVE BilledEnough'
  <2>1. CASE UNCHANGED <<billed, enabled>>
    BY <1>1, <2>1
  <2>2. CASE /\ billed' = [n \in Counters |-> billed[n] + delta[r][n]]
             /\ enabled' = {a \in enabled : Bill(billed', a) < Quota}
    <3> SUFFICES ASSUME NEW a \in Accounts \ enabled' PROVE Bill(billed', a) >= Quota
      BY DEF BilledEnough, Bill
    <3> DEFINE own == {n \in Counters : Owner[n] = a}
    <3>1. IsFiniteSet(own)
      BY FS_Subset
    <3>2. /\ \A n \in own : billed[n] \in Int /\ billed'[n] \in Int
          /\ \A n \in own : billed[n] <= billed'[n]
      BY <2>2
    <3>3. /\ SumFunctionOnSet(billed, own) <= SumFunctionOnSet(billed', own)
          /\ SumFunctionOnSet(billed, own) \in Int
          /\ SumFunctionOnSet(billed', own) \in Int
      <4> HIDE DEF own
      <4>1. QED
        BY <3>1, <3>2, SumMonotone, SumUnfolds
    <3>4. CASE a \in enabled
      BY <2>2, <3>3, <3>4 DEF Bill
    <3>5. CASE a \notin enabled
      <4>1. SumFunctionOnSet(billed, own) >= Quota
        BY <3>5 DEF BilledEnough, Bill
      <4>2. QED
        BY <3>3, <4>1 DEF Bill
    <3>6. QED
      BY <3>4, <3>5
  <2>3. QED
    BY <1>2, <2>1, <2>2 DEF AddTraffic
<1>3. ASSUME NEW r \in Runs,
             \/ Start(r) \/ Poll(r) \/ ApplySnapshot(r) \/ Collected(r)
             \/ Reconcile(r) \/ PanelRestart(r)
      PROVE  BilledEnough'
  BY <1>1, <1>3 DEF Start, Poll, ApplySnapshot, Collected, Reconcile, PanelRestart
<1>4. CASE CoreRestart \/ (\E n \in Counters : Move(n) \/ Contest(n) \/ Settle(n))
           \/ UNCHANGED vars
  BY <1>1, <1>4 DEF CoreRestart, Move, Contest, Settle, vars
<1>5. QED
  BY <1>2, <1>3, <1>4 DEF Next, RunStep

(* A job whose Runs do not overlap disables nobody before the quota is     *)
(* really used up.                                                         *)
THEOREM NoneEarly ==
    ASSUME IsFiniteSet(Counters), Runs # {}
    PROVE  Spec /\ []RunsApart => []NoneCutOffEarly
<1>1. Init => BilledEnough
  BY DEF Init, BilledEnough, Accounts
<1>2. TypeOK /\ BilledEnough /\ [Next]_vars => BilledEnough'
  BY BilledEnoughStep
<1>3. TypeOK /\ BilledEnough /\ NeverOverbilled => NoneCutOffEarly
  <2> SUFFICES ASSUME TypeOK, BilledEnough, NeverOverbilled, NEW a \in Accounts \ enabled
               PROVE  Bill(moved, a) >= Quota
    BY DEF NoneCutOffEarly
  <2> DEFINE own == {n \in Counters : Owner[n] = a}
  <2>1. IsFiniteSet(own)
    BY FS_Subset
  <2>2. \A n \in own : billed[n] \in Int /\ moved[n] \in Int /\ billed[n] <= moved[n]
    BY DEF TypeOK, NeverOverbilled
  <2>3. /\ SumFunctionOnSet(billed, own) <= SumFunctionOnSet(moved, own)
        /\ SumFunctionOnSet(billed, own) \in Int /\ SumFunctionOnSet(moved, own) \in Int
    <3> HIDE DEF own
    <3>1. QED
      BY <2>1, <2>2, SumMonotone, SumUnfolds
  <2>4. SumFunctionOnSet(billed, own) >= Quota
    BY DEF BilledEnough, Bill
  <2>5. QED
    BY <2>3, <2>4, ConstantsAssumption DEF Bill
<1>4. QED
  BY <1>1, <1>2, <1>3, NoOverbilling, TypeCorrect, PTL DEF Spec

=============================================================================
