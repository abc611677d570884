------------------------- MODULE XhttpGatewayProofs -------------------------
(***************************************************************************)
(* Proofs about XhttpGateway for every set of rows, ports, addresses,      *)
(* drafts and foreign sockets: no socket is claimed twice, a settled panel *)
(* has exactly the wanted listeners open, and what follows for saves and   *)
(* refusals.                                                               *)
(***************************************************************************)
EXTENDS XhttpGateway, TLAPS

\* What a row owes to nobody else.
Admitted(d) == ~ClaimError(d) /\ OwnPortFree(d) /\ ~Clash(Uplink(d), Api)

\* What two rows owe each other.
Apart(d, e) ==
    /\ ~Clash(Uplink(d), Uplink(e))
    /\ Claims(e) => ~Clash(Uplink(d), Downlink(e))
    /\ Claims(d) => ~Clash(Downlink(d), Uplink(e))
    /\ Claims(d) /\ Claims(e) => ~Clash(Downlink(d), Downlink(e))

RowsAdmitted == \A i \in Saved : Admitted(rows[i])
RowsApart == \A i, j \in Saved : i # j => Apart(rows[i], rows[j])

IInv == TypeOK /\ RowsAdmitted /\ RowsApart /\ SettledIsWanted

LEMMA ClashIsSymmetric ==
    ASSUME NEW s, NEW t, Clash(s, t)
    PROVE  Clash(t, s)
  BY DEF Clash, Overlaps

LEMMA ClashIsReflexive ==
    ASSUME NEW s
    PROVE  Clash(s, s)
  BY DEF Clash, Overlaps

LEMMA ApartIsSymmetric ==
    ASSUME NEW d, NEW e, Apart(d, e)
    PROVE  Apart(e, d)
  BY ClashIsSymmetric DEF Apart

\* The check of a save is Admitted, and Apart from every other row.
LEMMA AcceptedRow ==
    ASSUME NEW d, NEW i, Accepts(d, i)
    PROVE  Admitted(d) /\ \A j \in Saved \ {i} : Apart(d, rows[j])
  BY DEF Accepts, UpstreamFree, OtherRowsFree, Admitted, Apart

\* A save of an accepted row keeps the table consistent.
LEMMA SavedRow ==
    ASSUME IInv, NEW i \in Ids, NEW d \in Drafts, Accepts(d, i),
           rows' = [rows EXCEPT ![i] = d]
    PROVE  /\ rows' \in [Ids -> Drafts \cup {NoRow}]
           /\ Saved' = Saved \cup {i}
           /\ RowsAdmitted' /\ RowsApart'
<1>1. d # NoRow
  BY DraftsAssumption, NoRowAssumption
<1>2. /\ DOMAIN rows = Ids /\ rows'[i] = d
      /\ \A j \in Ids \ {i} : rows'[j] = rows[j]
  BY DEF IInv, TypeOK
<1>3. Saved' = Saved \cup {i}
  BY <1>1, <1>2 DEF Saved
<1>4. Admitted(d) /\ \A j \in Saved \ {i} : Apart(d, rows[j])
  BY AcceptedRow
<1>5. RowsAdmitted'
  <2> SUFFICES ASSUME NEW j \in Saved' PROVE Admitted(rows'[j])
    BY DEF RowsAdmitted, Admitted, ClaimError, OwnPortFree, Claims, Asks
  <2> QED
    BY <1>2, <1>3, <1>4 DEF IInv, RowsAdmitted, Saved
<1>6. RowsApart'
  <2> SUFFICES ASSUME NEW j \in Saved', NEW k \in Saved', j # k
               PROVE  Apart(rows'[j], rows'[k])
    BY DEF RowsApart, Apart
  <2>1. CASE j = i
    BY <2>1, <1>2, <1>3, <1>4 DEF Saved
  <2>2. CASE k = i
    <3>1. Apart(rows'[k], rows'[j])
      BY <2>2, <1>2, <1>3, <1>4 DEF Saved
    <3> QED
      BY <3>1, ApartIsSymmetric
  <2>3. CASE j # i /\ k # i
    BY <2>3, <1>2, <1>3 DEF IInv, RowsApart, Saved
  <2> QED
    BY <2>1, <2>2, <2>3
<1>7. rows' \in [Ids -> Drafts \cup {NoRow}]
  BY DEF IInv, TypeOK
<1> QED
  BY <1>3, <1>5, <1>6, <1>7

Listeners == [id : Ids, part : {"base", "tls-up", "reality-down"},
              net : {"tcp", "udp", "unix"}, addr : Addrs \cup {NoAddr}, port : Nat]

\* The listeners of a row are well typed, carry its id, and are one
\* listener with its tag unless the row is a gateway.
LEMMA PartsFacts ==
    ASSUME NEW i \in Ids, NEW d \in Drafts
    PROVE  /\ Parts(i, d) \subseteq Listeners
           /\ \A e \in Parts(i, d) : e.id = i
           /\ Listener(i, "base", Uplink(d)) \in Listeners
           /\ Listener(i, "base", Uplink(d)).id = i
           /\ Listener(i, "base", Uplink(d)).part = "base"
           /\ ~Active(d) => Parts(i, d) = {Listener(i, "base", Uplink(d))}
<1>1. d \in Inbound
  BY DraftsAssumption
<1>2. Net(d) \in {"tcp", "udp"} /\ d.addr \in Addrs /\ d.port \in Nat
      /\ d.maddr \in Addrs \cup {NoAddr} /\ d.mport \in Nat
  BY <1>1 DEF Inbound, Net
<1>3. /\ Listener(i, "base", Uplink(d)) \in Listeners
      /\ Listener(i, "tls-up", Uplink(d)) \in Listeners
  BY <1>2 DEF Listener, Listeners, Uplink
<1>4. Listener(i, "reality-down", Downlink(d)) \in Listeners
  BY <1>2 DEF Listener, Listeners, Downlink
<1>5. Listener(i, "base", InnerSocket) \in Listeners
  BY AddrsAssumption DEF Listener, Listeners, InnerSocket
<1>6. \A part, s : Listener(i, part, s).id = i /\ Listener(i, part, s).part = part
  BY DEF Listener
<1> QED
  BY <1>3, <1>4, <1>5, <1>6 DEF Parts

LEMMA WantedTyped ==
    ASSUME TypeOK
    PROVE  Wanted \subseteq Listeners
  BY PartsFacts DEF TypeOK, Wanted, Saved

\* The hot path of row i, old or new state not a gateway, keeps the open
\* listeners and the wanted ones in step.
LEMMA HotStep ==
    ASSUME IInv, NEW i \in Ids, NEW next, HotPath(i, next),
           up' = up, skipped' = skipped,
           i \in on => ~Active(rows[i]),
           rows' \in [Ids -> Drafts \cup {NoRow}], on' \subseteq Saved',
           \A j \in Ids \ {i} : rows'[j] = rows[j] /\ (j \in on' <=> j \in on),
           i \in on' => next = {rows'[i]} /\ ~Active(rows'[i]),
           i \notin on' => next = {}
    PROVE  TypeOK' /\ SettledIsWanted'
<1> DEFINE kept == {e \in running : ~(e.id = i /\ e.part = "base")}
           added == {Listener(i, "base", Uplink(d)) : d \in next}
           works == up /\ \A a \in added, s \in kept \cup OthersOpen : ~Clash(a, s)
<1>1. /\ running' = IF works THEN kept \cup added ELSE kept
      /\ needRestart' = (needRestart \/ ~works)
  BY DEF HotPath
<1>2. on \subseteq Ids /\ on' \subseteq Ids
  BY DEF IInv, TypeOK, Saved
<1>3. /\ \A j \in on : rows[j] \in Drafts
      /\ \A j \in on' : rows'[j] \in Drafts
  BY DEF IInv, TypeOK, Saved
<1>4. added = IF i \in on' THEN {Listener(i, "base", Uplink(rows'[i]))} ELSE {}
  OBVIOUS
<1>5. added \subseteq Listeners
  BY <1>3, <1>4, PartsFacts
<1>6. TypeOK'
  <2>1. running' \subseteq Listeners
    BY <1>1, <1>5 DEF IInv, TypeOK, Listeners
  <2>2. needRestart' \in BOOLEAN /\ up' \in BOOLEAN /\ skipped' \in BOOLEAN
    BY <1>1 DEF IInv, TypeOK
  <2> QED
    BY <2>1, <2>2 DEF TypeOK, Listeners
<1>7. SettledIsWanted'
  <2> SUFFICES ASSUME up', ~needRestart', ~skipped' PROVE running' = Wanted'
    BY DEF SettledIsWanted
  <2>1. works /\ running = Wanted
    BY <1>1 DEF IInv, SettledIsWanted
  <2>2. kept = UNION {Parts(j, rows[j]) : j \in on \ {i}}
    <3>1. \A j \in on \ {i} : \A e \in Parts(j, rows[j]) : e.id = j
      BY <1>2, <1>3, PartsFacts
    <3>2. i \in on => \A e \in Parts(i, rows[i]) : e.id = i /\ e.part = "base"
      BY <1>2, <1>3, PartsFacts
    <3> QED
      BY <2>1, <3>1, <3>2 DEF Wanted
  <2>3. Wanted' = UNION {Parts(j, rows'[j]) : j \in on'}
    BY DEF Wanted, Parts, Active
  <2>4. \A j \in on \ {i} : j \in on' \ {i} /\ rows'[j] = rows[j]
    BY <1>2
  <2>5. \A j \in on' \ {i} : j \in on \ {i} /\ rows'[j] = rows[j]
    BY <1>2
  <2>6. i \in on' => Parts(i, rows'[i]) = added
    BY <1>3, <1>4, PartsFacts
  <2>7. running' = kept \cup added
    BY <2>1, <1>1
  <2>8. kept = UNION {Parts(j, rows'[j]) : j \in on' \ {i}}
    BY <2>2, <2>4, <2>5
  <2>9. i \notin on' => added = {}
    BY <1>4
  <2> QED
    BY <2>3, <2>6, <2>7, <2>8, <2>9
<1> QED
  BY <1>6, <1>7

\* A change left to the restart job.
LEMMA DeferredStep ==
    ASSUME TypeOK, needRestart' = TRUE, running' = running, up' = up, skipped' = skipped,
           rows' \in [Ids -> Drafts \cup {NoRow}], on' \subseteq Saved'
    PROVE  TypeOK' /\ SettledIsWanted'
  BY DEF TypeOK, SettledIsWanted

LEMMA AddStep ==
    ASSUME IInv, NEW i \in Ids, NEW d \in Drafts, NEW enable \in BOOLEAN,
           AddInbound(i, d, enable)
    PROVE  IInv'
<1>1. /\ rows[i] = NoRow /\ Accepts(d, i) /\ rows' = [rows EXCEPT ![i] = d]
      /\ up' = up /\ skipped' = skipped
  BY DEF AddInbound
<1>2. /\ rows' \in [Ids -> Drafts \cup {NoRow}] /\ Saved' = Saved \cup {i}
      /\ RowsAdmitted' /\ RowsApart'
  BY <1>1, SavedRow
<1>3. on \subseteq Saved /\ i \notin on
  BY <1>1 DEF IInv, TypeOK, Saved
<1>4. rows'[i] = d /\ \A j \in Ids \ {i} : rows'[j] = rows[j]
  BY <1>1 DEF IInv, TypeOK
<1>5. TypeOK' /\ SettledIsWanted'
  <2>1. CASE ~enable
    <3>1. on' = on /\ running' = running /\ needRestart' = needRestart
      BY <2>1 DEF AddInbound
    <3>2. TypeOK'
      BY <1>1, <1>2, <1>3, <3>1 DEF IInv, TypeOK
    <3>3. Wanted' = UNION {Parts(j, rows'[j]) : j \in on}
      BY <3>1 DEF Wanted, Parts, Active
    <3>4. \A j \in on : rows'[j] = rows[j]
      BY <1>3, <1>4 DEF Saved
    <3>5. Wanted' = Wanted
      BY <3>3, <3>4 DEF Wanted
    <3> QED
      BY <1>1, <3>1, <3>2, <3>5 DEF IInv, SettledIsWanted
  <2>2. CASE enable /\ NeedsReconcile({} \cup {d})
    <3>1. on' = on \cup {i} /\ needRestart' = TRUE /\ running' = running
      BY <2>2 DEF AddInbound, Push
    <3> QED
      BY <1>1, <1>2, <1>3, <3>1, DeferredStep DEF IInv
  <2>3. CASE enable /\ ~NeedsReconcile({} \cup {d})
    <3>1. on' = on \cup {i} /\ HotPath(i, {d})
      BY <2>3 DEF AddInbound, Push
    <3>2. ~Active(d)
      BY <2>3 DEF NeedsReconcile
    <3>3. on' \subseteq Saved' /\ \A j \in Ids \ {i} : j \in on' <=> j \in on
      BY <1>2, <1>3, <3>1
    <3> QED
      BY <1>1, <1>2, <1>3, <1>4, <3>1, <3>2, <3>3, HotStep
  <2> QED
    BY <2>1, <2>2, <2>3
<1> QED
  BY <1>2, <1>5 DEF IInv

LEMMA UpdateStep ==
    ASSUME IInv, NEW i \in Ids, NEW d \in Drafts, NEW enable \in BOOLEAN,
           UpdateInbound(i, d, enable)
    PROVE  IInv'
<1>1. /\ Accepts(d, i) /\ rows' = [rows EXCEPT ![i] = d]
      /\ on' = IF enable THEN on \cup {i} ELSE on \ {i}
      /\ up' = up /\ skipped' = skipped
  BY DEF UpdateInbound
<1>2. /\ rows' \in [Ids -> Drafts \cup {NoRow}] /\ Saved' = Saved \cup {i}
      /\ RowsAdmitted' /\ RowsApart'
  BY <1>1, SavedRow
<1>3. rows'[i] = d /\ \A j \in Ids \ {i} : rows'[j] = rows[j] /\ (j \in on' <=> j \in on)
  BY <1>1 DEF IInv, TypeOK
<1>4. on' \subseteq Saved'
  BY <1>1, <1>2 DEF IInv, TypeOK
<1>5. TypeOK' /\ SettledIsWanted'
  <2>1. CASE NeedsReconcile({rows[i], d})
    <3>1. needRestart' = TRUE /\ running' = running
      BY <2>1 DEF UpdateInbound
    <3> QED
      BY <1>1, <1>2, <1>4, <3>1, DeferredStep DEF IInv
  <2>2. CASE ~NeedsReconcile({rows[i], d})
    <3> DEFINE next == IF enable THEN {d} ELSE {}
    <3>1. HotPath(i, next)
      BY <2>2 DEF UpdateInbound
    <3>2. ~Active(d) /\ ~Active(rows[i])
      BY <2>2 DEF NeedsReconcile
    <3>3. (i \in on' <=> enable) /\ rows'[i] = d
      BY <1>1, <1>3
    <3>4. (i \in on' => next = {rows'[i]} /\ ~Active(rows'[i])) /\ (i \notin on' => next = {})
      BY <3>2, <3>3
    <3> HIDE DEF next
    <3> QED
      BY <1>1, <1>2, <1>3, <1>4, <3>1, <3>2, <3>4, HotStep
  <2> QED
    BY <2>1, <2>2
<1> QED
  BY <1>2, <1>5 DEF IInv

LEMMA DelStep ==
    ASSUME IInv, NEW i \in Ids, DelInbound(i)
    PROVE  IInv'
<1>1. /\ rows' = [rows EXCEPT ![i] = NoRow] /\ on' = on \ {i}
      /\ up' = up /\ skipped' = skipped
  BY DEF DelInbound
<1>2. /\ rows' \in [Ids -> Drafts \cup {NoRow}] /\ rows'[i] = NoRow
      /\ \A j \in Ids \ {i} : rows'[j] = rows[j] /\ (j \in on' <=> j \in on)
  BY <1>1 DEF IInv, TypeOK
<1>3. Saved' = Saved \ {i} /\ on' \subseteq Saved'
  BY <1>1, <1>2 DEF IInv, TypeOK, Saved
<1>4. \A j \in Saved' : j \in Saved /\ rows'[j] = rows[j]
  BY <1>2, <1>3 DEF Saved
<1>5. RowsAdmitted'
  <2> SUFFICES ASSUME NEW j \in Saved' PROVE Admitted(rows'[j])
    BY DEF RowsAdmitted, Admitted, ClaimError, OwnPortFree, Claims, Asks
  <2> QED
    BY <1>4 DEF IInv, RowsAdmitted
<1>6. RowsApart'
  <2> SUFFICES ASSUME NEW j \in Saved', NEW k \in Saved', j # k
               PROVE  Apart(rows'[j], rows'[k])
    BY DEF RowsApart, Apart
  <2> QED
    BY <1>4 DEF IInv, RowsApart
<1>7. TypeOK' /\ SettledIsWanted'
  <2>1. CASE i \notin on
    <3>1. on' = on /\ running' = running /\ needRestart' = needRestart
      BY <2>1, <1>1 DEF DelInbound
    <3>2. Wanted' = UNION {Parts(j, rows'[j]) : j \in on}
      BY <3>1 DEF Wanted, Parts, Active
    <3>3. \A j \in on : rows'[j] = rows[j]
      BY <1>2, <2>1 DEF IInv, TypeOK, Saved
    <3>4. Wanted' = Wanted
      BY <3>2, <3>3 DEF Wanted
    <3> QED
      BY <1>1, <1>2, <1>3, <3>1, <3>4 DEF IInv, TypeOK, SettledIsWanted
  <2>2. CASE i \in on /\ NeedsReconcile({rows[i]} \cup {})
    <3>1. needRestart' = TRUE /\ running' = running
      BY <2>2 DEF DelInbound, Push
    <3> QED
      BY <1>1, <1>2, <1>3, <3>1, DeferredStep DEF IInv
  <2>3. CASE i \in on /\ ~NeedsReconcile({rows[i]} \cup {})
    <3>1. HotPath(i, {})
      BY <2>3 DEF DelInbound, Push
    <3>2. ~Active(rows[i])
      BY <2>3 DEF NeedsReconcile
    <3>3. i \notin on'
      BY <1>1
    <3> QED
      BY <1>1, <1>2, <1>3, <3>1, <3>2, <3>3, HotStep
  <2> QED
    BY <2>1, <2>2, <2>3
<1> QED
  BY <1>5, <1>6, <1>7 DEF IInv

LEMMA ToggleStep ==
    ASSUME IInv, NEW i \in Ids, SetInboundEnable(i)
    PROVE  IInv'
<1>1. rows[i] # NoRow /\ rows' = rows /\ up' = up /\ skipped' = skipped
  BY DEF SetInboundEnable
<1>2. Saved' = Saved /\ i \in Saved
  BY <1>1 DEF Saved
<1>3. RowsAdmitted' /\ RowsApart'
  <2>1. \A j \in Ids : rows'[j] = rows[j]
    BY <1>1
  <2>2. RowsAdmitted'
    BY <1>1, <1>2 DEF IInv, RowsAdmitted, Admitted, ClaimError, OwnPortFree, Claims, Asks
  <2>3. RowsApart'
    BY <1>1, <1>2 DEF IInv, RowsApart, Apart
  <2> QED
    BY <2>2, <2>3
<1>4. on' = (IF i \in on THEN on \ {i} ELSE on \cup {i})
  BY DEF SetInboundEnable
<1>5. /\ on' \subseteq Saved' /\ rows' \in [Ids -> Drafts \cup {NoRow}]
      /\ \A j \in Ids \ {i} : rows'[j] = rows[j] /\ (j \in on' <=> j \in on)
  BY <1>1, <1>2, <1>4 DEF IInv, TypeOK
<1>6. TypeOK' /\ SettledIsWanted'
  <2>1. CASE NeedsReconcile({rows[i]})
    <3>1. needRestart' = TRUE /\ running' = running
      BY <2>1 DEF SetInboundEnable, Push
    <3> QED
      BY <1>1, <1>5, <3>1, DeferredStep DEF IInv
  <2>2. CASE ~NeedsReconcile({rows[i]})
    <3>1. ~Active(rows[i])
      BY <2>2 DEF NeedsReconcile
    <3>2. CASE i \in on
      <4>1. HotPath(i, {}) /\ i \notin on'
        BY <2>2, <3>2, <1>4 DEF SetInboundEnable
      <4> QED
        BY <1>1, <1>5, <3>1, <4>1, HotStep
    <3>3. CASE i \notin on
      <4>1. HotPath(i, {rows[i]}) /\ i \in on'
        BY <2>2, <3>3, <1>4 DEF SetInboundEnable, Push
      <4> QED
        BY <1>1, <1>5, <3>1, <4>1, HotStep
    <3> QED
      BY <3>2, <3>3
  <2> QED
    BY <2>1, <2>2
<1> QED
  BY <1>3, <1>6 DEF IInv

\* Neither a restart nor a stop of the panel touches the table.
LEMMA ProcessStep ==
    ASSUME IInv, RestartXray \/ PanelStops
    PROVE  IInv'
<1>1. rows' = rows /\ on' = on
  BY DEF RestartXray, PanelStops
<1>2. Saved' = Saved /\ Wanted' = Wanted
  BY <1>1 DEF Saved, Wanted, Parts, Active
<1>3. RowsAdmitted' /\ RowsApart'
  <2>1. RowsAdmitted'
    BY <1>1, <1>2 DEF IInv, RowsAdmitted, Admitted, ClaimError, OwnPortFree, Claims, Asks
  <2>2. RowsApart'
    BY <1>1, <1>2 DEF IInv, RowsApart, Apart
  <2> QED
    BY <2>1, <2>2
<1>4. TypeOK'
  <2>1. needRestart' \in BOOLEAN /\ up' \in BOOLEAN /\ skipped' \in BOOLEAN
    BY DEF RestartXray, PanelStops, IInv, TypeOK
  <2>2. running' \subseteq Listeners
    BY WantedTyped DEF RestartXray, PanelStops, IInv, TypeOK, Listeners
  <2> QED
    BY <1>1, <1>2, <2>1, <2>2 DEF IInv, TypeOK, Listeners
<1>5. SettledIsWanted'
  BY <1>2 DEF RestartXray, PanelStops, IInv, SettledIsWanted
<1> QED
  BY <1>3, <1>4, <1>5 DEF IInv

LEMMA InitIInv == Init => IInv
<1> SUFFICES ASSUME Init PROVE IInv
  OBVIOUS
<1>1. Saved = {} /\ on = {} /\ running = {}
  BY DEF Init, Saved
<1>2. Wanted = {}
  BY <1>1 DEF Wanted
<1> QED
  BY <1>1, <1>2 DEF Init, IInv, TypeOK, RowsAdmitted, RowsApart, SettledIsWanted

LEMMA NextIInv == IInv /\ [Next]_vars => IInv'
<1> SUFFICES ASSUME IInv, [Next]_vars PROVE IInv'
  OBVIOUS
<1>1. CASE \E i \in Ids, d \in Drafts, enable \in BOOLEAN : AddInbound(i, d, enable)
  BY <1>1, AddStep
<1>2. CASE \E i \in Ids, d \in Drafts, enable \in BOOLEAN : UpdateInbound(i, d, enable)
  BY <1>2, UpdateStep
<1>3. CASE \E i \in Ids : DelInbound(i)
  BY <1>3, DelStep
<1>4. CASE \E i \in Ids : SetInboundEnable(i)
  BY <1>4, ToggleStep
<1>5. CASE RestartXray \/ PanelStops
  BY <1>5, ProcessStep
<1>6. CASE UNCHANGED vars
  <2>1. /\ rows' = rows /\ on' = on /\ running' = running /\ up' = up
        /\ needRestart' = needRestart /\ skipped' = skipped
    BY <1>6 DEF vars
  <2>2. Saved' = Saved /\ Wanted' = Wanted
    BY <2>1 DEF Saved, Wanted, Parts, Active
  <2>3. RowsAdmitted'
    BY <2>1, <2>2 DEF IInv, RowsAdmitted, Admitted, ClaimError, OwnPortFree, Claims, Asks
  <2>4. RowsApart'
    BY <2>1, <2>2 DEF IInv, RowsApart, Apart
  <2>5. TypeOK' /\ SettledIsWanted'
    BY <2>1, <2>2 DEF IInv, TypeOK, SettledIsWanted
  <2> QED
    BY <2>3, <2>4, <2>5 DEF IInv
<1> QED
  BY <1>1, <1>2, <1>3, <1>4, <1>5, <1>6 DEF Next

LEMMA AlwaysIInv == Spec => []IInv
  BY InitIInv, NextIInv, PTL DEF Spec

(* The table is well formed and its enabled rows are saved ones.           *)
THEOREM TypeCorrect == Spec => []TypeOK
<1>1. IInv => TypeOK
  BY DEF IInv
<1> QED
  BY <1>1, AlwaysIInv, PTL

(* No sequence of saves, in any order, lets two sockets of the saved rows  *)
(* exclude each other.                                                     *)
THEOREM SocketsUnique == Spec => []NoSocketClaimedTwice
<1>1. IInv => NoSocketClaimedTwice
  <2> SUFFICES ASSUME IInv PROVE NoSocketClaimedTwice
    OBVIOUS
  <2>1. ASSUME NEW i \in Saved, NEW s \in SocketsOf(rows[i]), NEW t \in SocketsOf(rows[i]), s # t
        PROVE  ~Clash(s, t)
    <3>1. /\ Claims(rows[i]) /\ ~Clash(Downlink(rows[i]), Uplink(rows[i]))
          /\ {s, t} = {Uplink(rows[i]), Downlink(rows[i])}
      BY <2>1 DEF SocketsOf, IInv, RowsAdmitted, Admitted, OwnPortFree
    <3> QED
      BY <2>1, <3>1, ClashIsSymmetric
  <2>2. ASSUME NEW i \in Saved, NEW j \in Saved, i # j,
               NEW s \in SocketsOf(rows[i]), NEW t \in SocketsOf(rows[j])
        PROVE  ~Clash(s, t)
    <3>1. Apart(rows[i], rows[j])
      BY <2>2 DEF IInv, RowsApart
    <3> QED
      BY <2>2, <3>1 DEF SocketsOf, Apart
  <2> QED
    BY <2>1, <2>2 DEF NoSocketClaimedTwice
<1> QED
  BY <1>1, AlwaysIInv, PTL

(* Hot calls and restarts together leave nothing behind: with nothing      *)
(* pending or refused Xray listens on exactly what is wanted.              *)
THEOREM SettledExactly == Spec => []SettledIsWanted
<1>1. IInv => SettledIsWanted
  BY DEF IInv
<1> QED
  BY <1>1, AlwaysIInv, PTL

(* The check of a save never turns down an enabled row that did not change.*)
THEOREM UnchangedAccepted == Spec => []UnchangedIsEditable
<1>1. IInv => UnchangedIsEditable
  <2> SUFFICES ASSUME IInv, NEW i \in on PROVE Accepts(rows[i], i)
    BY DEF UnchangedIsEditable
  <2>1. i \in Saved /\ Admitted(rows[i])
    BY DEF IInv, TypeOK, RowsAdmitted
  <2>2. \A j \in Saved \ {i} : Admitted(rows[j]) /\ Apart(rows[i], rows[j])
    BY <2>1 DEF IInv, RowsAdmitted, RowsApart
  <2>3. UpstreamFree(rows[i], i)
    BY <2>1, <2>2 DEF UpstreamFree, Admitted, Apart
  <2>4. OtherRowsFree(rows[i], i)
    BY <2>2 DEF OtherRowsFree, Admitted, Apart
  <2>5. Claims(rows[i]) => Owned(rows[i], i)
    BY DEF Owned, Overlaps
  <2> QED
    BY <2>1, <2>3, <2>4, <2>5 DEF Accepts, Admitted
<1> QED
  BY <1>1, AlwaysIInv, PTL

(* The gateway generator refuses an accepted table only for a stream the   *)
(* check cannot decode, for key material, for a port of the template, or   *)
(* for a listener with the same port number that does not clash.           *)
THEOREM RefusalsNamed == Spec => []RefusalsAreNamed
<1>1. IInv => RefusalsAreNamed
  <2> SUFFICES ASSUME IInv, ~Renders PROVE RefusalsAreNamed
    BY DEF RefusalsAreNamed
  <2>1. PICK i \in Gateways : ~GatewayFits(i)
    BY DEF Renders
  <2>2. /\ i \in on /\ on \subseteq Saved /\ i \in Saved /\ WantsGateway(rows[i])
        /\ \A j \in Saved : Admitted(rows[j]) /\ rows[j] \in Inbound
    BY <2>1, DraftsAssumption DEF Gateways, IInv, TypeOK, RowsAdmitted, Saved
  <2> SUFFICES ASSUME rows[i].typed, rows[i].keys, \A t \in Template : t.port # rows[i].mport
               PROVE  AddressTwin(i) \/ UdpTwin(i) \/ \E j \in Gateways : ~rows[j].typed
    BY <2>1 DEF RefusalsAreNamed
  <2>3. Claims(rows[i]) /\ rows[i].kind = "xhttp" /\ rows[i].reality /\ rows[i].mport # 0
    BY <2>2 DEF Admitted, Claims, Asks, ClaimError
  <2>4. \/ rows[i].mport = ApiPort
        \/ \E j \in on : rows[j].port = rows[i].mport
        \/ \E j \in Gateways \ {i} : rows[j].mport = rows[i].mport
    BY <2>1, <2>3 DEF GatewayFits, Used
  <2>5. CASE rows[i].mport = ApiPort
    <3>1. Api.port = rows[i].mport /\ Api.net = "tcp"
      BY <2>5 DEF Api
    <3>2. ~Clash(Api, Downlink(rows[i]))
      BY <2>2, <2>3, ClashIsSymmetric DEF Admitted, OwnPortFree
    <3> QED
      BY <3>1, <3>2 DEF AddressTwin, SameNumber
  <2>6. ASSUME NEW j \in on, rows[j].port = rows[i].mport
        PROVE  AddressTwin(i) \/ UdpTwin(i)
    <3>1. Uplink(rows[j]).port = rows[i].mport /\ Uplink(rows[j]) \in SocketsOf(rows[j])
      BY <2>6 DEF Uplink, SocketsOf
    <3>2. ~Clash(Uplink(rows[j]), Downlink(rows[i]))
      BY <2>2, <2>3, <2>6, ClashIsSymmetric DEF IInv, RowsApart, Apart, Admitted, OwnPortFree
    <3>3. Uplink(rows[j]).net = Net(rows[j]) /\ Net(rows[j]) \in {"tcp", "udp"}
      BY DEF Uplink, Net
    <3>4. Uplink(rows[j]) \in {Api} \cup UNION {SocketsOf(rows[k]) : k \in on}
      BY <2>6, <3>1
    <3> QED
      BY <2>6, <3>1, <3>2, <3>3, <3>4 DEF AddressTwin, UdpTwin, SameNumber
  <2>7. ASSUME NEW j \in Gateways \ {i}, rows[j].mport = rows[i].mport, rows[j].typed
        PROVE  AddressTwin(i)
    <3>1. j \in on /\ j \in Saved /\ Claims(rows[j])
      BY <2>2, <2>7 DEF Gateways, Claims, Asks, Admitted
    <3>2. /\ Downlink(rows[j]).port = rows[i].mport /\ Downlink(rows[j]).net = "tcp"
          /\ Downlink(rows[j]) \in SocketsOf(rows[j])
      BY <2>7, <3>1 DEF Downlink, SocketsOf
    <3>3. ~Clash(Downlink(rows[j]), Downlink(rows[i]))
      BY <2>2, <2>3, <2>7, <3>1 DEF IInv, RowsApart, Apart
    <3>4. Downlink(rows[j]) \in {Api} \cup UNION {SocketsOf(rows[k]) : k \in on}
      BY <3>1, <3>2
    <3> QED
      BY <3>2, <3>3, <3>4 DEF AddressTwin, SameNumber
  <2> QED
    BY <2>4, <2>5, <2>6, <2>7
<1> QED
  BY <1>1, AlwaysIInv, PTL

LEMMA ForeignStep ==
    ASSUME IInv, [Next]_vars, NEW i \in Ids, TakesForeign(i)
    PROVE  WidensOwn(i) \/ ~rows'[i].typed
<1>1. rows'[i] # NoRow /\ rows'[i] # rows[i]
  BY DEF TakesForeign, ClaimsForeign, WantsGateway, Downlink, ForeignSockets, TcpSockets
<1>2. PICK j \in Ids, d \in Drafts : Accepts(d, j) /\ rows' = [rows EXCEPT ![j] = d]
  <2>1. rows' # rows
    BY <1>1
  <2>2. CASE \E j \in Ids, d \in Drafts, enable \in BOOLEAN :
                AddInbound(j, d, enable) \/ UpdateInbound(j, d, enable)
    BY <2>2 DEF AddInbound, UpdateInbound
  <2>3. ASSUME NEW j \in Ids, DelInbound(j) PROVE FALSE
    <3>1. rows' = [rows EXCEPT ![j] = NoRow]
      BY <2>3 DEF DelInbound
    <3>2. rows'[i] = rows[i] \/ rows'[i] = NoRow
      BY <3>1 DEF IInv, TypeOK
    <3> QED
      BY <3>2, <1>1
  <2>4. ASSUME (\E j \in Ids : SetInboundEnable(j)) \/ RestartXray \/ PanelStops \/ UNCHANGED vars
        PROVE  FALSE
    BY <2>1, <2>4 DEF SetInboundEnable, RestartXray, PanelStops, vars
  <2> QED
    BY <2>2, <2>3, <2>4 DEF Next
<1>3. j = i /\ rows'[i] = d
  BY <1>1, <1>2 DEF IInv, TypeOK
<1>4. WantsGateway(d) /\ \E f \in ForeignSockets : Clash(Downlink(d), f)
  BY <1>3 DEF TakesForeign, ClaimsForeign, WantsGateway, Downlink, ForeignSockets, TcpSockets
<1>5. CASE ~d.typed
  BY <1>3, <1>5
<1>6. CASE d.typed
  <2>1. Claims(d)
    BY <1>2, <1>4, <1>6 DEF Accepts, Claims, Asks
  <2>2. Owned(d, i)
    BY <1>2, <1>3, <1>4, <2>1 DEF Accepts, ProbeSucceeds, OthersOpen
  <2> QED
    BY <1>3, <2>2 DEF Owned, WidensOwn
<1> QED
  BY <1>5, <1>6

(* A socket of another process enters the table only through the one       *)
(* change of an enabled row that is not probed, or a stream nobody checks. *)
THEOREM ForeignOnlyWidened == Spec => ForeignOnlyByWidening
<1>1. IInv /\ [Next]_vars => [\A i \in Ids :
            TakesForeign(i) => WidensOwn(i) \/ ~rows'[i].typed]_vars
  BY ForeignStep
<1> QED
  BY <1>1, AlwaysIInv, PTL DEF Spec, ForeignOnlyByWidening
=============================================================================
