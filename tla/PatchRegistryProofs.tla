-------------------------- MODULE PatchRegistryProofs --------------------------
(***************************************************************************)
(* Proofs about PatchRegistry.  TLC evaluates the edits, one place at a    *)
(* time (TextsAssumption, EndsAssumption); the theorems carry this over to *)
(* every behaviour: any number of runs that fail, are killed at any edit,  *)
(* are repeated and reverted from any backup.                              *)
(***************************************************************************)
EXTENDS PatchRegistry, PatchPipelineProofs

\* Between runs, and in every backup, a list has one of the texts it may have.
TextsKnown ==
    /\ \A p \in MasqueLists : tree[p] \in Between[release][p]
    /\ \A k \in 1 .. Len(backups), p \in MasqueLists :
          p \in Backed(release) => backups[k][p] \in Between[release][p]

\* So has the copy that a run works on, for the edit that comes next; what is
\* written back is what it works on.
RunKnown ==
    /\ status \in {"running", "done"} =>
          /\ is310 \in MarkerReads(release)
          /\ pc \in 1 .. Len(Program[release][is310]) + 1
          /\ \A p \in MasqueLists : draft[p] \in During[release][is310][p][pc]
          /\ pc = 1 \/ Program[release][is310][pc - 1].write => draft = tree
    /\ status = "done" => pc = Len(Program[release][is310]) + 1

TInv == IInv /\ TextsKnown /\ RunKnown

\* The invariant holds of every upstream tree before the first run ...
LEMMA InitTInv == Init => TInv
<1> SUFFICES ASSUME Init PROVE TInv
  OBVIOUS
<1>1. IInv
  BY InitIInv
<1>2. release \in Releases /\ tree = Upstream[release] /\ backups = <<>> /\ status = "fresh"
  BY DEF Init
<1>3. TextsKnown
  <2>1. \A p \in MasqueLists : tree[p] \in Between[release][p]
    BY <1>2, TextsAssumption
  <2>2. 1 .. Len(backups) = {}
    BY <1>2
  <2> QED
    BY <2>1, <2>2 DEF TextsKnown
<1>4. RunKnown
  BY <1>2 DEF RunKnown
<1> QED
  BY <1>1, <1>3, <1>4 DEF TInv

\* A run starts from what is on disk, and takes MASQUE out if the marker says so.
LEMMA StartTexts == TInv /\ Start => (TextsKnown /\ RunKnown)'
<1> SUFFICES ASSUME TInv, Start PROVE (TextsKnown /\ RunKnown)'
  OBVIOUS
<1> DEFINE saved == [p \in Backed(release) |-> tree[p]]
           b == Has(tree[Marker], Marked)
<1>1. /\ backups' = Append(backups, saved) /\ tree' = Copied /\ draft' = Copied
      /\ release' = release /\ pc' = 1 /\ is310' = b /\ status' = "running"
  BY DEF Start
<1>2. /\ IInv /\ TextsKnown /\ release \in Releases /\ b \in BOOLEAN
  BY DEF TInv, IInv, TypeOK, Has
<1>3. \A p \in MasqueLists : p \in Places /\ Copied[p] = tree[p]
  BY ScriptsAssumption DEF Copied
<1>4. /\ Len(backups) \in Nat /\ Len(backups') = Len(backups) + 1
      /\ \A i \in 1 .. Len(backups) : backups'[i] = backups[i]
      /\ backups'[Len(backups) + 1] = saved
  BY <1>1, <1>2, AppendFacts DEF IInv, BackupsAreSequence
<1>5. TextsKnown'
  <2>1. \A p \in MasqueLists : tree'[p] \in Between[release][p]
    BY <1>1, <1>2, <1>3 DEF TextsKnown
  <2>2. ASSUME NEW k \in 1 .. Len(backups'), NEW p \in MasqueLists, p \in Backed(release)
        PROVE  backups'[k][p] \in Between[release][p]
    <3>1. CASE k = Len(backups) + 1
      BY <3>1, <1>2, <1>4, <2>2 DEF TextsKnown
    <3>2. CASE k \in 1 .. Len(backups)
      BY <3>2, <1>2, <1>4, <2>2 DEF TextsKnown
    <3> QED
      BY <3>1, <3>2, <1>4
  <2> QED
    BY <1>1, <2>1, <2>2 DEF TextsKnown, Backed
<1>6. b \in MarkerReads(release)
  BY <1>2, ScriptsAssumption DEF TextsKnown, MarkerReads
<1>7. \A p \in MasqueLists : draft'[p] \in During[release][b][p][1]
  <2> SUFFICES ASSUME NEW p \in MasqueLists PROVE tree[p] \in During[release][b][p][1]
    BY <1>1, <1>3
  <2>1. tree[p] \in Between[release][p] /\ (p = Marker => Has(tree[p], Marked) = b)
    BY <1>2 DEF TextsKnown
  <2> HIDE DEF b
  <2> QED
    BY <1>2, <1>6, <2>1, TextsAssumption
<1>8. 1 \in 1 .. Len(Program[release][b]) + 1
  <2>1. Len(Program[release][b]) \in Nat \ {0}
    BY <1>2, ScriptsAssumption
  <2> QED
    BY <2>1
<1>9. RunKnown'
  BY <1>1, <1>6, <1>7, <1>8 DEF RunKnown
<1> QED
  BY <1>5, <1>9

\* An edit that does not fail leads from a text of its place to one of the next.
LEMMA PatchTexts == TInv /\ Patch => (TextsKnown /\ RunKnown)'
<1> SUFFICES ASSUME TInv, Patch PROVE (TextsKnown /\ RunKnown)'
  OBVIOUS
<1> DEFINE script == Program[release][is310]
           step == script[pc]
           e == step.edit
<1>1. /\ release' = release /\ is310' = is310 /\ status' = status /\ backups' = backups
      /\ pc' = pc + 1 /\ draft' = EditTree(draft, e)
      /\ tree' = IF step.write THEN draft' ELSE tree
      /\ pc <= Len(script) /\ status = "running"
      /\ ~(~Exempt(draft, e) /\ EditFails(e, draft[e.at]))
  BY DEF Patch, Idle, Current, Fails
<1>2. /\ release \in Releases /\ is310 \in MarkerReads(release) /\ is310 \in BOOLEAN
      /\ DOMAIN draft = Places /\ pc \in 1 .. Len(script) + 1
      /\ \A p \in MasqueLists : draft[p] \in During[release][is310][p][pc]
  BY <1>1 DEF TInv, IInv, TypeOK, RunKnown
<1>3. pc \in DOMAIN script /\ pc \in Nat \ {0} /\ Len(script) \in Nat
  <2>1. Len(script) \in Nat /\ DOMAIN script = 1 .. Len(script)
    BY <1>2, ScriptsAssumption, TablesAssumption
  <2> QED
    BY <1>1, <1>2, <2>1
<1>4. ASSUME NEW p \in MasqueLists
      PROVE  /\ draft'[p] \in During[release][is310][p][pc + 1]
             /\ step.write => draft'[p] \in Between[release][p]
  <2> DEFINE after ==
               IF e.at # p THEN During[release][is310][p][pc]
               ELSE {EditText(e, t) : t \in {u \in During[release][is310][p][pc] : ~EditFails(e, u)}}
  <2>1. after \subseteq During[release][is310][p][pc + 1] /\ (step.write => after \subseteq Between[release][p])
    BY <1>2, <1>3, TextsAssumption
  <2>2. draft'[p] \in after
    <3>1. CASE e.at # p
      <4>1. draft'[p] = draft[p]
        <5>1. draft' = draft \/ draft' = [draft EXCEPT ![e.at] = EditText(e, draft[e.at])]
          BY <1>1 DEF EditTree
        <5> QED
          BY <5>1, <3>1, <1>2, ScriptsAssumption
      <4> QED
        BY <3>1, <4>1, <1>2
    <3>2. CASE e.at = p
      <4>1. p \in Places /\ p[1] # Qr
        BY ScriptsAssumption
      <4>2. ~Exempt(draft, e)
        BY <3>2, <4>1 DEF Exempt
      <4>3. draft'[p] = EditText(e, draft[p])
        <5>1. draft' = [draft EXCEPT ![e.at] = EditText(e, draft[e.at])]
          BY <1>1, <4>2 DEF EditTree
        <5> QED
          BY <5>1, <3>2, <4>1, <1>2
      <4>4. ~EditFails(e, draft[p])
        BY <1>1, <3>2, <4>2
      <4> QED
        BY <3>2, <4>3, <4>4, <1>2
    <3> QED
      BY <3>1, <3>2
  <2> QED
    BY <2>1, <2>2
<1>5. TextsKnown'
  <2>1. \A p \in MasqueLists : tree'[p] \in Between[release][p]
    <3>1. CASE step.write
      BY <3>1, <1>1, <1>4
    <3>2. CASE ~step.write
      BY <3>2, <1>1 DEF TInv, TextsKnown
    <3> QED
      BY <3>1, <3>2
  <2> QED
    BY <2>1, <1>1 DEF TInv, TextsKnown, Backed
<1>6. RunKnown'
  <2>1. pc' \in 1 .. Len(script) + 1 /\ pc' # 1 /\ pc' - 1 = pc
    BY <1>1, <1>3
  <2>2. step.write => draft' = tree'
    BY <1>1
  <2>3. status' # "done"
    BY <1>1
  <2> QED
    BY <1>1, <1>2, <1>4, <2>1, <2>2, <2>3 DEF RunKnown
<1> QED
  BY <1>5, <1>6

\* A run that finishes has made every edit.
LEMMA FinishTexts == TInv /\ Finish => (TextsKnown /\ RunKnown)'
<1> SUFFICES ASSUME TInv, Finish PROVE (TextsKnown /\ RunKnown)'
  OBVIOUS
<1>1. /\ UNCHANGED <<release, tree, draft, pc, is310, backups>>
      /\ status = "running" /\ status' = "done" /\ pc > Len(Program[release][is310])
  BY DEF Finish, Idle
<1>2. is310 \in BOOLEAN /\ release \in Releases /\ pc \in 1 .. Len(Program[release][is310]) + 1
  BY <1>1 DEF TInv, IInv, TypeOK, RunKnown
<1>3. Len(Program[release][is310]) \in Nat
  BY <1>2, ScriptsAssumption
<1>4. pc = Len(Program[release][is310]) + 1
  BY <1>1, <1>2, <1>3
<1>5. RunKnown'
  BY <1>1, <1>4 DEF TInv, RunKnown
<1>6. TextsKnown'
  BY <1>1 DEF TInv, TextsKnown, Backed
<1> QED
  BY <1>5, <1>6

\* A revert copies from a backup or leaves a list as it is.
LEMMA RevertTexts ==
    ASSUME TInv, NEW b \in DOMAIN backups, Revert(b)
    PROVE  (TextsKnown /\ RunKnown)'
<1>1. /\ release' = release /\ backups' = backups /\ status' \in {"reverted", "revert failed"}
      /\ release \in Releases /\ b \in 1 .. Len(backups)
  BY DEF Revert, TInv, IInv, TypeOK, BackupsAreSequence
<1>2. ASSUME NEW p \in MasqueLists PROVE tree'[p] \in Between[release][p]
  <2>1. p \in Places /\ p[1] \notin Deleted
    BY ScriptsAssumption
  <2>2. tree'[p] = IF p[1] \in Reached[release] THEN backups[b][p] ELSE tree[p]
    BY <2>1 DEF Revert
  <2>3. p[1] \in Reached[release] => p \in Backed(release)
    BY <1>1, <2>1, FilesAssumption DEF Backed
  <2> QED
    BY <1>1, <2>2, <2>3 DEF TInv, TextsKnown
<1>3. TextsKnown'
  BY <1>1, <1>2 DEF TInv, TextsKnown, Backed
<1>4. RunKnown'
  BY <1>1 DEF RunKnown
<1> QED
  BY <1>3, <1>4

\* ... and after every step of a run, a failure, a kill or a revert.
LEMMA NextTInv == TInv /\ [Next]_vars => TInv'
<1> SUFFICES ASSUME TInv, [Next]_vars PROVE TInv'
  OBVIOUS
<1>1. IInv'
  BY NextIInv DEF TInv
<1>2. CASE Start
  BY <1>1, <1>2, StartTexts DEF TInv
<1>3. CASE Patch
  BY <1>1, <1>3, PatchTexts DEF TInv
<1>4. CASE Finish
  BY <1>1, <1>4, FinishTexts DEF TInv
<1>5. CASE \E b \in DOMAIN backups : Revert(b)
  BY <1>1, <1>5, RevertTexts DEF TInv
<1>6. CASE Refuse \/ Fail \/ Interrupt
  <2>1. UNCHANGED <<release, tree, backups>> /\ status' \in {"refused", "failed", "stopped"}
    BY <1>6 DEF Refuse, Fail, Interrupt, End
  <2>2. TextsKnown' /\ RunKnown'
    BY <2>1 DEF TInv, TextsKnown, RunKnown, Backed
  <2> QED
    BY <1>1, <2>2 DEF TInv
<1>7. CASE UNCHANGED vars
  <2>1. TextsKnown' /\ RunKnown'
    BY <1>7 DEF vars, TInv, TextsKnown, RunKnown, Backed
  <2> QED
    BY <1>1, <2>1 DEF TInv
<1> QED
  BY <1>2, <1>3, <1>4, <1>5, <1>6, <1>7 DEF Next

\* The first run works on the texts that First tells.
FirstKnown ==
    /\ runs = 0 => status = "fresh" /\ tree = Upstream[release] /\ backups = <<>>
    /\ runs = 1 /\ status = "running" /\ release # "next" =>
          /\ release \in Supported
          /\ is310 = FirstPasses(release)
          /\ draft = FirstTree(release, pc)
    /\ AnchorsHold

\* The bound on the runs of a behaviour is a number.
LEMMA RunsAreCounted == TInv => runs \in Nat
<1>1. TInv => runs \in 0 .. MaxRuns
  BY DEF TInv, IInv, TypeOK
<1>2. MaxRuns \in Nat
  BY TablesAssumption
<1> QED
  BY <1>1, <1>2

\* Before any run the tree is upstream's.
LEMMA InitFirst == Init => FirstKnown
BY DEF Init, FirstKnown, AnchorsHold

\* The first run starts on upstream's texts and those of the overlay.
LEMMA StartFirst == TInv /\ FirstKnown /\ Start => FirstKnown'
<1> SUFFICES ASSUME TInv, FirstKnown, Start PROVE FirstKnown'
  OBVIOUS
<1>1. /\ release' = release /\ runs' = runs + 1 /\ status' = "running" /\ pc' = 1
      /\ draft' = Copied /\ is310' = Has(tree[Marker], Marked)
  BY DEF Start
<1>2. release \in Releases /\ runs \in Nat /\ runs' # 0
  <2>1. release \in Releases /\ runs \in Nat
    BY RunsAreCounted DEF TInv, IInv, TypeOK
  <2> QED
    BY <1>1, <2>1
<1>3. ASSUME runs' = 1, release # "next"
      PROVE  /\ release \in Supported
             /\ is310' = FirstPasses(release) /\ draft' = FirstTree(release, 1)
  <2>1. tree = Upstream[release]
    BY <1>1, <1>2, <1>3 DEF FirstKnown
  <2>2. release \in Supported
    BY <1>2, <1>3, <2>1 DEF Start, Refused, FileMissing, Supported
  <2>3. \A p \in Places : Copied[p] = First[release][p][1]
    BY <2>1, <2>2, FirstAssumption DEF Copied
  <2>4. Copied = FirstTree(release, 1)
    BY <2>3 DEF Copied, FirstTree
  <2> QED
    BY <1>1, <2>1, <2>2, <2>4 DEF FirstPasses
<1> QED
  BY <1>1, <1>2, <1>3 DEF FirstKnown, AnchorsHold

\* The next edit of the first run finds its anchor and makes of its place
\* the text that First tells next; all other places wait.
LEMMA EditOfFirstRun ==
    ASSUME TInv, FirstKnown, status = "running", runs = 1, release # "next",
           pc <= Len(Program[release][is310])
    PROVE  ~Fails /\ EditTree(draft, Current.edit) = FirstTree(release, pc + 1)
<1> DEFINE script == Program[release][is310]
           e == script[pc].edit
           now == FirstTree(release, pc)
<1>1. /\ release \in Releases /\ is310 \in BOOLEAN /\ is310 = FirstPasses(release)
      /\ draft = now /\ pc \in 1 .. Len(script) + 1
  BY DEF TInv, IInv, TypeOK, RunKnown, FirstKnown
<1>2. pc \in DOMAIN script
  <2>1. Len(script) \in Nat /\ DOMAIN script = 1 .. Len(script)
    BY <1>1, ScriptsAssumption, TablesAssumption
  <2> QED
    BY <1>1, <2>1
<1>3. release \in Supported
  BY DEF FirstKnown
<1>4. /\ e.at \in Places
      /\ \A p \in Places :
            IF e.at # p \/ Exempt(now, e)
            THEN First[release][p][pc + 1] = First[release][p][pc]
            ELSE /\ ~EditFails(e, First[release][p][pc])
                 /\ First[release][p][pc + 1] = EditText(e, First[release][p][pc])
  BY <1>1, <1>2, <1>3, FirstAssumption
<1>5. DOMAIN now = Places /\ \A p \in Places : now[p] = First[release][p][pc]
  BY DEF FirstTree
<1>6. Current.edit = e
  BY DEF Current
<1>7. ~Fails
  <2>1. Exempt(now, e) \/ ~EditFails(e, now[e.at])
    BY <1>4, <1>5
  <2> QED
    BY <1>1, <1>6, <2>1 DEF Fails
<1>8. EditTree(now, e) = FirstTree(release, pc + 1)
  <2>1. CASE Exempt(now, e)
    <3>1. \A p \in Places : First[release][p][pc + 1] = First[release][p][pc]
      BY <1>4, <2>1
    <3> QED
      BY <2>1, <3>1 DEF EditTree, FirstTree
  <2>2. CASE ~Exempt(now, e)
    <3>1. EditTree(now, e) = [now EXCEPT ![e.at] = EditText(e, now[e.at])]
      BY <2>2 DEF EditTree
    <3>2. \A p \in Places :
              First[release][p][pc + 1] = IF p = e.at THEN EditText(e, now[e.at]) ELSE now[p]
      BY <1>4, <1>5, <2>2
    <3>3. [now EXCEPT ![e.at] = EditText(e, now[e.at])]
             = [p \in Places |-> IF p = e.at THEN EditText(e, now[e.at]) ELSE now[p]]
      BY <1>4, <1>5
    <3> HIDE DEF now
    <3>4. FirstTree(release, pc + 1)
             = [p \in Places |-> IF p = e.at THEN EditText(e, now[e.at]) ELSE now[p]]
      BY <3>2 DEF FirstTree
    <3> QED
      BY <3>1, <3>3, <3>4
  <2> QED
    BY <2>1, <2>2
<1> QED
  BY <1>1, <1>6, <1>7, <1>8

\* Only an edit moves the first run on, and none of its edits fails.
LEMMA NextFirst == TInv /\ FirstKnown /\ [Next]_vars => FirstKnown'
<1> SUFFICES ASSUME TInv, FirstKnown, [Next]_vars PROVE FirstKnown'
  OBVIOUS
<1>0. runs \in Nat
  BY RunsAreCounted
<1>1. CASE Start
  BY <1>1, StartFirst
<1>2. CASE Patch
  <2>1. /\ UNCHANGED <<release, is310, status, backups, runs>> /\ status = "running"
        /\ draft' = EditTree(draft, Current.edit) /\ pc' = pc + 1
        /\ pc <= Len(Program[release][is310])
    BY <1>2 DEF Patch, Idle
  <2>2. runs # 0
    BY <2>1 DEF FirstKnown
  <2>3. runs = 1 /\ release # "next" => draft' = FirstTree(release, pc')
    BY <2>1, EditOfFirstRun
  <2> QED
    BY <2>1, <2>2, <2>3 DEF FirstKnown, AnchorsHold
<1>3. CASE Fail
  <2>1. /\ UNCHANGED <<release, runs>> /\ status = "running" /\ status' = "failed"
        /\ Fails /\ pc <= Len(Program[release][is310])
    BY <1>3 DEF Fail, End, Idle
  <2>2. runs # 0 /\ (runs = 1 => release = "next")
    BY <2>1, EditOfFirstRun DEF FirstKnown
  <2> QED
    BY <2>1, <2>2 DEF FirstKnown, AnchorsHold
<1>4. CASE Refuse
  BY <1>0, <1>4 DEF Refuse, FirstKnown, AnchorsHold
<1>5. CASE Interrupt \/ Finish
  <2>1. /\ UNCHANGED <<release, runs>> /\ status = "running" /\ status' \in {"stopped", "done"}
    BY <1>5 DEF Interrupt, Finish, End, Idle
  <2> QED
    BY <2>1 DEF FirstKnown, AnchorsHold
<1>6. CASE \E b \in DOMAIN backups : Revert(b)
  <2>1. /\ UNCHANGED <<release, runs>> /\ status' \in {"reverted", "revert failed"}
    BY <1>6 DEF Revert
  <2>2. backups # <<>>
    BY <1>6
  <2> QED
    BY <2>1, <2>2 DEF FirstKnown, AnchorsHold
<1>7. CASE UNCHANGED vars
  BY <1>7 DEF vars, FirstKnown, AnchorsHold
<1> QED
  BY <1>1, <1>2, <1>3, <1>4, <1>5, <1>6, <1>7 DEF Next

\* The scripts are made for each other on every supported release: the only
\* run on upstream's tree that can end at an anchor is that on a release
\* with a moved one, whatever the places are read in between and however
\* many runs follow.
THEOREM FirstRunFindsAnchors == Spec => []AnchorsHold
<1>1. FirstKnown => AnchorsHold
  BY DEF FirstKnown
<1> QED
  BY InitFirst, NextFirst, InitTInv, NextTInv, <1>1, PTL DEF Spec

\* What a finished run has on disk are texts of the end of a run.
LEMMA DoneTexts ==
    ASSUME TInv, status = "done", NEW p \in MasqueLists
    PROVE  /\ release \in Releases /\ is310 \in MarkerReads(release)
           /\ tree[p] \in During[release][is310][p][Len(Program[release][is310]) + 1]
<1> DEFINE n == Len(Program[release][is310])
<1>1. /\ release \in Releases /\ is310 \in MarkerReads(release) /\ is310 \in BOOLEAN /\ pc = n + 1
      /\ draft[p] \in During[release][is310][p][pc]
      /\ Program[release][is310][pc - 1].write => draft = tree
  BY DEF TInv, IInv, TypeOK, RunKnown
<1>2. n \in Nat /\ Program[release][is310][n].write
  BY <1>1, ScriptsAssumption
<1>3. pc - 1 = n
  BY <1>1, <1>2
<1> QED
  BY <1>1, <1>2, <1>3

\* However often the patcher ran, failed, was killed or undone before: a run
\* that finishes leaves every protocol once in every list.
THEOREM Registered == Spec => []RegisteredOnce
<1>1. TInv => RegisteredOnce
  <2> SUFFICES ASSUME TInv, status = "done", NEW at \in Registries, NEW x \in Protocol
               PROVE  Count(tree[at], x) = 1
    BY DEF RegisteredOnce
  <2>1. at \in MasqueLists
    BY DEF MasqueLists
  <2> QED
    BY <2>1, DoneTexts, EndsAssumption
<1> QED
  BY InitTInv, NextTInv, <1>1, PTL DEF Spec

\* A run that takes MASQUE out and finishes has put it back in every list.
THEOREM MasqueComesBack == Spec => []MasqueRestored
<1>1. TInv => MasqueRestored
  <2> SUFFICES ASSUME TInv, status = "done", is310, NEW at \in MasqueLists
               PROVE  Count(tree[at], "masque") = Count(Upstream[release][at], "masque")
    BY DEF MasqueRestored
  <2> QED
    BY DoneTexts, EndsAssumption
<1> QED
  BY InitTInv, NextTInv, <1>1, PTL DEF Spec

\* Of the upstream files that runs have changed, a complete revert from the
\* first backup brings back all but those that its list has forgotten.
THEOREM RevertRestores == Spec => RevertGivesUpstream
<1>1. IInv /\ [Next]_vars => [status' = "reverted" /\ Revert(1) =>
          \A p \in Places : tree'[p] # Upstream[release][p] => p[1] \in LeftBehind]_vars
  <2> SUFFICES ASSUME IInv, Next, status' = "reverted", Revert(1),
                      NEW p \in Places, p[1] \notin LeftBehind
               PROVE  tree'[p] = Upstream[release][p]
    OBVIOUS
  <2>1. /\ Completes[release] /\ release \in Releases
        /\ tree'[p] = IF p[1] \in Reached[release] THEN backups[1][p]
                      ELSE IF p[1] \in Deleted THEN <<"missing">> ELSE tree[p]
    BY DEF Revert, IInv, TypeOK
  <2>2. backups # <<>>
    <3>1. Idle
      BY DEF Revert
    <3>2. \E b \in DOMAIN backups : Revert(b)
      BY <3>1 DEF Next, Idle, Refuse, Start, Patch, Fail, Interrupt, Finish
    <3> QED
      BY <3>2
  <2>3. CASE p[1] \in Reached[release]
    <3>1. p \in Backed(release)
      BY <2>1, <2>3, FilesAssumption DEF Backed
    <3> QED
      BY <2>1, <2>2, <2>3, <3>1 DEF IInv, FirstIsUpstream
  <2>4. CASE p[1] \notin Reached[release]
    <3>1. CASE p[1] \in Deleted /\ Upstream[release][p] = <<"missing">>
      BY <2>1, <2>4, <3>1
    <3>2. CASE p \notin DOMAIN Overlay /\ p[1] \notin Listed[release] \cup Unlisted[release]
      <4>1. tree[p] = Upstream[release][p]
        BY <3>2 DEF IInv, OnlyTheseDiffer, MayDiffer
      <4>2. p[1] \notin Deleted
        BY <2>1, <3>2, FilesAssumption
      <4> QED
        BY <2>1, <2>4, <4>1, <4>2
    <3> QED
      BY <2>1, <2>4, <3>1, <3>2, RevertAssumption
  <2> QED
    BY <2>3, <2>4
<1> QED
  BY InitIInv, NextIInv, <1>1, PTL DEF Spec, RevertGivesUpstream
================================================================================
