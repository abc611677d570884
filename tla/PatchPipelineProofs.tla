-------------------------- MODULE PatchPipelineProofs --------------------------
(***************************************************************************)
(* Proofs about PatchPipeline, for every table of releases, places and     *)
(* edits that meets its assumptions and every number of runs: its type     *)
(* invariant and Recoverable.                                              *)
(***************************************************************************)
EXTENDS PatchPipeline, SequenceTheorems, TLAPS

\* A place whose text may come to differ from upstream's.
MayDiffer(p) == p \in DOMAIN Overlay \/ p[1] \in Unlisted[release] \/ p[1] \in Listed[release]

BackupsAreSequence ==
    /\ Len(backups) \in Nat
    /\ backups = [b \in 1 .. Len(backups) |-> backups[b]]

\* Before the first backup nothing is touched, and a running run has made one.
UntouchedBefore ==
    backups = <<>> => /\ status # "running"
                      /\ \A p \in Places : tree[p] = Upstream[release][p]

FirstIsUpstream ==
    backups # <<>> => \A p \in Backed(release) : backups[1][p] = Upstream[release][p]

OnlyTheseDiffer ==
    \A p \in Places :
        /\ tree[p] # Upstream[release][p] => MayDiffer(p)
        /\ draft[p] # Upstream[release][p] => MayDiffer(p)

IInv ==
    /\ TypeOK /\ BackupsAreSequence /\ UntouchedBefore /\ FirstIsUpstream /\ OnlyTheseDiffer

LEMMA AppendFacts ==
    ASSUME NEW s, Len(s) \in Nat, s = [i \in 1 .. Len(s) |-> s[i]], NEW x
    PROVE  /\ Len(Append(s, x)) = Len(s) + 1
           /\ Append(s, x) = [i \in 1 .. Len(Append(s, x)) |-> Append(s, x)[i]]
           /\ \A i \in 1 .. Len(s) : Append(s, x)[i] = s[i]
           /\ Append(s, x)[Len(s) + 1] = x
           /\ Append(s, x) # <<>>
           /\ (s = <<>>) <=> (Len(s) = 0)
<1>1. DEFINE S == {s[i] : i \in 1 .. Len(s)} \cup {x}
<1>2. s \in Seq(S)
  OBVIOUS
<1>3. Append(s, x) \in Seq(S)
  BY <1>2
<1>4. Len(Append(s, x)) = Len(s) + 1
  BY <1>2
<1>5. \A i \in 1 .. Len(Append(s, x)) :
        Append(s, x)[i] = IF i <= Len(s) THEN s[i] ELSE x
  BY <1>2, <1>4, AppendProperties
<1>6. Append(s, x) = [i \in 1 .. Len(Append(s, x)) |-> Append(s, x)[i]]
  BY <1>3, LenProperties
<1>7. (s = <<>>) <=> (Len(s) = 0)
  BY <1>2, EmptySeq
<1>8. Append(s, x) # <<>>
  <2>1. Len(Append(s, x)) # 0
    BY <1>4
  <2>2. Len(<<>>) = 0
    OBVIOUS
  <2> QED
    BY <2>1, <2>2
<1> QED
  BY <1>4, <1>5, <1>6, <1>7, <1>8

LEMMA FirstEdit == 1 \in Nat \ {0}
  OBVIOUS

\* The initial states, for lemma and theorems.
LEMMA InitIInv == Init => IInv
<1> SUFFICES ASSUME Init PROVE IInv
  OBVIOUS
<1>1. release \in Releases /\ tree = Upstream[release] /\ draft = Upstream[release] /\ backups = <<>>
  BY DEF Init
<1>2. Upstream[release] = [p \in Places |-> Upstream[release][p]]
  BY <1>1, TablesAssumption
<1>3. DOMAIN tree = Places /\ DOMAIN draft = Places
  BY <1>1, <1>2
<1>4. Len(backups) = 0 /\ 1 .. Len(backups) = {}
  BY <1>1
<1>5. TypeOK
  <2>1. pc = 1 /\ is310 \in BOOLEAN /\ status = "fresh" /\ runs = 0
    BY DEF Init
  <2>2. runs \in 0 .. MaxRuns /\ Len(backups) <= runs
    BY <2>1, <1>4, TablesAssumption
  <2> QED
    BY <1>1, <1>3, <1>4, <2>1, <2>2 DEF TypeOK
<1>6. BackupsAreSequence
  BY <1>1, <1>4 DEF BackupsAreSequence
<1>7. UntouchedBefore /\ FirstIsUpstream
  BY <1>1 DEF Init, UntouchedBefore, FirstIsUpstream
<1>8. OnlyTheseDiffer
  BY <1>1 DEF OnlyTheseDiffer
<1> QED
  BY <1>5, <1>6, <1>7, <1>8 DEF IInv

LEMMA StartStep == IInv /\ Start => IInv'
<1> SUFFICES ASSUME IInv, Start PROVE IInv'
  OBVIOUS
<1> DEFINE saved == [p \in Backed(release) |-> tree[p]]
<1>1. /\ backups' = Append(backups, saved)
      /\ tree' = Copied /\ draft' = Copied /\ release' = release /\ runs' = runs + 1
      /\ pc' = 1 /\ is310' \in BOOLEAN /\ status' = "running" /\ runs < MaxRuns
  BY DEF Start, Has
<1>2. DOMAIN Copied = Places
  BY DEF Copied
<1>3. /\ Len(backups') = Len(backups) + 1 /\ backups' # <<>>
      /\ BackupsAreSequence'
      /\ \A i \in 1 .. Len(backups) : backups'[i] = backups[i]
      /\ backups'[Len(backups) + 1] = saved
      /\ (backups = <<>>) <=> (Len(backups) = 0)
  BY <1>1, AppendFacts DEF IInv, BackupsAreSequence
<1>4. Backed(release)' = Backed(release) /\ Backed(release) \subseteq Places
  BY <1>1 DEF Backed
<1>5. DOMAIN saved = Backed(release)
  OBVIOUS
<1>6. \A b \in 1 .. Len(backups)' : DOMAIN (backups'[b]) = Backed(release)
  <2> SUFFICES ASSUME NEW b \in 1 .. Len(backups) + 1 PROVE DOMAIN (backups'[b]) = Backed(release)
    BY <1>3
  <2> Len(backups) \in Nat
    BY DEF IInv, BackupsAreSequence
  <2>1. CASE b = Len(backups) + 1
    BY <2>1, <1>3, <1>5
  <2>2. CASE b \in 1 .. Len(backups)
    BY <2>2, <1>3 DEF IInv, TypeOK
  <2> QED
    BY <2>1, <2>2
<1>7. TypeOK'
  <2>1. release' \in Releases /\ DOMAIN tree' = Places /\ DOMAIN draft' = Places
    BY <1>1, <1>2 DEF IInv, TypeOK
  <2>2. runs' \in 0 .. MaxRuns /\ Len(backups') <= runs'
    <3>1. runs \in 0 .. MaxRuns /\ Len(backups) <= runs /\ Len(backups) \in Nat
      BY DEF IInv, TypeOK, BackupsAreSequence
    <3> QED
      BY <3>1, <1>1, <1>3, TablesAssumption
  <2> QED
    BY <1>1, <1>4, <1>6, <2>1, <2>2 DEF TypeOK
<1>8. UntouchedBefore'
  BY <1>3 DEF UntouchedBefore
<1>9. FirstIsUpstream'
  <2>1. CASE backups = <<>>
    <3>1. backups'[1] = saved
      BY <2>1, <1>3
    <3>2. \A p \in Backed(release) : tree[p] = Upstream[release][p]
      BY <2>1, <1>4 DEF IInv, UntouchedBefore
    <3> QED
      BY <3>1, <3>2, <1>1, <1>4 DEF FirstIsUpstream
  <2>2. CASE backups # <<>>
    <3>1. backups'[1] = backups[1]
      BY <2>2, <1>3 DEF IInv, BackupsAreSequence
    <3> QED
      BY <2>2, <3>1, <1>1, <1>4 DEF IInv, FirstIsUpstream
  <2> QED
    BY <2>1, <2>2
<1>10. OnlyTheseDiffer'
  <2> SUFFICES ASSUME NEW p \in Places, Copied[p] # Upstream[release][p] PROVE MayDiffer(p)
    BY <1>1 DEF OnlyTheseDiffer, MayDiffer
  <2>1. CASE p \in DOMAIN Overlay
    BY <2>1 DEF MayDiffer
  <2>2. CASE p \notin DOMAIN Overlay
    BY <2>2 DEF IInv, OnlyTheseDiffer, Copied
  <2> QED
    BY <2>1, <2>2
<1> QED
  BY <1>3, <1>7, <1>8, <1>9, <1>10 DEF IInv

LEMMA PatchStep == IInv /\ Patch => IInv'
<1> SUFFICES ASSUME IInv, Patch PROVE IInv'
  OBVIOUS
<1> DEFINE e == Current.edit
<1>1. /\ release' = release /\ is310' = is310 /\ status' = status /\ backups' = backups /\ runs' = runs
      /\ pc' = pc + 1 /\ draft' = EditTree(draft, e) /\ tree' \in {tree, draft'}
      /\ pc <= Len(Program[release][is310]) /\ status = "running"
  BY DEF Patch, Idle
<1>2. DOMAIN draft' = Places /\ \A p \in Places : p # e.at => draft'[p] = draft[p]
  <2>1. draft' = draft \/ draft' = [draft EXCEPT ![e.at] = EditText(e, draft[e.at])]
    BY <1>1 DEF EditTree
  <2> QED
    BY <2>1 DEF IInv, TypeOK
<1>3. MayDiffer(e.at)
  <2>1. /\ pc \in 1 .. Len(Program[release][is310]) /\ is310 \in BOOLEAN /\ release \in Releases
    <3>1. is310 \in BOOLEAN /\ release \in Releases /\ pc \in Nat \ {0}
      BY DEF IInv, TypeOK
    <3>2. DOMAIN Program[release][is310] = 1 .. Len(Program[release][is310])
      BY <3>1, TablesAssumption
    <3>3. Len(Program[release][is310]) \in Int
      BY <1>1, <3>1, <3>2
    <3> QED
      BY <1>1, <3>1, <3>3
  <2>2. pc \in DOMAIN Program[release][is310]
    BY <2>1, TablesAssumption
  <2>3. e.at = Program[release][is310][pc].edit.at
    BY DEF Current
  <2> QED
    BY <2>1, <2>2, <2>3, FilesAssumption DEF MayDiffer
<1>4. DOMAIN tree' = Places
  BY <1>1, <1>2 DEF IInv, TypeOK
<1>5. TypeOK'
  BY <1>1, <1>2, <1>4 DEF IInv, TypeOK, Backed
<1>6. BackupsAreSequence' /\ FirstIsUpstream'
  BY <1>1 DEF IInv, BackupsAreSequence, FirstIsUpstream, Backed
<1>7. UntouchedBefore'
  BY <1>1 DEF IInv, UntouchedBefore
<1>8. OnlyTheseDiffer'
  <2>1. \A p \in Places : draft'[p] # Upstream[release][p] => MayDiffer(p)
    BY <1>2, <1>3 DEF IInv, OnlyTheseDiffer
  <2>2. \A p \in Places : tree'[p] # Upstream[release][p] => MayDiffer(p)
    BY <2>1, <1>1 DEF IInv, OnlyTheseDiffer
  <2> QED
    BY <2>1, <2>2, <1>1 DEF OnlyTheseDiffer, MayDiffer
<1> QED
  BY <1>5, <1>6, <1>7, <1>8 DEF IInv

\* A run that ends early: Fail and Interrupt.
LEMMA EndStep ==
    ASSUME IInv, NEW why \in {"failed", "stopped"}, End(why)
    PROVE  IInv'
<1>1. TypeOK'
  <2>1. is310' \in BOOLEAN /\ pc' = 1 /\ status' \in {"failed", "stopped"} /\ draft' = tree
        /\ release' = release /\ tree' = tree /\ backups' = backups /\ runs' = runs
    BY DEF End
  <2>2. /\ runs' \in 0 .. MaxRuns /\ Len(backups') <= runs'
        /\ \A i \in 1 .. Len(backups') : DOMAIN (backups'[i]) = Backed(release)'
    BY <2>1 DEF IInv, TypeOK, Backed
  <2>3. release' \in Releases /\ DOMAIN tree' = Places /\ DOMAIN draft' = Places
    BY <2>1 DEF IInv, TypeOK
  <2>4. pc' \in Nat \ {0}
    BY FirstEdit, <2>1, Zenon
  <2> QED
    BY <2>1, <2>2, <2>3, <2>4 DEF TypeOK
<1>2. BackupsAreSequence' /\ FirstIsUpstream' /\ UntouchedBefore'
  BY DEF End, IInv, BackupsAreSequence, FirstIsUpstream, UntouchedBefore, Backed
<1>3. OnlyTheseDiffer'
  BY DEF End, IInv, OnlyTheseDiffer, MayDiffer
<1> QED
  BY <1>1, <1>2, <1>3 DEF IInv

\* The steps that change the status only: Refuse and Finish.
LEMMA QuietSteps == IInv /\ (Refuse \/ Finish) => IInv'
<1> SUFFICES ASSUME IInv, Refuse \/ Finish PROVE IInv'
  OBVIOUS
<1>1. /\ UNCHANGED <<release, tree, draft, pc, is310, backups>>
      /\ status' \in {"refused", "done"}
      /\ runs' = runs \/ (runs' = runs + 1 /\ runs < MaxRuns)
  BY DEF Refuse, Finish
<1>2. runs' \in 0 .. MaxRuns /\ runs <= runs'
  <2>1. runs \in 0 .. MaxRuns
    BY DEF IInv, TypeOK
  <2> QED
    BY <2>1, <1>1, TablesAssumption
<1>3. Len(backups) <= runs'
  <2>1. runs \in 0 .. MaxRuns /\ Len(backups) <= runs /\ Len(backups) \in Nat
    BY DEF IInv, TypeOK, BackupsAreSequence
  <2> QED
    BY <2>1, <1>2, TablesAssumption
<1>4. TypeOK'
  BY <1>1, <1>2, <1>3 DEF IInv, TypeOK, Backed
<1>5. BackupsAreSequence' /\ FirstIsUpstream' /\ UntouchedBefore'
  BY <1>1 DEF IInv, BackupsAreSequence, FirstIsUpstream, UntouchedBefore, Backed
<1>6. OnlyTheseDiffer'
  BY <1>1 DEF IInv, OnlyTheseDiffer, MayDiffer
<1> QED
  BY <1>4, <1>5, <1>6 DEF IInv

LEMMA RevertStep ==
    ASSUME IInv, NEW b \in DOMAIN backups, Revert(b)
    PROVE  IInv'
<1>1. /\ release' = release /\ backups' = backups /\ runs' = runs /\ draft' = tree' /\ pc' = 1
      /\ status' \in {"reverted", "revert failed"}
  BY DEF Revert
<1>2. DOMAIN tree' = Places
  BY DEF Revert
<1>3. \A p \in Places : p[1] \notin Reached[release] /\ p[1] \notin Deleted => tree'[p] = tree[p]
  BY DEF Revert
<1>4. backups # <<>>
  <2>1. b \in 1 .. Len(backups) /\ Len(backups) \in Nat
    BY DEF IInv, BackupsAreSequence
  <2> QED
    BY <2>1
<1>5. TypeOK'
  <2>1. is310' \in BOOLEAN
    BY DEF Revert
  <2>2. /\ runs' \in 0 .. MaxRuns /\ Len(backups') <= runs'
        /\ \A i \in 1 .. Len(backups') : DOMAIN (backups'[i]) = Backed(release)'
    BY <1>1 DEF IInv, TypeOK, Backed
  <2>3. release' \in Releases
    BY <1>1 DEF IInv, TypeOK
  <2>5. pc' \in Nat \ {0}
    BY FirstEdit, <1>1, Zenon
  <2>4. DOMAIN draft' = Places
    BY <1>1, <1>2
  <2> QED
    BY <1>1, <1>2, <2>1, <2>2, <2>3, <2>4, <2>5 DEF TypeOK
<1>6. BackupsAreSequence' /\ FirstIsUpstream' /\ UntouchedBefore'
  BY <1>1, <1>4 DEF IInv, BackupsAreSequence, FirstIsUpstream, UntouchedBefore, Backed
<1>7. OnlyTheseDiffer'
  <2> SUFFICES ASSUME NEW p \in Places, tree'[p] # Upstream[release][p] PROVE MayDiffer(p)
    BY <1>1 DEF OnlyTheseDiffer, MayDiffer
  <2>1. CASE p[1] \in Reached[release] \/ p[1] \in Deleted
    BY <2>1, FilesAssumption DEF IInv, TypeOK, MayDiffer
  <2>2. CASE p[1] \notin Reached[release] /\ p[1] \notin Deleted
    BY <2>2, <1>3 DEF IInv, OnlyTheseDiffer
  <2> QED
    BY <2>1, <2>2
<1> QED
  BY <1>5, <1>6, <1>7 DEF IInv

LEMMA NextIInv == IInv /\ [Next]_vars => IInv'
<1> SUFFICES ASSUME IInv, [Next]_vars PROVE IInv'
  OBVIOUS
<1>1. CASE Refuse \/ Finish
  BY <1>1, QuietSteps
<1>2. CASE Start
  BY <1>2, StartStep
<1>3. CASE Patch
  BY <1>3, PatchStep
<1>4. CASE Fail \/ Interrupt
  BY <1>4, EndStep DEF Fail, Interrupt
<1>5. CASE \E b \in DOMAIN backups : Revert(b)
  BY <1>5, RevertStep
<1>6. CASE UNCHANGED vars
  BY <1>6 DEF vars, IInv, TypeOK, BackupsAreSequence, UntouchedBefore, FirstIsUpstream, OnlyTheseDiffer,
              MayDiffer, Backed
<1> QED
  BY <1>1, <1>2, <1>3, <1>4, <1>5, <1>6 DEF Next

LEMMA IInvRecoverable == IInv => Recoverable
<1> SUFFICES ASSUME IInv, NEW p \in Places, tree[p] # Upstream[release][p],
                    p \notin DOMAIN Overlay, p[1] \notin Unlisted[release]
             PROVE  backups # <<>> /\ p \in DOMAIN backups[1] /\ backups[1][p] = Upstream[release][p]
  BY DEF Recoverable
<1>1. p \in Backed(release)
  BY DEF IInv, OnlyTheseDiffer, MayDiffer, Backed
<1>2. backups # <<>>
  BY DEF IInv, UntouchedBefore
<1>3. 1 \in 1 .. Len(backups)
  BY <1>2 DEF IInv, BackupsAreSequence
<1> QED
  BY <1>1, <1>2, <1>3 DEF IInv, TypeOK, FirstIsUpstream

\* The tree, the script's copy of it and every backup keep their places
\* through runs, failures, interruptions and reverts.
THEOREM TypeCorrect == Spec => []TypeOK
<1>1. IInv => TypeOK
  BY DEF IInv
<1> QED
  BY InitIInv, NextIInv, <1>1, PTL DEF Spec

\* apply-overlay.sh backs up before it copies and edits: whatever fails, the
\* oldest backup has upstream's text of every listed file that differs.
THEOREM UpstreamRecoverable == Spec => []Recoverable
  BY InitIInv, NextIInv, IInvRecoverable, PTL DEF Spec
================================================================================
