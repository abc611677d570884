----------------------------- MODULE PatchPipeline -----------------------------
(***************************************************************************)
(* apply-overlay.sh and revert-overlay.sh: one run of the patcher is the   *)
(* precheck, the backup of the files it lists, the copy of the overlay     *)
(* files and a sequence of script edits.  A run ends at the first edit     *)
(* whose anchor is not as expected, at an interruption, or at the end; it  *)
(* may be started again on the tree it left, and the tree may be restored  *)
(* from any backup.                                                        *)
(* Left out: gofmt at the end of a run, a run interrupted while it copies  *)
(* files or within the edits that a script writes back one by one (the     *)
(* model writes a group of edits back with its last; v15-compat-pre.py,    *)
(* killed between taking the TUIC case out and putting its relay check     *)
(* back, leaves a tree without either, and the next run does not miss it), *)
(* two runs within the second that names a backup directory.               *)
(***************************************************************************)
EXTENDS PatchText

CONSTANTS
    Releases,   \* upstream releases
    Places,     \* pairs of a file and a part of it
    Upstream,   \* the text of every place, by release
    Overlay,    \* the texts of the overlay places
    Listed,     \* the files a run requires and backs up, by release
    Program,    \* the edits in order, by release, without and with the v24 passes
    Marker,     \* the place whose text tells a 3.10 tree,
    Marked,     \* and the text that does
    Reached,    \* the files that a revert copies back before it ends, by release,
    Completes,  \* whether it gets to its end,
    Deleted,    \* and the files that it then removes
    Unlisted,   \* the edited files that a run does not back up, by release
    MaxRuns     \* bound on the runs of a behaviour

ASSUME TablesAssumption ==
    /\ \A r \in Releases : Upstream[r] = [p \in Places |-> Upstream[r][p]]
    /\ DOMAIN Overlay \subseteq Places
    /\ \A r \in Releases, b \in BOOLEAN : DOMAIN Program[r][b] = 1 .. Len(Program[r][b])
    /\ MaxRuns \in Nat

\* Every place that a run edits and every place that a revert removes is an
\* overlay place, is backed up, or is named as an exception; a revert copies
\* back only files that are backed up.
ASSUME FilesAssumption ==
    \A r \in Releases :
        /\ \A b \in BOOLEAN : \A i \in DOMAIN Program[r][b] :
               LET at == Program[r][b][i].edit.at
               IN  at[1] \in Listed[r] \/ at \in DOMAIN Overlay \/ at[1] \in Unlisted[r]
        /\ Reached[r] \subseteq Listed[r]
        /\ \A p \in Places : p[1] \in Deleted => p \in DOMAIN Overlay \/ p[1] \in Unlisted[r]

VARIABLES
    release,   \* the upstream release of the tree
    tree,      \* the text of every place on disk
    draft,     \* the text of every place as the running script holds it
    pc,        \* the edit that comes next
    is310,     \* the marker as read at the start of the run
    status,    \* what the last command came to
    backups,   \* the backup directories, oldest first
    runs       \* runs so far

vars == <<release, tree, draft, pc, is310, status, backups, runs>>

Idle == status # "running"
Backed(r) == {p \in Places : p[1] \in Listed[r]}
FileMissing(f) == \E p \in Places : p[1] = f /\ tree[p] = <<"missing">>
Refused == \E f \in Listed[release] : FileMissing(f)
Copied == [p \in Places |-> IF p \in DOMAIN Overlay THEN Overlay[p] ELSE tree[p]]
Current == Program[release][is310][pc]
Fails == LET e == Current.edit IN ~Exempt(draft, e) /\ EditFails(e, draft[e.at])

Init ==
    /\ release \in Releases
    /\ tree = Upstream[release]
    /\ draft = tree
    /\ pc = 1
    /\ is310 = FALSE
    /\ status = "fresh"
    /\ backups = <<>>
    /\ runs = 0

\* The precheck: a missing file ends the run before anything is touched.
Refuse ==
    /\ Idle /\ runs < MaxRuns /\ Refused
    /\ status' = "refused"
    /\ runs' = runs + 1
    /\ UNCHANGED <<release, tree, draft, pc, is310, backups>>

\* Mutant of Start: every run backs up into the same directory.
StartSameBackup ==
    /\ Idle /\ runs < MaxRuns /\ ~Refused
    /\ backups' = <<[p \in Backed(release) |-> tree[p]]>>
    /\ tree' = Copied
    /\ draft' = Copied
    /\ pc' = 1
    /\ is310' = Has(tree[Marker], Marked)
    /\ status' = "running"
    /\ runs' = runs + 1
    /\ UNCHANGED release

\* Mutant of Start: the overlay files are copied after the scripts.
StartWithoutOverlay ==
    /\ Idle /\ runs < MaxRuns /\ ~Refused
    /\ backups' = Append(backups, [p \in Backed(release) |-> tree[p]])
    /\ draft' = tree
    /\ pc' = 1
    /\ is310' = Has(tree[Marker], Marked)
    /\ status' = "running"
    /\ runs' = runs + 1
    /\ UNCHANGED <<release, tree>>

\* Backup, overlay files, and the choice of the v24 passes by grep.
Start ==
    /\ Idle /\ runs < MaxRuns /\ ~Refused
    /\ backups' = Append(backups, [p \in Backed(release) |-> tree[p]])
    /\ tree' = Copied
    /\ draft' = Copied
    /\ pc' = 1
    /\ is310' = Has(tree[Marker], Marked)
    /\ status' = "running"
    /\ runs' = runs + 1
    /\ UNCHANGED release

\* One edit of one script; its last edit of a file writes the file back.
Patch ==
    /\ ~Idle /\ pc <= Len(Program[release][is310]) /\ ~Fails
    /\ draft' = EditTree(draft, Current.edit)
    /\ tree' = IF Current.write THEN draft' ELSE tree
    /\ pc' = pc + 1
    /\ UNCHANGED <<release, is310, status, backups, runs>>

\* Mutant of End: the edits are counted from zero.
EndAtZero(why) ==
    /\ status' = why
    /\ draft' = tree
    /\ pc' = 0
    /\ is310' = FALSE
    /\ UNCHANGED <<release, tree, backups, runs>>

\* The process of a run that ends early keeps nothing: what is not written
\* back is lost.
End(why) ==
    /\ status' = why
    /\ draft' = tree
    /\ pc' = 1
    /\ is310' = FALSE
    /\ UNCHANGED <<release, tree, backups, runs>>

\* Mutant of Fail: without set -e the run goes on after the script.
FailIgnored ==
    /\ ~Idle /\ pc <= Len(Program[release][is310]) /\ Fails
    /\ pc' = pc + 1
    /\ UNCHANGED <<release, tree, draft, is310, status, backups, runs>>

\* An anchor is not as the script wants it: SystemExit, and set -e ends the run.
Fail ==
    /\ ~Idle /\ pc <= Len(Program[release][is310]) /\ Fails
    /\ End("failed")

\* Mutant of Interrupt: a script that was killed counts as one that is through.
InterruptUnnoticed ==
    /\ ~Idle /\ runs < MaxRuns
    /\ status' = "done"
    /\ UNCHANGED <<release, tree, draft, pc, is310, backups, runs>>

\* The run is killed between two edits (not the last run of a behaviour).
Interrupt == ~Idle /\ runs < MaxRuns /\ End("stopped")

Finish ==
    /\ ~Idle /\ pc > Len(Program[release][is310])
    /\ status' = "done"
    /\ UNCHANGED <<release, tree, draft, pc, is310, backups, runs>>

\* Mutant of Revert: the newest backup, whichever is asked for.
RevertNewest(b) ==
    /\ Idle
    /\ tree' = [p \in Places |->
                   IF p[1] \in Reached[release] THEN backups[Len(backups)][p]
                   ELSE IF Completes[release] /\ p[1] \in Deleted THEN <<"missing">> ELSE tree[p]]
    /\ draft' = tree'
    /\ pc' = 1
    /\ is310' = FALSE
    /\ status' = IF Completes[release] THEN "reverted" ELSE "revert failed"
    /\ UNCHANGED <<release, backups, runs>>

\* The files are copied back from the backup up to the first that it does not
\* hold; if it holds them all, the overlay files are removed.
Revert(b) ==
    /\ Idle
    /\ tree' = [p \in Places |->
                   IF p[1] \in Reached[release] THEN backups[b][p]
                   ELSE IF Completes[release] /\ p[1] \in Deleted THEN <<"missing">> ELSE tree[p]]
    /\ draft' = tree'
    /\ pc' = 1
    /\ is310' = FALSE
    /\ status' = IF Completes[release] THEN "reverted" ELSE "revert failed"
    /\ UNCHANGED <<release, backups, runs>>

Next ==
    \/ Refuse \/ Start \/ Patch \/ Fail \/ Interrupt \/ Finish
    \/ \E b \in DOMAIN backups : Revert(b)

Spec == Init /\ [][Next]_vars

TypeOK ==
    /\ release \in Releases
    /\ DOMAIN tree = Places /\ DOMAIN draft = Places
    /\ pc \in Nat \ {0}
    /\ is310 \in BOOLEAN
    /\ status \in {"fresh", "refused", "running", "failed", "stopped", "done", "reverted", "revert failed"}
    /\ runs \in 0 .. MaxRuns
    /\ Len(backups) <= runs
    /\ \A b \in 1 .. Len(backups) : DOMAIN backups[b] = Backed(release)

(***************************************************************************)
(* Whatever runs fail, are interrupted and are repeated, and whichever     *)
(* backup is restored in between: the oldest backup holds upstream's text  *)
(* of every file it lists, and a text that differs from upstream's is in   *)
(* that backup, or is not upstream's at all (apply-overlay.sh backs up     *)
(* before it copies and edits), with the named exceptions.                 *)
(***************************************************************************)
Recoverable ==
    \A p \in Places :
        \/ tree[p] = Upstream[release][p]
        \/ p \in DOMAIN Overlay \/ p[1] \in Unlisted[release]
        \/ backups # <<>> /\ p \in DOMAIN backups[1] /\ backups[1][p] = Upstream[release][p]
================================================================================
