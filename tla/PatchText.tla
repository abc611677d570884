------------------------------- MODULE PatchText -------------------------------
(***************************************************************************)
(* The text model of the source patcher (src/scripts/ *.py) and the edits  *)
(* its helper functions make.                                              *)
(*                                                                         *)
(* A place is a pair <<file, part>>: a file of the 3x-ui tree and the      *)
(* stretch of it that some edits anchor in.  The text of a place is a      *)
(* sequence of tokens: a token stands for a line, a list member or a       *)
(* switch arm that the scripts look for or insert as a whole.              *)
(***************************************************************************)
EXTENDS Integers, Sequences, FiniteSets

Occurrences(t, old) ==
    {i \in 1 .. Len(t) - Len(old) + 1 : SubSeq(t, i, i + Len(old) - 1) = old}

Has(t, old) == Occurrences(t, old) # {}

ReplaceAt(t, i, old, new) ==
    SubSeq(t, 1, i - 1) \o new \o SubSeq(t, i + Len(old), Len(t))

FirstIn(S) == CHOOSE i \in S : \A j \in S : i <= j

ReplaceFirst(t, old, new) ==
    ReplaceAt(t, FirstIn(Occurrences(t, old)), old, new)

(***************************************************************************)
(* An edit: the discipline of the helper that makes it, the place, and the *)
(* anchors with their replacements, in the order in which they are tried.  *)
(* A step of a script is the edits it writes back together.                *)
(***************************************************************************)
EditAt(op, at, alts) == <<[op |-> op, at |-> at, alts |-> alts]>>
Edit(op, at, old, new) == EditAt(op, at, <<[old |-> old, new |-> new]>>)

\* v2_patchlib.Patcher.rep: already applied is fine, otherwise the anchor must
\* be there; its first occurrence is replaced.
Rep(at, old, new) == Edit("lenient", at, old, new)

\* Patcher.rep under an if on a text that tells the releases apart: the release
\* chooses the alternative, also when it is already applied.
ByMarker(at, alts) == EditAt("marked", at, alts)

\* replace_once of the v15 scripts: the same, but the anchor must be unique.
Once(at, old, new) == Edit("once", at, old, new)

\* remove_once of the v15 scripts: nothing to remove is fine, twice is not.
Remove(at, old) == Edit("remove", at, old, <<>>)

\* The edit functions that insist on exactly one occurrence.
Exact(at, old, new) == Edit("exact", at, old, new)

\* The edit functions that insist on an occurrence and replace the first.
Strict(at, old, new) == Edit("strict", at, old, new)

\* The edit functions that return when the replacement is already there.
Guarded(at, old, new) == Edit("guarded", at, old, new)

\* str.replace or re.sub without a check.
Try(at, old, new) == Edit("try", at, old, new)

\* An edit whose anchor no other script touches replaces, or is put beside,
\* the one token of a place of its own.
Own(op, at) == Edit(op, at, <<"old">>, <<"new">>)
OwnIns(op, at) == Edit(op, at, <<"old">>, <<"old", "new">>)

\* The anchor the helper works with: the first that occurs, else the last.
AnchorOf(e, t) ==
    LET found == {i \in DOMAIN e.alts :
                     Has(t, e.alts[i].old) \/ (e.op = "marked" /\ Has(t, e.alts[i].new))}
    IN  e.alts[IF found = {} THEN Len(e.alts) ELSE FirstIn(found)]

\* The helper returns without touching the file.
Skips(op, a, t) ==
    \/ op \in {"lenient", "marked", "once"} /\ Has(t, a.new) /\ ~Has(t, a.old)
    \/ op = "guarded" /\ Has(t, a.new)
    \/ op \in {"remove", "try"} /\ ~Has(t, a.old)

\* The helper raises SystemExit or AssertionError.
Raises(op, a, t) ==
    /\ ~Skips(op, a, t)
    /\ \/ ~Has(t, a.old)
       \/ op \in {"once", "remove", "exact"} /\ Cardinality(Occurrences(t, a.old)) > 1

EditFails(e, t) == Raises(e.op, AnchorOf(e, t), t)

EditText(e, t) ==
    LET a == AnchorOf(e, t)
    IN  IF Skips(e.op, a, t) THEN t ELSE ReplaceFirst(t, a.old, a.new)

\* The QR modal that upstream 3.10 removed, and the marker file that makes
\* Patcher.rep pass over it.
Qr == "frontend/src/pages/inbounds/qr/QrCodeModal.tsx"
Flag == ".3xpatcher-upstream-310"
FlagAt == <<Flag, "">>

Exempt(tree, e) == e.op = "lenient" /\ e.at[1] = Qr /\ tree[FlagAt] = <<"set">>

EditTree(tree, e) ==
    IF Exempt(tree, e) THEN tree ELSE [tree EXCEPT ![e.at] = EditText(e, @)]
================================================================================
