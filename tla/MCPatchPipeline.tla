---------------------------- MODULE MCPatchPipeline ----------------------------
(***************************************************************************)
(* TLC instance of PatchPipeline: the tables of the repository.  (TLC      *)
(* evaluates a definition that replaces a constant at every use, and keeps *)
(* the value of the definitions it refers to: hence the short names.)      *)
(***************************************************************************)
EXTENDS PatchRegistry, Functions

MCReleases == AllReleases
MCPlaces == AllPlaces
MCUpstream == UpstreamTexts
MCOverlay == OverlayTexts
MCListed == ModifiedFiles
MCProgram == Programs
MCReached == RevertReaches
MCCompletes == RevertCompletes
MCDeleted == RevertRemoves

MCMarked == <<"amneziawg", "tuic", "masque">>
MCUnlisted ==
    [r \in AllReleases |->
        {ShadowsocksTsx, ModelTuic, SbTuic, Flag} \cup (IF HasQr(r) THEN {} ELSE {Qr})]

(* The texts of one place: the edits that touch it, what they lead to from *)
(* given texts, and everything that runs lead to from upstream's.          *)
Indices(r, b, p) == {i \in DOMAIN Programs[r][b] : Programs[r][b][i].edit.at = p}
IndicesAt ==
    [r \in AllReleases |-> [b \in BOOLEAN |-> [p \in MasqueLists |-> Indices(r, b, p)]]]
NthOf(S, k) == CHOOSE i \in S : Cardinality({j \in S : j <= i}) = k

RECURSIVE Stages(_, _, _)
Stages(edits, from, made) ==
    IF edits = <<>> THEN Append(made, from)
    ELSE LET e == Head(edits)
         IN  Stages(Tail(edits), {EditText(e, t) : t \in {u \in from : ~EditFails(e, u)}},
                    Append(made, from))

StagesOf(r, b, p, from) ==
    LET S == IndicesAt[r][b][p]
    IN  Stages([k \in 1 .. Cardinality(S) |-> Programs[r][b][NthOf(S, k)].edit],
               IF p = OneOf THEN {t \in from : Has(t, MCMarked) = b} ELSE from, <<>>)

RECURSIVE Closure(_, _, _, _)
Closure(r, p, reads, from) ==
    LET made == UNION {UNION Range(StagesOf(r, b, p, from)) : b \in reads}
    IN  IF made \subseteq from THEN from ELSE Closure(r, p, reads, from \cup made)

OneOfTexts == [r \in AllReleases |-> Closure(r, OneOf, BOOLEAN, {UpstreamTexts[r][OneOf]})]
Reads(r) == {Has(t, MCMarked) : t \in OneOfTexts[r]}
TextsBetween ==
    [r \in AllReleases |->
        [p \in MasqueLists |-> Closure(r, p, Reads(r), {UpstreamTexts[r][p]})]]
TextsDuring ==
    [r \in AllReleases |-> [b \in BOOLEAN |-> [p \in MasqueLists |->
        LET made == StagesOf(r, b, p, TextsBetween[r][p])
            S == IndicesAt[r][b][p]
        IN  [i \in 1 .. Len(Programs[r][b]) + 1 |-> made[Cardinality({j \in S : j < i}) + 1]]]]]

(* The history of one place in the first run: the edits of a modal that is *)
(* gone are passed over.                                                   *)
RECURSIVE History(_, _, _)
History(edits, text, made) ==
    IF edits = <<>> THEN Append(made, text)
    ELSE History(Tail(edits), EditText(Head(edits), text), Append(made, text))

HistoryOf(r, b, p) ==
    LET S == Indices(r, b, p)
        steps == SelectSeq(Programs[r][b], LAMBDA step : step.edit.at = p)
        edits == [k \in DOMAIN steps |-> steps[k].edit]
        made == History(IF p[1] = Qr /\ ~HasQr(r) THEN <<>> ELSE edits,
                        IF p \in OverlayPlaces THEN OverlayTexts[p] ELSE UpstreamTexts[r][p], <<>>)
        before == [i \in 1 .. Len(Programs[r][b]) + 1 |-> Cardinality({j \in S : j < i}) + 1]
    IN  [i \in DOMAIN before |-> made[IF before[i] <= Len(made) THEN before[i] ELSE Len(made)]]

FirstTexts ==
    [r \in {"3.8", "3.9", "3.10", "3.11"} |->
        [p \in AllPlaces |-> HistoryOf(r, Has(UpstreamTexts[r][OneOf], MCMarked), p)]]

MCFirst == FirstTexts
MCBetween == TextsBetween
MCDuring == TextsDuring

================================================================================
