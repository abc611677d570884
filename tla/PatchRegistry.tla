----------------------------- MODULE PatchRegistry -----------------------------
(***************************************************************************)
(* What the patched tree must be, for the releases and scripts of the      *)
(* repository: the properties of PatchPipeline that speak of its tables.   *)
(***************************************************************************)
EXTENDS PatchPipeline, PatchUpstream

CONSTANTS
    Between,  \* Between[r][p]: the texts that place p may have between runs
    During,   \* During[r][b][p][i]: those that a run may have of it before edit i
    First     \* First[r][p][i]: the text that the first run has of it before edit i

\* The lists that have to agree on the protocols the panel knows: the model's
\* validator, the SQL filter of subscriptions, the enums, schemas, form
\* tabs and selectors of the user interface.
Registries ==
    {OneOf, Sql, Enum, Map, Tabs, MultiUser, Rollup, Attach(ClientForm), Attach(ClientBulk)}

Protocol == {"tuic", "anytls", "shadowtls", "naive", "snell", "mieru"}
Count(text, x) == Cardinality({i \in DOMAIN text : text[i] = x})

MasqueLists ==
    Registries \cup {Union, TypeUnion, FactoryCase, KeepStream, CanTls, TlsImport, TlsOnly}

\* What a first run, or one on whatever an earlier run left, may read at the
\* marker, which decides on the v24 passes.
MarkerReads(r) == {Has(t, Marked) : t \in Between[r][Marker]}

\* Every registry is a place of an upstream file; every script writes its
\* last file back.
ASSUME ScriptsAssumption ==
    /\ Marker \in MasqueLists
    /\ \A p \in MasqueLists :
          p \in Places /\ p \notin DOMAIN Overlay /\ p[1] \notin Deleted \cup {Qr}
    /\ \A r \in Releases, b \in BOOLEAN :
          LET n == Len(Program[r][b]) IN n \in Nat \ {0} /\ Program[r][b][n].write

\* Between and During hold upstream's texts and whatever one edit makes of
\* one of their own, of one place at a time.
ASSUME TextsAssumption ==
    \A r \in Releases, p \in MasqueLists :
        /\ Upstream[r][p] \in Between[r][p]
        /\ \A b \in MarkerReads(r) :
              /\ \A t \in Between[r][p] :
                    (p = Marker => Has(t, Marked) = b) => t \in During[r][b][p][1]
              /\ \A i \in DOMAIN Program[r][b] :
                    LET step == Program[r][b][i]
                        after ==
                          IF step.edit.at # p THEN During[r][b][p][i]
                          ELSE {EditText(step.edit, t) :
                                  t \in {u \in During[r][b][p][i] : ~EditFails(step.edit, u)}}
                    IN  /\ after \subseteq During[r][b][p][i + 1]
                        /\ step.write => after \subseteq Between[r][p]

\* What they hold of a place at the end of a run is as it should be.
ASSUME EndsAssumption ==
    \A r \in Releases : \A b \in MarkerReads(r) :
        LET Ends(p) == During[r][b][p][Len(Program[r][b]) + 1]
        IN  /\ \A p \in Registries : \A t \in Ends(p) : \A x \in Protocol : Count(t, x) = 1
            /\ b => \A p \in MasqueLists : \A t \in Ends(p) :
                      Count(t, "masque") = Count(Upstream[r][p], "masque")

\* The passes that the first run makes, and the tree it works on.
FirstPasses(r) == Has(Upstream[r][Marker], Marked)
FirstTree(r, i) == [p \in Places |-> First[r][p][i]]

\* The releases whose first run gets past the precheck and is meant to get
\* to its end.
Supported ==
    {r \in Releases \ {"next"} :
        \A p \in Places : p[1] \in Listed[r] => Upstream[r][p] # <<"missing">>}

\* First tells the history of every place by itself: copied from the overlay
\* or found in upstream, then changed by the edits of this place, each of
\* which finds its anchor in what the ones before it left.
ASSUME FirstAssumption ==
    \A r \in Supported :
        LET script == Program[r][FirstPasses(r)]
        IN  /\ \A i \in DOMAIN script : script[i].edit.at \in Places
            /\ \A p \in Places :
                  /\ First[r][p][1] = IF p \in DOMAIN Overlay THEN Overlay[p] ELSE Upstream[r][p]
                  /\ \A i \in DOMAIN script :
                        LET e == script[i].edit
                            text == First[r][p][i]
                        IN  IF e.at # p \/ Exempt(FirstTree(r, i), e)
                            THEN First[r][p][i + 1] = text
                            ELSE ~EditFails(e, text) /\ First[r][p][i + 1] = EditText(e, text)

\* The first run on an upstream tree finds every anchor of its thirty scripts,
\* those that other scripts write included; only a release that moved an
\* anchor makes it fail.
AnchorsHold == status = "failed" /\ runs = 1 => release = "next"

\* A finished run, the first or a repeated one, has every supplemental
\* protocol once in every list that names protocols.
RegisteredOnce ==
    status = "done" => \A at \in Registries : \A x \in Protocol : Count(tree[at], x) = 1

\* MASQUE is back in every list that upstream had it in after a run that
\* took it out.  (A run that finds it already taken out does not put it back.)
MasqueRestored ==
    status = "done" /\ is310 =>
        \A at \in MasqueLists :
            Count(tree[at], "masque") = Count(Upstream[release][at], "masque")

\* The files that a revert leaves as the last run made them: those its first
\* list has forgotten, and the new ones that its second does not remove
\* (tuic_runtime.go, supplemental_tls.go, xhttp_download.go and
\* xhttp_managed_gateway.go are copied by every run).
LeftBehind ==
    {InboundTuic, HostSub, XhttpTs, XhttpTsx, FormAdapter, WireNormalize, InboundForm, TuicTs, TuicTsx,
     ShadowsocksTsx, ModelTuic, SupplementalTls, SubTuic, SubXhttp, ManagedGateway, Flag}
        \cup {IndexController, IndexPage, LoginPage, Sidebar, Palette, Routes}

\* Every place that a run may change and that a complete revert neither copies
\* back nor removes as new is in a file left behind.
ASSUME RevertAssumption ==
    \A r \in Releases : Completes[r] =>
        \A p \in Places :
            \/ p[1] \in LeftBehind \cup Reached[r]
            \/ p[1] \in Deleted /\ Upstream[r][p] = <<"missing">>
            \/ p \notin DOMAIN Overlay /\ p[1] \notin Listed[r] \cup Unlisted[r]

\* A revert from the first backup that gets to its end gives upstream back,
\* of every file that a run edits, creates or copies (all 27 of the overlay),
\* but for the files its lists do not name.
RevertGivesUpstream ==
    [][status' = "reverted" /\ Revert(1) =>
          \A p \in Places : tree'[p] # Upstream[release][p] => p[1] \in LeftBehind]_vars
================================================================================
