----------------------------- MODULE PatchUpstream -----------------------------
(***************************************************************************)
(* What the patcher works on and in which order: the 3x-ui releases it     *)
(* supports (their texts are external, read off the anchors of the         *)
(* scripts), the overlay files, the script sequence of apply-overlay.sh,   *)
(* its list of files to back up, and the two lists of revert-overlay.sh.   *)
(* "next" is a later 3.11 in which an anchor of the last scripts moved.    *)
(***************************************************************************)
EXTENDS PatchXhttp, TLC

AllReleases == {"3.7", "3.8", "3.9", "3.10", "3.11", "next"}
ByRelease(Of(_)) ==
    "3.7" :> Of("3.7") @@ "3.8" :> Of("3.8") @@ "3.9" :> Of("3.9") @@ "3.10" :> Of("3.10")
    @@ "3.11" :> Of("3.11") @@ "next" :> Of("next")
Is311(r) == r \in {"3.11", "next"}
Masque(r) == IF r = "3.10" \/ Is311(r) THEN <<"masque">> ELSE <<>>

\* The edits of a step are written back with its last one.
Written(step) == [i \in DOMAIN step |-> [edit |-> step[i], write |-> i = Len(step)]]
Run(script) ==
    LET first[n \in 0 .. Len(script)] == IF n = 0 THEN <<>> ELSE first[n - 1] \o Written(script[n])
    IN  first[Len(script)]

(* The scripts in order; v21-run runs from v20, v23 from v22. *)
Main ==
    Run(V15Pre) \o Run(V15Go) \o Run(V15Ui) \o Run(V15TuicFrontend) \o Run(V2Backend)
    \o Run(V2Subscription) \o Run(V2Frontend) \o Run(V3) \o Run(V5) \o Run(V6Backend)
    \o Run(V6Frontend) \o Run(V6Subscription) \o Run(V7) \o Run(V8) \o Run(V9) \o Run(V10)
    \o Run(V11) \o Run(V11Final) \o Run(V12) \o Run(V13Backend) \o Run(V13Frontend) \o Run(V14)
    \o Run(V16) \o Run(V17) \o Run(V18) \o Run(V19) \o Run(V20) \o Run(V21Defaults)
    \o Run(V21Selector) \o Run(V21Owner) \o Run(V21Form) \o Run(V22) \o Run(V23)

Late(r) ==
    Run(DisableSponsors(r)) \o Run(V26) \o Run(V27) \o Run(V28) \o Run(V29(r)) \o Run(V30) \o Run(V31)

Masked == Run(V24Pre) \o Main \o Run(V24Post)
ProgramOf(r) == TRUE :> (Masked \o Late(r)) @@ FALSE :> (Main \o Late(r))
Programs == ByRelease(ProgramOf)

EveryEdit == Masked \o Late("3.10") \o Late("3.11")

(* Files that apply-overlay.sh copies into the tree, and their texts: those *)
(* that scripts edit, and those that stay as they are copied.               *)
EditedOverlay ==
    {SbConfig, Integrated, MieruConfig, Protocols, SubLinks, SubClash, SubTuic, TrafficJob, SupplementalTls,
     SingboxTs, SingboxTsx, UiSupplemental}
RuntimeOverlay ==
    {"internal/singbox/runtime.go", "internal/singbox/reality.go", "internal/singbox/selfsigned.go",
     "internal/singbox/selfsigned_util.go", "internal/singbox/stats.go", "internal/mieru/runtime.go",
     "internal/mieru/integrated.go", "internal/mieru/stats.go"}
PanelOverlay ==
    {"internal/sub/singbox_links_test.go", "internal/sub/mieru_links.go", "internal/sub/mieru_clash.go",
     "internal/web/controller/singbox_cert.go", "internal/web/service/supplemental_online.go"}
SubXhttp == "internal/sub/xhttp_download.go"
ManagedGateway == "internal/web/service/xhttp_managed_gateway.go"
CopiedOverlay == RuntimeOverlay \cup PanelOverlay \cup {SubXhttp, ManagedGateway}
OverlayFiles == EditedOverlay \cup CopiedOverlay

AllPlaces == {EveryEdit[i].edit.at : i \in DOMAIN EveryEdit} \cup {<<f, "">> : f \in CopiedOverlay}
OverlayPlaces == {p \in AllPlaces : p[1] \in OverlayFiles}
OverlayTexts ==
    [p \in OverlayPlaces |->
        CASE p = SbLoop -> <<"seen", "render", "extra">>
          [] p = SbSwitches -> <<"validateCommon", "renderInbound", "ShadowTLS">>
          [] p = <<Integrated, "tls">> -> <<"missing tls", "tls out">>
          [] p = SbForm -> <<"handshake", "NaiveFields">>
          [] p = SbDivider -> <<"left">>
          [] p = UiLinks -> <<"mieru">>
          [] p = LinkArms -> <<"Naive">>
          [] p = <<TrafficJob, "snell">> -> <<"job">>
          [] p = <<SupplementalTls, "owner">> -> <<"protocol">>
          [] OTHER -> <<"old">>]

(* The stretches of upstream that several scripts edit, by release. *)
TuicLast(r) == <<"amneziawg", "tuic">> \o Masque(r) \o <<"end">>

TuicLists ==
    {OneOf, Enum, Map, Tabs, Rollup, MultiUser, Union, Attach(ClientForm), Attach(ClientBulk)}

SharedGo(r) ==
    [at \in TuicLists |-> TuicLast(r)]
    @@ Sql :> <<"mtproto", "tuic">> \o Masque(r) \o <<"end">>
    @@ KeepStream :> <<"wireguard", "tunnel">> \o Masque(r) \o <<"end">>
    @@ AddCheck :> <<"hysteria", "wireguard", "native tuic">>
    @@ UpdateCheck :> <<"native tuic">>
    @@ ApplyCase :> <<"hysteria", "wireguard", "native tuic", "id: hysteria", "id: wireguard">>
    @@ CrudCase :> (IF Is311(r) THEN <<"switch", "tuic+relay", "hysteria", "mtproto">>
                                ELSE <<"switch", "hysteria", "mtproto", "tuic">>)
    @@ CopyCase :> <<"hysteria", "mtproto", "tuic">>
    @@ XrayLoop :> <<"inbounds", "for", "skip native", "skip tuic", "end">>
    @@ XrayTail :> <<"drop refused">>
    @@ XrayImport :> <<"model", "logger">>
    @@ LocalImport :> <<"mtproto">>
    @@ [at \in {LocalAt("AddInbound"), LocalAt("DelInbound"), LocalAt("UpdateInbound")} |-> <<"func", "mtproto">>]
    @@ [at \in {LocalAt("AddUser"), LocalAt("RemoveUser")} |->
           IF Is311(r) THEN <<"func", "tuic", "mtproto|amneziawg">> ELSE <<"func", "mtproto|amneziawg|tuic">>]
    @@ LinkCase :> <<"amneziawg", "tuic: native", "end">>
    @@ JsonSkip :> <<"func", "body">>
    @@ ClashBuild :> <<"func", "hysteria">>
    @@ ClashProxies :> <<"external", "default">>
    @@ ClashXhttp :> <<"signature", "path", "call">>
    @@ <<Inbound, "addTls">> :> <<"normalise", "validate">>
    @@ <<InboundTuic, "loop">> :> (CASE r = "3.7" -> <<"missing">> [] r = "3.8" -> <<"instance">>
                                   [] Is311(r) -> <<"configured">> [] OTHER -> <<"build">>)
    @@ <<PortConflict, "">> :> <<"upstream check">>
    @@ [at \in {<<ModelTuic, "">>, <<SbTuic, "">>} |-> <<"missing">>]
    @@ FlagAt :> <<"absent">>

SharedUi(r) ==
       TypeUnion :> <<"mtproto">> \o TuicLast(r)
    @@ FactoryCase :> <<"amneziawg", "tuic">> \o Masque(r) \o <<"default">>
    @@ InfoList :> <<"mtproto", "tuic", "end">>
    @@ [at \in {CanTls, TlsImport, TlsOnly} |-> <<"hysteria">> \o Masque(r) \o <<"end">>]
    @@ CanSniff :> <<"mtproto", "amneziawg", "tuic", "end">>
    @@ TuicImport :> <<"amneziawg", "tuic">>
    @@ TrojanExport :> <<"trojan", "tuic">>
    @@ TuicTypes :> <<"client", "settings">>
    @@ SchemaImport :> <<"amneziawg">>
    @@ TypeImport :> <<"wireguard">>
    @@ Factories :> <<"tuic: native", "amneziawg">>
    @@ FieldExports :> <<"amneziawg", "tuic: native", "eof">>
    @@ FieldImport :> <<"tuic: native", "tun", "tunnel", "vless">>
    @@ Render :> <<"tuic: native", "mtproto", "shadowsocks">>
    @@ TlsList :> <<"strategies">>
    @@ Reset :> <<"wireguard|tunnel">>
    @@ SecurityTab :> <<"sniffing">>
    @@ SelfSigned :> <<"context", "fields">>
    @@ TlsDivider :> <<"sni">>
    @@ <<TlsForm, "antd">> :> (IF Is311(r) THEN <<"Button", "Form">> ELSE <<"Button one line">>)
    @@ <<Links, "genLink">> :> <<"tuic", "mtproto", "default">>
    @@ Badges :> <<"native">>
    @@ <<TuicTs, "schema">> :> (IF Is311(r) THEN <<"old 3.11">> ELSE <<"old">>)
    @@ <<TuicTsx, "render">> :> <<"return">>
    @@ DownloadSchema :> <<"preprocess">>
    @@ XhttpImports :> <<"antd", "wire">>
    @@ XhttpState :> <<"xmux">>
    @@ XhttpCard :> (IF r = "next" THEN <<"moved">> ELSE <<"eof">>)

HasQr(r) == r \in {"3.7", "3.8", "3.9"}

\* The anchors that upstream 3.11 reworded.
Reworded ==
    {e.edit.at : e \in {f \in {EveryEdit[i] : i \in DOMAIN EveryEdit} :
                           \E k \in DOMAIN f.edit.alts : f.edit.alts[k].old = <<"old 3.11">>}}

\* Everywhere else one token stands for the stretch an edit replaces.
Plain(r, reworded) ==
    [p \in AllPlaces |->
        IF p[1] \in OverlayFiles \/ (p[1] = Qr /\ ~HasQr(r)) THEN <<"missing">>
        ELSE IF p[2] = "sponsor" THEN <<"sponsor">>
        ELSE IF p \in reworded /\ Is311(r) THEN <<"old 3.11">>
        ELSE <<"old">>]

UpstreamOf(r) == SharedGo(r) @@ SharedUi(r) @@ Plain(r, Reworded)
UpstreamTexts == ByRelease(UpstreamOf)

(* The files that apply-overlay.sh requires and backs up. *)
Modified(r) ==
    {Model, Inbound, InboundTuic, NodeGo, ServiceServer, Crud, Apply, Clients, Xray, WebGo, ServerGo, Local,
     SubService, HostSub, JsonSub, ClashSub, SubController, XhttpTs, XhttpTsx, FormAdapter, WireNormalize, Links,
     InboundForm, ProtocolTs, Schemas, TuicTs, TlsSchema, Defaults, Capabilities, InboundsPage, Fields, TuicTsx,
     FormModal, TlsForm, InfoHelpers, InfoModal, ListHelpers, RowActions, ListTypes, Columns, UseInbounds,
     ClientForm, ClientBulk}
    \cup (IF SponsorFiles(r) = <<>> THEN {}
          ELSE {IndexController, IndexPage, LoginPage, Sidebar, Palette, Routes}
               \cup (IF Is311(r) THEN {PanelRoutes} ELSE {}))
    \cup (IF HasQr(r) THEN {Qr} ELSE {})
    \cup (IF Is311(r) THEN {PortConflict} ELSE {})
ModifiedFiles == ByRelease(Modified)

(* revert-overlay.sh: what it copies back, in order, and what it removes. *)
RevertList ==
    <<Model, Inbound, NodeGo, ServiceServer, Crud, Apply, Clients, Xray, WebGo, ServerGo, Local, SubService,
      JsonSub, ClashSub, SubController, ProtocolTs, Schemas, TlsSchema, Defaults, Capabilities, Links,
      InboundsPage, Fields, FormModal, TlsForm, InfoHelpers, InfoModal, ListHelpers, RowActions, ListTypes,
      Columns, Qr, UseInbounds, ClientForm, ClientBulk>>
RevertStops(r) == {i \in DOMAIN RevertList : RevertList[i] \notin Modified(r)}
RevertsBefore(stops) ==
    {RevertList[i] : i \in {j \in DOMAIN RevertList : \A k \in stops : j < k}}
RevertReach(r) == RevertsBefore(RevertStops(r))
RevertReaches == ByRelease(RevertReach)
RevertWhole(r) == RevertStops(r) = {}
RevertCompletes == ByRelease(RevertWhole)
RevertRemoves ==
    {SbConfig, Integrated, SbTuic, MieruConfig, Protocols, SubLinks, SubClash, TrafficJob, SingboxTs, SingboxTsx,
     UiSupplemental} \cup RuntimeOverlay \cup PanelOverlay
================================================================================
