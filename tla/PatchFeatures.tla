----------------------------- MODULE PatchFeatures -----------------------------
(***************************************************************************)
(* The scripts that add the supplemental protocols to the panel: v2, v3,   *)
(* v5, v6 and v7 to v14.  One operator per script (or per half of a long   *)
(* one), one line per edit.  Edits of one script to one file whose anchors *)
(* no other script touches are one Own edit.                               *)
(***************************************************************************)
EXTENDS PatchCompat

Integrated == "internal/singbox/integrated.go"
SbConfig == "internal/singbox/config.go"
Protocols == "internal/database/model/singbox_protocols.go"
JsonSub == "internal/sub/json_service.go"
ClashSub == "internal/sub/clash_service.go"
SubController == "internal/sub/controller.go"
ServerGo == "internal/web/controller/server.go"
TlsSchema == "frontend/src/schemas/protocols/security/tls.ts"
TlsForm == "frontend/src/pages/inbounds/form/security/tls.tsx"
MieruConfig == "internal/mieru/config.go"
WebGo == "internal/web/web.go"
NodeGo == "internal/web/service/inbound_node.go"
ServiceServer == "internal/web/service/server.go"
TrafficJob == "internal/web/job/supplemental_traffic_job.go"
SubLinks == "internal/sub/singbox_links.go"
SubClash == "internal/sub/singbox_clash.go"
SingboxTs == "frontend/src/schemas/protocols/inbound/singbox.ts"
SingboxTsx == "frontend/src/pages/inbounds/form/protocols/singbox.tsx"
ShadowsocksTsx == "frontend/src/pages/inbounds/form/protocols/shadowsocks.tsx"
UiSupplemental == "frontend/src/lib/xray/supplemental-links.ts"
Columns == "frontend/src/pages/inbounds/list/useInboundColumns.tsx"
ListTypes == "frontend/src/pages/inbounds/list/types.ts"
InfoModal == "frontend/src/pages/inbounds/info/InboundInfoModal.tsx"
InboundsPage == "frontend/src/pages/inbounds/InboundsPage.tsx"
RowActions == "frontend/src/pages/inbounds/list/RowActions.tsx"

XrayImport == <<Xray, "import">>
LocalImport == <<Local, "import">>
ClashBuild == <<ClashSub, "buildProxy">>
JsonSkip == <<JsonSub, "skip">>
SchemaImport == <<Schemas, "singboxImport">>
TypeImport == <<Defaults, "singboxImport">>
Reset == <<FormModal, "reset">>
TlsList == <<FormModal, "tlsList">>
SecurityTab == <<FormModal, "securityTab">>
SelfSigned == <<TlsForm, "selfSigned">>
TlsDivider == <<TlsForm, "divider">>
Badges == <<Columns, "badges">>
SbLoop == <<SbConfig, "loop">>
SbSwitches == <<SbConfig, "switches">>
SbForm == <<SingboxTsx, "fields">>
SbDivider == <<SingboxTsx, "divider">>
ClashProxies == <<ClashSub, "proxies">>
LinkArms == <<SubLinks, "arms">>
UiLinks == <<UiSupplemental, "arms">>

Supplemental == <<"tuic">> \o Patched

\* An anchor before which the older upstream list ended.
Append4(at, last) == Rep(at, <<last, "end">>, <<last>> \o Supplemental \o <<"end">>)

V2Backend ==
    << Append4(OneOf, "amneziawg"), Append4(KeepStream, "tunnel"),
       Rep(AddCheck, <<"hysteria", "wireguard">>,
           <<"hysteria", "tuic", "anytls shadowtls naive", "wireguard">>),
       Rep(CrudCase, <<"hysteria", "mtproto">>,
           <<"hysteria", "tuic", "anytls shadowtls naive", "mtproto">>),
       Rep(ApplyCase, <<"hysteria", "wireguard">>,
           <<"hysteria", "tuic", "anytls shadowtls naive", "wireguard">>),
       Rep(ApplyCase, <<"id: hysteria", "id: wireguard">>,
           <<"id: hysteria", "id: tuic", "anytls shadowtls naive", "id: password", "id: wireguard">>),
       Rep(CopyCase, <<"hysteria", "mtproto">>,
           <<"hysteria", "tuic", "anytls shadowtls naive", "mtproto">>),
       Rep(XrayImport, <<"logger">>, <<"logger", "sbox">>),
       Rep(XrayLoop, <<"inbounds", "for">>, <<"inbounds", "singbox.Reconcile", "for">>),
       Rep(XrayLoop, <<"skip native", "end">>, <<"skip native", "skip singbox", "end">>),
       Rep(LocalImport, <<"mtproto">>, <<"mtproto", "sbox">>),
       Rep(LocalAt("AddInbound"), <<"func", "mtproto">>, <<"func", "singbox", "mtproto">>),
       Rep(LocalAt("DelInbound"), <<"func", "mtproto">>, <<"func", "singbox", "mtproto">>),
       Rep(LocalAt("UpdateInbound"), <<"func", "mtproto">>, <<"func", "singbox", "mtproto">>),
       Rep(LocalAt("AddUser"), <<"func", "mtproto|amneziawg">>, <<"func", "singbox", "mtproto|amneziawg">>),
       Rep(LocalAt("RemoveUser"), <<"func", "mtproto|amneziawg">>, <<"func", "singbox", "mtproto|amneziawg">>) >>

V2Subscription ==
    << Append4(Sql, "mtproto"),
       Rep(LinkCase, <<"amneziawg", "end">>, <<"amneziawg", "tuic anytls shadowtls naive: singbox", "end">>),
       Rep(JsonSkip, <<"func", "body">>, <<"func", "skip singbox", "body">>),
       Rep(ClashBuild, <<"func", "hysteria">>, <<"func", "singbox", "hysteria">>),
       Append4(Attach(ClientForm), "amneziawg"), Append4(Attach(ClientBulk), "amneziawg") >>

V2Frontend ==
    << Append4(Enum, "amneziawg"), Append4(Map, "amneziawg"),
       Rep(SchemaImport, <<"amneziawg">>, <<"amneziawg", "anytls naive shadowtls tuic">>),
       OwnIns("lenient", <<Schemas, "singboxExport">>),
       Append4(Union, "amneziawg"),
       Rep(TypeImport, <<"wireguard">>, <<"wireguard", "anytls naive shadowtls tuic">>),
       Rep(Factories, <<"amneziawg">>, <<"tuic", "anytls", "shadowtls", "naive", "amneziawg">>),
       Append4(TypeUnion, "amneziawg"),
       Rep(FactoryCase, <<"amneziawg", "default">>, <<"amneziawg">> \o Supplemental \o <<"default">>),
       Rep(FieldExports, <<"amneziawg">>, <<"amneziawg", "anytls naive shadowtls tuic">>),
       Rep(CanTls, <<"hysteria", "end">>, <<"hysteria", "tuic", "anytls", "naive", "end">>),
       Rep(CanSniff, <<"mtproto", "amneziawg", "end">>, <<"mtproto", "amneziawg">> \o Supplemental \o <<"end">>),
       Rep(FieldImport, <<"tun", "tunnel", "vless">>, <<"tun", "tunnel">> \o Supplemental \o <<"vless">>),
       Rep(TlsList, <<"strategies">>, <<"strategies", "tuic", "anytls", "naive", "end">>),
       Rep(TlsImport, <<"hysteria", "end">>, <<"hysteria", "tls", "end">>),
       Rep(Reset, <<"wireguard|tunnel">>, <<"tls list", "shadowtls", "wireguard|tunnel">>),
       Rep(Render, <<"mtproto", "shadowsocks">>, <<"mtproto">> \o Supplemental \o <<"shadowsocks">>),
       Rep(TlsOnly, <<"hysteria", "end">>, <<"hysteria", "supplemental", "end">>),
       Append4(Tabs, "amneziawg"),
       Rep(SecurityTab, <<"sniffing">>, <<"tls security", "sniffing">>) >>

V3 ==
    << Append4(MultiUser, "amneziawg"),
       OwnIns("lenient", <<RowActions, "attach">>),
       Rep(<<Integrated, "tls">>, <<"missing tls", "tls out">>,
           <<"missing tls", "self signed", "tls out">>),
       Own("lenient", <<TlsSchema, "certificateMode">>),
       OwnIns("lenient", <<ServerGo, "route">>),
       OwnIns("lenient", <<TlsForm, "reactImport">>),
       EditAt("lenient", <<TlsForm, "antd">>,
              << [old |-> <<"Button one line">>, new |-> <<"Button one line with Divider">>],
                 [old |-> <<"Button", "Form">>, new |-> <<"Button", "Divider", "Form">>] >>),
       OwnIns("lenient", <<TlsForm, "httpUtil">>),
       Rep(SelfSigned, <<"context", "fields">>, <<"context", "generate", "key path", "fields">>),
       Rep(TlsDivider, <<"sni">>, <<"sni", "divider left">>),
       OwnIns("lenient", <<TlsForm, "nativeOpen">>),
       Own("lenient", <<TlsForm, "nativeClose">>) >>

V5 == << Own("lenient", <<Capabilities, "canReality">>) >>

\* A list that ends with Naive after v2 gets Mieru.
AddMieru(at) == Rep(at, <<"naive", "end">>, <<"naive", "mieru", "end">>)

\* The Mieru branch of the local runtime is put before the sing-box branch.
MieruFirst(fn) == Rep(LocalAt(fn), <<"func", "singbox">>, <<"func", "mieru", "singbox">>)

\* A switch arm shared by the password protocols.
ShareArm(at) == Rep(at, <<"anytls shadowtls naive">>, <<"anytls shadowtls naive mieru">>)

V6Backend ==
    << AddMieru(OneOf), AddMieru(KeepStream), ShareArm(AddCheck), ShareArm(CrudCase), ShareArm(ApplyCase),
       Rep(ApplyCase, <<"anytls shadowtls naive", "id: password">>,
           <<"anytls shadowtls naive mieru", "id: password">>),
       ShareArm(CopyCase),
       Rep(XrayImport, <<"sbox">>, <<"mcore", "sbox">>),
       Rep(XrayLoop, <<"singbox.Reconcile">>, <<"singbox.Reconcile", "mieru.Reconcile">>),
       Rep(XrayLoop, <<"skip singbox">>, <<"skip supplemental">>),
       Rep(LocalImport, <<"sbox">>, <<"mcore", "sbox">>),
       MieruFirst("AddInbound"), MieruFirst("DelInbound"), MieruFirst("UpdateInbound"),
       MieruFirst("AddUser"), MieruFirst("RemoveUser") >>

V6Frontend ==
    << AddMieru(Enum), AddMieru(Map),
       Rep(SchemaImport, <<"anytls naive shadowtls tuic">>, <<"anytls mieru naive shadowtls tuic">>),
       AddMieru(Union),
       Rep(TypeImport, <<"anytls naive shadowtls tuic">>, <<"anytls mieru naive shadowtls tuic">>),
       Rep(Factories, <<"naive">>, <<"naive", "mieru", "options">>),
       AddMieru(TypeUnion),
       Rep(FactoryCase, <<"naive", "default">>, <<"naive", "mieru", "default">>),
       Rep(FieldExports, <<"anytls naive shadowtls tuic">>, <<"anytls mieru naive shadowtls tuic">>),
       AddMieru(CanSniff),
       Rep(FieldImport, <<"naive", "vless">>, <<"naive", "mieru", "vless">>),
       Rep(Reset, <<"shadowtls">>, <<"shadowtls|mieru">>),
       Rep(Render, <<"naive">>, <<"naive", "mieru">>),
       AddMieru(Tabs), AddMieru(MultiUser), AddMieru(Attach(ClientForm)), AddMieru(Attach(ClientBulk)) >>

V6Subscription ==
    << AddMieru(Sql),
       Rep(LinkCase, <<"tuic anytls shadowtls naive: singbox", "end">>,
           <<"tuic anytls shadowtls naive: singbox", "mieru", "end">>),
       Rep(JsonSkip, <<"skip singbox">>, <<"skip supplemental">>),
       Rep(ClashBuild, <<"singbox">>, <<"mieru", "singbox">>) >>

\* An anchor that differs between upstream 3.11 and the releases before it.
Wordings ==
    << [old |-> <<"old">>, new |-> <<"new">>], [old |-> <<"old 3.11">>, new |-> <<"new 3.11">>] >>

\* The script looks for the older wording of the anchor itself, ...
Either(at) == EditAt("lenient", at, Wordings)

\* ... or for another text of the release.
EitherRelease(at) == ByMarker(at, Wordings)

V7 ==
    << Own("lenient", <<SbConfig, "stats">>),
       Rep(SbLoop, <<"seen", "render">>, <<"seen", "count tag", "count users", "render">>),
       Rep(SbSwitches, <<"validateCommon">>, <<"statsUsersForRecord", "ShadowTLS", "validateCommon">>),
       OwnIns("lenient", <<Crud, "serverKey">>), Own("lenient", <<Inbound, "normalize">>),
       Own("lenient", <<ShadowsocksTsx, "keys">>), Either(<<ShadowsocksTsx, "password">>),
       Own("lenient", <<ShadowsocksTsx, "button">>),
       Own("lenient", <<ClientForm, "keys">>), EitherRelease(<<ClientForm, "password">>),
       EitherRelease(<<ClientForm, "button">>),
       Own("lenient", <<WebGo, "cadence">>), Own("lenient", <<WebGo, "job">>) >>

V8 ==
    << Rep(XrayImport, <<"model">>, <<"database", "model">>),
       Own("lenient", <<Xray, "heal">>),
       OwnIns("lenient", <<ClashSub, "import">>), OwnIns("lenient", <<ClashSub, "validKey">>),
       Own("lenient", <<ClashSub, "shadowsocks">>) >>

V9 ==
    << ByMarker(<<NodeGo, "online">>,
                << [old |-> <<"old">>, new |-> <<"new">>],
                   [old |-> <<"old 3.11">>, new |-> <<"old 3.11", "new">>] >>),
       Own("lenient", <<NodeGo, "onlineByGuid">>),
       Own("lenient", <<NodeGo, "activeByGuid">>), Own("lenient", <<ServiceServer, "online">>) >>

V10 ==
    << Rep(Factories, <<"options">>, <<"all options">>),
       Rep(ClashProxies, <<"external", "default">>, <<"external", "mieru", "default">>),
       Own("lenient", <<ClashSub, "fallbackName">>) >>

\* v11 completes the default settings that v2 put there.
Complete(p, full) == Rep(Factories, <<p>>, <<full>>)

V11 ==
    << Rep(Rollup, <<"amneziawg", "end">>, <<"amneziawg", "tuic">> \o WithMieru \o <<"end">>),
       Own("lenient", <<Columns, "hasClients">>), Own("lenient", <<ListTypes, "actions">>),
       Complete("tuic", "tuic listen"), Complete("anytls", "anytls listen"),
       Complete("shadowtls", "shadowtls listen"), Complete("naive", "naive listen"),
       Rep(SbDivider, <<"left">>, <<"start">>), Rep(TlsDivider, <<"divider left">>, <<"divider start">>),
       OwnIns("lenient", <<Links, "import">>), Own("lenient", <<Links, "clients">>),
       Rep(<<Links, "genLink">>, <<"mtproto", "default">>, <<"mtproto", "supplemental">>),
       Own("lenient", <<Links, "allLinks">>),
       Own("lenient", <<UseInbounds, "clash">>), Own("lenient", <<InboundsPage, "export">>),
       OwnIns("lenient", <<Qr, "state">>), Own("lenient", <<Qr, "next">>), OwnIns("lenient", <<Qr, "items">>),
       Own("lenient", <<Qr, "deps">>),
       OwnIns("lenient", <<InfoModal, "state">>), Own("lenient", <<InfoModal, "set">>), EitherRelease(<<InfoModal, "card">>) >>

V11Final ==
    << Rep(SbDivider, <<"start">>, <<"title">>), Rep(TlsDivider, <<"divider start">>, <<"divider title">>),
       Rep(InfoList, <<"mtproto", "end">>, <<"mtproto", "tuic">> \o WithMieru \o <<"end">>) >>

V12 ==
    << Own("strict", <<SubService, "userAgent">>), Own("strict", <<SubService, "forRequest">>),
       Own("strict", <<SubController, "userAgent">>) >>

\* A list that ends with Mieru after v6 gets Snell in front of it.
AddSnell(at) == Strict(at, <<"mieru">>, <<"snell", "mieru">>)

SnellArm(at) == Strict(at, <<"anytls shadowtls naive mieru">>, <<"anytls shadowtls naive snell mieru">>)

V13Backend ==
    << Own("strict", <<Protocols, "snell">>), OwnIns("strict", <<Protocols, "isSingbox">>),
       AddSnell(OneOf), AddSnell(KeepStream), SnellArm(AddCheck), SnellArm(CrudCase),
       SnellArm(ApplyCase) \o SnellArm(ApplyCase),
       SnellArm(CopyCase),
       Own("strict", <<SbConfig, "protocols">>), OwnIns("strict", <<SbConfig, "settings">>),
       Strict(SbSwitches, <<"ShadowTLS">>, <<"Snell", "ShadowTLS">>),
       Own("strict", <<Integrated, "protocols">>), OwnIns("strict", <<Integrated, "oneClient">>),
       AddSnell(Sql),
       Strict(LinkCase, <<"tuic anytls shadowtls naive: singbox">>, <<"tuic anytls shadowtls naive snell: singbox">>),
       OwnIns("strict", <<SubClash, "snell">>),
       Strict(LinkArms, <<"Naive">>, <<"Snell", "Naive">>),
       OwnIns("strict", <<TrafficJob, "import">>), Own("strict", <<TrafficJob, "collect">>),
       Strict(<<TrafficJob, "snell">>, <<"job">>, <<"placeholder", "job">>),
       Strict(<<TrafficJob, "snell">>, <<"placeholder">>, <<"snellSingleClientTraffic">>),
       OwnIns("strict", <<TrafficJob, "gorm">>) >>

V13Frontend ==
    << AddSnell(Enum), AddSnell(Map),
       OwnIns("strict", <<SingboxTs, "schema">>), OwnIns("strict", <<SingboxTs, "type">>),
       Strict(SchemaImport, <<"anytls mieru naive shadowtls tuic">>, <<"anytls mieru naive shadowtls tuic snell">>),
       AddSnell(Union),
       Strict(TypeImport, <<"anytls mieru naive shadowtls tuic">>, <<"anytls mieru naive shadowtls tuic snell">>),
       AddSnell(Factories), AddSnell(TypeUnion), AddSnell(FactoryCase),
       Strict(SbForm, <<"NaiveFields">>, <<"SnellFields", "NaiveFields">>),
       Strict(FieldExports, <<"anytls mieru naive shadowtls tuic">>, <<"anytls mieru naive shadowtls snell tuic">>),
       Strict(FieldImport, <<"mieru", "vless">>, <<"mieru", "snell", "vless">>),
       Strict(Reset, <<"shadowtls|mieru">>, <<"shadowtls|snell|mieru">>),
       AddSnell(Render), AddSnell(Tabs), AddSnell(Rollup), AddSnell(InfoList), AddSnell(MultiUser),
       AddSnell(Attach(ClientForm)), AddSnell(Attach(ClientBulk)),
       Guarded(CanSniff, <<"naive", "mieru">>, <<"naive", "snell", "mieru">>),
       OwnIns("strict", <<UiSupplemental, "variants">>),
       AddSnell(UiLinks) >>

\* v13 put the Snell renderer into the first switch with a ShadowTLS arm, which
\* v7 had made statsUsersForRecord: v14 moves it into renderInbound.
V14 ==
    << Strict(SbSwitches, <<"Snell", "ShadowTLS", "validateCommon">>, <<"ShadowTLS", "validateCommon">>)
         \o Strict(SbSwitches, <<"renderInbound", "ShadowTLS">>, <<"renderInbound", "Snell", "ShadowTLS">>),
       Strict(LinkArms, <<"Snell", "Naive">>, <<"Snell or Shadowrocket", "Naive">>)
         \o Own("exact", <<SubLinks, "naiveCall">>) \o Own("strict", <<SubLinks, "helpers">>),
       Own("strict", <<UiSupplemental, "naive">>) \o Strict(UiLinks, <<"snell", "mieru">>, <<"snell base64", "mieru">>) >>
================================================================================
