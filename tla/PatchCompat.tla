------------------------------ MODULE PatchCompat ------------------------------
(***************************************************************************)
(* The normalisation scripts of the patcher: v24 (pre and post), which     *)
(* takes MASQUE out of the upstream lists and puts it back, and the v15    *)
(* scripts, which bring upstream's native TUIC into the shape that the     *)
(* older scripts expect.                                                   *)
(***************************************************************************)
EXTENDS PatchText

(* Places that several scripts edit. *)
Model == "internal/database/model/model.go"
Inbound == "internal/web/service/inbound.go"
Crud == "internal/web/service/client_crud.go"
Apply == "internal/web/service/client_inbound_apply.go"
Clients == "internal/web/service/inbound_clients.go"
Xray == "internal/web/service/xray.go"
Local == "internal/web/runtime/local.go"
SubService == "internal/sub/service.go"
ProtocolTs == "frontend/src/schemas/primitives/protocol.ts"
Schemas == "frontend/src/schemas/protocols/inbound/index.ts"
Defaults == "frontend/src/lib/xray/inbound-defaults.ts"
Capabilities == "frontend/src/lib/xray/protocol-capabilities.ts"
FormModal == "frontend/src/pages/inbounds/form/InboundFormModal.tsx"
Fields == "frontend/src/pages/inbounds/form/protocols/index.ts"
ListHelpers == "frontend/src/pages/inbounds/list/helpers.ts"
InfoHelpers == "frontend/src/pages/inbounds/info/helpers.ts"
UseInbounds == "frontend/src/pages/inbounds/useInbounds.ts"
Links == "frontend/src/lib/xray/inbound-link.ts"
ClientForm == "frontend/src/pages/clients/ClientFormModal.tsx"
ClientBulk == "frontend/src/pages/clients/ClientBulkAddModal.tsx"

OneOf == <<Model, "oneof">>
Sql == <<SubService, "sql">>
LinkCase == <<SubService, "link">>
Enum == <<ProtocolTs, "enum">>
Map == <<ProtocolTs, "map">>
Union == <<Schemas, "union">>
TuicImport == <<Schemas, "tuicImport">>
TrojanExport == <<Schemas, "trojanExport">>
TuicTypes == <<Defaults, "tuicImport">>
TypeUnion == <<Defaults, "union">>
Factories == <<Defaults, "factories">>
FactoryCase == <<Defaults, "dispatch">>
Tabs == <<FormModal, "tabs">>
TlsOnly == <<FormModal, "tlsOnly">>
TlsImport == <<FormModal, "tlsImport">>
FieldImport == <<FormModal, "fieldImport">>
Render == <<FormModal, "render">>
MultiUser == <<ListHelpers, "multiUser">>
Rollup == <<UseInbounds, "rollup">>
CanTls == <<Capabilities, "canTls">>
CanSniff == <<Capabilities, "canSniff">>
KeepStream == <<Inbound, "keepStream">>
AddCheck == <<Inbound, "addCheck">>
UpdateCheck == <<Inbound, "updateCheck">>
CrudCase == <<Crud, "defaults">>
ApplyCase == <<Apply, "validate">>
CopyCase == <<Clients, "copy">>
XrayLoop == <<Xray, "loop">>
LocalAt(fn) == <<Local, fn>>
FieldExports == <<Fields, "exports">>
InfoList == <<InfoHelpers, "shareLink">>
Attach(rel) == <<rel, "attachable">>

Patched == <<"anytls", "shadowtls", "naive">>

\* The list ends with MASQUE behind TUIC upstream; pre takes it off the list.
WithoutMasque(at, end) == Exact(at, <<"tuic", "masque", end>>, <<"tuic", end>>)

MasqueAfterTuic(at, next) == Exact(at, <<"tuic", next>>, <<"tuic", "masque", next>>)

V24Pre ==
    << WithoutMasque(OneOf, "end"), WithoutMasque(Sql, "end"), WithoutMasque(Enum, "end"),
       WithoutMasque(Map, "end"),
       Exact(Union, <<"masque">>, <<>>),
       WithoutMasque(TypeUnion, "end"),
       Exact(FactoryCase, <<"masque">>, <<>>),
       WithoutMasque(Tabs, "end"),
       Exact(MultiUser, <<"tuic", "masque">>, <<"tuic">>),
       WithoutMasque(Rollup, "end"), WithoutMasque(Attach(ClientForm), "end"),
       WithoutMasque(Attach(ClientBulk), "end"),
       Exact(CanTls, <<"hysteria", "masque">>, <<"hysteria">>),
       Exact(KeepStream, <<"tunnel", "masque", "end">>, <<"tunnel", "end">>),
       Exact(TlsImport, <<"hysteria", "masque", "end">>, <<"hysteria", "end">>),
       Exact(TlsOnly, <<"hysteria", "masque">>, <<"hysteria">>),
       Try(FlagAt, <<"absent">>, <<"set">>) >>

V24Post ==
    << Strict(FlagAt, <<"set">>, <<"set">>),
       Exact(OneOf, <<"tuic", "anytls", "shadowtls", "naive", "snell", "mieru", "end">>,
             <<"tuic", "masque", "anytls", "shadowtls", "naive", "snell", "mieru", "end">>),
       Exact(Sql, <<"tuic", "anytls", "shadowtls", "naive", "snell", "mieru", "end">>,
             <<"tuic", "masque", "anytls", "shadowtls", "naive", "snell", "mieru", "end">>),
       MasqueAfterTuic(Enum, "anytls"), MasqueAfterTuic(Map, "anytls"),
       Exact(Union, <<"tuic">>, <<"tuic", "masque">>),
       Exact(TypeUnion, <<"end">>, <<"masque", "end">>),
       Exact(FactoryCase, <<"default">>, <<"masque", "default">>),
       MasqueAfterTuic(Tabs, "anytls"),
       Exact(MultiUser, <<"tuic">>, <<"tuic", "masque">>),
       MasqueAfterTuic(Rollup, "anytls"), MasqueAfterTuic(Attach(ClientForm), "anytls"),
       MasqueAfterTuic(Attach(ClientBulk), "anytls"),
       Exact(CanTls, <<"hysteria">>, <<"hysteria", "masque">>),
       Exact(KeepStream, <<"tunnel", "tuic">>, <<"tunnel", "masque", "tuic">>),
       Exact(TlsImport, <<"hysteria", "tls", "end">>, <<"hysteria", "masque", "tls", "end">>),
       Exact(TlsOnly, <<"hysteria", "supplemental">>, <<"hysteria", "masque", "supplemental">>),
       Strict(FlagAt, <<"set">>, <<"absent">>) >>

\* A list that upstream ends with TUIC is extended behind it.
ExtendAfter(before, at) == Once(at, <<before, "tuic", "end">>, <<before, "tuic">> \o Patched \o <<"end">>)
Extend(at) == ExtendAfter("amneziawg", at)

\* v3.11 has a TUIC branch of its own, earlier releases one shared bypass.
NormaliseUser(fn) ==
    EditAt("once", LocalAt(fn),
        << [old |-> <<"func", "tuic">>, new |-> <<"func", "singbox">>],
           [old |-> <<"func", "mtproto|amneziawg|tuic">>, new |-> <<"func", "singbox", "mtproto|amneziawg">>] >>)

\* Each edit is a write of its own; the last of CrudCase is two, the removal
\* of the case and the insertion of its relay check before the switch.
V15Pre ==
    << Extend(OneOf),
       Once(XrayLoop, <<"skip native", "skip tuic">>, <<"skip native", "skip singbox">>),
       NormaliseUser("AddUser"), NormaliseUser("RemoveUser"),
       Remove(CrudCase, <<"tuic">>),
       Try(CrudCase, <<"switch", "tuic+relay">>, <<"relay", "switch">>),
       Remove(ApplyCase, <<"native tuic">>),
       Remove(UpdateCheck, <<"native tuic">>),
       Remove(CopyCase, <<"tuic">>),
       ExtendAfter("mtproto", Sql),
       Once(LinkCase, <<"amneziawg", "tuic: native", "end">>,
            <<"amneziawg", "tuic anytls shadowtls naive: singbox", "end">>),
       Extend(Enum), Extend(Map),
       Remove(TuicImport, <<"tuic">>),
       Remove(TrojanExport, <<"tuic">>),
       Once(Union, <<"amneziawg", "tuic", "end">>, <<"amneziawg", "end">>),
       Once(CanSniff, <<"mtproto", "amneziawg", "tuic", "end">>,
            <<"mtproto", "amneziawg", "tuic">> \o Patched \o <<"end">>) >>

V15Go == << Exact(AddCheck, <<"native tuic">>, <<>>) >>

WithMieru == Patched \o <<"mieru">>

V15Ui ==
    << Extend(Attach(ClientForm)), Extend(Attach(ClientBulk)),
       Once(TuicTypes, <<"client", "settings">>, <<"client">>),
       Remove(Factories, <<"tuic: native">>),
       Once(TypeUnion, <<"amneziawg", "tuic", "end">>, <<"amneziawg", "end">>),
       Remove(FactoryCase, <<"tuic">>),
       Extend(Tabs), Extend(MultiUser),
       Once(Rollup, <<"amneziawg", "tuic", "end">>, <<"amneziawg", "tuic">> \o WithMieru \o <<"end">>),
       Remove(<<Links, "genLink">>, <<"tuic">>),
       Once(InfoList, <<"mtproto", "tuic", "end">>, <<"mtproto", "tuic">> \o WithMieru \o <<"end">>) >>

V15TuicFrontend ==
    << Once(TrojanExport, <<"trojan">>, <<"trojan", "tuic client">>),
       Remove(FieldExports, <<"tuic: native">>),
       Remove(FieldImport, <<"tuic: native">>),
       Remove(Render, <<"tuic: native">>) >>
================================================================================
