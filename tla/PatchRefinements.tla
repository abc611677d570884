----------------------------- MODULE PatchRefinements -----------------------------
(***************************************************************************)
(* The scripts that correct and extend the earlier ones: v16 to v20, the   *)
(* TUIC runtime selector (v21-run, v21, v22, v23) and the removal of       *)
(* upstream's sponsor placements.                                          *)
(***************************************************************************)
EXTENDS PatchFeatures

InboundForm == "frontend/src/schemas/forms/inbound-form.ts"
TuicTs == "frontend/src/schemas/protocols/inbound/tuic.ts"
TuicTsx == "frontend/src/pages/inbounds/form/protocols/tuic.tsx"
InboundTuic == "internal/web/service/inbound_tuic.go"
SupplementalTls == "internal/web/service/supplemental_tls.go"
SubTuic == "internal/sub/tuic_runtime.go"
ModelTuic == "internal/database/model/tuic_runtime.go"
SbTuic == "internal/singbox/tuic_runtime.go"
IndexPage == "frontend/src/pages/index/IndexPage.tsx"
LoginPage == "frontend/src/pages/login/LoginPage.tsx"
Sidebar == "frontend/src/layouts/AppSidebar.tsx"
Palette == "frontend/src/components/command-palette/CommandPalette.tsx"
Routes == "frontend/src/routes.tsx"
PanelRoutes == "frontend/src/routes/panelRoutes.tsx"
IndexController == "internal/web/controller/index.go"

V16 ==
    << EitherRelease(<<InboundForm, "tls">>),
       Rep(Badges, <<"native">>, <<"fixed", "native">>) >>

V17 ==
    << Rep(SbLoop, <<"seen", "count tag", "count users">>, <<"seen", "count users">>),
       Rep(SbLoop, <<"render", "extra">>, <<"render", "count inner or tag", "extra">>) >>

V18 ==
    << Exact(<<Inbound, "addTls">>, <<"normalise", "validate">>, <<"normalise", "materialise", "validate">>)
         \o OwnIns("exact", <<Inbound, "updateTls">>),
       Own("exact", <<MieruConfig, "dns">>),
       Exact(Factories, <<"all options">>, <<"all options, PREFER_IPv4">>) >>

V19 == << Exact(SelfSigned, <<"key path">>, <<"key path", "certificates">>) >>

V20 ==
    << Rep(SbForm, <<"handshake">>, <<>>),
       Rep(SbForm, <<"NaiveFields">>, <<"ShadowTlsSecurityFields", "NaiveFields">>),
       Rep(FieldExports, <<"anytls mieru naive shadowtls snell tuic">>, <<"anytls mieru naive shadowtls security snell tuic">>),
       Rep(FieldImport, <<"shadowtls", "naive">>, <<"shadowtls", "shadowtls security", "naive">>),
       OwnIns("lenient", <<FormModal, "errorTab">>),
       Rep(SecurityTab, <<"tls security", "sniffing">>, <<"tls security", "shadowtls security", "sniffing">>),
       Rep(Badges, <<"fixed">>, <<"tuic from settings", "others from settings">>) >>

\* v21-run writes the native defaults back, copies the runtime files and, after
\* the selector, edits the form.
V21Defaults ==
    << Try(TypeImport, <<"anytls mieru naive shadowtls tuic snell">>, <<"anytls mieru naive shadowtls snell">>)
         \o Guarded(TuicTypes, <<"client">>, <<"client", "settings line">>)
         \o Strict(Factories, <<"tuic listen">>, <<"tuic: native">>),
       Try(<<ModelTuic, "">>, <<"missing">>, <<"overlay">>), Try(<<SbTuic, "">>, <<"missing">>, <<"overlay">>) >>

\* The local runtime asks for the owner of the row instead of its protocol.
ByOwner(fn) == Try(LocalAt(fn), <<"singbox">>, <<"singbox owned">>)
NativeUser(fn) == Strict(LocalAt(fn), <<"mtproto|amneziawg">>, <<"tuic native", "mtproto|amneziawg">>)

V21Selector ==
    << EditAt("guarded", <<TuicTs, "schema">>,
              << [old |-> <<"old">>, new |-> <<"old", "runtime">>],
                 [old |-> <<"old 3.11">>, new |-> <<"old 3.11", "runtime">>] >>),
       Exact(Factories, <<"tuic: native">>, <<"tuic: native", "runtime">>),
       Guarded(<<TuicTsx, "render">>, <<"return">>, <<"return", "selector">>),
       Try(SchemaImport, <<"anytls mieru naive shadowtls tuic snell">>, <<"anytls mieru naive shadowtls snell">>)
         \o Try(TrojanExport, <<"tuic client">>, <<>>)
         \o Guarded(TuicImport, <<"amneziawg">>, <<"amneziawg", "tuic">>)
         \o Guarded(TrojanExport, <<"trojan">>, <<"trojan", "tuic">>),
       Try(FieldExports, <<"anytls mieru naive shadowtls security snell tuic">>, <<"anytls mieru naive shadowtls security snell">>)
         \o Guarded(FieldExports, <<"eof">>, <<"tuic: native", "eof">>) >>

V21Owner ==
    << Own("strict", <<Integrated, "owner">>) \o Own("strict", <<Integrated, "tuicTls">>),
       ByOwner("AddInbound") \o ByOwner("DelInbound") \o ByOwner("UpdateInbound") \o ByOwner("AddUser")
         \o ByOwner("RemoveUser") \o NativeUser("AddUser") \o NativeUser("RemoveUser"),
       EditAt("guarded", <<InboundTuic, "loop">>,
              << [old |-> <<"instance">>, new |-> <<"skip owned", "instance">>],
                 [old |-> <<"build">>, new |-> <<"skip owned", "build">>],
                 [old |-> <<"configured">>, new |-> <<"skip owned", "configured">>] >>),
       Try(JsonSkip, <<"skip supplemental">>, <<"skip mieru or owned">>),
       Strict(LinkCase, <<"tuic anytls shadowtls naive snell: singbox">>,
              <<"tuic: by runtime", "anytls shadowtls naive snell: singbox">>),
       Strict(ClashBuild, <<"singbox">>, <<"tuic native", "singbox owned">>),
       Own("strict", <<SubLinks, "tuic">>), Own("strict", <<SubClash, "tuic">>),
       Try(<<SupplementalTls, "owner">>, <<"protocol">>, <<"owner">>) >>

V21Form ==
    << OwnIns("strict", <<TuicTsx, "state">>) \o OwnIns("strict", <<TuicTsx, "generate">>)
         \o OwnIns("strict", <<TuicTsx, "button">>),
       Strict(<<Schemas, "singboxExport">>, <<"new">>, <<"explicit">>),
       Try(CanTls, <<"tuic", "anytls", "naive">>, <<"anytls", "naive">>),
       Try(TlsList, <<"tuic", "anytls", "naive">>, <<"anytls", "naive">>)
         \o Strict(Reset, <<"tls list">>, <<"tuic: none", "tls list">>),
       Strict(Badges, <<"tuic from settings">>, <<"tuic when configured">>) >>

V22 == << Own("exact", <<UiSupplemental, "tuic">>) \o Own("strict", <<UiSupplemental, "locals">>) >>

V23 ==
    << Own("exact", <<Links, "insecure">>), Own("exact", <<SubService, "insecure">>),
       Own("exact", <<ClashSub, "insecure">>), Own("exact", <<SubTuic, "insecure">>) >>

\* The releases differ in where they place sponsors: none before 3.9, the
\* sidebar and a route map of its own up to 3.10, a list of panel routes since.
SponsorFiles(r) ==
    CASE r \in {"3.7", "3.8"} -> <<>>
      [] r \in {"3.9", "3.10"} -> <<IndexPage, LoginPage, Sidebar, Routes, Palette, IndexController>>
      [] OTHER -> <<IndexPage, LoginPage, PanelRoutes, Palette, IndexController>>

\* Every placement has to be found; the script ends at once when the release
\* has no sponsor module.
DisableSponsors(r) ==
    [i \in DOMAIN SponsorFiles(r) |-> Exact(<<SponsorFiles(r)[i], "sponsor">>, <<"sponsor">>, <<>>)]
==================================================================================
