------------------------------ MODULE PatchXhttp ------------------------------
(***************************************************************************)
(* The scripts for split XHTTP connections: v26 (the client's download     *)
(* settings), v27 (the managed REALITY listener) and v28 to v31.           *)
(***************************************************************************)
EXTENDS PatchRefinements

XhttpTs == "frontend/src/schemas/protocols/stream/xhttp.ts"
XhttpTsx == "frontend/src/pages/inbounds/form/transport/xhttp.tsx"
FormAdapter == "frontend/src/lib/xray/inbound-form-adapter.ts"
WireNormalize == "frontend/src/lib/xray/stream-wire-normalize.ts"
HostSub == "internal/sub/host_sub.go"
PortConflict == "internal/web/service/port_conflict.go"

DownloadSchema == <<XhttpTs, "download">>
XhttpImports == <<XhttpTsx, "imports">>
XhttpState == <<XhttpTsx, "state">>
XhttpCard == <<XhttpTsx, "card">>
XrayTail == <<Xray, "tail">>
ClashXhttp == <<ClashSub, "xhttp">>

V26Schema ==
    << Guarded(DownloadSchema, <<"preprocess">>, <<"client download", "preprocess">>),
       Guarded(<<XhttpTs, "switch">>, <<"old">>, <<"old", "new">>),
       Guarded(<<XhttpTs, "preparse">>, <<"old">>, <<"new">>) >>

\* The card is appended without a test for its own text.
V26Form ==
    << Guarded(XhttpImports, <<"antd">>, <<"antd Alert Divider">>),
       Guarded(XhttpImports, <<"wire">>, <<"wire", "fingerprint">>),
       Guarded(XhttpState, <<"xmux">>, <<"xmux", "protocol", "toggle">>),
       Strict(XhttpCard, <<"eof">>,
              <<"client-only alert", "reality alert", "sni", "public key", "short id", "host", "eof">>) >>

V26Wire ==
    << Guarded(<<Links, "xhttpExtra">>, <<"old">>, <<"new">>),
       Guarded(<<FormAdapter, "">>, <<"old">>, <<"new">>), Guarded(<<WireNormalize, "">>, <<"old">>, <<"new">>) >>

V26Server ==
    << Guarded(<<Xray, "strip">>, <<"old">>, <<"old", "new">>),
       Guarded(<<SubService, "xhttp">>, <<"old">>, <<"new">>), Guarded(<<JsonSub, "xhttp">>, <<"old">>, <<"new">>),
       Guarded(ClashXhttp, <<"path">>, <<"download", "path">>),
       Guarded(<<HostSub, "params">>, <<"old">>, <<"new">>), Guarded(<<HostSub, "stream">>, <<"old">>, <<"new">>) >>

V26 == V26Schema \o V26Form \o V26Wire \o V26Server

\* v27 anchors in what v26 wrote and has no test for its own text.
V27Form ==
    << Strict(DownloadSchema, <<"client download">>, <<"client download with managedListener">>),
       Strict(XhttpImports, <<"antd Alert Divider">>, <<"antd Button Form message">>),
       Strict(XhttpImports, <<"fingerprint">>, <<"fingerprint", "scanner">>),
       Strict(XhttpState, <<"protocol">>, <<"protocol", "managed reality">>) >>

V27Card ==
    << Strict(XhttpCard, <<"sni">>, <<"sni with scanner">>),
       Strict(XhttpCard, <<"public key">>, <<"public key or generated">>),
       Strict(XhttpCard, <<"short id">>, <<"short id checked">>),
       Strict(XhttpCard, <<"host">>, <<"host", "managed listener fields">>),
       Strict(XhttpCard, <<"reality alert">>, <<"managed reality alert">>),
       Strict(XhttpCard, <<"client-only alert">>, <<"effect alert">>) >>

V27Inject == << Strict(XrayTail, <<"drop refused">>, <<"inject(config, rows)", "drop refused">>) >>

V27 == V27Form \o V27Card \o V27Inject

\* One script, one write: both anchors or neither.
V28 ==
    << Exact(XrayLoop, <<"for">>, <<"snapshot", "for">>)
         \o Exact(XrayTail, <<"inject(config, rows)">>, <<"inject(config, rows, snapshot)">>) >>

\* Releases before 3.11 have no port_conflict.go: the script exits with 0.
V29(r) ==
    IF r \in {"3.11", "next"}
    THEN << Exact(<<PortConflict, "">>, <<"upstream check">>, <<"upstream check", "managed check">>) >>
    ELSE <<>>

V30 ==
    << Exact(ClashXhttp, <<"signature">>, <<"signature with uplink security">>)
         \o Exact(ClashXhttp, <<"download">>, <<"download by uplink security">>)
         \o Exact(ClashXhttp, <<"call">>, <<"call with uplink security">>) >>

V31 ==
    << OwnIns("exact", <<Inbound, "pushAdd">>) \o OwnIns("exact", <<Inbound, "pushDelete">>)
         \o OwnIns("exact", <<Inbound, "pushToggle">>) \o OwnIns("exact", <<Inbound, "pushUpdate">>) >>
================================================================================
