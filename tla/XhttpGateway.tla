---------------------------- MODULE XhttpGateway ----------------------------
(***************************************************************************)
(* The managed XHTTP gateway: one VLESS/XHTTP/TLS inbound that asks for a  *)
(* REALITY download entry becomes three Xray listeners when the panel      *)
(* renders Xray's configuration (xhttp_managed_gateway.go).  A save is     *)
(* admitted by a transactional port check (v29) that looks at the saved    *)
(* rows; a saved change reaches Xray either by a hot call for one tag or,  *)
(* for managed rows, by a pending restart (v31).                           *)
(*                                                                         *)
(* State: the inbounds table, which rows are enabled, the listeners Xray   *)
(* has open, the panel's in-memory restart flag.  The native inbound       *)
(* service, its own port check and its restart job are upstream's code:    *)
(* they are modelled from how the patches use them.                        *)
(***************************************************************************)
EXTENDS Integers, FiniteSets

CONSTANTS
    Ids,        \* inbound rows
    Addrs,      \* listen addresses
    Any,        \* the wildcard address 0.0.0.0
    Loopback,   \* 127.0.0.1, where Xray's API listens
    ApiPort,    \* the API's TCP port
    Drafts,     \* the inbounds an administrator may save
    Foreign,    \* TCP sockets of other processes: [addr, port]
    Template,   \* TCP listeners of the Xray template besides the API: [addr, port]
    NoAddr,     \* text that is no IP address
    NoRow

(* An inbound as far as ports and gateways go.  kind: VLESS/XHTTP/TLS, any *)
(* other VLESS, any other TCP protocol, or UDP.  managed: the managed      *)
(* listener is switched on; reality: its downlink's security is REALITY;   *)
(* keys: key pair, target, SNI, short id and version pass the gateway's    *)
(* checks; mport: the number the gateway reads, 0 for one outside 1..65535 *)
(* or for no number; typed: the stream JSON fits the struct the port check *)
(* decodes it into.  A port such as "443" or 443.5 or a listen address     *)
(* that is no string does not, though the gateway, which looks at a map,   *)
(* reads 0, 443 and the wildcard address from them.                        *)
Inbound == [kind : {"xhttp", "vless", "tcp", "udp"}, addr : Addrs, port : Nat \ {0},
            managed : BOOLEAN, reality : BOOLEAN, typed : BOOLEAN,
            maddr : Addrs \cup {NoAddr}, mport : Nat, keys : BOOLEAN]

ASSUME DraftsAssumption == Drafts \subseteq Inbound
ASSUME NoRowAssumption == NoRow \notin Inbound
ASSUME AddrsAssumption == {Any, Loopback} \subseteq Addrs /\ NoAddr \notin Addrs
ASSUME PortsAssumption ==
    /\ ApiPort \in Nat \ {0}
    /\ Foreign \cup Template \subseteq [addr : Addrs, port : Nat \ {0}]

VARIABLES
    rows,         \* the inbounds table
    on,           \* the enabled rows
    running,      \* the listeners Xray has open
    up,           \* Xray's process runs
    needRestart,  \* the panel's pending-restart flag, in memory only
    skipped       \* the last restart did not apply the table (record for the properties)

vars == <<rows, on, running, up, needRestart, skipped>>

Saved == {i \in Ids : rows[i] # NoRow}

-----------------------------------------------------------------------------
(* Sockets and what a row claims                                           *)

Overlaps(a, b) == a = b \/ Any \in {a, b}

(* Two sockets one host cannot have open together.                         *)
Clash(s, t) == s.net = t.net /\ s.port = t.port /\ Overlaps(s.addr, t.addr)

Net(d) == IF d.kind = "udp" THEN "udp" ELSE "tcp"

Uplink(d) == [net |-> Net(d), addr |-> d.addr, port |-> d.port]
Downlink(d) == [net |-> "tcp", addr |-> d.maddr, port |-> d.mport]
Api == [net |-> "tcp", addr |-> Loopback, port |-> ApiPort]
TcpSockets(S) == {[net |-> "tcp", addr |-> s.addr, port |-> s.port] : s \in S}
ForeignSockets == TcpSockets(Foreign)

(* The metadata counts on VLESS rows only, for the gateway and the check.  *)
WantsGateway(d) == d.kind \in {"xhttp", "vless"} /\ d.managed

(* managedXHTTPClaim: no claim, and no error either, if the stream does    *)
(* not fit the struct; an error unless the row is XHTTP over TLS with a    *)
(* REALITY downlink on a proper port and address.                          *)
Asks(d) == WantsGateway(d) /\ d.typed
ClaimError(d) ==
    Asks(d) /\ ~(d.kind = "xhttp" /\ d.reality /\ d.mport # 0 /\ d.maddr # NoAddr)
Claims(d) == Asks(d) /\ ~ClaimError(d)

(* The sockets a saved row stands for, enabled or not.                     *)
SocketsOf(d) == {Uplink(d)} \cup (IF Claims(d) THEN {Downlink(d)} ELSE {})

(* managedXHTTPActive: the row's runtime shape is the generated triple.    *)
Active(d) == d.kind = "xhttp" /\ d.managed

(* Mutant: both sides have to be managed.                                  *)
NeedsReconcileBoth(ds) == ds # {} /\ \A d \in ds : Active(d)

(* managedXHTTPNeedsReconcile over the row before and after a change.      *)
NeedsReconcile(ds) == \E d \in ds : Active(d)

-----------------------------------------------------------------------------
(* What Xray is asked to listen on                                         *)

Listener(i, part, s) == [id |-> i, part |-> part, net |-> s.net, addr |-> s.addr, port |-> s.port]
InnerSocket == [net |-> "unix", addr |-> Any, port |-> 0]

(* xhttpGatewayConfig: the shared listener keeps the row's tag on a        *)
(* private unix socket; a TLS front takes the row's port and a REALITY     *)
(* front the managed one.  Every other row is one listener.                *)
Parts(i, d) ==
    IF Active(d)
    THEN {Listener(i, "base", InnerSocket),
          Listener(i, "tls-up", Uplink(d)),
          Listener(i, "reality-down", Downlink(d))}
    ELSE {Listener(i, "base", Uplink(d))}

Wanted == UNION {Parts(i, rows[i]) : i \in on}

(* Mutant: the ports of disabled rows count too.                           *)
UsedBySaved == {ApiPort} \cup {t.port : t \in Template} \cup {rows[i].port : i \in Saved}

(* injectManagedXHTTPGateways: `used` starts from the port numbers of the  *)
(* rendered inbounds, the template's with them, whatever their transport   *)
(* or address, and grows with each gateway.                                *)
Used == {ApiPort} \cup {t.port : t \in Template} \cup {rows[i].port : i \in on}
Gateways == {i \in on : WantsGateway(rows[i])}
GatewayFits(i) ==
    /\ rows[i].kind = "xhttp" /\ rows[i].reality /\ rows[i].mport # 0
    /\ rows[i].keys
    /\ rows[i].mport \notin Used
    /\ \A j \in Gateways \ {i} : rows[j].mport # rows[i].mport

(* GetXrayConfig returns an error, and no configuration, if one fails.     *)
Renders == \A i \in Gateways : GatewayFits(i)

(* Xray starts only if it can open every listener.                         *)
Binds ==
    /\ \A s, t \in Wanted : s # t /\ s.net # "unix" => ~Clash(s, t)
    /\ \A s \in Wanted, f \in ForeignSockets \cup TcpSockets(Template) : ~Clash(s, f)
    /\ \A s \in Wanted : s.addr # NoAddr

-----------------------------------------------------------------------------
(* The port check of a save                                                *)

(* Upstream's own check: one row per transport, port and address.          *)
UpstreamFree(d, i) ==
    /\ ~Clash(Uplink(d), Api)
    /\ \A j \in Saved \ {i} : ~Clash(Uplink(d), Uplink(rows[j]))

(* The candidate against its own uplink and the API.                       *)
OwnPortFree(d) ==
    Claims(d) => ~Clash(Downlink(d), Uplink(d)) /\ ~Clash(Downlink(d), Api)

(* Mutant: claims are compared with uplinks only.                          *)
OtherRowsFreeNoClaims(d, i) ==
    \A j \in Saved \ {i} :
        LET other == rows[j] IN
        /\ ~ClaimError(other)
        /\ Claims(other) => ~Clash(Uplink(d), Downlink(other))
        /\ Claims(d) => ~Clash(Downlink(d), Uplink(other))

(* The candidate against every other local row, enabled or not: uplink     *)
(* against claim, claim against uplink, claim against claim.               *)
OtherRowsFree(d, i) ==
    \A j \in Saved \ {i} :
        LET other == rows[j] IN
        /\ ~ClaimError(other)
        /\ Claims(other) => ~Clash(Uplink(d), Downlink(other))
        /\ Claims(d) => ~Clash(Downlink(d), Uplink(other))
        /\ Claims(d) /\ Claims(other) => ~Clash(Downlink(d), Downlink(other))

(* Mutants: the exception is never granted; it is granted for any port.    *)
OwnedNever(d, i) == FALSE
OwnedAnyPort(d, i) ==
    i \in on /\ Claims(rows[i]) /\ Overlaps(rows[i].maddr, d.maddr)

(* An enabled row that keeps its managed port is not probed: the socket is *)
(* taken to be its own.                                                    *)
Owned(d, i) ==
    /\ i \in on
    /\ Claims(rows[i])
    /\ rows[i].mport = d.mport
    /\ Overlaps(rows[i].maddr, d.maddr)

(* What is open on the host besides the rows' listeners.                   *)
OthersOpen == ForeignSockets \cup (IF up THEN TcpSockets(Template) ELSE {})

(* net.Listen on the claimed socket: it fails on other processes' sockets  *)
(* and on what Xray still has open.                                        *)
ProbeSucceeds(d) == \A s \in running \cup OthersOpen : ~Clash(Downlink(d), s)

(* checkPortConflict for a new row, or an edit or enabling of row i.       *)
Accepts(d, i) ==
    /\ UpstreamFree(d, i)
    /\ ~ClaimError(d)
    /\ OwnPortFree(d)
    /\ OtherRowsFree(d, i)
    /\ Claims(d) /\ ~Owned(d, i) => ProbeSucceeds(d)

-----------------------------------------------------------------------------
(* From a saved change to Xray                                             *)

(* The native hot path for one row: remove the handler with its tag, then  *)
(* add the row as one listener if it is to run.  An error, as when the     *)
(* socket is taken or Xray is down, leaves the restart flag set.           *)
HotPath(i, next) ==
    LET kept == {e \in running : ~(e.id = i /\ e.part = "base")}
        added == {Listener(i, "base", Uplink(d)) : d \in next}
        works == up /\ \A a \in added, s \in kept \cup OthersOpen : ~Clash(a, s)
    IN /\ running' = IF works THEN kept \cup added ELSE kept
       /\ needRestart' = (needRestart \/ ~works)

(* v31: a change of a managed row, on either side, is left to the restart. *)
Push(i, previous, next) ==
    IF NeedsReconcile(previous \cup next)
    THEN needRestart' = TRUE /\ running' = running
    ELSE HotPath(i, next)

AddInbound(i, d, enable) ==
    /\ rows[i] = NoRow
    /\ Accepts(d, i)
    /\ rows' = [rows EXCEPT ![i] = d]
    /\ IF enable
       THEN on' = on \cup {i} /\ Push(i, {}, {d})
       ELSE UNCHANGED <<on, running, needRestart>>
    /\ UNCHANGED <<up, skipped>>

(* Mutant: a deleted row stays on the list of enabled ones.                *)
DelInboundStaysOn(i) ==
    /\ rows[i] # NoRow
    /\ rows' = [rows EXCEPT ![i] = NoRow]
    /\ IF i \in on
       THEN Push(i, {rows[i]}, {})
       ELSE UNCHANGED <<running, needRestart>>
    /\ UNCHANGED <<on, up, skipped>>

DelInbound(i) ==
    /\ rows[i] # NoRow
    /\ rows' = [rows EXCEPT ![i] = NoRow]
    /\ on' = on \ {i}
    /\ IF i \in on
       THEN Push(i, {rows[i]}, {})
       ELSE UNCHANGED <<running, needRestart>>
    /\ UNCHANGED <<up, skipped>>

SetInboundEnable(i) ==
    /\ rows[i] # NoRow
    /\ IF i \in on
       THEN /\ on' = on \ {i}
            /\ IF NeedsReconcile({rows[i]})
               THEN needRestart' = TRUE /\ running' = running
               ELSE HotPath(i, {})
       ELSE /\ Accepts(rows[i], i)
            /\ on' = on \cup {i}
            /\ Push(i, {rows[i]}, {rows[i]})
    /\ UNCHANGED <<rows, up, skipped>>

UpdateInbound(i, d, enable) ==
    /\ rows[i] # NoRow
    /\ Accepts(d, i)
    /\ rows' = [rows EXCEPT ![i] = d]
    /\ on' = IF enable THEN on \cup {i} ELSE on \ {i}
    /\ IF NeedsReconcile({rows[i], d})
       THEN needRestart' = TRUE /\ running' = running
       ELSE HotPath(i, IF enable THEN {d} ELSE {})
    /\ UNCHANGED <<up, skipped>>

(* Mutant: only a dead Xray is restarted.                                  *)
RestartXrayIfDown ==
    /\ ~up
    /\ needRestart' = FALSE
    /\ IF Renders /\ Binds
       THEN running' = Wanted /\ up' = TRUE /\ skipped' = FALSE
       ELSE skipped' = TRUE /\ UNCHANGED <<running, up>>
    /\ UNCHANGED <<rows, on>>

(* The restart job takes the flag first, then renders: a table that does   *)
(* not render leaves Xray as it was and the flag down.  Xray found dead is *)
(* restarted the same way.                                                 *)
RestartXray ==
    /\ needRestart \/ ~up
    /\ needRestart' = FALSE
    /\ \/ /\ Renders /\ Binds
          /\ running' = Wanted /\ up' = TRUE /\ skipped' = FALSE
       \/ /\ Renders /\ ~Binds
          /\ running' = {} /\ up' = FALSE /\ skipped' = TRUE
       \/ /\ ~Renders
          /\ skipped' = TRUE
          /\ UNCHANGED <<running, up>>
    /\ UNCHANGED <<rows, on>>

(* The panel's service stops with Xray below it: the flag is forgotten and *)
(* the next start finds Xray down.                                         *)
PanelStops ==
    /\ up' = FALSE
    /\ running' = {}
    /\ needRestart' = FALSE
    /\ skipped' = FALSE
    /\ UNCHANGED <<rows, on>>

Init ==
    /\ rows = [i \in Ids |-> NoRow]
    /\ on = {}
    /\ running = {}
    /\ up = TRUE
    /\ needRestart = FALSE
    /\ skipped = FALSE

Next ==
    \/ \E i \in Ids, d \in Drafts, enable \in BOOLEAN : AddInbound(i, d, enable)
    \/ \E i \in Ids, d \in Drafts, enable \in BOOLEAN : UpdateInbound(i, d, enable)
    \/ \E i \in Ids : DelInbound(i)
    \/ \E i \in Ids : SetInboundEnable(i)
    \/ RestartXray
    \/ PanelStops

Spec == Init /\ [][Next]_vars

(* The restart job is a cron entry: a pending restart is not put off for   *)
(* ever.                                                                   *)
FairSpec == Spec /\ WF_vars(RestartXray)
-----------------------------------------------------------------------------
(* Properties                                                              *)

TypeOK ==
    /\ rows \in [Ids -> Drafts \cup {NoRow}]
    /\ on \subseteq Saved
    /\ running \subseteq [id : Ids, part : {"base", "tls-up", "reality-down"},
                          net : {"tcp", "udp", "unix"}, addr : Addrs \cup {NoAddr}, port : Nat]
    /\ up \in BOOLEAN
    /\ needRestart \in BOOLEAN
    /\ skipped \in BOOLEAN

(* Whatever the order of adds, edits and toggles, no two sockets of the    *)
(* saved rows, uplinks and claimed downlinks, enabled or not, exclude each *)
(* other on the host (checkManagedXHTTPPortConflictTx with upstream's      *)
(* check).                                                                 *)
NoSocketClaimedTwice ==
    /\ \A i \in Saved : \A s, t \in SocketsOf(rows[i]) : s # t => ~Clash(s, t)
    /\ \A i, j \in Saved : i # j =>
         \A s \in SocketsOf(rows[i]), t \in SocketsOf(rows[j]) : ~Clash(s, t)

(* With nothing pending and no restart refused, Xray listens on exactly    *)
(* what the enabled rows ask for: no listener of a former port or a former *)
(* gateway is left by the mix of hot calls and restarts                    *)
(* (managedXHTTPNeedsReconcile in every handler).                          *)
SettledIsWanted == (up /\ ~needRestart /\ ~skipped) => running = Wanted

(* A table of accepted rows fails to render only for what the save does    *)
(* not look at: a stream its struct cannot hold (v29:48-50), key material, *)
(* a port number of the template, or a listener of a saved row or the API  *)
(* that has the same port number and yet no conflict with the managed one, *)
(* because it is on another address or on UDP.  The last cause is one that *)
(* the project's README.md:504 rules out ("does not affect TCP and UDP     *)
(* legally sharing a port") and TestXHTTPManagedPortAllowsUDPCoexist       *)
(* accepts at the save: the generator refuses what both admit.             *)
SameNumber(i, s) == s.port = rows[i].mport /\ ~Clash(s, Downlink(rows[i]))

UdpTwin(i) == \E j \in on : Net(rows[j]) = "udp" /\ SameNumber(i, Uplink(rows[j]))
AddressTwin(i) ==
    \E s \in {Api} \cup UNION {SocketsOf(rows[j]) : j \in on} :
        s.net = "tcp" /\ SameNumber(i, s)

RefusalsAreNamed ==
    ~Renders => \E i \in Gateways :
        \/ ~rows[i].typed
        \/ ~rows[i].keys
        \/ \E t \in Template : t.port = rows[i].mport
        \/ AddressTwin(i)
        \/ UdpTwin(i)

(* An enabled row can be saved again as it is: its own listeners, open or  *)
(* half replaced, never count against it (the `owned` exception).          *)
UnchangedIsEditable == \A i \in on : Accepts(rows[i], i)

(* A save gives a gateway a socket another process holds in two ways only: *)
(* by moving an enabled row's listener to another address on the same      *)
(* port, the one change the probe is skipped for (against v29:103-104), or *)
(* by a stream that the check cannot decode and therefore lets pass.       *)
ClaimsForeign(i) ==
    rows[i] # NoRow /\ WantsGateway(rows[i])
        /\ \E f \in ForeignSockets : Clash(Downlink(rows[i]), f)
TakesForeign(i) == ~ClaimsForeign(i) /\ ClaimsForeign(i)'
WidensOwn(i) == i \in on /\ Claims(rows[i]) /\ rows[i].mport = rows'[i].mport
ForeignOnlyByWidening ==
    [][\A i \in Ids : TakesForeign(i) => WidensOwn(i) \/ ~rows'[i].typed]_vars

(* A listener no enabled row asks for any more is closed, unless a table   *)
(* that does not render stops the restarts from taking effect.             *)
Stale(i) == \E e \in running : e.id = i /\ e \notin Wanted
StaleListenersClose == \A i \in Ids : Stale(i) ~> (~Stale(i) \/ skipped)
=============================================================================
