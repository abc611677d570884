--------------------------- MODULE MCXhttpGateway ---------------------------
(* Two rows and the inbounds that meet on three ports: with a wildcard and *)
(* two addresses a managed port can clash, coexist or be widened.          *)
EXTENDS XhttpGateway

CONSTANTS any, lo, ip, noaddr

MCAddrs == {any, lo, ip}

Plain(kind, addr, port) ==
    [kind |-> kind, addr |-> addr, port |-> port, managed |-> FALSE, reality |-> FALSE,
     typed |-> TRUE, maddr |-> any, mport |-> 1, keys |-> FALSE]
Managed(addr, port, maddr, mport) ==
    [kind |-> "xhttp", addr |-> addr, port |-> port, managed |-> TRUE, reality |-> TRUE,
     typed |-> TRUE, maddr |-> maddr, mport |-> mport, keys |-> TRUE]

MCDrafts ==
    {Plain("xhttp", any, 1), Plain("tcp", any, 2), Plain("udp", any, 2), Plain("tcp", lo, 3),
     Managed(any, 1, any, 2), Managed(any, 1, ip, 3), Managed(any, 1, any, 3),
     Managed(any, 1, ip, 4), Managed(any, 4, any, 2), Managed(ip, 3, lo, 2),
     Managed(any, 1, any, 1),
     [Managed(any, 1, any, 2) EXCEPT !.keys = FALSE],
     [Managed(any, 1, any, 2) EXCEPT !.reality = FALSE],
     Managed(any, 1, ip, 5), Managed(any, 1, noaddr, 3), Managed(any, 1, any, 0),
     [Managed(any, 1, any, 3) EXCEPT !.typed = FALSE],
     [Managed(any, 1, any, 0) EXCEPT !.typed = FALSE],
     [Managed(any, 4, noaddr, 2) EXCEPT !.typed = FALSE]}

(* Another process listens on the loopback address of port 3.              *)
MCForeign == {[addr |-> lo, port |-> 3]}
(* The template has an inbound of its own on the loopback address.         *)
MCTemplate == {[addr |-> lo, port |-> 5]}
=============================================================================
