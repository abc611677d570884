-------------------------- MODULE MCSingboxRuntime --------------------------
(* Instance of SingboxRuntime: two good renderings, and between them, for  *)
(* a build torn by an edit of both tables, one the check rejects and one   *)
(* the builder refuses.                                                    *)
EXTENDS SingboxRuntime, TLC

CONSTANTS rows1, rows2, clients1, clients2, c1, c2, cRejected

MCInboundRows == {rows1, rows2}
MCClientRows == {clients1, clients2}
MCConfigs == {c1, c2, cRejected}
MCValid == {c1, c2}
MCRender == (<<rows1, clients1>> :> c1) @@ (<<rows2, clients2>> :> c2)
    @@ (<<rows1, clients2>> :> cRejected) @@ (<<rows2, clients1>> :> BuildError)

AllFaults == FaultKinds
ErrorFaults == {"io", "rollback", "restart"}
OnlyCrash == {"crash"}
NoFaults == {}

MCSymmetry == Permutations(Procs)
=============================================================================
