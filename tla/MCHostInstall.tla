---------------------------- MODULE MCHostInstall ----------------------------
(* One host over two releases, the first of them sandboxed.                *)
EXTENDS HostInstall
=============================================================================
