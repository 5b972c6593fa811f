----------------------------- MODULE MCSshServer -----------------------------
(* Instances of SshServer for TLC.                                         *)
EXTENDS SshServer

CONSTANTS c1, c2
=============================================================================
