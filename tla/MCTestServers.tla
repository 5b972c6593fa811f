---------------------------- MODULE MCTestServers ----------------------------
(* An instance of TestServers for TLC.                                     *)
EXTENDS TestServers

CONSTANTS c1, c2
=============================================================================
