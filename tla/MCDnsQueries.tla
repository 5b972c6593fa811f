---------------------------- MODULE MCDnsQueries ----------------------------
(* Instances of DnsQueries for TLC.                                        *)
EXTENDS DnsQueries

CONSTANTS c1, c2, n1, n2, n3, v4, v6
=============================================================================
