---------------------------- MODULE MCDnsRecords ----------------------------
(* Instances of DnsRecords for TLC.                                        *)
EXTENDS DnsRecords

CONSTANTS www, app, ip1, ip2, daemon, shell
=============================================================================
