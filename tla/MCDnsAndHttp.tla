---------------------------- MODULE MCDnsAndHttp ----------------------------
(* An instance of DnsAndHttp for TLC: two names with records, three to ask  *)
(* for, a public and a private address.                                    *)
EXTENDS DnsAndHttp

CONSTANTS www, app, ip1, ip2, daemon, n1, n2, n3, v4, c1, c2, home, lan
=============================================================================
