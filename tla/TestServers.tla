------------------------------ MODULE TestServers ------------------------------
(***************************************************************************)
(* The HTTP test server beside the DNS server: their steps interleave, and *)
(* they have no state in common (Appliance has who calls both; SshServer   *)
(* has a run of its own).                                                  *)
(***************************************************************************)
EXTENDS Integers

CONSTANTS Conns, HttpFaults, DnsFaults, HttpStarts, DnsStarts

VARIABLES
  httpPc, httpRunning, httpSrv, httpShut, httpPort, httpGoroutine, httpServedBy,
  httpRequest, httpCount,
  dnsPc, dnsRunning, dnsSrv, dnsListen, dnsErrCh, dnsQuery, dnsCount

httpVars == <<httpPc, httpRunning, httpSrv, httpShut, httpPort, httpGoroutine,
              httpServedBy, httpRequest, httpCount>>
dnsVars == <<dnsPc, dnsRunning, dnsSrv, dnsListen, dnsErrCh, dnsQuery, dnsCount>>
vars == <<httpVars, dnsVars>>

Http == INSTANCE HttpServer
  WITH Faults <- HttpFaults, MaxStarts <- HttpStarts,
       pc <- httpPc, running <- httpRunning, srv <- httpSrv, shut <- httpShut,
       port <- httpPort, goroutine <- httpGoroutine, servedBy <- httpServedBy,
       request <- httpRequest, starts <- httpCount

Dns == INSTANCE DnsServer
  WITH Faults <- DnsFaults, MaxStarts <- DnsStarts,
       pc <- dnsPc, running <- dnsRunning, srv <- dnsSrv, listen <- dnsListen,
       errCh <- dnsErrCh, query <- dnsQuery, starts <- dnsCount

ConstantsOK == Http!ConstantsOK /\ Dns!ConstantsOK

Init == Http!Init /\ Dns!Init

HttpNext ==  Http!Next /\ UNCHANGED <<dnsVars>>
DnsNext ==  Dns!Next /\ UNCHANGED <<httpVars>>

Next == HttpNext \/ DnsNext

Spec == Init /\ [][Next]_vars

\* Each server goes on by itself.
Fairness == Http!Fairness /\ Dns!Fairness

FairSpec == Spec /\ Fairness

-----------------------------------------------------------------------------
(* Properties                                                              *)

\* Whoever holds the HTTP port can be stopped: it is the server s.srv points to,
\* and that server serves it or is about to (provided goroutines run in time).
PortHasOwner == Http!PortHasOwner

\* A Start and a Stop of either server return, whatever the port, the requests and
\* the queries do, and with them the mutex that IsRunning, hence /api/status, waits
\* for.
CallsReturn == Http!CallsReturn /\ Dns!CallsReturn

\* Each server does what Service says of all three, however many Stops time out.
ServersAreServices == Http!ImplementsService /\ Dns!ImplementsService

-----------------------------------------------------------------------------
(* What a comment says and the code does not do                            *)

\* "IsRunning indica se o listener está ativo" (httpd/server.go:102).
IsRunningTrue == Http!IsRunningTrue
=============================================================================
