------------------------------ MODULE DnsAndHttp ------------------------------
(***************************************************************************)
(* What the DNS server and the HTTP test server consist of, in one place:  *)
(* the record store (the names of DnsRecords are those of this module),    *)
(* the handling of queries, the GeoIP cache of the inspector page, and the *)
(* lifecycles of both servers.                                             *)
(*                                                                         *)
(* None of the four shares state with another at this level: DnsQueries    *)
(* has maps of its own, which change as those of the store do.  Whatever   *)
(* interleaving of the four is taken, what it is to each is a behaviour of *)
(* that one, so they need not be interleaved: part says which of them runs *)
(* and the other three stay as they start, none of their fair actions      *)
(* being enabled there.                                                    *)
(***************************************************************************)
EXTENDS DnsRecords

CONSTANTS
  Clients, QueryNames, Ipv4s, Ipv6s, MaxDepth,            \* DnsQueries
  Visitors, Addresses, Local, NoEntry, TtlOk, TtlBad, MaxTime, \* GeoCache
  Conns, HttpFaults, DnsFaults, HttpStarts, DnsStarts     \* TestServers

VARIABLES
  part,
  A, CNAME, query,
  now, cache, lookup, answer, done,
  httpPc, httpRunning, httpSrv, httpShut, httpPort, httpGoroutine, httpServedBy,
  httpRequest, httpCount,
  dnsPc, dnsRunning, dnsSrv, dnsListen, dnsErrCh, dnsQuery, dnsCount

queryVars == <<A, CNAME, query>>
geoVars == <<now, cache, lookup, answer, done>>
serverVars ==
  <<httpPc, httpRunning, httpSrv, httpShut, httpPort, httpGoroutine, httpServedBy,
    httpRequest, httpCount, dnsPc, dnsRunning, dnsSrv, dnsListen, dnsErrCh, dnsQuery,
    dnsCount>>

Queries == INSTANCE DnsQueries WITH Names <- QueryNames

Geo == INSTANCE GeoCache WITH Conns <- Visitors, Ips <- Addresses

Servers == INSTANCE TestServers

ASSUME PartsAssumption == Queries!ConstantsOK /\ Geo!ConstantsOK /\ Servers!ConstantsOK

PartsInit ==
  /\ part \in {"records", "queries", "geo", "servers"}
  /\ Init
  /\ Queries!Init
  /\ Geo!Init
  /\ Servers!Init

RecordsNext ==
  part = "records" /\ Next /\ UNCHANGED <<part, queryVars, geoVars, serverVars>>
QueriesNext ==
  part = "queries" /\ Queries!Next /\ UNCHANGED <<part, vars, geoVars, serverVars>>
GeoNext ==
  part = "geo" /\ Geo!Next /\ UNCHANGED <<part, vars, queryVars, serverVars>>
ServersNext ==
  part = "servers" /\ Servers!Next /\ UNCHANGED <<part, vars, queryVars, geoVars>>

PartsNext == RecordsNext \/ QueriesNext \/ GeoNext \/ ServersNext

allVars == <<part, vars, queryVars, geoVars, serverVars>>

\* The fairness of each part.
PartsSpec == PartsInit /\ [][PartsNext]_allVars /\ Queries!Fairness /\ Servers!Fairness

-----------------------------------------------------------------------------
(* Properties of the parts, beside those of DnsRecords                     *)

\* A local answer is a path through the records of one moment (answerA, lookupA).
AnswerConsistent == Queries!AnswerConsistent

\* An A query goes upstream exactly when lookupA's walk finds no address.
ForwardedIffUnresolved == Queries!ForwardedIffUnresolved

\* Every query is answered: loops of CNAMEs end, and so does a silent upstream.
EveryQueryAnswered == Queries!EveryQueryAnswered

\* No answer of LookupGeo is older than the lifetime of its kind of entry.
AnswerRecent == Geo!AnswerRecent

\* The APIs are not asked about an address again within five minutes of an answer.
NoRefetch == Geo!NoRefetch

\* An address stays in the cache for its 24 hours unless lookups have overlapped.
HitKept == Geo!HitKept

\* Whoever holds the HTTP port is the server that s.srv points to.
PortHasOwner == Servers!PortHasOwner

\* A Start and a Stop of either server return, and give its mutex back.
CallsReturn == Servers!CallsReturn

\* Each of the two servers does what Service says of all three.
ServersAreServices == Servers!ServersAreServices
=============================================================================
