------------------------------- MODULE GeoCache -------------------------------
(***************************************************************************)
(* The GeoIP cache of the inspector page (httpd/geoip.go): LookupGeo, run  *)
(* by one goroutine per request.  The cache is read under the read lock    *)
(* and written under the write lock, and the two APIs are asked in between *)
(* with no lock at all, so lookups of one address overlap.                 *)
(*                                                                         *)
(* Time is a counter of a unit in which 24 hours are TtlOk and 5 minutes   *)
(* TtlBad.  Two calls of at most 3 s each fit into a unit: a lookup sees   *)
(* the clock change at most once.                                          *)
(***************************************************************************)
EXTENDS Integers

CONSTANTS
  Conns,    \* requests that can be in progress at once
  Ips,      \* client addresses
  Local,    \* those that isPrivateIP recognises
  NoEntry,  \* no entry in the map; no time
  TtlOk,    \* geoTTLOK
  TtlBad,   \* geoTTLBad
  MaxTime   \* bound of the clock

\* GeoInfo: an address, a failure whose Error says why, or a failure whose Error is
\* empty; and when an API last said so.  And cacheEntry.
Kinds == {"found", "error", "silent"}
Info == [kind : Kinds, at : Nat]
Entry == [info : Info, fetched : Nat, ok : BOOLEAN]

ConstantsOK ==
  /\ NoEntry \notin Entry \cup Nat
  /\ Local \subseteq Ips
  /\ TtlBad \in Nat \ {0} /\ TtlOk \in Nat /\ TtlBad < TtlOk
  /\ MaxTime \in Nat

VARIABLES
  now,     \* the clock
  cache,   \* geoCache: address -> NoEntry, or a GeoInfo, when it was stored and
           \* as a hit or not
  lookup,  \* request -> its call of LookupGeo
  answer,  \* the last GeoInfo a request was given, and when (history)
  done     \* address -> when a lookup that asked the APIs last returned (history)

vars == <<now, cache, lookup, answer, done>>

\* What an API says (external): one of the three, or nothing that can be read (nil:
\* no connection, the time limit, no JSON).
Replies == Kinds \cup {"nil"}

Idle == [pc |-> "idle", began |-> 0]

Init ==
  /\ now = 0
  /\ cache = [ip \in Ips |-> NoEntry]
  /\ lookup = [c \in Conns |-> Idle]
  /\ answer = <<>>
  /\ done = [ip \in Ips |-> NoEntry]

-----------------------------------------------------------------------------
Ttl(ok) == IF ok THEN TtlOk ELSE TtlBad

\* Mutation of Fresh: every entry is kept for a day.
FreshForADay(entry) == entry # NoEntry /\ now - entry.fetched < TtlOk

\* Mutation of Fresh: every entry is kept for five minutes.
FreshBriefly(entry) == entry # NoEntry /\ now - entry.fetched < TtlBad

\* The entry answers a lookup.
Fresh(entry) == entry # NoEntry /\ now - entry.fetched < Ttl(entry.ok)

Return(c, info) ==
  /\ lookup' = [lookup EXCEPT ![c] = Idle]
  /\ answer' = <<info, now>>

\* A private address is answered without the cache or an API.
LookupLocal(c, ip) ==
  /\ lookup[c].pc = "idle"
  /\ ip \in Local
  /\ Return(c, [kind |-> "found", at |-> now])
  /\ UNCHANGED <<now, cache, done>>

LookupHit(c, ip) ==
  /\ lookup[c].pc = "idle"
  /\ ip \notin Local
  /\ Fresh(cache[ip])
  /\ Return(c, cache[ip].info)
  /\ UNCHANGED <<now, cache, done>>

LookupMiss(c, ip) ==
  /\ lookup[c].pc = "idle"
  /\ ip \notin Local
  /\ ~Fresh(cache[ip])
  /\ lookup' = [lookup EXCEPT ![c] =
                  [pc |-> "ip-api", ip |-> ip, began |-> now]]
  /\ UNCHANGED <<now, cache, answer, done>>

-----------------------------------------------------------------------------
(* The APIs, asked without a lock                                          *)

Heard(c, pc, kind) ==
  lookup' = [lookup EXCEPT ![c] =
               [pc |-> pc, ip |-> @.ip, began |-> @.began,
                info |-> [kind |-> kind, at |-> now]]]

\* Error == "" is all that LookupGeo asks of an answer, so a failure that came
\* without a message is taken for an address.
Taken(reply) == reply \in {"found", "silent"}

\* ip-api.com: what is taken is stored, anything else sends the lookup to ipwho.is.
fetchIPAPI(c) ==
  /\ lookup[c].pc = "ip-api"
  /\ \E reply \in Replies :
       IF Taken(reply) THEN Heard(c, "store", reply) ELSE Heard(c, "ipwho", "error")
  /\ UNCHANGED <<now, cache, answer, done>>

\* ipwho.is: what is taken replaces the error of ip-api.com, anything else does not.
fetchIPWho(c) ==
  /\ lookup[c].pc = "ipwho"
  /\ \E reply \in Replies : Heard(c, "store", IF Taken(reply) THEN reply ELSE "error")
  /\ UNCHANGED <<now, cache, answer, done>>

-----------------------------------------------------------------------------
\* Mutation of Store: a failure is not remembered.
StoreFound(c) ==
  /\ lookup[c].pc = "store"
  /\ LET info == lookup[c].info
     IN  /\ cache' = IF Taken(info.kind)
                     THEN [cache EXCEPT ![lookup[c].ip] =
                             [info |-> info, fetched |-> now, ok |-> TRUE]]
                     ELSE cache
         /\ Return(c, info)
  /\ done' = [done EXCEPT ![lookup[c].ip] = now]
  /\ UNCHANGED now

\* Whatever was heard is stored, over whatever was stored meanwhile.
Store(c) ==
  /\ lookup[c].pc = "store"
  /\ LET info == lookup[c].info
     IN  /\ cache' = [cache EXCEPT ![lookup[c].ip] =
                        [info |-> info, fetched |-> now, ok |-> Taken(info.kind)]]
         /\ Return(c, info)
  /\ done' = [done EXCEPT ![lookup[c].ip] = now]
  /\ UNCHANGED now

Tick ==
  /\ now < MaxTime
  /\ \A c \in Conns : lookup[c].pc # "idle" => lookup[c].began = now
  /\ now' = now + 1
  /\ UNCHANGED <<cache, lookup, answer, done>>

-----------------------------------------------------------------------------
\* The turn of a lookup that has missed the cache.
Proceed(c) == fetchIPAPI(c) \/ fetchIPWho(c) \/ Store(c)

Next ==
  \/ \E c \in Conns, ip \in Ips :
       LookupLocal(c, ip) \/ LookupHit(c, ip) \/ LookupMiss(c, ip)
  \/ \E c \in Conns : Proceed(c)
  \/ Tick

Spec == Init /\ [][Next]_vars

-----------------------------------------------------------------------------
(* Properties                                                              *)

Asks(c, ip) == lookup[c].pc # "idle" /\ lookup[c].ip = ip

\* No page shows an address that the APIs gave more than 24 hours ago, nor an error
\* more than five minutes old, whichever lookups overlapped on the way into the cache
\* (and up to the unit that a lookup may last).  A failure that gave no reason counts
\* with the addresses, as it does in the code: MissBrief below is what geoip.go says.
AnswerRecent ==
  answer # <<>> => answer[2] - answer[1].at < Ttl(Taken(answer[1].kind)) + 1

\* The APIs limit how often they may be asked (geoip.go:6): once a lookup of an
\* address has returned, no lookup of it asks again for five minutes, failed or not.
NoRefetch ==
  [][\A c \in Conns, ip \in Ips :
       Asks(c, ip)' /\ ~Asks(c, ip) /\ done[ip] # NoEntry => now - done[ip] >= TtlBad]_vars

\* An address in the cache stays for its 24 hours, unless a lookup that missed the
\* cache before it came in has overlapped: only so does a failure displace it.
HitKept ==
  [][\A ip \in Ips :
       /\ cache[ip] # NoEntry
       /\ cache[ip].info.kind = "found"
       /\ cache'[ip] # cache[ip]
       => \/ now - cache[ip].fetched >= TtlOk
          \/ \E c \in Conns : Asks(c, ip) /\ lookup[c].began <= cache[ip].fetched]_vars

-----------------------------------------------------------------------------
(* What a comment says and the code does not do                            *)

\* "Cache in-memory de 24h por IP (positivo) ou 5 min (erro/miss)" (geoip.go:4): no
\* page shows a failure more than five minutes old.
MissBrief ==
  answer # <<>> /\ answer[1].kind # "found" => answer[2] - answer[1].at < TtlBad + 1
=============================================================================
