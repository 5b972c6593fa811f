---------------------------- MODULE GeoCacheProofs ----------------------------
(***************************************************************************)
(* What the GeoIP cache guarantees for any number of requests, addresses   *)
(* and overlapping lookups, and any two lifetimes: how old an answer can   *)
(* be, how often the APIs are asked, and when an address is displaced.     *)
(***************************************************************************)
EXTENDS GeoCache, TLAPS

\* The shape of the state.
Shape ==
  /\ now \in Nat
  /\ cache \in [Ips -> Entry \cup {NoEntry}]
  /\ done \in [Ips -> Nat \cup {NoEntry}]
  /\ DOMAIN lookup = Conns
  /\ \A c \in Conns :
       /\ lookup[c].pc \in {"idle", "ip-api", "ipwho", "store"}
       /\ lookup[c].pc # "idle" => lookup[c].ip \in Ips /\ lookup[c].began \in Nat
       /\ lookup[c].pc \in {"ipwho", "store"} => lookup[c].info \in Info
  /\ answer # <<>> => answer[1] \in Info /\ answer[2] \in Nat

\* A lookup that has missed the cache lasts one unit at most; what it has heard, it
\* heard meanwhile.
LookupInv ==
  \A c \in Conns : lookup[c].pc # "idle" =>
    /\ lookup[c].began <= now /\ now <= lookup[c].began + 1
    /\ lookup[c].pc \in {"ipwho", "store"} =>
         lookup[c].began <= lookup[c].info.at /\ lookup[c].info.at <= now

\* An entry is what a lookup heard that lasted no longer, and is filed under what it
\* heard; the last lookup of an address to return has left its entry.
EntryInv ==
  \A ip \in Ips :
    /\ cache[ip] # NoEntry =>
         /\ cache[ip].fetched <= now
         /\ cache[ip].fetched <= cache[ip].info.at + 1
         /\ cache[ip].ok = Taken(cache[ip].info.kind)
    /\ done[ip] # NoEntry => cache[ip] # NoEntry /\ cache[ip].fetched = done[ip]

\* A lookup under way found no entry, or one that had outlived its time, or an entry
\* has been stored since.
MissInv ==
  \A c \in Conns, ip \in Ips :
    Asks(c, ip) /\ cache[ip] # NoEntry =>
      \/ lookup[c].began <= cache[ip].fetched
      \/ lookup[c].began - cache[ip].fetched >= Ttl(cache[ip].ok)

Inv == Shape /\ LookupInv /\ EntryInv /\ MissInv /\ AnswerRecent

\* Nothing has been looked up at the start.
LEMMA InvInit == Init => Inv
<1> SUFFICES ASSUME Init PROVE Inv
  OBVIOUS
<1>1. Shape
  BY DEF Init, Shape, Idle
<1>2. LookupInv /\ EntryInv /\ MissInv /\ AnswerRecent
  BY DEF Init, Idle, LookupInv, EntryInv, MissInv, Asks, AnswerRecent
<1> QED
  BY <1>1, <1>2 DEF Inv

\* The two lifetimes, as numbers.
LEMMA TtlNat ==
  ASSUME ConstantsOK
  PROVE  /\ TtlOk \in Nat /\ TtlBad \in Nat /\ 0 < TtlBad
         /\ \A ok \in BOOLEAN : Ttl(ok) \in Nat /\ TtlBad <= Ttl(ok)
  BY DEF ConstantsOK, Ttl

\* What an API says moves a lookup on and changes nothing else.
LEMMA HeardKeeps ==
  ASSUME Inv, NEW c \in Conns, NEW pc \in {"ipwho", "store"}, NEW kind \in Kinds,
         lookup[c].pc # "idle", Heard(c, pc, kind), UNCHANGED <<now, cache, answer, done>>
  PROVE  Inv'
<1>1. /\ DOMAIN lookup' = Conns
      /\ \A d \in Conns \ {c} : lookup'[d] = lookup[d]
      /\ lookup'[c].pc = pc /\ lookup'[c].ip = lookup[c].ip
      /\ lookup'[c].began = lookup[c].began
      /\ lookup'[c].info = [kind |-> kind, at |-> now]
  BY DEF Heard, Inv, Shape
<1>2. Shape'
  BY <1>1 DEF Inv, Shape, Info
<1>3. LookupInv'
  BY <1>1 DEF Inv, Shape, LookupInv
<1>4. EntryInv' /\ AnswerRecent'
  BY DEF Inv, EntryInv, AnswerRecent
<1>5. MissInv'
  BY <1>1 DEF Inv, MissInv, Asks
<1> QED
  BY <1>2, <1>3, <1>4, <1>5 DEF Inv

LEMMA InvStep ==
  ASSUME ConstantsOK
  PROVE  Inv /\ [Next]_vars => Inv'
<1> SUFFICES ASSUME Inv, [Next]_vars PROVE Inv'
  OBVIOUS
<1>1. ASSUME NEW c \in Conns, NEW ip \in Ips, LookupLocal(c, ip) PROVE Inv'
  <2>1. /\ lookup' = [lookup EXCEPT ![c] = Idle]
        /\ answer' = <<[kind |-> "found", at |-> now], now>>
        /\ UNCHANGED <<now, cache, done>>
    BY <1>1 DEF LookupLocal, Return
  <2>2. Shape'
    BY <2>1 DEF Inv, Shape, Idle, Info, Kinds
  <2>3. LookupInv' /\ EntryInv' /\ MissInv'
    BY <2>1 DEF Inv, Shape, LookupInv, EntryInv, MissInv, Asks, Idle
  <2>4. AnswerRecent'
    <3>1. /\ answer'[1].at = now /\ answer'[2] = now
          /\ Taken(answer'[1].kind) = TRUE
      BY <2>1 DEF Taken
    <3>2. now \in Nat /\ Ttl(TRUE) \in Nat
      BY TtlNat DEF Inv, Shape
    <3>3. now - now < Ttl(TRUE) + 1
      <4> DEFINE ttl == Ttl(TRUE)
      <4>1. ttl \in Nat
        BY <3>2
      <4> HIDE DEF ttl
      <4>2. now - now < ttl + 1
        BY <3>2, <4>1
      <4> QED
        BY <4>2 DEF ttl
    <3> QED
      BY <3>1, <3>3 DEF AnswerRecent
  <2> QED
    BY <2>2, <2>3, <2>4 DEF Inv
<1>2. ASSUME NEW c \in Conns, NEW ip \in Ips, LookupHit(c, ip) PROVE Inv'
  <2>1. /\ lookup' = [lookup EXCEPT ![c] = Idle]
        /\ answer' = <<cache[ip].info, now>>
        /\ UNCHANGED <<now, cache, done>>
        /\ cache[ip] # NoEntry /\ now - cache[ip].fetched < Ttl(cache[ip].ok)
    BY <1>2 DEF LookupHit, Return, Fresh
  <2>2. cache[ip] \in Entry
    BY <2>1 DEF Inv, Shape
  <2>3. Shape'
    BY <2>1, <2>2 DEF Inv, Shape, Idle, Entry
  <2>4. LookupInv' /\ EntryInv' /\ MissInv'
    BY <2>1 DEF Inv, Shape, LookupInv, EntryInv, MissInv, Asks, Idle
  <2>5. now - cache[ip].info.at < Ttl(Taken(cache[ip].info.kind)) + 1
    <3>1. /\ cache[ip].fetched <= cache[ip].info.at + 1
          /\ cache[ip].ok = Taken(cache[ip].info.kind)
      BY <2>1 DEF Inv, EntryInv
    <3>2. cache[ip].info.at \in Nat /\ cache[ip].fetched \in Nat /\ cache[ip].ok \in BOOLEAN
      BY <2>2 DEF Entry, Info
    <3> QED
      BY <2>1, <3>1, <3>2, TtlNat DEF Inv, Shape
  <2>6. AnswerRecent'
    BY <2>1, <2>5 DEF AnswerRecent
  <2> QED
    BY <2>3, <2>4, <2>6 DEF Inv
<1>3. ASSUME NEW c \in Conns, NEW ip \in Ips, LookupMiss(c, ip) PROVE Inv'
  <2>1. /\ DOMAIN lookup' = Conns
        /\ \A d \in Conns \ {c} : lookup'[d] = lookup[d]
        /\ lookup'[c] = [pc |-> "ip-api", ip |-> ip, began |-> now]
        /\ UNCHANGED <<now, cache, answer, done>>
        /\ ~Fresh(cache[ip])
    BY <1>3 DEF LookupMiss, Inv, Shape
  <2>2. Shape'
    BY <2>1 DEF Inv, Shape
  <2>3. LookupInv'
    BY <2>1 DEF Inv, Shape, LookupInv
  <2>4. EntryInv' /\ AnswerRecent'
    BY <2>1 DEF Inv, EntryInv, AnswerRecent
  <2>5. MissInv'
    <3>1. cache[ip] # NoEntry => now - cache[ip].fetched >= Ttl(cache[ip].ok)
      <4>1. ASSUME cache[ip] # NoEntry
            PROVE  now - cache[ip].fetched \in Int /\ Ttl(cache[ip].ok) \in Nat
        BY <4>1, TtlNat DEF Inv, Shape, Entry
      <4> QED
        BY <2>1, <4>1 DEF Fresh
    <3> QED
      BY <2>1, <3>1 DEF Inv, MissInv, Asks
  <2> QED
    BY <2>2, <2>3, <2>4, <2>5 DEF Inv
<1>4. ASSUME NEW c \in Conns, fetchIPAPI(c) PROVE Inv'
  BY <1>4, HeardKeeps DEF fetchIPAPI, Taken, Replies, Kinds
<1>5. ASSUME NEW c \in Conns, fetchIPWho(c) PROVE Inv'
  BY <1>5, HeardKeeps DEF fetchIPWho, Taken, Replies, Kinds
<1>6. ASSUME NEW c \in Conns, Store(c) PROVE Inv'
  <2> DEFINE info == lookup[c].info
             ip == lookup[c].ip
             entry == [info |-> info, fetched |-> now, ok |-> Taken(info.kind)]
  <2>1. ip \in Ips /\ info \in Info /\ now \in Nat /\ info.at \in Nat
        /\ Taken(info.kind) \in BOOLEAN /\ info.at <= now /\ now <= info.at + 1
    BY <1>6 DEF Store, Inv, Shape, LookupInv, Info, Taken
  <2>2. entry \in Entry /\ entry # NoEntry
    BY <2>1 DEF Entry, ConstantsOK
  <2>3. /\ cache' = [cache EXCEPT ![ip] = entry]
        /\ done' = [done EXCEPT ![ip] = now]
        /\ lookup' = [lookup EXCEPT ![c] = Idle]
        /\ answer' = <<info, now>>
        /\ now' = now
    BY <1>6 DEF Store, Return
  <2> HIDE DEF entry
  <2>4. /\ cache'[ip] = entry /\ done'[ip] = now
        /\ \A i \in Ips \ {ip} : cache'[i] = cache[i] /\ done'[i] = done[i]
        /\ lookup'[c].pc = "idle"
        /\ \A d \in Conns \ {c} : lookup'[d] = lookup[d]
    BY <2>1, <2>3 DEF Inv, Shape, Idle
  <2>5. Shape'
    BY <2>1, <2>2, <2>3, <2>4 DEF Inv, Shape
  <2>6. LookupInv'
    BY <2>3, <2>4 DEF Inv, LookupInv
  <2>7. EntryInv'
    BY <2>1, <2>2, <2>3, <2>4 DEF Inv, EntryInv, entry
  <2>8. MissInv'
    BY <2>1, <2>3, <2>4 DEF Inv, MissInv, LookupInv, Asks, entry
  <2>9. AnswerRecent'
    <3>1. now - info.at < Ttl(Taken(info.kind)) + 1
      <4>1. Ttl(Taken(info.kind)) \in Nat /\ TtlBad \in Nat /\ 0 < TtlBad /\ TtlBad <= Ttl(Taken(info.kind))
        BY <2>1, TtlNat
      <4> QED
        BY <2>1, <4>1
    <3> QED
      BY <2>3, <3>1 DEF AnswerRecent
  <2> QED
    BY <2>5, <2>6, <2>7, <2>8, <2>9 DEF Inv
<1>7. CASE Tick
  <2>1. /\ now' = now + 1 /\ now \in Nat
        /\ UNCHANGED <<cache, lookup, answer, done>>
        /\ \A c \in Conns : lookup[c].pc # "idle" => lookup[c].began = now
    BY <1>7 DEF Tick, Inv, Shape
  <2>2. Shape'
    BY <2>1 DEF Inv, Shape
  <2>3. LookupInv'
    BY <2>1 DEF Inv, Shape, LookupInv, Info
  <2>4. EntryInv'
    BY <2>1 DEF Inv, Shape, EntryInv, Entry
  <2>5. MissInv' /\ AnswerRecent'
    BY <2>1 DEF Inv, MissInv, Asks, AnswerRecent
  <2> QED
    BY <2>2, <2>3, <2>4, <2>5 DEF Inv
<1>8. CASE UNCHANGED vars
  <2>1. Shape' /\ LookupInv' /\ EntryInv'
    BY <1>8 DEF vars, Inv, Shape, LookupInv, EntryInv
  <2>2. MissInv' /\ AnswerRecent'
    BY <1>8 DEF vars, Inv, MissInv, Asks, AnswerRecent
  <2> QED
    BY <2>1, <2>2 DEF Inv
<1> QED
  BY <1>1, <1>2, <1>3, <1>4, <1>5, <1>6, <1>7, <1>8 DEF Next, Proceed

LEMMA Invariance ==
  ASSUME ConstantsOK
  PROVE  Spec => []Inv
  BY InvInit, InvStep, PTL DEF Spec

\* No page shows an address, or a failure without a reason, that an API gave more
\* than 24 hours ago, nor an error more than five minutes old (up to the unit a
\* lookup may last).
THEOREM AnswersRecent ==
  ASSUME ConstantsOK
  PROVE  Spec => []AnswerRecent
<1>1. Inv => AnswerRecent
  BY DEF Inv
<1> QED
  BY <1>1, Invariance, PTL

\* Once a lookup of an address has returned, no lookup asks the APIs about it again
\* for five minutes.
THEOREM ApisSpared ==
  ASSUME ConstantsOK
  PROVE  Spec => NoRefetch
<1>1. ASSUME Inv, [Next]_vars
      PROVE  [\A c \in Conns, ip \in Ips :
                Asks(c, ip)' /\ ~Asks(c, ip) /\ done[ip] # NoEntry
                  => now - done[ip] >= TtlBad]_vars
  <2> SUFFICES ASSUME NEW c \in Conns, NEW ip \in Ips, Next,
                      Asks(c, ip)', ~Asks(c, ip), done[ip] # NoEntry
               PROVE  now - done[ip] >= TtlBad
    BY <1>1
  <2>1. LookupMiss(c, ip)
    <3>1. ASSUME NEW d \in Conns, NEW i \in Ips, LookupLocal(d, i) \/ LookupHit(d, i)
          PROVE  FALSE
      BY <1>1, <3>1 DEF LookupLocal, LookupHit, Return, Idle, Asks, Inv, Shape
    <3>2. ASSUME NEW d \in Conns, fetchIPAPI(d) \/ fetchIPWho(d) PROVE FALSE
      BY <1>1, <3>2 DEF fetchIPAPI, fetchIPWho, Heard, Asks, Inv, Shape
    <3>3. ASSUME NEW d \in Conns, Store(d) PROVE FALSE
      BY <1>1, <3>3 DEF Store, Return, Idle, Asks, Inv, Shape
    <3>4. CASE Tick
      BY <3>4 DEF Tick, Asks
    <3>5. ASSUME NEW d \in Conns, NEW i \in Ips, LookupMiss(d, i), <<d, i>> # <<c, ip>>
          PROVE  FALSE
      BY <1>1, <3>5 DEF LookupMiss, Asks, Inv, Shape
    <3> QED
      BY <3>1, <3>2, <3>3, <3>4, <3>5 DEF Next, Proceed
  <2>2. /\ cache[ip] # NoEntry /\ cache[ip].fetched = done[ip]
        /\ cache[ip] \in Entry
    BY <1>1 DEF Inv, Shape, EntryInv
  <2>3. ~(now - cache[ip].fetched < Ttl(cache[ip].ok))
    BY <2>1, <2>2 DEF LookupMiss, Fresh
  <2> QED
    BY <1>1, <2>2, <2>3, TtlNat DEF Entry, Inv, Shape
<1> QED
  BY <1>1, Invariance, PTL DEF Spec, NoRefetch

\* A failure displaces an address of the cache only after its 24 hours, or as the
\* end of a lookup that began before the address came in.
THEOREM HitsKept ==
  ASSUME ConstantsOK
  PROVE  Spec => HitKept
<1>1. ASSUME Inv, [Next]_vars
      PROVE  [\A ip \in Ips :
                /\ cache[ip] # NoEntry
                /\ cache[ip].info.kind = "found"
                /\ cache'[ip] # cache[ip]
                => \/ now - cache[ip].fetched >= TtlOk
                   \/ \E c \in Conns : Asks(c, ip) /\ lookup[c].began <= cache[ip].fetched]_vars
  <2> SUFFICES ASSUME NEW ip \in Ips, Next, cache[ip] # NoEntry, cache[ip].info.kind = "found",
                      cache'[ip] # cache[ip]
               PROVE  \/ now - cache[ip].fetched >= TtlOk
                      \/ \E c \in Conns : Asks(c, ip) /\ lookup[c].began <= cache[ip].fetched
    BY <1>1
  <2>1. PICK c \in Conns : Store(c)
    BY DEF Next, Proceed, LookupLocal, LookupHit, LookupMiss, fetchIPAPI, fetchIPWho, Tick
  <2>2. Asks(c, ip)
    BY <1>1, <2>1 DEF Store, Asks, Inv, Shape
  <2>3. /\ cache[ip] \in Entry /\ cache[ip].ok = TRUE
        /\ lookup[c].began \in Nat /\ lookup[c].began <= now /\ now \in Nat
    BY <1>1, <2>2 DEF Inv, Shape, EntryInv, LookupInv, Asks, Entry, Info, Taken
  <2>4. \/ lookup[c].began <= cache[ip].fetched
        \/ lookup[c].began - cache[ip].fetched >= TtlOk
    BY <1>1, <2>2, <2>3 DEF Inv, MissInv, Ttl
  <2> QED
    BY <2>2, <2>3, <2>4, TtlNat DEF Entry
<1> QED
  BY <1>1, Invariance, PTL DEF Spec, HitKept
=============================================================================
